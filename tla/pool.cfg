SPECIFICATION FairSpec
CONSTANTS
    hello = hello
    noText = noText
    reset = reset
    batch = batch
    single = single
    Payloads = {batch, single}
    Messages = {hello, noText, reset}
    Body <- MCBody
    Broken = {noText}
    Workers = {w1, w2}
    Depth = 2
    MaxPosts = 2
    Faults = {"body", "ack", "crash"}
    Nil = Nil
INVARIANTS TypeOK KeptInOrder StartedOncePerPost
PROPERTY AcceptedIsStarted

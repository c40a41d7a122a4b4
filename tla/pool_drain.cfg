SPECIFICATION Spec
CONSTANTS
    hello = hello
    noText = noText
    reset = reset
    batch = batch
    single = single
    Payloads = {batch, single}
    Messages = {hello, noText, reset}
    Body <- MCBody
    Broken = {noText}
    Workers = {w1, w2}
    Depth = 2
    MaxPosts = 2
    Faults = {}
    Nil = Nil
PROPERTY DrainedAtExit

SPECIFICATION FairSpec
CONSTANTS
    Phones = {alice}
    Workers = {w1, w2}
    Langs = {en, mr}
    pinA = pinA  pinB = pinB
    wardX = wardX  wardY = wardY
    repX = repX  repY = repY
    Pins = {pinA, pinB}
    Wards = {wardX, wardY}
    Reps = {repX, repY}
    RepPin <- MCRepPin
    RepWard <- MCRepWard
    LegacyWards = {wardX}
    Faults = {"roster"}
    Nil = Nil
INVARIANTS TypeOK EverySessionWatched ScreenMatchesSession
PROPERTY EveryMessageAnswered

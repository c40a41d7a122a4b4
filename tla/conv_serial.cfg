SPECIFICATION Spec
CONSTANTS
    Phones = {alice}
    Workers = {w1}
    Langs = {en, mr}
    pinA = pinA  pinB = pinB
    wardX = wardX  wardY = wardY
    repX = repX  repY = repY
    Pins = {pinA, pinB}
    Wards = {wardX, wardY}
    Reps = {repX, repY}
    RepPin <- MCTwoPinsRepPin
    RepWard <- MCRepWard
    LegacyWards = {wardX}
    Faults = {"redis", "db", "wa", "roster", "crash"}
    Nil = Nil

PROPERTIES RestartsFromLanguage FlowSpec

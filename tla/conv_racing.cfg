SPECIFICATION Spec
CONSTANTS
    Phones = {alice}
    Workers = {w1, w2}
    Langs = {en}
    pinA = pinA  pinB = pinB
    wardX = wardX  wardY = wardY
    repX = repX  repY = repY
    Pins = {pinA}
    Wards = {wardX, wardY}
    Reps = {repX}
    RepPin <- MCSoleRepPin
    RepWard <- MCSoleRepWard
    LegacyWards = {}
    Faults = {"redis", "db", "wa", "evict", "roster", "crash", "overlap"}
    Nil = Nil
SYMMETRY Symmetry
INVARIANTS SessionCoherent EveryChoiceWasOffered

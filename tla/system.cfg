SPECIFICATION SystemSpec
CONSTANTS
    Phones = {alice}
    Workers = {w1}
    Langs = {en}
    pinA = pinA
    wardX = wardX  wardY = wardY
    repX = repX
    Pins = {pinA}
    Wards = {wardX, wardY}
    Reps = {repX}
    RepPin <- MCSoleRepPin
    RepWard <- MCSoleRepWard
    LegacyWards = {wardX}
    Faults = {"db", "wa", "roster", "crash"}
    Timeout = 3
    TTL = 6
    ScanInterval = 1
    JobTime = 2
    Lag = 1
    Horizon = 6
    MonitorFaults = {"crash", "signal"}
    Nil = Nil
INVARIANT SystemTypeOK
PROPERTIES MonitorSpec FlowUnbroken

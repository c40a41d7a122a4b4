SPECIFICATION Spec
CONSTANTS
    Phones = {alice, bob}
    Timeout = 9
    TTL = 12
    ScanInterval = 1
    JobTime = 2
    Lag = 1
    Horizon = 13
    Faults = {"crash", "signal"}
    Nil = Nil
INVARIANTS FiresOnce FireMeansCleared
PROPERTY OnlyIdleCleared

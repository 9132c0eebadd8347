SPECIFICATION FairSpec
CONSTANTS
    Nas = {n}
    UniFi = {u}
    NoOne = NoOne
    MaxFlips = 2
INVARIANT TypeOK
PROPERTIES
    CapabilitiesRetained
    OfflineMeansMissed
    Stops
    OutageDetected
    RecoveryDetected

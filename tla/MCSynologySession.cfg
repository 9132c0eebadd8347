SPECIFICATION FairSpec
CONSTANTS
    a = a
    b = b
    Callers <- TwoCallers
    NoOne = NoOne
    MaxExpirations = 2
    MaxLostLogins = 1
    MaxResends <- OneRepeat
INVARIANTS
    TypeOK
    OneLoginPerExpiration
    StaleSessionHidden
PROPERTIES
    LiveSessionKept
    KeepsPromise
    CallsReturn

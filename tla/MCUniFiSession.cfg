SPECIFICATION FairSpec
CONSTANTS
    a = a
    b = b
    Callers <- TwoCallers
    NoOne = NoOne
    MaxExpirations = 2
    MaxLostLogins = 1
INVARIANTS
    TypeOK
    LoginsPaidFor
    StaleSessionHidden
PROPERTIES
    GetsReturn

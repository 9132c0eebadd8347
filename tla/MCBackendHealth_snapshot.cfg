SPECIFICATION FairSpec
CONSTANTS
    Nas = {n}
    UniFi = {}
    NoOne = NoOne
    MaxFlips = 1
PROPERTIES
    CapabilityRecovers

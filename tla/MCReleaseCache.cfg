SPECIFICATION FairSpec
CONSTANTS
    c1 = c1  c2 = c2  d1 = d1  d2 = d2  r1 = r1  k1 = k1  k2 = k2
    NoOne = NoOne  NoRepo = NoRepo
    Callers = {c1, c2}
    Devices = {d1, d2}
    Containers = {k1, k2}
    Host <- TwoHosts
    Source <- OneSource
    Repos = {r1}
    TTL = 1  MaxVersion = 2  MaxFaults = 1
INVARIANTS TypeOK OneRefreshPerExpiry AnswerNotOlder
PROPERTIES KeepsPromise RequestsReturn ReleaseSeen

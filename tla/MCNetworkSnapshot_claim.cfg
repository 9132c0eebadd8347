SPECIFICATION Spec
CONSTANTS
    u1 = u1  u2 = u2  d1 = d1  d2 = d2  d3 = d3  c1 = c1  c2 = c2
    NoDevice = NoDevice
    Controllers = {u1}
    Devices = {d1, d2}
    Clients = {c1}
    Site <- OneSite
    Uplink <- OneWiring
INVARIANT HistoryIsOfflineOnly

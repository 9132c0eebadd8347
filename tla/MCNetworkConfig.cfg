SPECIFICATION Spec
CONSTANTS
    lan = lan
    iot = iot
    guest = guest
    net = net
    gw = gw
    sw = sw
    ap = ap
    home = home
    away = away
    pc1 = pc1
    phone1 = phone1
    phone2 = phone2
    Networks = {lan, iot, guest, net}
    Untagged = {lan, net}
    Devices = {gw, sw, ap}
    Wlans = {home, away}
    Clients = {pc1, phone1, phone2}
    Purpose <- MCPurpose
    Tag <- MCTag
    Type <- MCType
    Ports <- MCPorts
    WanPorts <- MCWanPorts
    Broadcasts <- MCBroadcasts
    Essid <- MCEssid
    Place <- MCPlace
    Id <- MCId
    Rank <- MCRank
    Wirings <- MCWirings
    Layouts <- MCLayouts
    None = None
    MaxChanges = 2
INVARIANTS TypeOK LinksLead CablesHaveTwoEnds VlanFilterExact

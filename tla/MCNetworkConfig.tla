-------------------------- MODULE MCNetworkConfig --------------------------
(* A gateway, a switch and an access point; two corporate networks, a guest
   network and a WAN, the WAN with the name of a VLAN; a wired client and
   two wireless ones that share an ID.  The access point shares its port of
   the switch with the wired client in one cabling, and its port of the
   gateway with the switch in another. *)
EXTENDS NetworkConfig, TLC

CONSTANTS lan, iot, guest, net, gw, sw, ap, home, away, pc1, phone1, phone2

MCPurpose == lan :> "corporate" @@ iot :> "corporate" @@ guest :> "guest" @@ net :> "wan"
MCTag == lan :> 1 @@ iot :> 20 @@ guest :> 30 @@ net :> 1
MCType == gw :> "gateway" @@ sw :> "switch" @@ ap :> "ap"
MCPorts == gw :> {1, 9} @@ sw :> {1, 2} @@ ap :> {}
MCWanPorts == gw :> {9} @@ sw :> {} @@ ap :> {}
MCBroadcasts == gw :> {} @@ sw :> {} @@ ap :> {home}
MCEssid == home :> "home" @@ away :> "away"
MCPlace ==
    pc1 :> [wired |-> TRUE, at |-> sw, port |-> 2, essid |-> "none"]
    @@ phone1 :> [wired |-> FALSE, at |-> ap, port |-> 0, essid |-> "home"]
    @@ phone2 :> [wired |-> FALSE, at |-> ap, port |-> 0, essid |-> "away"]
MCId ==
    lan :> 1 @@ iot :> 2 @@ guest :> 3 @@ net :> 3 @@ gw :> 1 @@ sw :> 2 @@ ap :> 3
    @@ home :> 1 @@ away :> 2 @@ pc1 :> 1 @@ phone1 :> 2 @@ phone2 :> 2
MCRank ==
    lan :> 1 @@ iot :> 2 @@ guest :> 3 @@ net :> 4 @@ gw :> 5 @@ sw :> 6 @@ ap :> 7
    @@ home :> 8 @@ away :> 9 @@ pc1 :> 10 @@ phone1 :> 11 @@ phone2 :> 12

Up(d, r, p) == [to |-> d, remote |-> r, port |-> p]
Wired(s, a) == gw :> Up(None, 0, 0) @@ sw :> s @@ ap :> a
MCWirings ==
    {Wired(Up(gw, 1, 1), Up(sw, 2, 1)), Wired(Up(gw, 1, 1), Up(gw, 1, 0)),
     Wired(Up(gw, 9, 2), Up(sw, 0, 1)), Wired(Up(None, 0, 0), Up(sw, 2, 0))}

Set(f, n, x) == [forward |-> f, native |-> n, excluded |-> x]
MCLayouts ==
    {[x \in AllPorts |-> IF x = <<sw, 2>> THEN s ELSE Set("all", None, {})] :
        s \in {Set("native", iot, {}), Set("customize", None, {iot}), Set("customize", iot, {}),
               Set("customize", None, {guest, lan}), Set("native", guest, {}), Set("disable", None, {})}}
=============================================================================

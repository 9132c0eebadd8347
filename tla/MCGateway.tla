----------------------------- MODULE MCGateway -----------------------------
(* Two NAS, one with nothing but volumes, with a container whose name has a dot and a
   '%', and three images: one under two repositories, and another whose digest
   begins with the same digit; and, for MCGateway_dots, a NAS whose name is a
   host name. *)
EXTENDS Gateway, TLC

CONSTANTS web, image, retag, other, network, volume, task

MCNas == {<<"nas">>, <<"box">>}
MCCapabilities == <<"nas">> :> {"docker", "backup"} @@ <<"box">> :> {}
MCHome == [x \in Things |-> IF x = volume THEN <<"box">> ELSE <<"nas">>]
MCKind ==
    [x \in Things |-> CASE x = web -> "container" [] x \in {image, retag, other} -> "image"
                        [] x = network -> "network"
                        [] x = volume -> "volume" [] x = task -> "task"]
MCName ==
    [x \in Things |-> CASE x = web -> <<"web", "50%">> [] x \in {image, retag} -> <<"9b3f71">>
                        [] x = other -> <<"94c0aa">> [] OTHER -> <<"one">>]
\* Three digits stand for twelve.
MCShort == "9b3f71" :> "9b3" @@ "94c0aa" :> "94c"
MCBegins == "9b3f71" :> {"9", "9b3", "9b3f71"} @@ "94c0aa" :> {"9", "94c", "94c0aa"}

MCDotted == {<<"nas", "lan">>}
MCDottedCapabilities == <<"nas", "lan">> :> {"docker", "backup"}
MCDottedHome == [x \in Things |-> <<"nas", "lan">>]

MCRequired ==
    [o \in Operations |-> CASE o = "operate" -> {"read", "write"} [] o = "network" -> {}
                            [] OTHER -> {"read"}]

Token == [bearer |-> TRUE, signed |-> TRUE, expiry |-> "future", issuer |-> TRUE,
          audience |-> TRUE, scopes |-> {"read"}]
MCCredentials ==
    {Token, [Token EXCEPT !.scopes = {"read", "write"}], [Token EXCEPT !.bearer = FALSE],
     [Token EXCEPT !.signed = FALSE], [Token EXCEPT !.expiry = "past"],
     [Token EXCEPT !.audience = FALSE]}

Set(e, s, a) == [enabled |-> e, scopesEnabled |-> s, audience |-> a]
MCConfigurations == {Set(FALSE, FALSE, FALSE), Set(TRUE, FALSE, FALSE), Set(TRUE, TRUE, TRUE)}
=============================================================================

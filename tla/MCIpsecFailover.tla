--------------------------- MODULE MCIpsecFailover ---------------------------
(***************************************************************************)
(* Two WANs that may lose and regain their address, and two tunnels whose  *)
(* policies first prefer different WANs and whose gateways do not match    *)
(* each other; one is configured with a local gateway.                     *)
(***************************************************************************)
EXTENDS IpsecFailover

Wans           == {"wan1", "wan2"}
WanAddresses   == [w \in Wans |-> IF w = "wan1" THEN {"a1"} ELSE {"a2"}]
TwoTunnels     == <<"east", "west">>
MatchesItself  == [v \in {"east", "west"} |-> {v}]
EastOnWan1     == [v \in {"east", "west"} |-> IF v = "east" THEN "a1" ELSE Any]
FirstPolicies  == [v \in {"east", "west"} |-> IF v = "east" THEN "wan1" ELSE "wan2"]
=============================================================================

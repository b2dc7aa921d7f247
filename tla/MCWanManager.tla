---------------------------- MODULE MCWanManager ----------------------------
(* Small instances of wan-manager: two WANs, and policies that between     *)
(* them use every criterion and every kind of policy.                      *)
EXTENDS WanManager

MCWan == {1, 2}
MCRank == [w \in MCWan |-> w]

Up(p, w, f)     == [op |-> "up", policy |-> p, wan |-> w, family |-> f]
Always(p, w, f) == [op |-> "always_up", policy |-> p, wan |-> w, family |-> f]
Attribute(p, w, f, s) ==
  [op |-> "attribute", policy |-> p, wan |-> w, family |-> f, key |-> "type", status |-> s]
Metric(p, w, f, s, c, v) ==
  [op |-> "metric", policy |-> p, wan |-> w, family |-> f, stat |-> s, cmp |-> c, val |-> v]
Connectivity(p, w, f, t, n) ==
  [op |-> "connectivity", policy |-> p, wan |-> w, family |-> f, test |-> t, threshold |-> n]
Specific(p, w)   == [op |-> "specific_wan", policy |-> p, wan |-> w]
BestOf(p, s, c)  == [op |-> "best_of", policy |-> p, stat |-> s, cmp |-> c]
Balancing(p, a)  == [op |-> "balance", policy |-> p, algorithm |-> a]

(* One interface of the statistics file.                                   *)
Intf(off, off6, lat, bw) ==
  [offline |-> off, offline6 |-> off6,
   value |-> [latency |-> lat, available_bandwidth |-> bw]]

NoStats == [w \in {} |-> 0]
Both(a, b) == <<a, b>>

Online(lat)  == Intf(FALSE, FALSE, lat, lat)
Lost         == Intf(TRUE, TRUE, 0, 0)

FewStats  == {NoStats, Both(Online(1), Online(2)), Both(Online(2), Online(2)), Both(Lost, Online(2))}
BalanceStats == {NoStats, Both(Online(1), Online(2)), Both(Lost, Intf(TRUE, FALSE, 3, 0))}
AnyNet    == {MCWan \X Family, {<<1, "ipv6">>, <<2, "ipv4">>}}
LiveStats == {NoStats, Both(Intf(FALSE, FALSE, 1, 0), Online(2)), Both(Online(2), Online(2)), Both(Lost, Online(2))}
FixedNet  == {MCWan \X Family}
AllAnswer == {MCWan}
LostHost  == {MCWan, {2}}

(* Selection: a best_of policy over both WANs and a policy for one WAN.    *)
SelectPolicy == {"best", "one"}
SelectConfig ==
  << Up("best", 1, "ipv4"), Up("best", 1, "ipv6"), Metric("best", 1, "ipv4", "latency", "lt", 3),
     Up("best", 2, "ipv4"), BestOf("best", "latency", "le"),
     Connectivity("one", 1, "ipv4", "ping", 2), Always("one", 1, "ipv6"), Attribute("one", 1, "ipv6", "down"),
     Specific("one", 1) >>

(* Balancing by settings over two WANs, one of them with weight 0, and by  *)
(* latency over two.                                                       *)
BalancePolicy == {"weighted", "latency"}
BalanceConfig ==
  << Up("weighted", 1, "ipv4"), Always("weighted", 2, "ipv4"), Balancing("weighted", "WEIGHTED"),
     Up("latency", 1, "ipv4"), Always("latency", 2, "ipv4"), Balancing("latency", "LATENCY") >>

(* One of each kind, for the liveness properties.                          *)
LivePolicy == {"best", "one", "avail"}
LiveConfig ==
  << Up("best", 1, "ipv4"), Up("best", 2, "ipv4"), BestOf("best", "latency", "le"),
     Connectivity("one", 1, "ipv4", "dns", 2), Specific("one", 1),
     Up("avail", 1, "ipv4"), Up("avail", 2, "ipv4"), Balancing("avail", "AVAILABLE_BANDWIDTH") >>

MCWeight       == [p \in Policy |-> [w \in MCWan |-> w]]
BalanceWeights == [p \in Policy |-> [w \in MCWan |-> 2 - w]]
=============================================================================

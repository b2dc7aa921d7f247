---------------------------- MODULE IpsecFailover ----------------------------
(***************************************************************************)
(* Failover of IPsec tunnels: wan-manager's policy_best_of_ipsec_vpn moves *)
(* a tunnel to the address of its policy's best WAN.  It stops ipsec,      *)
(* changes the tunnel's device, replaces /var/ipsec/ipsec.conf by an       *)
(* edited copy and starts ipsec again.                                     *)
(*                                                                         *)
(* The service script override.ipsec.init, run when an interface or the    *)
(* settings change, writes the same file anew, connection by connection.   *)
(* Nothing orders the two.                                                 *)
(***************************************************************************)
EXTENDS Integers, Sequences, FiniteSets

CONSTANTS
  Wan,          \* the WANs
  Addresses,    \* addresses a WAN may be given
  Tunnels,      \* the tunnels, in the order of their calls and connections
  Roving,       \* tunnels whose remote gateway is %any or missing
  LocalGateway, \* configured local gateway of a tunnel, Any if there is none
  Matches,      \* tunnels whose gateway a tunnel's gateway matches as a pattern
  FirstBest,    \* best WAN of a tunnel's policy at first
  MaxEvents     \* bound: changes and failures around the daemon and the script

Tunnel == {Tunnels[i] : i \in DOMAIN Tunnels}

None   == "none"    \* no address, no WAN
Any    == "%any"    \* left side that leaves the address to the kernel
Absent == "absent"  \* no such connection in the file
Addr   == UNION {Addresses[w] : w \in Wan} \cup ({LocalGateway[v] : v \in Tunnel} \ {Any})
Left   == Addr \cup {None, Any}

ASSUME TunnelsAssumption ==
  /\ Tunnels \in Seq(Tunnel) /\ Tunnels # << >>
  /\ \A i, j \in DOMAIN Tunnels : Tunnels[i] = Tunnels[j] => i = j
  /\ Roving \subseteq Tunnel
  /\ Matches \in [Tunnel -> SUBSET Tunnel] /\ \A v \in Tunnel : v \in Matches[v]
ASSUME AddressesAssumption ==
  /\ DOMAIN Addresses = Wan /\ None \notin Wan
  /\ \A w \in Wan : Addresses[w] # {}
  /\ LocalGateway \in [Tunnel -> Addr \cup {Any}]
  /\ Addr \cap {None, Any, Absent} = {}
  /\ FirstBest \in [Tunnel -> Wan \cup {None}]
  /\ MaxEvents \in Nat

VARIABLES
  addr,    \* address netifd has for a WAN
  answers, \* tunnels charon can bring up: routed ones, others if their remote answers
  best,    \* current_best_wan of a tunnel's policy, None unless its status is up
  conf,    \* left side of a tunnel's connection in ipsec.conf
  up,      \* does ipsec run?
  loaded,  \* left side ipsec has loaded
  xfrm,    \* source address of a tunnel's policies in the kernel
  vti,     \* local address of a tunnel's device
  svc,     \* next connection the script writes, 0 when it does not run
  ran,     \* did ipsec run when the script looked?
  pc, cur, \* step of the daemon, and position in Tunnels
  ip,      \* address the daemon moves the tunnel to
  copy,    \* the edited copy
  seen,    \* the daemon's cache of addr
  allow,   \* ALLOW_LOG_UPDATE
  elapsed, \* will the interval have passed when the round ends?
  moved,   \* history: tunnels whose device was moved, and not yet the left side
  events

network == <<addr, answers, best>>
ipsec   == <<conf, up, loaded, xfrm, vti>>
script  == <<svc, ran>>
daemon  == <<pc, cur, ip, copy, seen, allow, elapsed, moved>>
vars    == <<network, ipsec, script, daemon, events>>

Here    == Tunnels[cur]
Missing == [v \in Tunnel |-> Absent]
Nothing == [v \in Tunnel |-> None]

(* Ipsec starts from file c, without any policy installed.                 *)
Starts(c) == up' = TRUE /\ loaded' = c /\ xfrm' = Nothing

(* charon installs a connection's policies, from the connection's address  *)
(* or from one the kernel chooses.                                         *)
Sources(left) ==
  {a \in {addr[w] : w \in Wan} \ {None} : left \in {a, Any, None}}

Installable(v) == up /\ v \in answers /\ xfrm[v] = None /\ Sources(loaded[v]) # {}

Installed == up /\ \A v \in Tunnel : ~ Installable(v)

-----------------------------------------------------------------------------
(* The daemon.  A round begins with criteria that flush the address cache; *)
(* check_allow_log_update ends it.  Its interval, a minute, passes mostly  *)
(* between rounds, and is long enough for charon.                          *)
Round ==
  /\ pc = "idle"
  /\ pc' = "look" /\ cur' = 1 /\ seen' = addr
  /\ elapsed' \in {FALSE, Installed}
  /\ UNCHANGED <<network, ipsec, script, ip, copy, allow, moved, events>>

NextTunnelOver ==  \* mutant: off by one
  IF cur <= Len(Tunnels)
  THEN pc' = "look" /\ cur' = cur + 1 /\ UNCHANGED <<allow, elapsed>>
  ELSE pc' = "idle" /\ cur' = 1 /\ allow' = elapsed /\ elapsed' = FALSE
NextTunnel ==
  IF cur < Len(Tunnels)
  THEN pc' = "look" /\ cur' = cur + 1 /\ UNCHANGED <<allow, elapsed>>
  ELSE pc' = "idle" /\ cur' = 1 /\ allow' = elapsed /\ elapsed' = FALSE

BestAddress == IF best[Here] = None THEN None ELSE seen[best[Here]]

(* ip xfrm policy | grep "dst $remoteGateway" | head -1; a selector's line *)
(* is taken for none.                                                      *)
CurrentLeft(v) ==
  LET found == {xfrm[u] : u \in Matches[v]} \ {None}
  IN  IF found = {} THEN {None} ELSE found

StaysPutAlways(left) == left = None  \* mutant: never gives up waiting
StaysPut(left) == left = None /\ ~ allow

Look ==
  /\ pc = "look"
  /\ \/ /\ Here \in Roving \/ best[Here] = None
        /\ NextTunnel
        /\ UNCHANGED ip
     \/ /\ Here \notin Roving /\ best[Here] # None
        /\ \E left \in CurrentLeft(Here) :
             IF StaysPut(left) \/ left = BestAddress
             THEN NextTunnel /\ UNCHANGED ip
             ELSE pc' = "stop" /\ ip' = BestAddress /\ UNCHANGED <<cur, allow, elapsed>>
  /\ UNCHANGED <<network, ipsec, script, copy, seen, moved, events>>

(* ipsec stop; ip xfrm state flush; ip tunnel change, which fails without  *)
(* an address.                                                             *)
TakeDown ==
  /\ pc = "stop"
  /\ up' = FALSE /\ loaded' = Missing /\ xfrm' = Nothing
  /\ IF ip = None
     THEN UNCHANGED <<vti, moved>>
     ELSE vti' = [vti EXCEPT ![Here] = ip] /\ moved' = moved \cup {Here}
  /\ pc' = "copy"
  /\ UNCHANGED <<network, conf, script, cur, ip, copy, seen, allow, elapsed, events>>

(* awk writes a copy of the file in which every connection whose right     *)
(* side matches has the new left side.                                     *)
EditedAll(c) ==  \* mutant: the left side of every connection
  [u \in Tunnel |-> IF c[u] # Absent THEN ip ELSE c[u]]
Edited(c) ==
  [u \in Tunnel |-> IF u \in Matches[Here] /\ c[u] # Absent THEN ip ELSE c[u]]

CopyConf ==
  /\ pc = "copy"
  /\ copy' = Edited(conf)
  /\ pc' = "move"
  /\ UNCHANGED <<network, ipsec, script, cur, ip, seen, allow, elapsed, moved, events>>

MoveConf ==
  /\ pc = "move"
  /\ conf' = copy /\ copy' = Missing
  /\ moved' = moved \ {Here}
  /\ pc' = "restart"
  /\ UNCHANGED <<network, up, loaded, xfrm, vti, script, cur, ip, seen, allow, elapsed, events>>

Restart ==
  /\ pc = "restart"
  /\ Starts(conf)
  /\ NextTunnel
  /\ ip' = None
  /\ UNCHANGED <<network, conf, vti, script, copy, seen, moved, events>>

-----------------------------------------------------------------------------
(* The service script: prepare_env writes the connections one by one, with *)
(* their configured local gateway; reload_service then has a running ipsec *)
(* read them, or procd start one.                                          *)
AppendConn ==
  /\ svc \in DOMAIN Tunnels
  /\ conf' = [conf EXCEPT ![Tunnels[svc]] = LocalGateway[Tunnels[svc]]]
  /\ svc' = svc + 1
  /\ UNCHANGED <<network, up, loaded, xfrm, vti, ran, daemon, events>>

(* A reload keeps what is established, and may install changed connections *)
(* anew.                                                                   *)
Reread ==
  /\ up /\ ran
  /\ loaded' = conf
  /\ \E anew \in SUBSET {v \in Tunnel : loaded[v] # conf[v]} :
       xfrm' = [v \in Tunnel |-> IF v \in anew THEN None ELSE xfrm[v]]
  /\ UNCHANGED up

Written ==
  /\ svc = Len(Tunnels) + 1
  /\ \/ Reread
     \/ ~ up /\ ~ ran /\ Starts(conf)
     \/ up # ran /\ UNCHANGED <<up, loaded, xfrm>>
  /\ svc' = 0 /\ ran' = FALSE
  /\ UNCHANGED <<network, conf, vti, daemon, events>>

(* procd starts an ipsec again that has ended, a stopped one included.     *)
Respawn ==
  /\ ~ up
  /\ Starts(conf)
  /\ UNCHANGED <<network, conf, vti, script, daemon, events>>

Establish(v) ==
  /\ Installable(v)
  /\ \E a \in Sources(loaded[v]) : xfrm' = [xfrm EXCEPT ![v] = a]
  /\ UNCHANGED <<network, conf, up, loaded, vti, script, daemon, events>>

-----------------------------------------------------------------------------
(* What happens around them.                                               *)
Event == events < MaxEvents /\ events' = events + 1

AddressChanges ==
  /\ Event
  /\ \E w \in Wan : \E a \in (Addresses[w] \cup {None}) \ {addr[w]} :
       addr' = [addr EXCEPT ![w] = a]
  /\ UNCHANGED <<answers, best, ipsec, script, daemon>>

(* A remote that stops answering may have charon give its tunnel up.       *)
RemoteFails ==
  /\ Event
  /\ \E v \in answers :
       /\ answers' = answers \ {v}
       /\ \E left \in {xfrm[v], None} : xfrm' = [xfrm EXCEPT ![v] = left]
  /\ UNCHANGED <<addr, best, conf, up, loaded, vti, script, daemon>>

RemoteReturns ==
  /\ Event
  /\ \E v \in Tunnel \ answers : answers' = answers \cup {v}
  /\ UNCHANGED <<addr, best, ipsec, script, daemon>>

(* The policy's own call, policy_best_of, decides anew.                    *)
PolicyDecides ==
  /\ Event
  /\ pc = "idle"
  /\ \E v \in Tunnel : \E w \in (Wan \cup {None}) \ {best[v]} :
       best' = [best EXCEPT ![v] = w]
  /\ UNCHANGED <<addr, answers, ipsec, script, daemon>>

(* procd runs the script: the file is emptied first.                       *)
Reload ==
  /\ Event
  /\ svc = 0
  /\ svc' = 1 /\ ran' = up
  /\ conf' = Missing
  /\ UNCHANGED <<network, up, loaded, xfrm, vti, daemon>>

(* The copy cannot be written: && leaves the file as it was.               *)
CopyFails ==
  /\ Event
  /\ pc = "copy"
  /\ pc' = "restart"
  /\ UNCHANGED <<network, ipsec, script, cur, ip, copy, seen, allow, elapsed, moved>>

(* The daemon is stopped at any step, and started anew.                    *)
DaemonRestarts ==
  /\ Event
  /\ pc' = "idle" /\ cur' = 1 /\ ip' = None /\ copy' = Missing
  /\ seen' = addr /\ allow' = TRUE /\ elapsed' = FALSE
  /\ UNCHANGED <<network, ipsec, script, moved>>

-----------------------------------------------------------------------------
Init ==
  /\ addr = [w \in Wan |-> CHOOSE a \in Addresses[w] : TRUE]
  /\ answers = Tunnel
  /\ best = FirstBest
  /\ conf = LocalGateway /\ loaded = conf /\ up = TRUE
  /\ xfrm = Nothing /\ vti = Nothing
  /\ svc = 0 /\ ran = FALSE
  /\ pc = "idle" /\ cur = 1 /\ ip = None /\ copy = Missing
  /\ seen = addr /\ allow = TRUE /\ elapsed = FALSE
  /\ moved = {} /\ events = 0

DaemonStep ==
  \/ Round \/ Look \/ TakeDown
  \/ CopyConf \/ MoveConf \/ Restart

ScriptStep == AppendConn \/ Written

Disturbance ==
  \/ AddressChanges \/ RemoteFails \/ RemoteReturns \/ PolicyDecides
  \/ Reload \/ CopyFails \/ DaemonRestarts

Next ==
  \/ DaemonStep
  \/ ScriptStep \/ Respawn
  \/ \E v \in Tunnel : Establish(v)
  \/ Disturbance

Spec == Init /\ [][Next]_vars
FairSpec ==
  /\ Spec
  /\ WF_vars(DaemonStep) /\ SF_vars(Round /\ elapsed')
  /\ WF_vars(ScriptStep) /\ WF_vars(Respawn)
  /\ \A v \in Tunnel : SF_vars(Establish(v))

-----------------------------------------------------------------------------
(* Every variable has its type.                                            *)
NetworkOK ==
  /\ addr \in [Wan -> Addr \cup {None}]
  /\ answers \subseteq Tunnel
  /\ best \in [Tunnel -> Wan \cup {None}]
  /\ events \in 0 .. MaxEvents

IpsecOK ==
  /\ conf \in [Tunnel -> Left \cup {Absent}]
  /\ loaded \in [Tunnel -> Left \cup {Absent}]
  /\ xfrm \in [Tunnel -> Addr \cup {None}]
  /\ vti \in [Tunnel -> Addr \cup {None}]
  /\ up \in BOOLEAN /\ (~ up => loaded = Missing /\ xfrm = Nothing)

ScriptOK == svc \in 0 .. Len(Tunnels) + 1 /\ ran \in BOOLEAN

DaemonOK ==
  /\ pc \in {"idle", "look", "stop", "copy", "move", "restart"}
  /\ cur \in DOMAIN Tunnels /\ (pc = "idle" => cur = 1)
  /\ ip \in Addr \cup {None}
  /\ copy \in [Tunnel -> Left \cup {Absent}]
  /\ seen \in [Wan -> Addr \cup {None}]
  /\ allow \in BOOLEAN /\ elapsed \in BOOLEAN
  /\ moved \subseteq Tunnel

TypeOK == NetworkOK /\ IpsecOK /\ ScriptOK /\ DaemonOK

(* A connection that names a local address names the one that is           *)
(* configured for the tunnel or that of the tunnel's device: whatever the  *)
(* script, procd and a dying daemon do to the file, an edit for one tunnel *)
(* never moves the connection of another, and no address the tunnel has    *)
(* left comes back, except the configured one.  (config_conn; ip tunnel    *)
(* change, awk and mv; a daemon that dies between them leaves the tunnel   *)
(* it was moving apart.)                                                   *)
DeviceMatchesConf ==
  \A v \in Tunnel \ moved : conf[v] \in Addr => conf[v] \in {vti[v], LocalGateway[v]}

(* A tunnel ends up on its policy's best WAN once that WAN keeps its       *)
(* address, its remote answers and its connection is in the file: again    *)
(* and again although tunnels whose remote is dead have ipsec restarted    *)
(* every minute, and for good when all tunnels can come up.  (The          *)
(* comparison of addresses that decides on an edit, and the wait for       *)
(* ALLOW_LOG_UPDATE.  A policy that is up on a WAN without an address has  *)
(* every round restart ipsec: Steady leaves that out.)                     *)
Ready(v) ==
  /\ v \in answers \ Roving /\ conf[v] # Absent
  /\ best[v] # None /\ addr[best[v]] # None
Steady    == \A v \in Tunnel \ Roving : best[v] # None => addr[best[v]] # None
OnBest(v) == xfrm[v] = addr[best[v]]

FollowsBestWan ==
  /\ \A v \in Tunnel : <>[](Ready(v) /\ Steady) => []<>(Ready(v) /\ OnBest(v))
  /\ <>[](\A v \in Tunnel : Ready(v)) => <>[](\A v \in Tunnel : Ready(v) /\ OnBest(v))

(* "Looking for our remote gateway, modify the left side": the edit leaves  *)
(* every other connection that is in the file as it is.  (mv puts a copy   *)
(* in place that awk made earlier, whatever was appended since.)           *)
EditsOurLeft ==
  [][pc = "move" /\ pc' = "restart" =>
       \A v \in Tunnel \ {Here} : conf[v] # Absent => conf'[v] = conf[v]]_vars
=============================================================================

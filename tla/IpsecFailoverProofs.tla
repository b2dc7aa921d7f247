------------------------- MODULE IpsecFailoverProofs -------------------------
(* Theorems about the failover of IPsec tunnels for any WANs, addresses    *)
(* and tunnels and any number of changes and failures around it.           *)
EXTENDS IpsecFailover, TLAPS

(* The tunnel a round is at is one of the tunnels, and there is a first.   *)
LEMMA TunnelsAreTunnels ==
  /\ DOMAIN Tunnels = 1 .. Len(Tunnels) /\ Len(Tunnels) \in Nat
  /\ 1 \in DOMAIN Tunnels
  /\ \A i \in DOMAIN Tunnels : Tunnels[i] \in Tunnel
<1>1. Tunnels \in Seq(Tunnel) /\ Tunnels # << >>
  BY TunnelsAssumption
<1>. QED  BY <1>1 DEF Tunnel

(* Addresses are told from what else may stand in their place.             *)
LEMMA AddressesAreAddresses ==
  /\ None \notin Addr /\ Any \notin Addr /\ Absent \notin Addr
  /\ \A w \in Wan : Addresses[w] \subseteq Addr
  /\ \A v \in Tunnel : LocalGateway[v] \in Left /\ LocalGateway[v] # Absent
<1>1. Any # Absent
  BY DEF Any, Absent
<1>. QED  BY <1>1, AddressesAssumption DEF Addr, Left

LEMMA GatewaysType == LocalGateway \in [Tunnel -> Left \cup {Absent}]
BY AddressesAssumption DEF Left

LEMMA BoundIsNat == MaxEvents \in Nat
BY AddressesAssumption

(* The maps without an entry.                                              *)
LEMMA EmptyMaps ==
  /\ Missing \in [Tunnel -> Left \cup {Absent}]
  /\ Nothing \in [Tunnel -> Addr \cup {None}]
BY DEF Missing, Nothing, Left

-----------------------------------------------------------------------------
(* Type correctness.                                                       *)

LEMMA InitType == Init => TypeOK
<1>. SUFFICES ASSUME Init PROVE TypeOK
  OBVIOUS
<1>1. addr \in [Wan -> Addr \cup {None}]
  <2>1. \A w \in Wan : (CHOOSE a \in Addresses[w] : TRUE) \in Addr
    BY AddressesAssumption, AddressesAreAddresses
  <2>. QED  BY <2>1 DEF Init
<1>2. best \in [Tunnel -> Wan \cup {None}]
  BY AddressesAssumption DEF Init
<1>3. events = 0 /\ svc = 0
  BY DEF Init
<1>4. events \in 0 .. MaxEvents /\ svc \in 0 .. Len(Tunnels) + 1
  BY <1>3, BoundIsNat, TunnelsAreTunnels
<1>5. NetworkOK
  BY <1>1, <1>2, <1>4 DEF Init, NetworkOK
<1>6. IpsecOK
  BY EmptyMaps, GatewaysType DEF Init, IpsecOK
<1>7. ScriptOK
  BY <1>4 DEF Init, ScriptOK
<1>8. DaemonOK
  BY <1>1, EmptyMaps, TunnelsAreTunnels DEF Init, DaemonOK
<1>. QED  BY <1>5, <1>6, <1>7, <1>8 DEF TypeOK

(* The end of a tunnel's turn.                                             *)
LEMMA NextTunnelType ==
  ASSUME TypeOK, NextTunnel
  PROVE  /\ pc' \in {"idle", "look"}
         /\ cur' \in DOMAIN Tunnels /\ (pc' = "idle" => cur' = 1)
         /\ allow' \in BOOLEAN /\ elapsed' \in BOOLEAN
<1>1. cur \in DOMAIN Tunnels /\ allow \in BOOLEAN /\ elapsed \in BOOLEAN
  BY DEF TypeOK, DaemonOK
<1>2. CASE cur < Len(Tunnels)
  <2>1. pc' = "look" /\ cur' = cur + 1 /\ allow' = allow /\ elapsed' = elapsed
    BY <1>2 DEF NextTunnel
  <2>2. cur + 1 \in DOMAIN Tunnels
    BY <1>1, <1>2, TunnelsAreTunnels
  <2>. QED  BY <1>1, <2>1, <2>2
<1>3. CASE ~ cur < Len(Tunnels)
  <2>1. pc' = "idle" /\ cur' = 1 /\ allow' = elapsed /\ elapsed' = FALSE
    BY <1>3 DEF NextTunnel
  <2>. QED  BY <1>1, <2>1, TunnelsAreTunnels
<1>. QED  BY <1>2, <1>3

LEMMA DaemonType ==
  ASSUME TypeOK, DaemonStep
  PROVE  TypeOK'
<1>. USE DEF TypeOK
<1>0. Here \in Tunnel
  BY TunnelsAreTunnels DEF DaemonOK, Here
<1>1. CASE Round
  <2>1. DaemonOK'
    BY <1>1, TunnelsAreTunnels DEF Round, DaemonOK, NetworkOK, Installed
  <2>. QED
    BY <1>1, <2>1 DEF Round, NetworkOK, IpsecOK, ScriptOK, network, ipsec, script
<1>2. CASE Look
  <2>1. BestAddress \in Addr \cup {None}
    <3>1. best[Here] \in Wan \cup {None} /\ seen \in [Wan -> Addr \cup {None}]
      BY <1>0 DEF NetworkOK, DaemonOK
    <3>. QED  BY <3>1 DEF BestAddress
  <2>2. \/ NextTunnel /\ UNCHANGED ip
        \/ pc' = "stop" /\ ip' = BestAddress /\ UNCHANGED <<cur, allow, elapsed>>
    BY <1>2 DEF Look
  <2>3. UNCHANGED <<network, ipsec, script, copy, seen, moved, events>>
    BY <1>2 DEF Look
  <2>4. DaemonOK'
    BY <2>1, <2>2, <2>3, NextTunnelType DEF DaemonOK
  <2>. QED
    BY <2>3, <2>4 DEF NetworkOK, IpsecOK, ScriptOK, network, ipsec, script
<1>3. CASE TakeDown
  <2>1. ip \in Addr \cup {None} /\ vti \in [Tunnel -> Addr \cup {None}] /\ moved \subseteq Tunnel
    BY DEF DaemonOK, IpsecOK
  <2>2. vti' \in [Tunnel -> Addr \cup {None}] /\ moved' \subseteq Tunnel
    BY <1>0, <1>3, <2>1 DEF TakeDown
  <2>3. IpsecOK'
    BY <1>3, <2>2, EmptyMaps DEF TakeDown, IpsecOK
  <2>4. DaemonOK'
    BY <1>3, <2>2 DEF TakeDown, DaemonOK
  <2>. QED
    BY <1>3, <2>3, <2>4 DEF TakeDown, NetworkOK, ScriptOK, network, script
<1>4. CASE CopyConf
  <2>1. conf \in [Tunnel -> Left \cup {Absent}] /\ ip \in Left
    BY DEF IpsecOK, DaemonOK, Left
  <2>2. copy' \in [Tunnel -> Left \cup {Absent}]
    BY <1>4, <2>1 DEF CopyConf, Edited
  <2>3. DaemonOK'
    BY <1>4, <2>2 DEF CopyConf, DaemonOK
  <2>. QED
    BY <1>4, <2>3 DEF CopyConf, NetworkOK, IpsecOK, ScriptOK, network, ipsec, script
<1>5. CASE MoveConf
  <2>1. conf' \in [Tunnel -> Left \cup {Absent}]
    BY <1>5 DEF MoveConf, DaemonOK
  <2>2. IpsecOK'
    BY <1>5, <2>1 DEF MoveConf, IpsecOK, Missing, Nothing
  <2>3. DaemonOK'
    BY <1>5, EmptyMaps DEF MoveConf, DaemonOK
  <2>. QED
    BY <1>5, <2>2, <2>3 DEF MoveConf, NetworkOK, ScriptOK, network, script
<1>6. CASE Restart
  <2>1. IpsecOK'
    BY <1>6, EmptyMaps DEF Restart, Starts, IpsecOK
  <2>2. DaemonOK'
    BY <1>6, NextTunnelType DEF Restart, DaemonOK
  <2>. QED
    BY <1>6, <2>1, <2>2 DEF Restart, NetworkOK, ScriptOK, network, script
<1>. QED  BY <1>1, <1>2, <1>3, <1>4, <1>5, <1>6 DEF DaemonStep

(* The service script, procd and charon.                                   *)
LEMMA IpsecType ==
  ASSUME TypeOK, ScriptStep \/ Respawn \/ \E v \in Tunnel : Establish(v)
  PROVE  TypeOK'
<1>. USE DEF TypeOK
<1>1. CASE AppendConn
  <2>1. svc \in 1 .. Len(Tunnels) /\ Tunnels[svc] \in Tunnel
    BY <1>1, TunnelsAreTunnels DEF AppendConn
  <2>2. svc' \in 0 .. Len(Tunnels) + 1
    BY <1>1, <2>1, TunnelsAreTunnels DEF AppendConn
  <2>3. conf' \in [Tunnel -> Left \cup {Absent}]
    BY <1>1, <2>1, AddressesAreAddresses DEF AppendConn, IpsecOK
  <2>4. IpsecOK' /\ ScriptOK'
    BY <1>1, <2>2, <2>3 DEF AppendConn, IpsecOK, ScriptOK, Missing, Nothing
  <2>. QED
    BY <1>1, <2>4 DEF AppendConn, NetworkOK, DaemonOK, network, daemon
<1>2. CASE Written
  <2>1. svc' \in 0 .. Len(Tunnels) + 1
    BY <1>2, TunnelsAreTunnels DEF Written
  <2>2. ASSUME Reread PROVE IpsecOK'
    <3>1. xfrm' \in [Tunnel -> Addr \cup {None}]
      BY <2>2 DEF Reread, IpsecOK
    <3>. QED  BY <1>2, <2>2, <3>1 DEF Written, Reread, IpsecOK
  <2>3. ASSUME Starts(conf) PROVE IpsecOK'
    BY <1>2, <2>3, EmptyMaps DEF Written, Starts, IpsecOK
  <2>4. ASSUME UNCHANGED <<up, loaded, xfrm>> PROVE IpsecOK'
    BY <1>2, <2>4 DEF Written, IpsecOK, Missing, Nothing
  <2>5. IpsecOK'
    BY <1>2, <2>2, <2>3, <2>4 DEF Written
  <2>. QED
    BY <1>2, <2>1, <2>5 DEF Written, NetworkOK, ScriptOK, DaemonOK, network, daemon
<1>3. CASE Respawn
  <2>1. IpsecOK'
    BY <1>3, EmptyMaps DEF Respawn, Starts, IpsecOK
  <2>. QED
    BY <1>3, <2>1 DEF Respawn, NetworkOK, ScriptOK, DaemonOK, network, script, daemon
<1>4. ASSUME NEW v \in Tunnel, Establish(v) PROVE TypeOK'
  <2>1. \A left : Sources(left) \subseteq Addr
    BY DEF NetworkOK, Sources
  <2>2. xfrm' \in [Tunnel -> Addr \cup {None}]
    BY <1>4, <2>1 DEF Establish, IpsecOK
  <2>3. IpsecOK'
    BY <1>4, <2>2 DEF Establish, Installable, IpsecOK
  <2>. QED
    BY <1>4, <2>3 DEF Establish, NetworkOK, ScriptOK, DaemonOK, network, script, daemon
<1>. QED  BY <1>1, <1>2, <1>3, <1>4 DEF ScriptStep

LEMMA DisturbanceType ==
  ASSUME TypeOK, Disturbance
  PROVE  TypeOK'
<1>. USE DEF TypeOK
<1>0. ASSUME Event PROVE events' \in 0 .. MaxEvents
  <2>1. events \in 0 .. MaxEvents
    BY DEF NetworkOK
  <2>. QED  BY <1>0, <2>1, BoundIsNat DEF Event
<1>1. CASE AddressChanges
  <2>1. addr' \in [Wan -> Addr \cup {None}]
    BY <1>1, AddressesAreAddresses DEF AddressChanges, NetworkOK
  <2>. QED
    BY <1>0, <1>1, <2>1
       DEF AddressChanges, NetworkOK, IpsecOK, ScriptOK, DaemonOK, ipsec, script, daemon, Missing, Nothing
<1>2. CASE RemoteFails
  <2>1. xfrm' \in [Tunnel -> Addr \cup {None}] /\ answers' \subseteq Tunnel
    BY <1>2 DEF RemoteFails, NetworkOK, IpsecOK
  <2>2. ~ up => xfrm' = Nothing
    BY <1>2 DEF RemoteFails, NetworkOK, IpsecOK, Nothing
  <2>. QED
    BY <1>0, <1>2, <2>1, <2>2
       DEF RemoteFails, NetworkOK, IpsecOK, ScriptOK, DaemonOK, script, daemon, Missing, Nothing
<1>3. CASE RemoteReturns
  BY <1>0, <1>3
     DEF RemoteReturns, NetworkOK, IpsecOK, ScriptOK, DaemonOK, ipsec, script, daemon, Missing, Nothing
<1>4. CASE PolicyDecides
  BY <1>0, <1>4
     DEF PolicyDecides, NetworkOK, IpsecOK, ScriptOK, DaemonOK, ipsec, script, daemon, Missing, Nothing
<1>5. CASE Reload
  <2>1. svc' \in 0 .. Len(Tunnels) + 1
    BY <1>5, TunnelsAreTunnels DEF Reload
  <2>2. IpsecOK' /\ ScriptOK'
    BY <1>5, <2>1, EmptyMaps DEF Reload, IpsecOK, ScriptOK
  <2>. QED
    BY <1>0, <1>5, <2>2 DEF Reload, NetworkOK, DaemonOK, network, daemon
<1>6. CASE CopyFails
  BY <1>0, <1>6
     DEF CopyFails, NetworkOK, IpsecOK, ScriptOK, DaemonOK, network, ipsec, script, Missing, Nothing
<1>7. CASE DaemonRestarts
  <2>1. DaemonOK'
    BY <1>7, EmptyMaps, TunnelsAreTunnels DEF DaemonRestarts, DaemonOK, NetworkOK
  <2>. QED
    BY <1>0, <1>7, <2>1
       DEF DaemonRestarts, NetworkOK, IpsecOK, ScriptOK, network, ipsec, script, Missing, Nothing
<1>. QED  BY <1>1, <1>2, <1>3, <1>4, <1>5, <1>6, <1>7 DEF Disturbance

LEMMA NextType == TypeOK /\ [Next]_vars => TypeOK'
<1>1. ASSUME TypeOK, UNCHANGED vars PROVE TypeOK'
  BY <1>1
     DEF TypeOK, NetworkOK, IpsecOK, ScriptOK, DaemonOK, vars, network, ipsec, script, daemon,
         Missing, Nothing
<1>. QED  BY <1>1, DaemonType, IpsecType, DisturbanceType DEF Next

(* Every variable has its type.                                            *)
THEOREM TypeCorrect == Spec => []TypeOK
BY InitType, NextType, PTL DEF Spec

-----------------------------------------------------------------------------
(* The device and the configuration of a tunnel.                           *)

(* Gateways none of which matches another one.                             *)
ExactGateways == \A v \in Tunnel : Matches[v] = {v}

(* The inductive invariant: the device is moved first, so the edited copy  *)
(* agrees with it too, and what awk copied of other tunnels still agrees   *)
(* when mv puts it in place, because nobody else moves a device.           *)
EditOK ==
  /\ DeviceMatchesConf
  /\ pc \in {"copy", "move"} /\ ip \in Addr => vti[Here] = ip
  /\ pc = "move" =>
       \A v \in (Tunnel \ moved) \cup {Here} :
         copy[v] \in Addr => copy[v] \in {vti[v], LocalGateway[v]}

IInv == TypeOK /\ EditOK

LEMMA InitEdit == Init => EditOK
BY AddressesAreAddresses DEF Init, EditOK, DeviceMatchesConf

LEMMA DaemonEdit ==
  ASSUME ExactGateways, IInv, DaemonStep
  PROVE  EditOK'
<1>0. Here \in Tunnel
  BY TunnelsAreTunnels DEF IInv, TypeOK, DaemonOK, Here
<1>1. CASE Round
  BY <1>1 DEF Round, IInv, EditOK, DeviceMatchesConf, ipsec
<1>2. CASE Look
  <2>1. pc' \notin {"copy", "move"}
    BY <1>2 DEF Look, NextTunnel
  <2>. QED  BY <1>2, <2>1 DEF Look, IInv, EditOK, DeviceMatchesConf, ipsec
<1>3. CASE TakeDown
  <2>1. pc' = "copy" /\ conf' = conf /\ ip' = ip /\ Here' = Here
    BY <1>3 DEF TakeDown, Here
  <2>2. CASE ip = None
    BY <1>3, <2>1, <2>2, AddressesAreAddresses DEF TakeDown, IInv, EditOK, DeviceMatchesConf
  <2>3. CASE ip # None
    <3>1. vti' = [vti EXCEPT ![Here] = ip] /\ moved' = moved \cup {Here}
      BY <1>3, <2>3 DEF TakeDown
    <3>2. vti'[Here] = ip /\ \A v \in Tunnel \ {Here} : vti'[v] = vti[v]
      BY <1>0, <3>1 DEF IInv, TypeOK, IpsecOK
    <3>. QED  BY <2>1, <3>1, <3>2 DEF IInv, EditOK, DeviceMatchesConf
  <2>. QED  BY <2>2, <2>3
<1>4. CASE CopyConf
  <2>1. /\ pc' = "move" /\ conf' = conf /\ ip' = ip /\ Here' = Here
        /\ vti' = vti /\ moved' = moved /\ copy' = Edited(conf) /\ pc = "copy"
    BY <1>4 DEF CopyConf, ipsec, Here
  <2>2. ASSUME NEW v \in (Tunnel \ moved) \cup {Here}, copy'[v] \in Addr
        PROVE  copy'[v] \in {vti[v], LocalGateway[v]}
    <3>1. v \in Tunnel /\ Matches[Here] = {Here}
      BY <1>0, <2>2 DEF ExactGateways
    <3>2. copy'[v] = IF v = Here /\ conf[v] # Absent THEN ip ELSE conf[v]
      BY <2>1, <3>1 DEF Edited
    <3>3. CASE v = Here
      BY <2>1, <2>2, <3>2, <3>3, AddressesAreAddresses DEF IInv, EditOK
    <3>4. CASE v # Here
      BY <2>2, <3>2, <3>4 DEF IInv, EditOK, DeviceMatchesConf
    <3>. QED  BY <3>3, <3>4
  <2>. QED  BY <2>1, <2>2 DEF IInv, EditOK, DeviceMatchesConf
<1>5. CASE MoveConf
  <2>1. pc = "move" /\ pc' = "restart" /\ conf' = copy /\ vti' = vti /\ moved' = moved \ {Here}
    BY <1>5 DEF MoveConf
  <2>2. DeviceMatchesConf'
    BY <2>1 DEF IInv, EditOK, DeviceMatchesConf
  <2>. QED  BY <2>1, <2>2 DEF EditOK
<1>6. CASE Restart
  <2>1. pc' \notin {"copy", "move"}
    BY <1>6 DEF Restart, NextTunnel
  <2>. QED  BY <1>6, <2>1 DEF Restart, IInv, EditOK, DeviceMatchesConf
<1>. QED  BY <1>1, <1>2, <1>3, <1>4, <1>5, <1>6 DEF DaemonStep

(* What runs beside the daemon moves no device and touches no copy; the    *)
(* script only ever writes what is configured.                             *)
LEMMA BesideEdit ==
  ASSUME IInv, UNCHANGED <<vti, moved, pc, cur, ip, copy>>,
         \A v \in Tunnel : conf'[v] \in {conf[v], LocalGateway[v], Absent}
  PROVE  EditOK'
<1>1. Here' = Here
  BY DEF Here
<1>. QED  BY <1>1, AddressesAreAddresses DEF IInv, EditOK, DeviceMatchesConf

LEMMA OthersEdit ==
  ASSUME IInv, ScriptStep \/ Respawn \/ (\E v \in Tunnel : Establish(v)) \/ Disturbance
  PROVE  EditOK'
<1>. USE BesideEdit DEF network, ipsec, script, daemon
<1>1. CASE AppendConn
  <2>1. \A v \in Tunnel : conf'[v] \in {conf[v], LocalGateway[v], Absent}
    BY <1>1 DEF AppendConn, IInv, TypeOK, IpsecOK
  <2>. QED  BY <1>1, <2>1 DEF AppendConn
<1>2. CASE Written
  BY <1>2 DEF Written
<1>3. CASE Respawn
  BY <1>3 DEF Respawn
<1>4. CASE \E v \in Tunnel : Establish(v)
  BY <1>4 DEF Establish
<1>5. CASE AddressChanges
  BY <1>5 DEF AddressChanges
<1>6. CASE RemoteFails \/ RemoteReturns
  BY <1>6 DEF RemoteFails, RemoteReturns
<1>7. CASE PolicyDecides
  BY <1>7 DEF PolicyDecides
<1>8. CASE Reload
  BY <1>8 DEF Reload, Missing
<1>9. CASE CopyFails
  BY <1>9 DEF CopyFails, IInv, EditOK, DeviceMatchesConf
<1>10. CASE DaemonRestarts
  BY <1>10 DEF DaemonRestarts, IInv, EditOK, DeviceMatchesConf
<1>. QED
  BY <1>1, <1>2, <1>3, <1>4, <1>5, <1>6, <1>7, <1>8, <1>9, <1>10
     DEF ScriptStep, Disturbance

LEMMA NextIInv == ExactGateways /\ IInv /\ [Next]_vars => IInv'
<1>1. ASSUME IInv, UNCHANGED vars PROVE EditOK'
  BY <1>1, BesideEdit DEF vars, ipsec, daemon
<1>. QED  BY <1>1, NextType, DaemonEdit, OthersEdit DEF IInv, Next

(* With gateways that do not match each other, a connection that names a   *)
(* local address names the configured one or that of its tunnel's device,  *)
(* unless a daemon died between moving the one and the other: however the  *)
(* service script, procd and the daemon interleave.                        *)
THEOREM DeviceAgrees == ASSUME ExactGateways PROVE Spec => []DeviceMatchesConf
<1>1. Init => IInv
  BY InitType, InitEdit DEF IInv
<1>2. IInv => DeviceMatchesConf
  BY DEF IInv, EditOK
<1>3. IInv /\ [Next]_vars => IInv'
  BY NextIInv
<1>. QED  BY <1>1, <1>2, <1>3, PTL DEF Spec
=============================================================================

-------------------------- MODULE PyConnectorProofs --------------------------
(* Theorems about pyconnector for any number of instances and of deaths,   *)
(* outages and commands.                                                   *)
EXTENDS PyConnector, TLAPS

(* The bound is a natural number.                                         *)
LEMMA Bound == MaxEvents \in Nat
BY PyConnectorAssumption

(* Where an instance uses its socket, or will once the status is written,  *)
(* and where it has none.                                                  *)
Writing(i) == pc[i] \in {"open", "write"}
Using(i)   == pc[i] \in {"read", "run"} \/ (Writing(i) /\ next[i] = "read")
Without(i) ==
  \/ pc[i] \in {"start", "connect", "again", "sleep", "dead"}
  \/ Writing(i) /\ next[i] \in {"again", "sleep"}

(* The inductive invariant: a socket that is not reset is the one the file *)
(* was made from, whatever step the instance is at.                        *)
SocketOK(i) ==
  /\ Using(i) => sock[i] # None
  /\ Without(i) => sock[i] = None
  /\ sock[i] # None => file[i] = sock[i]
  /\ live[i] \subseteq Held(i)

IInv == TypeOK /\ \A i \in Instance : SocketOK(i)

(* There is always a third connection to open.                             *)
LEMMA FreshConnection ==
  ASSUME NEW i \in Instance, TypeOK
  PROVE  LET c == CHOOSE c \in Conn : c \notin Held(i)
         IN  c \in Conn /\ c \notin Held(i) /\ c # None
<1>0. sock[i] \in Conn \cup {None} /\ file[i] \in Conn \cup {None}
  BY DEF TypeOK
<1>1. sock[i] \in 0 .. 3 /\ file[i] \in 0 .. 3
  BY <1>0 DEF Conn, None
<1>2. \E c \in Conn : c \notin Held(i)
  BY <1>1 DEF Conn, Held, None
<1>. QED  BY <1>2 DEF Conn, None

LEMMA InitIInv == Init => IInv
<1>. SUFFICES ASSUME Init PROVE IInv
  OBVIOUS
<1>1. \A i \in Instance :
        pc[i] = "start" /\ next[i] = "loop" /\ sock[i] = None /\ file[i] = None /\ live[i] = {}
  BY DEF Init
<1>2. /\ sock \in [Instance -> Conn \cup {None}] /\ file \in [Instance -> Conn \cup {None}]
      /\ live \in [Instance -> SUBSET Conn]
  BY DEF Init
<1>0. events = 0
  BY DEF Init
<1>3. events \in 0 .. MaxEvents
  BY <1>0, Bound
<1>4. TypeOK
  BY <1>1, <1>2, <1>3 DEF Init, TypeOK, Text
<1>5. \A i \in Instance : SocketOK(i)
  BY <1>1 DEF SocketOK, Using, Without, Writing
<1>. QED  BY <1>4, <1>5 DEF IInv

(* What a step of instance i does to the other instances: nothing.         *)
Others(i) ==
  \A j \in Instance \ {i} :
    /\ pc'[j] = pc[j] /\ next'[j] = next[j]
    /\ sock'[j] = sock[j] /\ file'[j] = file[j] /\ live'[j] = live[j]

LEMMA OthersKeep ==
  ASSUME NEW i \in Instance, IInv, TypeOK', Others(i), SocketOK(i)'
  PROVE  IInv'
<1>1. \A j \in Instance \ {i} : SocketOK(j)'
  BY DEF IInv, Others, SocketOK, Using, Without, Writing, Held
<1>. QED  BY <1>1 DEF IInv

(* One step of an instance that writes the status or goes on.              *)
LEMMA StepIInv ==
  ASSUME IInv, NEW i \in Instance, Step(i)
  PROVE  IInv'
<1>. USE DEF IInv, TypeOK, SocketOK, Using, Without, Writing, To, instance, server
<1>. SUFFICES TypeOK' /\ Others(i) /\ SocketOK(i)'
  BY OthersKeep
<1>1. CASE Start(i)
  BY <1>1 DEF Start, WriteStatus, Others, Held, Text
<1>2. CASE OpenStatus(i)
  BY <1>2 DEF OpenStatus, Others, Held, Text
<1>3. CASE CloseStatus(i)
  BY <1>3 DEF CloseStatus, Over, Others, Held, Text
<1>4. CASE Loop(i)
  <2>1. CASE sock[i] = None
    BY <1>4, <2>1 DEF Loop, Others, Held
  <2>2. CASE sock[i] # None
    <3>1. /\ pc' = [pc EXCEPT ![i] = "open"] /\ next' = [next EXCEPT ![i] = "read"]
          /\ text' = [text EXCEPT ![i] = "connected"]
          /\ UNCHANGED <<sock, file, live, answers, asked, status, events>>
      BY <1>4, <2>2 DEF Loop, WriteStatus
    <3>2. TypeOK'
      BY <3>1 DEF Text
    <3>3. Others(i) /\ SocketOK(i)'
      BY <2>2, <3>1 DEF Others, Held
    <3>. QED  BY <3>2, <3>3
  <2>. QED  BY <2>1, <2>2
<1>5. CASE Connect(i)
  <2>. DEFINE c == CHOOSE c \in Conn : c \notin Held(i)
  <2>1. c \in Conn /\ c # None
    BY FreshConnection
  <2>2. /\ sock' = [sock EXCEPT ![i] = c] /\ file' = [file EXCEPT ![i] = c]
        /\ live' = [live EXCEPT ![i] = (@ \cap {c, c}) \cup {c}]
        /\ WriteStatus(i, "connected", "read")
        /\ UNCHANGED <<answers, asked, status, events>>
    BY <1>5 DEF Connect, Made
  <2>. HIDE DEF c
  <2>3. TypeOK'
    BY <2>1, <2>2 DEF WriteStatus, Text
  <2>4. Others(i)
    BY <2>1, <2>2 DEF WriteStatus, Others
  <2>5. sock'[i] = c /\ file'[i] = c /\ live'[i] = {c}
    BY <2>1, <2>2
  <2>6. SocketOK(i)'
    BY <2>1, <2>2, <2>5 DEF WriteStatus, Held
  <2>. QED  BY <2>3, <2>4, <2>6
<1>6. CASE ConnectFails(i)
  BY <1>6 DEF ConnectFails, Reset, WriteStatus, Others, Held, Text, None
<1>7. CASE ConnectFailed(i)
  BY <1>7 DEF ConnectFailed, Reset, WriteStatus, Others, Held, Text, None
<1>8. CASE Sleep(i)
  BY <1>8 DEF Sleep, Others, Held
<1>9. CASE Read(i)
  BY <1>9 DEF Read, Others, Held
<1>10. ASSUME sock' = [sock EXCEPT ![i] = None] /\ WriteStatus(i, "unconnected", "sleep"),
              Using(i),
              UNCHANGED <<file, live, answers, asked, status, events>>
       PROVE  TypeOK' /\ Others(i) /\ SocketOK(i)'
  <2>1. TypeOK' /\ Others(i)
    BY <1>10 DEF WriteStatus, Others, Text, None
  <2>2. sock'[i] = None /\ pc'[i] = "open" /\ next'[i] = "sleep" /\ live'[i] = live[i] /\ file'[i] = file[i]
    BY <1>10 DEF WriteStatus
  <2>3. SocketOK(i)'
    BY <1>10, <2>2 DEF Held, None
  <2>. QED  BY <2>1, <2>3
<1>11. CASE Disconnected(i)
  BY <1>10, <1>11 DEF Disconnected, Reset
<1>12. CASE Send(i)
  BY <1>12 DEF Send, Others, Held
<1>13. CASE SendFails(i)
  BY <1>10, <1>13 DEF SendFails, Reset
<1>14. CASE SendLost(i)
  BY <1>14 DEF SendLost, Others, Held
<1>15. CASE Respawn(i)
  BY <1>15 DEF Respawn, Others, Held
<1>. QED
  BY <1>1, <1>2, <1>3, <1>4, <1>5, <1>6, <1>7, <1>8, <1>9, <1>11, <1>12, <1>13,
     <1>14, <1>15 DEF Step

(* Deaths, outages and commands.                                           *)
LEMMA DisturbanceIInv ==
  ASSUME IInv, NEW i \in Instance, Disturbance(i)
  PROVE  IInv'
<1>. SUFFICES TypeOK' /\ Others(i) /\ SocketOK(i)'
  BY OthersKeep
<1>0. Event => events' \in 0 .. MaxEvents
  <2>1. events \in 0 .. MaxEvents
    BY DEF IInv, TypeOK
  <2>. QED  BY <2>1, Bound DEF Event
<1>. USE <1>0 DEF IInv, TypeOK, SocketOK, Using, Without, Writing, To, instance, server
<1>1. CASE Die(i)
  <2>1. TypeOK' /\ Others(i)
    BY <1>1 DEF Die, Others, Text, None
  <2>2. /\ pc'[i] = "dead" /\ next'[i] = "loop"
        /\ sock'[i] = None /\ file'[i] = None /\ live'[i] = {}
    BY <1>1 DEF Die
  <2>3. SocketOK(i)'
    BY <2>2
  <2>. QED  BY <2>1, <2>3
<1>2. CASE ServerFails(i)
  BY <1>2 DEF ServerFails, Others, Held
<1>3. CASE ServerReturns(i)
  BY <1>3 DEF ServerReturns, Others, Held
<1>4. CASE Ask(i)
  BY <1>4 DEF Ask, Others, Held
<1>. QED  BY <1>1, <1>2, <1>3, <1>4 DEF Disturbance

LEMMA NextIInv == IInv /\ [Next]_vars => IInv'
<1>1. ASSUME IInv, UNCHANGED vars  PROVE IInv'
  BY <1>1 DEF IInv, TypeOK, SocketOK, Using, Without, Writing, Held, vars, instance, server
<1>. QED  BY <1>1, StepIInv, DisturbanceIInv DEF Next

LEMMA IInvHolds == Spec => []IInv
BY InitIInv, NextIInv, PTL DEF Spec

(* Every variable has its type, and an instance a socket where it uses     *)
(* one, for any instances.                                                 *)
THEOREM TypeCorrect == Spec => []TypeOK
<1>1. IInv => TypeOK
  BY DEF IInv
<1>. QED  BY <1>1, IInvHolds, PTL

(* Commands are read from the connection their results are sent on, and    *)
(* the server has no connection that the agent has lost sight of: although *)
(* reset_command_socket resets only one of the two globals.                *)
THEOREM ReadsFromItsConnection == Spec => []ReadsItsConnection
<1>1. IInv => ReadsItsConnection
  BY DEF IInv, SocketOK, Using, ReadsItsConnection
<1>. QED  BY <1>1, IInvHolds, PTL
=============================================================================

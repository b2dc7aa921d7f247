----------------------------- MODULE PyConnector -----------------------------
(***************************************************************************)
(* pyconnector: the agent that keeps a TLS connection to a command server, *)
(* runs the commands it reads from it and sends back their results.  procd *)
(* runs one instance per configured server and starts it again when it     *)
(* dies.  All instances write the same status file, each by truncating it  *)
(* and, in a later step, writing it.                                       *)
(***************************************************************************)
EXTENDS Integers, FiniteSets

CONSTANTS
  Instance,  \* the instances, one per server
  MaxEvents  \* bound: deaths, outages and commands

ASSUME PyConnectorAssumption == Instance # {} /\ MaxEvents \in Nat

None   == 0
Conn   == 1 .. 3  \* an instance refers to two connections at most
Text   == {"connected", "unconnected"}

VARIABLES
  pc,      \* step of an instance
  next,    \* step after the status file is written
  text,    \* what is to be written
  sock,    \* command_socket
  file,    \* command_socket_file: the connection it was made from
  live,    \* connections the server still has
  answers, \* does the server accept connections?
  asked,   \* has the server sent a command that is not answered?
  status,  \* contents of the status file
  events

instance == <<pc, next, text, sock, file>>
server   == <<live, answers, asked>>
vars     == <<instance, server, status, events>>

To(i, step) == pc' = [pc EXCEPT ![i] = step]

(* write_status_file, then on to the given step.                           *)
WriteStatus(i, what, step) ==
  /\ To(i, "open")
  /\ text' = [text EXCEPT ![i] = what]
  /\ next' = [next EXCEPT ![i] = step]

(* Python keeps a connection open while the socket or a file made from it  *)
(* is referred to.                                                         *)
Held(i) == {sock[i], file[i]} \ {None}

(* reset_command_socket forgets the socket, but not the file.              *)
ResetSilently(i, step) ==  \* mutant: the status file is not written
  /\ sock' = [sock EXCEPT ![i] = None]
  /\ To(i, step)
  /\ UNCHANGED <<next, text>>
ResetStatus(i, step) ==  \* mutant: the socket is kept
  WriteStatus(i, "unconnected", step) /\ UNCHANGED sock
Reset(i, step) ==
  /\ sock' = [sock EXCEPT ![i] = None]
  /\ WriteStatus(i, "unconnected", step)

-----------------------------------------------------------------------------
(* An instance begins with the status of one that has died.                *)
Start(i) ==
  /\ pc[i] = "start"
  /\ WriteStatus(i, "unconnected", "loop")
  /\ UNCHANGED <<sock, file, server, status, events>>

(* open(.., "w")                                                           *)
OpenStatus(i) ==
  /\ pc[i] = "open"
  /\ status' = ""
  /\ To(i, "write")
  /\ UNCHANGED <<next, text, sock, file, server, events>>

(* The shorter text leaves the end of a longer one that another instance   *)
(* wrote since the truncation.                                             *)
Over(old, new) ==
  IF new = "connected" /\ old \in {"unconnected", "connecteded"} THEN "connecteded" ELSE new

CloseStatus(i) ==
  /\ pc[i] = "write"
  /\ status' = Over(status, text[i])
  /\ To(i, next[i])
  /\ next' = [next EXCEPT ![i] = "loop"]
  /\ text' = [text EXCEPT ![i] = "unconnected"]
  /\ UNCHANGED <<sock, file, server, events>>

Loop(i) ==
  /\ pc[i] = "loop"
  /\ IF sock[i] = None
     THEN To(i, "connect") /\ UNCHANGED <<next, text>>
     ELSE WriteStatus(i, "connected", "read")
  /\ UNCHANGED <<sock, file, server, status, events>>

(* The file of an earlier connection is replaced, which closes it.         *)
MadeOnce(i, c) == IF file[i] = None THEN c ELSE file[i]  \* mutant: the file is made only once
Made(i, c) == c

Connect(i) ==
  /\ pc[i] = "connect"
  /\ i \in answers
  /\ LET c == CHOOSE c \in Conn : c \notin Held(i)
     IN  /\ sock' = [sock EXCEPT ![i] = c]
         /\ file' = [file EXCEPT ![i] = Made(i, c)]
         /\ live' = [live EXCEPT ![i] = (@ \cap {c, Made(i, c)}) \cup {c}]
  /\ WriteStatus(i, "connected", "read")
  /\ UNCHANGED <<answers, asked, status, events>>

(* connect resets, and so does read_from_cmd after it.                     *)
ConnectFails(i) ==
  /\ pc[i] = "connect"
  /\ i \notin answers
  /\ Reset(i, "again")
  /\ UNCHANGED <<file, server, status, events>>

ConnectFailed(i) ==
  /\ pc[i] = "again"
  /\ Reset(i, "sleep")
  /\ UNCHANGED <<file, server, status, events>>

Sleep(i) ==
  /\ pc[i] = "sleep"
  /\ To(i, "loop")
  /\ UNCHANGED <<next, text, sock, file, server, status, events>>

Read(i) ==
  /\ pc[i] = "read"
  /\ file[i] \in live[i] /\ i \in asked
  /\ To(i, "run")
  /\ UNCHANGED <<next, text, sock, file, server, status, events>>

(* The end of the file, or keep-alive probes that stay unanswered.         *)
ReadNeverEnds(i) == FALSE  \* mutant: keep-alive is not switched on
ReadEnds(i) == file[i] \notin live[i]

Disconnected(i) ==
  /\ pc[i] = "read"
  /\ ReadEnds(i)
  /\ Reset(i, "sleep")
  /\ UNCHANGED <<file, server, status, events>>

(* run_cmd answers whatever the command does, an exception included.       *)
Send(i) ==
  /\ pc[i] = "run"
  /\ sock[i] \in live[i]
  /\ asked' = asked \ {i}
  /\ To(i, "loop")
  /\ UNCHANGED <<next, text, sock, file, live, answers, status, events>>

SendFails(i) ==
  /\ pc[i] = "run"
  /\ sock[i] \notin live[i]
  /\ Reset(i, "sleep")
  /\ UNCHANGED <<file, server, status, events>>

(* The result is sent into a connection that is not yet known to be lost.  *)
SendLost(i) ==
  /\ pc[i] = "run"
  /\ sock[i] \notin live[i]
  /\ To(i, "loop")
  /\ UNCHANGED <<next, text, sock, file, server, status, events>>

(* procd, 120 seconds later.                                               *)
Respawn(i) ==
  /\ pc[i] = "dead"
  /\ To(i, "start")
  /\ UNCHANGED <<next, text, sock, file, server, status, events>>

-----------------------------------------------------------------------------
Event == events < MaxEvents /\ events' = events + 1

Die(i) ==
  /\ Event
  /\ pc[i] # "dead"
  /\ To(i, "dead")
  /\ next' = [next EXCEPT ![i] = "loop"] /\ text' = [text EXCEPT ![i] = "unconnected"]
  /\ sock' = [sock EXCEPT ![i] = None] /\ file' = [file EXCEPT ![i] = None]
  /\ live' = [live EXCEPT ![i] = {}]
  /\ asked' = asked \ {i}
  /\ UNCHANGED <<answers, status>>

(* The connections to a server are lost, and the server may be lost too.   *)
ServerFails(i) ==
  /\ Event
  /\ i \in answers
  /\ answers' \in {answers, answers \ {i}}
  /\ live' = [live EXCEPT ![i] = {}]
  /\ asked' = asked \ {i}
  /\ UNCHANGED <<instance, status>>

ServerReturns(i) ==
  /\ Event
  /\ i \notin answers
  /\ answers' = answers \cup {i}
  /\ UNCHANGED <<instance, live, asked, status>>

Ask(i) ==
  /\ Event
  /\ live[i] # {} /\ i \notin asked
  /\ asked' = asked \cup {i}
  /\ UNCHANGED <<instance, live, answers, status>>

-----------------------------------------------------------------------------
Init ==
  /\ pc = [i \in Instance |-> "start"]
  /\ next = [i \in Instance |-> "loop"] /\ text = [i \in Instance |-> "unconnected"]
  /\ sock = [i \in Instance |-> None] /\ file = sock
  /\ live = [i \in Instance |-> {}]
  /\ answers \in SUBSET Instance
  /\ asked = {} /\ status = "" /\ events = 0

Step(i) ==
  \/ Start(i) \/ OpenStatus(i) \/ CloseStatus(i)
  \/ Loop(i) \/ Connect(i) \/ ConnectFails(i) \/ ConnectFailed(i) \/ Sleep(i)
  \/ Read(i) \/ Disconnected(i) \/ Send(i) \/ SendFails(i) \/ SendLost(i)
  \/ Respawn(i)

Disturbance(i) == Die(i) \/ ServerFails(i) \/ ServerReturns(i) \/ Ask(i)

Next == \E i \in Instance : Step(i) \/ Disturbance(i)

Spec     == Init /\ [][Next]_vars
FairSpec == Spec /\ \A i \in Instance : WF_vars(Step(i))

-----------------------------------------------------------------------------
(* Every variable has its type, and an instance has a socket exactly where *)
(* it uses one.                                                            *)
TypeOK ==
  /\ pc \in [Instance -> {"start", "open", "write", "loop", "connect", "again",
                          "sleep", "read", "run", "dead"}]
  /\ next \in [Instance -> {"loop", "again", "sleep", "read"}]
  /\ text \in [Instance -> Text]
  /\ sock \in [Instance -> Conn \cup {None}] /\ file \in [Instance -> Conn \cup {None}]
  /\ \A i \in Instance :
       /\ pc[i] \in {"start", "connect", "again", "sleep", "dead"} => sock[i] = None
       /\ pc[i] \in {"read", "run"} => sock[i] # None
  /\ live \in [Instance -> SUBSET Conn]
  /\ answers \subseteq Instance /\ asked \subseteq Instance
  /\ status \in Text \cup {"", "connecteded"}
  /\ events \in 0 .. MaxEvents

(* Socket and file are kept in two globals, and only the first is reset:   *)
(* commands are nevertheless read from the connection their results are    *)
(* sent on, and the server never has more than that connection and the     *)
(* one before it.  (connect, reset_command_socket, read_from_cmd.)         *)
ReadsItsConnection ==
  \A i \in Instance :
    /\ pc[i] \in {"read", "run"} => file[i] = sock[i]
    /\ live[i] \subseteq Held(i)

(* An instance whose server answers from some time on is connected to it   *)
(* from some time on, and its server's commands get their results.         *)
Connected(i) == sock[i] \in live[i]
Reconnects ==
  \A i \in Instance :
    <>[](i \in answers) => <>[](Connected(i) /\ i \notin asked)

(* The status file that all instances write settles on the truth when the  *)
(* servers agree, whatever overlapping writes and deaths left in it: it is *)
(* "connected" when all of them answer, and says nothing but "unconnected" *)
(* when none does, though retries keep truncating it.  (write_status_file, *)
(* reset_command_socket, and the write at the start of an instance.)       *)
StatusSettles ==
  /\ <>[](answers = Instance) => <>[](status = "connected")
  /\ <>[](answers = {}) =>
       []<>(status = "unconnected") /\ <>[](status \in {"", "unconnected"})
=============================================================================

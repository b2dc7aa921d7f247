---------------------------- MODULE PolicyRouting ----------------------------
(***************************************************************************)
(* What wan-manager promises of its policies, without rounds, files or     *)
(* statistics: WANs are judged up or down for a policy, a decision for one *)
(* policy at a time is recorded and then installed, a decision is only     *)
(* taken for WANs judged up and only when it differs from the recorded     *)
(* one, and a restart forgets verdicts and records but not the chains.     *)
(***************************************************************************)
CONSTANTS Wan, Policy, Route, Unset, Targets(_)

VARIABLES
  up,       \* WANs judged up, per policy
  record,   \* recorded decision of every policy
  route,    \* installed route of every policy
  pending   \* the policy whose recorded decision is not installed yet

avars == <<up, record, route, pending>>

AInit ==
  /\ up = [p \in Policy |-> {}]
  /\ record = [p \in Policy |-> Unset]
  /\ route = [p \in Policy |-> Unset]
  /\ pending = {}

Judge ==
  /\ pending = {}
  /\ \E p \in Policy, W \in SUBSET Wan : up' = [up EXCEPT ![p] = W]
  /\ UNCHANGED <<record, route, pending>>

Resolve(p) ==
  /\ pending = {}
  /\ record'[p] \in Route \ {record[p]}
  /\ Targets(record'[p]) \subseteq up[p]
  /\ record' = [record EXCEPT ![p] = record'[p]]
  /\ pending' = {p}
  /\ UNCHANGED <<up, route>>

Install(p) ==
  /\ pending = {p}
  /\ route' = [route EXCEPT ![p] = record[p]]
  /\ pending' = {}
  /\ UNCHANGED <<up, record>>

Restart ==
  /\ up' = [p \in Policy |-> {}]
  /\ record' = [p \in Policy |-> Unset]
  /\ pending' = {}
  /\ UNCHANGED route

ANext ==
  \/ Judge \/ Restart
  \/ \E p \in Policy : Resolve(p) \/ Install(p)

ASpec == AInit /\ [][ANext]_avars
=============================================================================

------------------------ MODULE WanRefinementProofs ------------------------
(* wan-manager implements PolicyRouting, for any configuration.            *)
EXTENDS WanRoutingProofs

(* The abstract variables.                                                 *)
AUp      == [p \in Policy |-> IF Running THEN {w \in Wan : WanUp(p, w)} ELSE {}]
ARecord  == [p \in Policy |-> IF Running THEN pstatus[p] ELSE Unset]
APending == IF pc = "nft" THEN {Call.policy} ELSE {}
AVars    == <<AUp, ARecord, chain, APending>>

LEMMA SameAUp ==
  ASSUME UNCHANGED crit, Running' <=> Running
  PROVE  UNCHANGED AUp
<1>1. \A p, w : WanUp(p, w)' <=> WanUp(p, w)
  BY SameVerdicts
<1>. QED  BY <1>1 DEF AUp

LEMMA SameARecord ==
  ASSUME UNCHANGED pstatus, Running' <=> Running
  PROVE  UNCHANGED ARecord
BY DEF ARecord

LEMMA CurrentPolicy ==
  ASSUME at \in Calls
  PROVE  Call.policy \in Policy
BY CallTypes DEF Call

(* A daemon that has just started has no verdict.                          *)
LEMMA NoVerdicts ==
  ASSUME crit' = [c \in CritFile |-> "absent"], NEW p, NEW w
  PROVE  ~WanUp(p, w)'
BY DEF WanUp, WanUpByFamily

(* Every step is an abstract step or changes no abstract variable.         *)
LEMMA RefinementStep ==
  ASSUME ~HardKill, RecordedInv, [Next]_vars
  PROVE  \/ Abstract!Judge \/ Abstract!Restart
         \/ \E p \in Policy : Abstract!Resolve(p) \/ Abstract!Install(p)
         \/ UNCHANGED AVars
<1>. USE DEF RecordedInv
<1>t. Deciding \subseteq Calls /\ pstatus \in [Policy -> Route] /\ chain \in [Policy -> Route]
  BY DEF Deciding, TypeOK, FilesOK
<1>1. CASE JudgingStep
  <2>1. /\ at \in Calls /\ at \notin Deciding /\ Running /\ Running' /\ pc # "nft" /\ pc' # "nft"
        /\ UNCHANGED <<pstatus, chain>>
    BY <1>1 DEF JudgingStep, NextCall, Running
  <2>2. PICK v : WriteVerdict(v)
    BY <1>1 DEF JudgingStep
  <2>3. PICK q \in Policy : q = Call.policy
    BY <2>1, CurrentPolicy
  <2>. DEFINE W == {w \in Wan : WanUp(q, w)'}
  <2>4. AUp' = [p \in Policy |-> {w \in Wan : WanUp(p, w)'}] /\ AUp = [p \in Policy |-> {w \in Wan : WanUp(p, w)}]
    BY <2>1 DEF AUp
  <2>5. \A p \in Policy : p # q => \A w : WanUp(p, w)' <=> WanUp(p, w)
    BY <2>1, <2>2, <2>3, OtherVerdicts DEF TypeOK
  <2>6. AUp' = [AUp EXCEPT ![q] = W]
    <3>1. \A p \in Policy : p # q => AUp'[p] = AUp[p]
      BY <2>4, <2>5
    <3>2. AUp'[q] = W
      BY <2>4
    <3>. QED  BY <2>4, <3>1, <3>2
  <2>7. UNCHANGED <<ARecord, chain, APending>> /\ APending = {} /\ W \in SUBSET Wan
    BY <2>1, SameARecord DEF APending
  <2>. HIDE DEF W
  <2>8. \E p \in Policy, X \in SUBSET Wan : AUp' = [AUp EXCEPT ![p] = X]
    BY <2>6, <2>7
  <2>9. Abstract!Judge
    BY <2>7, <2>8 DEF Abstract!Judge, AUp, ARecord, APending
  <2>. QED  BY <2>9
<1>2. CASE InnerStep \/ WaitingStep \/ Wake
  <2>1. UNCHANGED <<crit, pstatus, chain>> /\ pc # "nft" /\ pc' # "nft" /\ Running /\ Running'
    BY <1>2 DEF InnerStep, WaitingStep, Wake, Waiting, Running
  <2>. QED  BY <2>1, SameAUp, SameARecord DEF AVars, APending
<1>3. ASSUME NEW route, Justified(route), DecidingStep(route)
      PROVE  (\E p \in Policy : Abstract!Resolve(p)) \/ UNCHANGED AVars
  <2>1. at \in Deciding /\ UNCHANGED <<crit, chain>> /\ Running /\ pc # "nft"
    BY <1>3 DEF DecidingStep, Running
  <2>2. PICK q \in Policy : q = Call.policy
    BY <1>t, <2>1, CurrentPolicy
  <2>3. CASE Changed(route, pstatus[Call.policy])
    <3>1. /\ pc' = "nft" /\ at' = at /\ Running'
          /\ pstatus' = [pstatus EXCEPT ![q] = route]
      BY <1>3, <2>2, <2>3 DEF DecidingStep, Decide, Enter, Running
    <3>2. UNCHANGED <<AUp, chain>> /\ APending = {} /\ APending' = {q}
      BY <2>1, <2>2, <3>1, SameAUp DEF APending, Call
    <3>3. /\ ARecord = [p \in Policy |-> pstatus[p]]
          /\ ARecord' = [p \in Policy |-> pstatus'[p]]
      BY <2>1, <3>1 DEF ARecord
    <3>4. ARecord'[q] = route /\ ARecord' = [ARecord EXCEPT ![q] = route]
      BY <1>t, <3>1, <3>3
    <3>5. route \in Route \ {ARecord[q]}
      BY <1>3, <2>2, <2>3, <3>3 DEF Justified, Changed
    <3>6. Targets(route) \subseteq AUp[q]
      BY <1>3, <2>1, <2>2 DEF Justified, AUp, Targets
    <3>7. Abstract!Resolve(q)
      BY <3>2, <3>4, <3>5, <3>6 DEF Abstract!Resolve, AUp, ARecord, APending
    <3>. QED  BY <3>7
  <2>4. CASE ~Changed(route, pstatus[Call.policy])
    <3>1. pc' = "config" /\ UNCHANGED pstatus /\ Running'
      BY <1>3, <2>4 DEF DecidingStep, Decide, NextCall, Running
    <3>. QED  BY <2>1, <3>1, SameAUp, SameARecord DEF AVars, APending
  <2>. QED  BY <2>3, <2>4
<1>4. CASE NftApply
  <2>1. /\ pc = "nft" /\ pc' = "config" /\ Running /\ Running' /\ UNCHANGED <<crit, pstatus>>
        /\ chain' = [chain EXCEPT ![Call.policy] = loc.route]
    BY <1>4 DEF NftApply, NextCall, Running
  <2>2. PICK q \in Policy : q = Call.policy
    <3>1. at \in Deciding
      BY <2>1 DEF TypeOK, ControlOK, Waiting
    <3>. QED  BY <1>t, <3>1, CurrentPolicy
  <2>3. ARecord[q] = loc.route
    BY <2>1, <2>2 DEF ARecord, Recorded
  <2>4. UNCHANGED <<AUp, ARecord>> /\ APending = {q} /\ APending' = {}
    BY <2>1, <2>2, SameAUp, SameARecord DEF APending
  <2>5. Abstract!Install(q)
    BY <2>1, <2>2, <2>3, <2>4 DEF Abstract!Install, AUp, ARecord, APending
  <2>. QED  BY <2>5
<1>5. CASE Start
  <2>1. /\ ~Running /\ Running' /\ pc = "stopped" /\ pc' = "config" /\ UNCHANGED chain
        /\ crit' = [c \in CritFile |-> "absent"] /\ pstatus' = [p \in Policy |-> Unset]
    BY <1>5 DEF Start, StatusCleared, Running
  <2>2. AUp' = [p \in Policy |-> {}] /\ AUp = [p \in Policy |-> {}]
    BY <2>1, NoVerdicts DEF AUp
  <2>3. ARecord' = [p \in Policy |-> Unset] /\ ARecord = [p \in Policy |-> Unset]
    BY <2>1 DEF ARecord
  <2>. QED  BY <2>1, <2>2, <2>3 DEF AVars, APending
<1>6. CASE HandleTerm
  <2>1. ~Running' /\ pc' = "stopped" /\ UNCHANGED chain
    BY <1>6 DEF HandleTerm, Running
  <2>2. AUp' = [p \in Policy |-> {}] /\ ARecord' = [p \in Policy |-> Unset] /\ APending' = {}
    BY <2>1 DEF AUp, ARecord, APending
  <2>3. Abstract!Restart
    BY <2>1, <2>2 DEF Abstract!Restart, AUp, ARecord, APending
  <2>. QED  BY <2>3
<1>7. CASE KillDuringNft \/ OrphanEnds
  BY <1>7 DEF KillDuringNft, OrphanEnds, Recorded
<1>8. CASE QuietStep
  <2>1. UNCHANGED <<crit, pstatus, chain, pc, at>> /\ (Running' <=> Running)
    BY <1>8 DEF QuietStep, Running
  <2>. QED  BY <2>1, SameAUp, SameARecord DEF AVars, APending, Call
<1>. QED  BY <1>1, <1>2, <1>3, <1>4, <1>5, <1>6, <1>7, <1>8, Steps

(* As long as no nft process outlives the daemon, the daemon implements    *)
(* PolicyRouting: every decision is for WANs judged up, is recorded and    *)
(* then installed, and a restart forgets the records but not the chains.   *)
THEOREM Implements ==
  ASSUME ~HardKill
  PROVE  Spec => Refines
<1>1. Init => Abstract!AInit
  BY DEF Init, Running, Abstract!AInit
<1>2. RecordedInv /\ [Next]_vars => [Abstract!ANext]_(Abstract!avars)
  <2>1. UNCHANGED AVars => UNCHANGED Abstract!avars
    BY DEF AVars, AUp, ARecord, APending, Abstract!avars
  <2>. QED  BY <2>1, RefinementStep DEF Abstract!ANext
<1>. QED  BY <1>1, <1>2, RecordedInvariant, PTL DEF Spec, Refines, Abstract!ASpec
=============================================================================

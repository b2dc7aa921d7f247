-------------------------- MODULE WanManagerProofs --------------------------
(* Theorems about wan-manager for any number of WANs and policies, any     *)
(* sourced configuration in which a policy's call follows its criteria,    *)
(* and any contents of the statistics file.                                *)
EXTENDS WanManager, TLAPS

(* What the elements of Config give: every call has a policy, a criteria   *)
(* call names a WAN, a family and a file of CritFile.                      *)
LEMMA CallTypes ==
  ASSUME NEW i \in Calls
  PROVE  /\ Config[i].policy \in Policy
         /\ i \notin Deciding => /\ Config[i].wan \in Wan
                                 /\ Config[i].family \in Family
                                 /\ File(Config[i]) \in CritFile
         /\ Config[i].op = "attribute" => Config[i].status \in Verdict
         /\ Config[i].op \in {"metric", "best_of"} => Config[i].stat \in StatName
         /\ Config[i].op = "specific_wan" => Config[i].wan \in Wan
<1>1. Config[i] \in CriteriaCall \cup PolicyCall
  BY ConfigAssumption DEF Calls
<1>2. CASE Config[i] \in CriteriaCall
  <2>1. i \notin Deciding
    BY <1>2 DEF CriteriaCall, Deciding, PolicyOp
  <2>2. File(Config[i]) \in CritFile
    BY <2>1 DEF CritFile
  <2>. QED  BY <1>2, <2>1, <2>2 DEF CriteriaCall
<1>3. CASE Config[i] \in PolicyCall
  <2>1. i \in Deciding
    BY <1>3 DEF PolicyCall, Deciding, PolicyOp
  <2>. QED  BY <1>3, <2>1 DEF PolicyCall
<1>. QED  BY <1>1, <1>2, <1>3

(* A statistic read from any statistics file is a number.                  *)
LEMMA StatInt ==
  ASSUME IsStatsFile(stats), NEW w, NEW s \in StatName
  PROVE  Stat(w, s) \in Int
BY DEF IsStatsFile, Stat, WanStats

LEMMA InitType == Init => TypeOK
<1>. SUFFICES ASSUME Init PROVE TypeOK
  OBVIOUS
<1>1. EnvOK
  BY EnvAssumption DEF Init, EnvOK, IsStatsFile
<1>2. FilesOK
  BY DEF Init, FilesOK, Route
<1>3. ControlOK
  BY ConfigAssumption DEF Init, ControlOK
<1>. QED  BY <1>1, <1>2, <1>3 DEF TypeOK

(* The two ways a policy call ends keep the types.                         *)
LEMMA DecideType ==
  ASSUME TypeOK, at \in Deciding, NEW route \in Route, Decide(route)
  PROVE  pstatus' \in [Policy -> Route] /\ ControlOK'
<1>1. at \in Calls /\ Call.policy \in Policy
  BY CallTypes DEF Deciding, Call
<1>2. at \in 1 .. Len(Config) /\ Len(Config) \in Nat
  BY <1>1, ConfigAssumption DEF Calls
<1>3. CASE pc' = "nft"
  BY <1>1, <1>3 DEF Decide, Enter, NextCall, TypeOK, FilesOK, ControlOK
<1>4. CASE pc' # "nft"
  BY <1>1, <1>2, <1>4 DEF Decide, Enter, NextCall, TypeOK, FilesOK, ControlOK
<1>. QED  BY <1>3, <1>4

(* The actions, one by one.                                                *)
LEMMA ActionCases ==
  ASSUME [Next]_vars
  PROVE  \/ CriteriaAlwaysUp \/ CriteriaUpRead \/ CriteriaUpWrite
         \/ CriteriaAttribute \/ CriteriaMetric
         \/ ConnectivityStart \/ ConnectivityTest \/ ConnectivityProbe \/ ConnectivityWrite
         \/ PolicySpecificWan
         \/ BestOfStart \/ BestOfCompare \/ BestOfFinish
         \/ BalanceStart \/ BalanceTotal \/ BalanceWeigh \/ BalanceFinish
         \/ NftApply \/ EndRound \/ WaitTest \/ Arm \/ Wake
         \/ UNCHANGED vars \/ Start \/ HandleTerm \/ KillDuringNft \/ OrphanEnds
         \/ WriteStats \/ NetChange
BY DEF Next, Step, NftRetry

(* The probing loop keeps to its locals.                                   *)
LEMMA ConnectivityType ==
  ASSUME TypeOK, ConnectivityStart \/ ConnectivityTest \/ ConnectivityProbe
  PROVE  ControlOK'
<1>1. CASE ConnectivityStart
  <2>1. [left |-> Probes, fails |-> 0, verdict |-> "down"] \in TestLocals
    BY EnvAssumption DEF TestLocals, Verdict
  <2>. QED  BY <1>1, <2>1 DEF ConnectivityStart, AtCall, Enter, ControlOK, Call
<1>2. CASE ConnectivityTest
  <2>1. at \in Calls /\ Call.op = "connectivity" /\ loc \in TestLocals
    BY <1>2 DEF ConnectivityTest, TypeOK, ControlOK, Waiting
  <2>. QED  BY <1>2, <2>1 DEF ConnectivityTest, Enter, ControlOK, Call
<1>3. CASE ConnectivityProbe
  <2>1. at \in Calls /\ Call.op = "connectivity" /\ loc \in TestLocals /\ loc.left # 0
    BY <1>3 DEF ConnectivityProbe, TypeOK, ControlOK, Waiting
  <2>. DEFINE fails == loc.fails + (IF Answers(Call) THEN 0 ELSE 1)
  <2>2. fails \in Nat /\ 0 \in 0 .. Probes /\ loc.left - 1 \in 0 .. Probes
    BY <2>1, EnvAssumption DEF TestLocals
  <2>3. pc' = "test" /\ UNCHANGED at
    BY <1>3 DEF ConnectivityProbe, Enter
  <2>4. \/ loc' = [loc EXCEPT !.left = @ - 1]
        \/ loc' = [left |-> 0, fails |-> fails, verdict |-> "down"]
        \/ loc' = [left |-> loc.left - 1, fails |-> fails, verdict |-> "up"]
    BY <1>3 DEF ConnectivityProbe, Enter
  <2>. HIDE DEF fails
  <2>5. loc' \in TestLocals
    BY <2>1, <2>2, <2>4 DEF TestLocals, Verdict
  <2>. QED  BY <2>1, <2>3, <2>5 DEF ControlOK, Call
<1>. QED  BY <1>1, <1>2, <1>3

(* One turn of a loop or a jump inside the daemon keeps the types.         *)
LEMMA StepType == TypeOK /\ [Next]_vars => TypeOK'
<1>. SUFFICES ASSUME TypeOK, [Next]_vars PROVE TypeOK'
  OBVIOUS
<1>. USE DEF TypeOK
<1>0. Len(Config) \in Nat /\ Calls = 1 .. Len(Config) /\ at \in 1 .. Len(Config) + 1
  BY ConfigAssumption DEF ControlOK, Calls, Deciding
<1>c. at \in Calls => /\ Call.policy \in Policy
                      /\ Call.op \notin PolicyOp => /\ Call.wan \in Wan
                                                    /\ File(Call) \in CritFile
                      /\ Call.op \in {"metric", "best_of"} => Call.stat \in StatName
  BY CallTypes DEF Call, Deciding
<1>d. at \in Calls /\ Call.op \in PolicyOp => at \in Deciding
  BY DEF Call, Deciding
<1>1. ASSUME UNCHANGED <<stats, exists, netUp, reach, notified>> PROVE EnvOK'
  BY <1>1 DEF EnvOK, IsStatsFile
<1>v. ASSUME NEW v \in Verdict, WriteVerdict(v), at \in Calls, Call.op \notin PolicyOp,
             UNCHANGED <<pstatus, chain, orphans>>
      PROVE  FilesOK'
  BY <1>v, <1>c DEF WriteVerdict, FilesOK
<1>n. ASSUME NextCall, at \in Calls PROVE ControlOK'
  BY <1>n, <1>0 DEF NextCall, ControlOK
<1>2. CASE CriteriaAlwaysUp
  BY <1>2, <1>1, <1>v, <1>n DEF CriteriaAlwaysUp, AtCall, env, Verdict, PolicyOp
<1>3. CASE CriteriaUpRead
  <2>1. EnvOK' /\ FilesOK'
    BY <1>3, <1>1 DEF CriteriaUpRead, env, FilesOK
  <2>2. ControlOK'
    <3>1. Offline(Call.wan, Call.family) \in BOOLEAN
      BY <1>3, <1>c DEF CriteriaUpRead, AtCall, PolicyOp, Offline, EnvOK, IsStatsFile, WanStats
    <3>. QED  BY <1>3, <3>1 DEF CriteriaUpRead, AtCall, Enter, ControlOK, Call
  <2>. QED  BY <2>1, <2>2
<1>4. CASE CriteriaUpWrite
  <2>1. at \in Calls /\ Call.op = "up"
    BY <1>4 DEF CriteriaUpWrite, ControlOK, Waiting
  <2>. QED  BY <1>4, <2>1, <1>1, <1>v, <1>n DEF CriteriaUpWrite, env, Verdict, PolicyOp, BothUp
<1>5. CASE CriteriaAttribute
  <2>1. Call.status \in Verdict
    BY <1>5, CallTypes DEF CriteriaAttribute, AtCall, Call
  <2>. QED  BY <1>5, <2>1, <1>1, <1>v, <1>n DEF CriteriaAttribute, AtCall, env, PolicyOp
<1>6. CASE CriteriaMetric
  <2>1. MetricVerdict(Call) \in Verdict
    BY DEF MetricVerdict, Verdict
  <2>. QED  BY <1>6, <2>1, <1>1, <1>v, <1>n DEF CriteriaMetric, AtCall, env, PolicyOp
<1>7. CASE ConnectivityStart \/ ConnectivityTest \/ ConnectivityProbe
  BY <1>7, <1>1, ConnectivityType
     DEF ConnectivityStart, ConnectivityTest, ConnectivityProbe, env, FilesOK
<1>27. CASE ConnectivityWrite
  <2>1. at \in Calls /\ Call.op = "connectivity" /\ loc.verdict \in Verdict
    BY <1>27 DEF ConnectivityWrite, ControlOK, TestLocals, Waiting
  <2>2. PICK v \in Verdict : WriteVerdict(v)
    BY <1>27, <2>1 DEF ConnectivityWrite, Verdict
  <2>. QED  BY <1>27, <2>1, <2>2, <1>1, <1>v, <1>n DEF ConnectivityWrite, env, PolicyOp
<1>8. CASE PolicySpecificWan
  <2>1. at \in Deciding /\ Call.wan \in Wan
    BY <1>8, <1>d, CallTypes DEF PolicySpecificWan, AtCall, PolicyOp, Call
  <2>2. Jump(Call.wan) \in Route /\ Return \in Route
    BY <2>1 DEF Jump, Route
  <2>3. pstatus' \in [Policy -> Route] /\ ControlOK'
    <3>. DEFINE r == IF WanUp(Call.policy, Call.wan) THEN Jump(Call.wan) ELSE Return
    <3>1. r \in Route /\ Decide(r)
      BY <1>8, <2>2 DEF PolicySpecificWan
    <3>. HIDE DEF r
    <3>. QED  BY <2>1, <3>1, DecideType
  <2>. QED  BY <1>8, <2>3, <1>1 DEF PolicySpecificWan, env, FilesOK
<1>9. CASE BestOfStart
  <2>1. UpWans(Call.policy) \in SUBSET Wan
    BY CallTypes DEF UpWans, PolicyWans, CritFile, File
  <2>2. ControlOK'
    BY <1>9, <2>1 DEF BestOfStart, AtCall, Enter, ControlOK, PickLocals, Call
  <2>. QED  BY <1>9, <2>2, <1>1 DEF BestOfStart, env, FilesOK
<1>10. CASE BestOfCompare
  <2>1. at \in Calls /\ Call.op = "best_of" /\ loc \in PickLocals
    BY <1>10 DEF BestOfCompare, ControlOK, Waiting
  <2>2. PICK w \in loc.todo : LET stat  == Stat(w, Call.stat)
                                  skip  == Call.stat = "latency" /\ stat \in {0, -1}
                                  takes == ~skip /\ (loc.best = NoWan \/ Holds(Call.cmp, stat, loc.stat))
                              IN  Enter("pick", [todo |-> loc.todo \ {w},
                                                 best |-> IF takes THEN w ELSE loc.best,
                                                 stat |-> IF takes THEN stat ELSE loc.stat])
    BY <1>10 DEF BestOfCompare
  <2>3. Stat(w, Call.stat) \in Int /\ w \in Wan
    BY <2>1, <1>c, StatInt DEF EnvOK, PickLocals
  <2>4. loc' \in PickLocals
    BY <2>1, <2>2, <2>3 DEF Enter, PickLocals
  <2>5. ControlOK'
    BY <2>1, <2>2, <2>4 DEF Enter, ControlOK, Call
  <2>. QED  BY <1>10, <2>5, <1>1 DEF BestOfCompare, env, FilesOK
<1>11. CASE BestOfFinish
  <2>1. at \in Deciding /\ loc \in PickLocals
    BY <1>11, <1>d DEF BestOfFinish, ControlOK, PolicyOp, Waiting
  <2>2. BestRoute(loc.best) \in Route
    BY <2>1 DEF BestRoute, PickLocals, Route, Jump
  <2>3. pstatus' \in [Policy -> Route] /\ ControlOK'
    BY <1>11, <2>1, <2>2, DecideType DEF BestOfFinish
  <2>. QED  BY <1>11, <2>3, <1>1 DEF BestOfFinish, env, FilesOK
<1>12. CASE BalanceStart
  <2>1. UpWans(Call.policy) \in SUBSET Wan
    BY CallTypes DEF UpWans, PolicyWans, CritFile, File
  <2>2. ControlOK'
    BY <1>12, <2>1 DEF BalanceStart, AtCall, Enter, ControlOK, BalanceLocals, Call
  <2>. QED  BY <1>12, <2>2, <1>1 DEF BalanceStart, env, FilesOK
<1>13. CASE BalanceTotal
  <2>1. at \in Calls /\ Call.op = "balance" /\ loc \in BalanceLocals
    BY <1>13 DEF BalanceTotal, ControlOK, Waiting
  <2>2. UpWans(Call.policy) \in SUBSET Wan
    BY CallTypes DEF UpWans, PolicyWans, CritFile, File
  <2>3. ASSUME NEW w \in loc.todo PROVE Stat(w, "latency") \in Int
    BY StatInt DEF EnvOK, StatName
  <2>4. loc' \in BalanceLocals
    <3>1. ASSUME NEW w \in loc.todo, Enter("total", [loc EXCEPT !.todo = @ \ {w}, !.latency = @ + Stat(w, "latency")])
          PROVE  loc' \in BalanceLocals
      <4>1. loc.latency + Stat(w, "latency") \in Int
        BY <2>1, <2>3 DEF BalanceLocals
      <4>. QED  BY <2>1, <3>1, <4>1 DEF Enter, BalanceLocals
    <3>2. ASSUME Enter("weigh", [loc EXCEPT !.todo = UpWans(Call.policy)])
          PROVE  loc' \in BalanceLocals
      BY <2>1, <2>2, <3>2 DEF Enter, BalanceLocals
    <3>. QED  BY <1>13, <3>1, <3>2 DEF BalanceTotal
  <2>5. ControlOK'
    BY <1>13, <2>1, <2>4 DEF BalanceTotal, Enter, ControlOK, Call
  <2>. QED  BY <1>13, <2>5, <1>1 DEF BalanceTotal, env, FilesOK
<1>14. CASE BalanceWeigh
  <2>1. at \in Calls /\ Call.op = "balance" /\ loc \in BalanceLocals
    BY <1>14 DEF BalanceWeigh, ControlOK, Waiting
  <2>2. ASSUME NEW w \in loc.todo PROVE w \in Wan /\ BalanceWeight(w) \in Int
    <3>1. w \in Wan
      BY <2>1 DEF BalanceLocals
    <3>2. Stat(w, "latency") \in Int /\ Stat(w, "available_bandwidth") \in Int
      BY StatInt DEF EnvOK, StatName
    <3>3. SettingsWeight[Call.policy][w] \in Int
      BY <2>1, <3>1, <1>c, EnvAssumption
    <3>. QED  BY <2>1, <3>1, <3>2, <3>3 DEF BalanceWeight, BalanceLocals
  <2>3. loc' \in BalanceLocals
    <3>1. PICK w \in loc.todo :
            \/ Enter("weigh", [loc EXCEPT !.todo = @ \ {w}])
            \/ Enter("weigh", [loc EXCEPT !.todo = @ \ {w}, !.total = @ + BalanceWeight(w),
                                !.ranges = Append(@, [wan |-> w, lo |-> loc.total,
                                                      hi |-> RangeEnd(BalanceWeight(w), loc.total)])])
      BY <1>14 DEF BalanceWeigh
    <3>2. [wan |-> w, lo |-> loc.total, hi |-> RangeEnd(BalanceWeight(w), loc.total)] \in Range
      BY <2>1, <2>2 DEF Range, RangeEnd, BalanceLocals
    <3>3. /\ loc.todo \ {w} \in SUBSET Wan
          /\ loc.total + BalanceWeight(w) \in Int
          /\ Append(loc.ranges, [wan |-> w, lo |-> loc.total,
                                 hi |-> RangeEnd(BalanceWeight(w), loc.total)]) \in Seq(Range)
      BY <2>1, <2>2, <3>2 DEF BalanceLocals
    <3>4. CASE Enter("weigh", [loc EXCEPT !.todo = @ \ {w}])
      BY <2>1, <3>3, <3>4 DEF Enter, BalanceLocals
    <3>5. CASE ~Enter("weigh", [loc EXCEPT !.todo = @ \ {w}])
      BY <2>1, <3>1, <3>3, <3>5 DEF Enter, BalanceLocals
    <3>. QED  BY <3>4, <3>5
  <2>4. ControlOK'
    BY <1>14, <2>1, <2>3 DEF BalanceWeigh, Enter, ControlOK, Call
  <2>. QED  BY <1>14, <2>4, <1>1 DEF BalanceWeigh, env, FilesOK
<1>15. CASE BalanceFinish
  <2>1. at \in Deciding /\ loc \in BalanceLocals
    BY <1>15, <1>d DEF BalanceFinish, ControlOK, PolicyOp, Waiting
  <2>2. BalanceRoute(loc.ranges) \in Route
    BY <2>1 DEF BalanceRoute, BalanceLocals, Route, Balance
  <2>3. pstatus' \in [Policy -> Route] /\ ControlOK'
    BY <1>15, <2>1, <2>2, DecideType DEF BalanceFinish
  <2>. QED  BY <1>15, <2>3, <1>1 DEF BalanceFinish, env, FilesOK
<1>16. CASE NftApply
  <2>1. at \in Calls /\ loc \in [route : Route]
    BY <1>16 DEF NftApply, ControlOK, Deciding, Waiting
  <2>. QED  BY <1>16, <2>1, <1>1, <1>n DEF NftApply, env, FilesOK
<1>17. CASE EndRound \/ WaitTest
  BY <1>17, <1>1, <1>0 DEF EndRound, WaitTest, env, FilesOK, ControlOK, Waiting
<1>18. CASE Arm
  BY <1>18 DEF Arm, env, FilesOK, ControlOK, Waiting, EnvOK, IsStatsFile
<1>19. CASE Wake
  <2>1. ControlOK'
    BY <1>19, <1>0 DEF Wake, ControlOK, Waiting
  <2>. QED  BY <1>19, <2>1 DEF Wake, env, FilesOK, EnvOK, IsStatsFile
<1>20. CASE UNCHANGED vars
  BY <1>20, <1>1 DEF vars, FilesOK, ControlOK, Call
<1>21. CASE Start
  <2>1. FilesOK'
    BY <1>21 DEF Start, StatusCleared, FilesOK, Route
  <2>. QED  BY <1>21, <2>1, <1>1, <1>0 DEF Start, env, ControlOK
<1>22. CASE HandleTerm
  <2>1. EnvOK' /\ FilesOK'
    BY <1>22 DEF HandleTerm, env, FilesOK, EnvOK, IsStatsFile
  <2>2. ControlOK'
    BY <1>22, <1>0 DEF HandleTerm, ControlOK
  <2>. QED  BY <2>1, <2>2
<1>23. CASE KillDuringNft
  <2>1. at \in Calls /\ loc \in [route : Route]
    BY <1>23 DEF KillDuringNft, ControlOK, Deciding, Waiting
  <2>2. FilesOK'
    BY <1>23, <2>1, <1>c DEF KillDuringNft, FilesOK
  <2>. QED  BY <1>23, <2>2, <1>1, <1>0 DEF KillDuringNft, env, ControlOK
<1>24. CASE OrphanEnds
  <2>1. FilesOK'
    BY <1>24 DEF OrphanEnds, FilesOK
  <2>. QED  BY <1>24, <2>1, <1>1 DEF OrphanEnds, env, ControlOK, Call
<1>25. CASE WriteStats
  <2>1. EnvOK'
    BY <1>25, EnvAssumption DEF WriteStats, EnvOK
  <2>. QED  BY <1>25, <2>1 DEF WriteStats, FilesOK, ControlOK, Call
<1>26. CASE NetChange
  BY <1>26, EnvAssumption DEF NetChange, EnvOK, IsStatsFile, FilesOK, ControlOK, Call
<1>. HIDE DEF TypeOK
<1>. QED
  BY <1>2, <1>3, <1>4, <1>5, <1>6, <1>7, <1>8, <1>9, <1>10, <1>11, <1>12, <1>13, <1>14, <1>15,
     <1>27, <1>16, <1>17, <1>18, <1>19, <1>20, <1>21, <1>22, <1>23, <1>24, <1>25, <1>26, ActionCases

(* The types hold in every reachable state: in particular a chain that     *)
(* jumps always names a WAN, and no numgen map is empty.                   *)
THEOREM TypeCorrect == Spec => []TypeOK
BY InitType, StepType, PTL DEF Spec
=============================================================================

-------------------------- MODULE WanRoutingProofs --------------------------
(* What wan-manager's decisions rest on, for any configuration: the status *)
(* files agree with the chains and with the verdicts, chains only start to *)
(* send sessions to WANs that are up, the ranges of a balanced chain tile  *)
(* the numbers nft draws, and the daemon implements PolicyRouting.         *)
EXTENDS WanManagerProofs

-----------------------------------------------------------------------------
(* The order of the calls: a policy has one policy call, and its criteria  *)
(* come before it.                                                         *)
LEMMA OnePerPolicy ==
  ASSUME NEW i \in Deciding, NEW j \in Deciding, Config[i].policy = Config[j].policy
  PROVE  i = j
<1>1. i \in Calls /\ j \in Calls /\ Calls \subseteq Int
  BY ConfigAssumption DEF Deciding, Calls
<1>2. i <= j /\ j <= i
  BY <1>1, ConfigAssumption
<1>. QED  BY <1>1, <1>2

LEMMA CriteriaFirst ==
  ASSUME NEW i \in Calls, i \notin Deciding, NEW j \in Deciding,
         Config[i].policy = Config[j].policy
  PROVE  i < j
<1>1. j \in Calls /\ Calls \subseteq Int
  BY ConfigAssumption DEF Deciding, Calls
<1>2. i <= j /\ i # j
  BY ConfigAssumption
<1>. QED  BY <1>1, <1>2

(* What a verdict file changes: nothing for another policy.                *)
LEMMA SameVerdicts ==
  ASSUME UNCHANGED crit, NEW p, NEW w
  PROVE  WanUp(p, w)' <=> WanUp(p, w)
BY DEF WanUp, WanUpByFamily

LEMMA OtherVerdicts ==
  ASSUME FilesOK, at \in Calls, at \notin Deciding, NEW v, WriteVerdict(v),
         NEW p, p # Call.policy, NEW w
  PROVE  WanUp(p, w)' <=> WanUp(p, w)
<1>1. ASSUME NEW c \in CritFile, c.policy = p PROVE crit'[c] = crit[c]
  <2>1. File(Call).policy = Call.policy
    BY DEF File
  <2>. QED  BY <1>1, <2>1 DEF FilesOK, WriteVerdict
<1>2. ASSUME NEW f PROVE WanUpByFamily(p, w, f)' <=> WanUpByFamily(p, w, f)
  <2>1. {c \in CritFile : c.policy = p /\ c.wan = w /\ c.family = f /\ crit'[c] # "absent"}
        = {c \in CritFile : c.policy = p /\ c.wan = w /\ c.family = f /\ crit[c] # "absent"}
    BY <1>1
  <2>2. \A c \in {d \in CritFile : d.policy = p /\ d.wan = w /\ d.family = f /\ crit[d] # "absent"} :
           crit'[c] = crit[c]
    BY <1>1
  <2>. QED  BY <2>1, <2>2 DEF WanUpByFamily
<1>. QED  BY <1>2 DEF WanUp

-----------------------------------------------------------------------------
LEMMA AppendElement ==
  ASSUME NEW S, NEW s \in Seq(S), NEW e, NEW i \in DOMAIN Append(s, e)
  PROVE  Append(s, e)[i] = e \/ (i \in DOMAIN s /\ Append(s, e)[i] = s[i])
<1>1. s \in Seq(S \cup {e}) /\ e \in S \cup {e}
  OBVIOUS
<1>2. DOMAIN Append(s, e) = 1 .. Len(s) + 1 /\ DOMAIN s = 1 .. Len(s)
  BY <1>1
<1>. QED  BY <1>1, <1>2

(* Every WAN the daemon still considers, and every WAN it has decided for, *)
(* is up for the current policy.                                           *)
JudgedUp ==
  /\ pc = "pick" => /\ \A w \in loc.todo : WanUp(Call.policy, w)
                    /\ loc.best # NoWan => WanUp(Call.policy, loc.best)
  /\ pc \in {"total", "weigh"} =>
       /\ \A w \in loc.todo : WanUp(Call.policy, w)
       /\ \A i \in DOMAIN loc.ranges : WanUp(Call.policy, loc.ranges[i].wan)
  /\ pc = "nft" => \A w \in Targets(loc.route) : WanUp(Call.policy, w)

(* A decision the current call may take.                                   *)
Justified(route) ==
  /\ route \in Route
  /\ route.kind # "unset"
  /\ \A w \in Targets(route) : WanUp(Call.policy, w)
  /\ Call.op = "specific_wan" /\ WanUp(Call.policy, Call.wan) => route = Jump(Call.wan)

(* The steps of the daemon by what they do: write a verdict, go on inside  *)
(* a function, decide, or wait.                                            *)
JudgingStep ==
  /\ at \in Calls /\ at \notin Deciding
  /\ pc \in {"config", "probe", "test"}
  /\ \E v \in Verdict : WriteVerdict(v)
  /\ NextCall
  /\ UNCHANGED <<pstatus, chain, orphans>>

InnerStep ==
  /\ at \in Calls
  /\ pc \in {"config", "test", "ping", "pick", "total", "weigh"}
  /\ pc' \in {"probe", "test", "ping", "pick", "total", "weigh"}
  /\ UNCHANGED <<crit, pstatus, chain, at, orphans>>

DecidingStep(route) ==
  /\ at \in Deciding
  /\ pc \in {"config", "pick", "weigh"}
  /\ Decide(route)
  /\ UNCHANGED <<crit, chain, orphans>>

WaitingStep ==
  /\ at = Len(Config) + 1
  /\ pc \in Waiting \cup {"config"}
  /\ pc' \in Waiting
  /\ UNCHANGED <<crit, pstatus, chain, at, loc, orphans>>

LEMMA JudgingActions ==
  ASSUME TypeOK,
         \/ CriteriaAlwaysUp \/ CriteriaUpWrite \/ CriteriaAttribute
         \/ CriteriaMetric \/ ConnectivityWrite
  PROVE  JudgingStep
<1>1. ASSUME at \in Calls, Call.op \notin PolicyOp PROVE at \notin Deciding
  BY <1>1 DEF Call, Deciding
<1>2. CASE CriteriaAlwaysUp
  BY <1>1, <1>2 DEF CriteriaAlwaysUp, JudgingStep, AtCall, PolicyOp, Verdict
<1>3. CASE CriteriaUpWrite
  <2>1. at \in Calls /\ Call.op = "up"
    BY <1>3 DEF CriteriaUpWrite, TypeOK, ControlOK, Waiting
  <2>. QED  BY <1>1, <1>3, <2>1 DEF CriteriaUpWrite, JudgingStep, PolicyOp, Verdict, BothUp
<1>4. CASE CriteriaAttribute
  <2>1. Call.status \in Verdict
    BY <1>4, CallTypes DEF CriteriaAttribute, AtCall, Call
  <2>. QED  BY <1>1, <1>4, <2>1 DEF CriteriaAttribute, JudgingStep, AtCall, PolicyOp
<1>5. CASE CriteriaMetric
  <2>1. MetricVerdict(Call) \in Verdict
    BY DEF MetricVerdict, Verdict
  <2>. QED  BY <1>1, <1>5, <2>1 DEF CriteriaMetric, JudgingStep, AtCall, PolicyOp
<1>6. CASE ConnectivityWrite
  <2>1. at \in Calls /\ Call.op = "connectivity" /\ loc.verdict \in Verdict
    BY <1>6 DEF ConnectivityWrite, TypeOK, ControlOK, TestLocals, Waiting
  <2>. QED  BY <1>1, <1>6, <2>1 DEF ConnectivityWrite, JudgingStep, PolicyOp, Verdict
<1>. QED  BY <1>2, <1>3, <1>4, <1>5, <1>6

LEMMA UpWansUp ==
  ASSUME NEW p, NEW w \in UpWans(p)
  PROVE  WanUp(p, w)
BY DEF UpWans

(* The loops of the policy functions only consider WANs that are up.       *)
LEMMA InnerActions ==
  ASSUME TypeOK, JudgedUp,
         \/ CriteriaUpRead \/ ConnectivityStart \/ ConnectivityTest \/ ConnectivityProbe
         \/ BestOfStart \/ BestOfCompare
         \/ BalanceStart \/ BalanceTotal \/ BalanceWeigh
  PROVE  InnerStep /\ JudgedUp'
<1>1. ASSUME UNCHANGED <<crit, at>>, NEW w
      PROVE  WanUp(Call.policy, w)' <=> WanUp(Call.policy, w)
  BY <1>1 DEF WanUp, WanUpByFamily, Call
<1>2. CASE CriteriaUpRead
  BY <1>2 DEF CriteriaUpRead, AtCall, Enter, InnerStep, JudgedUp
<1>8. CASE ConnectivityStart \/ ConnectivityTest \/ ConnectivityProbe
  <2>1. at \in Calls /\ pc \in {"config", "test", "ping"}
    BY <1>8 DEF ConnectivityStart, AtCall, ConnectivityTest, ConnectivityProbe, TypeOK,
                ControlOK, Waiting
  <2>2. pc' \in {"test", "ping"} /\ UNCHANGED <<crit, pstatus, chain, at, orphans>>
    BY <1>8 DEF ConnectivityStart, ConnectivityTest, ConnectivityProbe, Enter
  <2>. QED  BY <2>1, <2>2 DEF InnerStep, JudgedUp
<1>3. CASE BestOfStart
  <2>1. /\ pc' = "pick" /\ UNCHANGED <<crit, at>>
        /\ loc' = [todo |-> UpWans(Call.policy), best |-> NoWan, stat |-> -1]
    BY <1>3 DEF BestOfStart, Enter
  <2>2. JudgedUp'
    BY <2>1, <1>1, UpWansUp DEF JudgedUp
  <2>. QED  BY <1>3, <2>1, <2>2 DEF BestOfStart, AtCall, Enter, InnerStep
<1>4. CASE BestOfCompare
  <2>1. PICK w \in loc.todo :
          /\ pc' = "pick" /\ UNCHANGED <<crit, at>>
          /\ loc'.todo = loc.todo \ {w}
          /\ loc'.best \in {w, loc.best}
    BY <1>4 DEF BestOfCompare, Enter
  <2>2. pc = "pick" /\ at \in Calls
    BY <1>4 DEF BestOfCompare, TypeOK, ControlOK, Waiting
  <2>3. JudgedUp'
    BY <2>1, <2>2, <1>1 DEF JudgedUp
  <2>. QED  BY <1>4, <2>1, <2>2, <2>3 DEF BestOfCompare, InnerStep
<1>5. CASE BalanceStart
  <2>1. /\ pc' \in {"total", "weigh"} /\ UNCHANGED <<crit, at>>
        /\ loc' = [todo |-> UpWans(Call.policy), latency |-> 0, total |-> 0, ranges |-> << >>]
    BY <1>5 DEF BalanceStart, Enter
  <2>2. DOMAIN loc'.ranges = {}
    BY <2>1
  <2>3. JudgedUp'
    BY <2>1, <2>2, <1>1, UpWansUp DEF JudgedUp
  <2>. QED  BY <1>5, <2>1, <2>3 DEF BalanceStart, AtCall, Enter, InnerStep
<1>6. CASE BalanceTotal
  <2>1. pc = "total" /\ at \in Calls /\ loc \in BalanceLocals
    BY <1>6 DEF BalanceTotal, TypeOK, ControlOK, Waiting
  <2>2. /\ pc' \in {"total", "weigh"} /\ UNCHANGED <<crit, at>>
        /\ loc'.ranges = loc.ranges
        /\ loc'.todo \subseteq loc.todo \/ loc'.todo = UpWans(Call.policy)
    BY <1>6, <2>1 DEF BalanceTotal, Enter, BalanceLocals
  <2>3. JudgedUp'
    BY <2>1, <2>2, <1>1, UpWansUp DEF JudgedUp
  <2>. QED  BY <1>6, <2>1, <2>2, <2>3 DEF BalanceTotal, InnerStep
<1>7. CASE BalanceWeigh
  <2>1. pc = "weigh" /\ at \in Calls /\ loc \in BalanceLocals
    BY <1>7 DEF BalanceWeigh, TypeOK, ControlOK, Waiting
  <2>2. PICK w \in loc.todo :
          /\ pc' = "weigh" /\ UNCHANGED <<crit, at>>
          /\ loc'.todo = loc.todo \ {w}
          /\ \E lo, hi :
               loc'.ranges \in {loc.ranges, Append(loc.ranges, [wan |-> w, lo |-> lo, hi |-> hi])}
    BY <1>7, <2>1 DEF BalanceWeigh, Enter, BalanceLocals
  <2>3. ASSUME NEW i \in DOMAIN loc'.ranges
        PROVE  loc'.ranges[i].wan = w \/ (i \in DOMAIN loc.ranges /\ loc'.ranges[i] = loc.ranges[i])
    <3>1. loc.ranges \in Seq(Range)
      BY <2>1 DEF BalanceLocals
    <3>2. PICK lo, hi :
            loc'.ranges \in {loc.ranges, Append(loc.ranges, [wan |-> w, lo |-> lo, hi |-> hi])}
      BY <2>2
    <3>3. CASE loc'.ranges = loc.ranges
      BY <3>3
    <3>4. CASE loc'.ranges = Append(loc.ranges, [wan |-> w, lo |-> lo, hi |-> hi])
      BY <3>1, <3>4, AppendElement
    <3>. QED  BY <3>2, <3>3, <3>4
  <2>4. JudgedUp'
    BY <2>1, <2>2, <2>3, <1>1 DEF JudgedUp
  <2>. QED  BY <1>7, <2>1, <2>2, <2>4 DEF BalanceWeigh, InnerStep
<1>. QED  BY <1>2, <1>3, <1>4, <1>5, <1>6, <1>7, <1>8

(* Each policy function takes a justified decision.                        *)
LEMMA DecidingActions ==
  ASSUME TypeOK, JudgedUp, PolicySpecificWan \/ BestOfFinish \/ BalanceFinish
  PROVE  \E route : Justified(route) /\ DecidingStep(route)
<1>d. at \in Calls /\ Call.op \in PolicyOp => at \in Deciding
  BY DEF Call, Deciding
<1>1. CASE PolicySpecificWan
  <2>. DEFINE r == IF WanUp(Call.policy, Call.wan) THEN Jump(Call.wan) ELSE Return
  <2>1. at \in Deciding /\ Call.wan \in Wan /\ pc = "config"
    BY <1>1, <1>d, CallTypes DEF PolicySpecificWan, AtCall, PolicyOp, Call
  <2>2. r \in Route /\ r.kind # "unset"
    BY <2>1 DEF Jump, Return, Route
  <2>3. \A w \in Targets(r) : WanUp(Call.policy, w)
    <3>1. Targets(Return) = {} /\ Targets(Jump(Call.wan)) \subseteq {Call.wan}
      BY WanAssumption DEF Targets, Return, Jump, NoWan
    <3>. QED  BY <3>1
  <2>4. Justified(r)
    BY <2>2, <2>3 DEF Justified
  <2>5. DecidingStep(r)
    BY <1>1, <2>1 DEF PolicySpecificWan, DecidingStep
  <2>. QED  BY <2>4, <2>5
<1>2. CASE BestOfFinish
  <2>1. at \in Deciding /\ loc \in PickLocals /\ pc = "pick" /\ Call.op = "best_of"
    BY <1>2, <1>d DEF BestOfFinish, TypeOK, ControlOK, PolicyOp, Waiting
  <2>2. BestRoute(loc.best) \in Route /\ BestRoute(loc.best).kind # "unset"
    BY <2>1 DEF BestRoute, PickLocals, Route, Jump, Return
  <2>3. \A w \in Targets(BestRoute(loc.best)) : WanUp(Call.policy, w)
    <3>1. Targets(Return) = {} /\ Targets(Jump(loc.best)) \subseteq {loc.best}
      BY WanAssumption DEF Targets, Return, Jump, NoWan
    <3>. QED  BY <2>1, <3>1 DEF BestRoute, JudgedUp
  <2>4. Justified(BestRoute(loc.best))
    BY <2>1, <2>2, <2>3 DEF Justified
  <2>5. DecidingStep(BestRoute(loc.best))
    BY <1>2, <2>1 DEF BestOfFinish, DecidingStep
  <2>. QED  BY <2>4, <2>5
<1>3. CASE BalanceFinish
  <2>1. at \in Deciding /\ loc \in BalanceLocals /\ pc = "weigh" /\ Call.op = "balance"
    BY <1>3, <1>d DEF BalanceFinish, TypeOK, ControlOK, PolicyOp, Waiting
  <2>2. BalanceRoute(loc.ranges) \in Route /\ BalanceRoute(loc.ranges).kind # "unset"
    BY <2>1 DEF BalanceRoute, BalanceLocals, Route, Balance, Return
  <2>3. \A w \in Targets(BalanceRoute(loc.ranges)) : WanUp(Call.policy, w)
    <3>1. Targets(Return) = {}
      BY WanAssumption DEF Targets, Return, NoWan
    <3>2. \A w \in Targets(Balance(loc.ranges)) : \E i \in DOMAIN loc.ranges : loc.ranges[i].wan = w
      BY WanAssumption DEF Targets, Balance, NoWan
    <3>. QED  BY <2>1, <3>1, <3>2 DEF BalanceRoute, JudgedUp
  <2>4. Justified(BalanceRoute(loc.ranges))
    BY <2>1, <2>2, <2>3 DEF Justified
  <2>5. DecidingStep(BalanceRoute(loc.ranges))
    BY <1>3, <2>1 DEF BalanceFinish, DecidingStep
  <2>. QED  BY <2>4, <2>5
<1>. QED  BY <1>1, <1>2, <1>3

LEMMA WaitingActions ==
  ASSUME TypeOK, EndRound \/ WaitTest \/ Arm
  PROVE  WaitingStep
BY DEF EndRound, WaitTest, Arm, WaitingStep, TypeOK, ControlOK, Waiting

(* All steps.                                                              *)
QuietStep == UNCHANGED <<crit, pstatus, chain, pc, at, loc, orphans>>

LEMMA Steps ==
  ASSUME TypeOK, JudgedUp, [Next]_vars
  PROVE  \/ JudgingStep
         \/ InnerStep /\ JudgedUp'
         \/ \E route : Justified(route) /\ DecidingStep(route)
         \/ WaitingStep
         \/ Wake \/ NftApply
         \/ Start \/ HandleTerm \/ KillDuringNft \/ OrphanEnds
         \/ QuietStep
<1>1. WriteStats \/ NetChange \/ UNCHANGED vars => QuietStep
  BY DEF WriteStats, NetChange, vars, QuietStep
<1>. QED  BY <1>1, ActionCases, JudgingActions, InnerActions, DecidingActions, WaitingActions

LEMMA JudgedUpInit == Init => JudgedUp
BY DEF Init, JudgedUp

LEMMA JudgedUpStep == TypeOK /\ JudgedUp /\ [Next]_vars => JudgedUp'
<1>. SUFFICES ASSUME TypeOK, JudgedUp, [Next]_vars PROVE JudgedUp'
  OBVIOUS
<1>1. CASE JudgingStep
  BY <1>1 DEF JudgingStep, NextCall, JudgedUp
<1>2. ASSUME NEW route, Justified(route), DecidingStep(route) PROVE JudgedUp'
  <2>1. CASE pc' = "config"
    BY <2>1 DEF JudgedUp
  <2>2. CASE pc' # "config"
    <3>1. pc' = "nft" /\ loc' = [route |-> route] /\ UNCHANGED <<crit, at>>
      BY <1>2, <2>2 DEF DecidingStep, Decide, NextCall, Enter
    <3>2. \A w \in Targets(loc'.route) : WanUp(Call.policy, w)'
      <4>1. Call' = Call /\ loc'.route = route
        BY <3>1 DEF Call
      <4>. QED  BY <1>2, <3>1, <4>1, SameVerdicts DEF Justified, WanUp, WanUpByFamily
    <3>. QED  BY <3>1, <3>2 DEF JudgedUp
  <2>. QED  BY <2>1, <2>2
<1>3. CASE WaitingStep \/ Wake \/ NftApply \/ Start
  BY <1>3 DEF WaitingStep, Waiting, Wake, NftApply, NextCall, Start, JudgedUp
<1>4. CASE HandleTerm \/ KillDuringNft
  BY <1>4 DEF HandleTerm, KillDuringNft, JudgedUp
<1>5. CASE OrphanEnds \/ QuietStep
  <2>1. UNCHANGED <<crit, pc, at, loc>>
    BY <1>5 DEF OrphanEnds, QuietStep
  <2>. QED  BY <2>1 DEF JudgedUp, Call, WanUp, WanUpByFamily
<1>. QED  BY <1>1, <1>2, <1>3, <1>4, <1>5, Steps

-----------------------------------------------------------------------------
(* The status files and the chains.  As long as no nft process outlives    *)
(* the daemon, what nft is about to install is what the file records.      *)
Recorded ==
  /\ orphans = {}
  /\ pc = "nft" => pstatus[Call.policy] = loc.route
  /\ StatusMatchesChain

RecordedInv == TypeOK /\ JudgedUp /\ Recorded

LEMMA RecordedStep ==
  ASSUME ~HardKill, RecordedInv, [Next]_vars
  PROVE  Recorded'
<1>. USE DEF RecordedInv
<1>t. TypeOK /\ TypeOK' /\ \A i \in Deciding : i \in Calls /\ Config[i].policy \in Policy
  BY StepType, CallTypes DEF Deciding
<1>r. CASE ~Running'
  <2>1. UNCHANGED <<pstatus, chain, orphans>> /\ pc' = "stopped"
    <3>1. JudgingStep \/ InnerStep \/ WaitingStep \/ Wake \/ NftApply \/ Start => Running'
      BY <1>t DEF JudgingStep, InnerStep, WaitingStep, Waiting, Wake, NftApply, NextCall, Start, Running
    <3>2. ASSUME NEW route, DecidingStep(route) PROVE Running'
      BY <3>2 DEF DecidingStep, Decide, Enter, NextCall, Running
    <3>3. ~KillDuringNft /\ ~OrphanEnds
      BY DEF KillDuringNft, OrphanEnds, Recorded
    <3>. QED  BY <1>r, <3>1, <3>2, <3>3, Steps DEF HandleTerm, QuietStep, Running
  <2>. QED  BY <2>1 DEF Recorded, StatusMatchesChain, Running
<1>1. CASE JudgingStep
  BY <1>1 DEF JudgingStep, NextCall, Recorded, StatusMatchesChain, Running
<1>2. CASE InnerStep
  BY <1>2 DEF InnerStep, Recorded, StatusMatchesChain, Running
<1>3. ASSUME NEW route, Justified(route), DecidingStep(route) PROVE Recorded'
  <2>1. at \in Deciding /\ UNCHANGED <<chain, orphans>> /\ Running /\ pc # "nft"
    BY <1>3 DEF DecidingStep, Running
  <2>2. Call.policy \in Policy /\ pstatus \in [Policy -> Route]
    BY <1>t, <2>1 DEF Call, TypeOK, FilesOK
  <2>3. CASE Changed(route, pstatus[Call.policy])
    <3>1. /\ pc' = "nft" /\ loc' = [route |-> route] /\ at' = at
          /\ pstatus' = [pstatus EXCEPT ![Call.policy] = route]
      BY <1>3, <2>3 DEF DecidingStep, Decide, Enter
    <3>2. Call' = Call /\ loc'.route = route /\ pstatus'[Call.policy] = route
      BY <2>2, <3>1 DEF Call
    <3>. QED  BY <2>1, <2>2, <3>1, <3>2 DEF Recorded, StatusMatchesChain
  <2>4. CASE ~Changed(route, pstatus[Call.policy])
    BY <1>3, <2>1, <2>4 DEF DecidingStep, Decide, NextCall, Recorded, StatusMatchesChain
  <2>. QED  BY <2>3, <2>4
<1>4. CASE WaitingStep \/ Wake
  BY <1>4 DEF WaitingStep, Wake, Waiting, Recorded, StatusMatchesChain, Running
<1>5. CASE NftApply
  <2>1. at \in Deciding /\ Call.policy \in Policy /\ chain \in [Policy -> Route]
    BY <1>5, <1>t DEF NftApply, TypeOK, FilesOK, ControlOK, Waiting, Call
  <2>2. /\ chain' = [chain EXCEPT ![Call.policy] = loc.route]
        /\ pc' = "config" /\ UNCHANGED <<pstatus, orphans>>
        /\ pc = "nft"
    BY <1>5 DEF NftApply, NextCall
  <2>. QED  BY <2>1, <2>2 DEF Recorded, StatusMatchesChain, Running
<1>6. CASE Start
  BY <1>6 DEF Start, StatusCleared, Recorded, StatusMatchesChain
<1>7. CASE HandleTerm
  BY <1>7, <1>r DEF HandleTerm, Running
<1>8. CASE KillDuringNft \/ OrphanEnds
  BY <1>8 DEF KillDuringNft, OrphanEnds, Recorded
<1>9. CASE QuietStep
  BY <1>9 DEF QuietStep, Recorded, StatusMatchesChain, Call, Running
<1>. QED  BY <1>1, <1>2, <1>3, <1>4, <1>5, <1>6, <1>7, <1>8, <1>9, Steps

LEMMA RecordedInvariant ==
  ASSUME ~HardKill
  PROVE  Spec => []RecordedInv
<1>1. Init => RecordedInv
  <2>1. Init => Recorded
    BY DEF Init, Recorded, StatusMatchesChain, Running
  <2>. QED  BY <2>1, InitType, JudgedUpInit DEF RecordedInv
<1>2. RecordedInv /\ [Next]_vars => RecordedInv'
  BY StepType, JudgedUpStep, RecordedStep DEF RecordedInv
<1>. QED  BY <1>1, <1>2, PTL DEF Spec

(* If nothing kills the daemon while nft runs, a status file never         *)
(* disagrees with the chain it stands for, except between the two writes   *)
(* that the policy functions make one after the other.                     *)
THEOREM StatusAgreement ==
  ASSUME ~HardKill
  PROVE  Spec => []StatusMatchesChain
<1>1. RecordedInv => StatusMatchesChain
  BY DEF RecordedInv, Recorded
<1>. QED  BY <1>1, RecordedInvariant, PTL

(* Then also no verdict goes stale between the criteria and nft: a chain   *)
(* starts to send sessions only to WANs that are up at that moment, and    *)
(* chains change one at a time.                                            *)
THEOREM RoutesGoUp ==
  ASSUME ~HardKill
  PROVE  Spec => RoutesOnlyToUpWans
<1>. DEFINE Good == \A p \in Policy :
                      chain'[p] # chain[p] =>
                        /\ \A w \in Targets(chain'[p]) : WanUp(p, w)
                        /\ \A q \in Policy \ {p} : chain'[q] = chain[q]
<1>1. RecordedInv /\ [Next]_vars => [Good]_vars
  <2>. SUFFICES ASSUME RecordedInv, [Next]_vars PROVE Good
    OBVIOUS
  <2>. USE DEF RecordedInv
  <2>1. CASE chain' = chain
    BY <2>1
  <2>2. CASE NftApply
    <3>1. at \in Deciding /\ chain \in [Policy -> Route]
      BY <2>2 DEF NftApply, TypeOK, FilesOK, ControlOK, Waiting
    <3>2. Call.policy \in Policy
      BY <3>1, CallTypes DEF Call, Deciding
    <3>3. pc = "nft" /\ chain' = [chain EXCEPT ![Call.policy] = loc.route]
      BY <2>2 DEF NftApply
    <3>4. \A w \in Targets(loc.route) : WanUp(Call.policy, w)
      BY <3>3 DEF JudgedUp
    <3>. QED  BY <3>1, <3>2, <3>3, <3>4
  <2>3. chain' = chain \/ NftApply
    <3>1. ~OrphanEnds
      BY DEF OrphanEnds, Recorded
    <3>. QED  BY <3>1, Steps DEF JudgingStep, InnerStep, DecidingStep, WaitingStep, Wake, Start,
                               HandleTerm, KillDuringNft, QuietStep
  <2>. QED  BY <2>1, <2>2, <2>3
<1>. QED  BY <1>1, RecordedInvariant, PTL DEF Spec, RoutesOnlyToUpWans

-----------------------------------------------------------------------------
(* The decisions and the verdicts.  A decided policy stays justified while *)
(* the round goes on, because its criteria all came before its decision.   *)
Follows(i) ==
  LET p == Config[i].policy IN
    /\ pstatus[p].kind # "unset"
    /\ \A w \in Targets(pstatus[p]) : WanUp(p, w)
    /\ Config[i].op = "specific_wan" /\ WanUp(p, Config[i].wan)
         => pstatus[p] = Jump(Config[i].wan)

DecidedFollow ==
  Running => \A i \in Deciding : i < at \/ (i = at /\ pc = "nft") => Follows(i)

FollowInv == TypeOK /\ JudgedUp /\ DecidedFollow

LEMMA FollowsStays ==
  ASSUME NEW i \in Deciding, Follows(i), pstatus'[Config[i].policy] = pstatus[Config[i].policy],
         \A w : WanUp(Config[i].policy, w)' <=> WanUp(Config[i].policy, w)
  PROVE  Follows(i)'
BY DEF Follows

LEMMA FollowStep ==
  ASSUME FollowInv, [Next]_vars
  PROVE  DecidedFollow'
<1>. USE DEF FollowInv
<1>t. /\ Len(Config) \in Nat /\ Calls = 1 .. Len(Config) /\ Deciding \subseteq Calls
      /\ at \in 1 .. Len(Config) + 1
  BY ConfigAssumption DEF TypeOK, ControlOK, Calls, Deciding
<1>s. ASSUME UNCHANGED <<crit, pstatus>>, NEW i \in Deciding, Follows(i) PROVE Follows(i)'
  BY <1>s, SameVerdicts, FollowsStays
<1>1. CASE JudgingStep
  <2>. SUFFICES ASSUME NEW i \in Deciding, i < at', pc' = "config" PROVE Follows(i)'
    BY <1>1 DEF DecidedFollow, JudgingStep, NextCall
  <2>1. i < at /\ Running
    BY <1>1, <1>t DEF JudgingStep, NextCall, Running
  <2>2. Config[i].policy # Call.policy
    BY <1>1, <1>t, <2>1, CriteriaFirst DEF JudgingStep, Call
  <2>3. \A w : WanUp(Config[i].policy, w)' <=> WanUp(Config[i].policy, w)
    BY <1>1, <2>2, OtherVerdicts DEF JudgingStep, TypeOK
  <2>. QED  BY <1>1, <2>1, <2>3, FollowsStays DEF JudgingStep, DecidedFollow
<1>2. CASE InnerStep \/ WaitingStep
  <2>1. UNCHANGED <<crit, pstatus, at>> /\ pc' # "nft" /\ Running
    BY <1>2 DEF InnerStep, WaitingStep, Waiting, Running
  <2>. QED  BY <1>s, <2>1 DEF DecidedFollow
<1>3. ASSUME NEW route, Justified(route), DecidingStep(route) PROVE DecidedFollow'
  <2>1. at \in Deciding /\ UNCHANGED crit /\ Running /\ pc # "nft"
    BY <1>3 DEF DecidingStep, Running
  <2>2. Call.policy \in Policy /\ pstatus \in [Policy -> Route]
    BY <1>t, <2>1, CallTypes DEF Call, TypeOK, FilesOK
  <2>3. /\ pstatus' = [pstatus EXCEPT ![Call.policy] = route]
        /\ \/ pc' = "nft" /\ at' = at
           \/ pc' = "config" /\ at' = at + 1
    <3>1. CASE Changed(route, pstatus[Call.policy])
      BY <1>3, <3>1 DEF DecidingStep, Decide, Enter
    <3>2. CASE ~Changed(route, pstatus[Call.policy])
      BY <1>3, <2>2, <3>2 DEF DecidingStep, Decide, NextCall, Changed
    <3>. QED  BY <3>1, <3>2
  <2>. SUFFICES ASSUME NEW i \in Deciding, i < at \/ i = at PROVE Follows(i)'
    BY <1>t, <2>1, <2>3 DEF DecidedFollow
  <2>4. CASE i = at
    <3>1. pstatus'[Config[i].policy] = route
      BY <2>2, <2>3, <2>4 DEF Call
    <3>. QED  BY <1>3, <2>1, <2>4, <3>1, SameVerdicts DEF Justified, Follows, Call
  <2>5. CASE i < at
    <3>1. Config[i].policy # Call.policy
      BY <1>t, <2>1, <2>5, OnePerPolicy DEF Call
    <3>2. pstatus'[Config[i].policy] = pstatus[Config[i].policy]
      BY <2>2, <2>3, <3>1, CallTypes, <1>t
    <3>. QED  BY <2>1, <2>5, <3>2, SameVerdicts, FollowsStays DEF DecidedFollow
  <2>. QED  BY <2>4, <2>5
<1>4. CASE NftApply
  <2>1. /\ pc = "nft" /\ Running /\ pc' = "config" /\ at' = at + 1
        /\ UNCHANGED <<crit, pstatus>>
    BY <1>4 DEF NftApply, NextCall, Running
  <2>2. ASSUME NEW i \in Deciding, i < at' PROVE i < at \/ i = at
    BY <1>t, <2>1, <2>2
  <2>. QED  BY <1>s, <2>1, <2>2 DEF DecidedFollow
<1>5. CASE Wake \/ Start
  BY <1>5, <1>t DEF Wake, Start, DecidedFollow
<1>6. CASE HandleTerm \/ KillDuringNft
  BY <1>6 DEF HandleTerm, KillDuringNft, DecidedFollow, Running
<1>7. CASE OrphanEnds \/ QuietStep
  <2>1. UNCHANGED <<crit, pstatus, pc, at>>
    BY <1>7 DEF OrphanEnds, QuietStep
  <2>. QED  BY <1>s, <2>1 DEF DecidedFollow, Running
<1>. QED  BY <1>1, <1>2, <1>3, <1>4, <1>5, <1>6, <1>7, Steps

(* At the end of every round, also after the daemon was killed and started *)
(* again in any place, every policy's decision follows from the verdicts.  *)
THEOREM CriteriaAgreement == Spec => []StatusFollowsCriteria
<1>1. Init => FollowInv
  <2>1. Init => DecidedFollow
    BY DEF Init, DecidedFollow, Running
  <2>. QED  BY <2>1, InitType, JudgedUpInit DEF FollowInv
<1>2. FollowInv /\ [Next]_vars => FollowInv'
  BY StepType, JudgedUpStep, FollowStep DEF FollowInv
<1>3. FollowInv => StatusFollowsCriteria
  <2>. SUFFICES ASSUME FollowInv, pc \in Waiting, NEW i \in Deciding PROVE Follows(i)
    BY DEF StatusFollowsCriteria, Follows
  <2>1. at = Len(Config) + 1 /\ Running
    BY DEF FollowInv, TypeOK, ControlOK, Waiting, Running
  <2>2. i < at
    BY <2>1, ConfigAssumption DEF Deciding, Calls
  <2>. QED  BY <2>1, <2>2 DEF FollowInv, DecidedFollow
<1>. QED  BY <1>1, <1>2, <1>3, PTL DEF Spec

-----------------------------------------------------------------------------
(* The ranges of a balanced chain.                                         *)
LEMMA TilesAppend ==
  ASSUME NEW ranges \in Seq(Range), NEW total \in Int, Tiles(ranges, total),
         NEW w \in Wan, NEW hi \in Int
  PROVE  Tiles(Append(ranges, [wan |-> w, lo |-> total, hi |-> hi]), hi + 1)
<1>. DEFINE new == [wan |-> w, lo |-> total, hi |-> hi]
            all == Append(ranges, new)
<1>1. new \in Range
  BY DEF Range
<1>2. /\ all \in Seq(Range) /\ Len(all) = Len(ranges) + 1 /\ Len(ranges) \in Nat
      /\ DOMAIN all = 1 .. Len(ranges) + 1 /\ DOMAIN ranges = 1 .. Len(ranges)
      /\ all[Len(ranges) + 1] = new
      /\ \A i \in 1 .. Len(ranges) : all[i] = ranges[i]
  BY <1>1
<1>3. ASSUME NEW i \in DOMAIN all PROVE all[i].lo = IF i = 1 THEN 0 ELSE all[i - 1].hi + 1
  <2>1. CASE i \in DOMAIN ranges
    BY <1>2, <2>1 DEF Tiles
  <2>2. CASE i = Len(ranges) + 1
    <3>1. CASE ranges = << >>
      BY <1>2, <2>2, <3>1 DEF Tiles
    <3>2. CASE ranges # << >>
      <4>1. total = ranges[Len(ranges)].hi + 1
        BY <3>2 DEF Tiles
      <4>2. Len(ranges) \in 1 .. Len(ranges)
        BY <3>2, <1>2
      <4>3. i # 1 /\ all[i - 1] = ranges[Len(ranges)] /\ all[i].lo = total
        BY <1>2, <2>2, <4>2
      <4>. QED  BY <4>1, <4>3
    <3>. QED  BY <3>1, <3>2
  <2>. QED  BY <1>2, <2>1, <2>2
<1>4. all # << >> /\ all[Len(all)].hi = hi
  BY <1>2
<1>. HIDE DEF all
<1>5. Tiles(all, hi + 1)
  BY <1>3, <1>4 DEF Tiles
<1>. QED  BY <1>5 DEF all

RouteTiles(r) == r.kind = "balance" => Tiles(r.ranges, r.ranges[Len(r.ranges)].hi + 1)

TilesInv ==
  /\ pc = "total" => loc.ranges = << >> /\ loc.total = 0
  /\ pc = "weigh" => Tiles(loc.ranges, loc.total)
  /\ pc = "nft" => RouteTiles(loc.route)
  /\ \A p \in Policy : RouteTiles(chain[p])
  /\ \A o \in orphans : RouteTiles(o.route)

LEMMA TilesStep ==
  ASSUME TypeOK, JudgedUp, TilesInv, [Next]_vars
  PROVE  TilesInv'
<1>0. Tiles(<< >>, 0)
  BY DEF Tiles
<1>c. ASSUME UNCHANGED <<chain, orphans>>
      PROVE  (\A p \in Policy : RouteTiles(chain[p])') /\ (\A o \in orphans' : RouteTiles(o.route)')
  BY <1>c DEF TilesInv, RouteTiles
<1>d. ASSUME NEW route, RouteTiles(route), Decide(route), UNCHANGED <<chain, orphans>>
      PROVE  TilesInv'
  <2>1. pc' = "config" \/ (pc' = "nft" /\ loc'.route = route)
    BY <1>d DEF Decide, Enter, NextCall
  <2>. QED  BY <1>c, <1>d, <2>1 DEF TilesInv, RouteTiles
<1>1. CASE JudgingStep \/ WaitingStep \/ Wake \/ Start \/ HandleTerm
  <2>1. UNCHANGED <<chain, orphans>> /\ pc' \in Waiting \cup {"config", "stopped"}
    BY <1>1 DEF JudgingStep, NextCall, WaitingStep, Wake, Start, HandleTerm
  <2>. QED  BY <1>c, <2>1 DEF TilesInv, Waiting
<1>2. CASE \/ CriteriaUpRead \/ ConnectivityStart \/ ConnectivityTest \/ ConnectivityProbe
           \/ BestOfStart \/ BestOfCompare
  <2>1. UNCHANGED <<chain, orphans>> /\ pc' \in {"probe", "test", "ping", "pick"}
    BY <1>2 DEF CriteriaUpRead, ConnectivityStart, ConnectivityTest, ConnectivityProbe,
                BestOfStart, BestOfCompare, Enter
  <2>. QED  BY <1>c, <2>1 DEF TilesInv
<1>3. CASE BalanceStart
  <2>1. /\ UNCHANGED <<chain, orphans>> /\ pc' \in {"total", "weigh"}
        /\ loc'.ranges = << >> /\ loc'.total = 0
    BY <1>3 DEF BalanceStart, Enter
  <2>. QED  BY <1>0, <1>c, <2>1 DEF TilesInv
<1>4. CASE BalanceTotal
  <2>1. pc = "total" /\ loc \in BalanceLocals
    BY <1>4 DEF BalanceTotal, TypeOK, ControlOK, Waiting
  <2>2. /\ UNCHANGED <<chain, orphans>> /\ pc' \in {"total", "weigh"}
        /\ loc'.ranges = << >> /\ loc'.total = 0
    BY <1>4, <2>1 DEF BalanceTotal, Enter, BalanceLocals, TilesInv
  <2>. QED  BY <1>0, <1>c, <2>2 DEF TilesInv
<1>5. CASE BalanceWeigh
  <2>1. pc = "weigh" /\ at \in Calls /\ loc \in BalanceLocals /\ Call.op = "balance"
    BY <1>5 DEF BalanceWeigh, TypeOK, ControlOK, Waiting
  <2>2. UNCHANGED <<chain, orphans>> /\ pc' = "weigh"
    BY <1>5 DEF BalanceWeigh, Enter
  <2>3. PICK w \in loc.todo :
          \/ loc' = [loc EXCEPT !.todo = @ \ {w}]
          \/ loc' = [loc EXCEPT !.todo = @ \ {w}, !.total = @ + BalanceWeight(w),
                      !.ranges = Append(@, [wan |-> w, lo |-> loc.total,
                                            hi |-> RangeEnd(BalanceWeight(w), loc.total)])]
    BY <1>5 DEF BalanceWeigh, Enter
  <2>4. w \in Wan /\ BalanceWeight(w) \in Int
    <3>1. w \in Wan
      BY <2>1 DEF BalanceLocals
    <3>2. Stat(w, "latency") \in Int /\ Stat(w, "available_bandwidth") \in Int
      BY StatInt DEF TypeOK, EnvOK, StatName
    <3>3. SettingsWeight[Call.policy][w] \in Int
      BY <2>1, <3>1, CallTypes, EnvAssumption DEF Call
    <3>. QED  BY <2>1, <3>1, <3>2, <3>3 DEF BalanceWeight, BalanceLocals
  <2>. DEFINE end == RangeEnd(BalanceWeight(w), loc.total)
  <2>5. end \in Int /\ end + 1 = loc.total + BalanceWeight(w)
    BY <2>1, <2>4 DEF RangeEnd, BalanceLocals
  <2>6. Tiles(Append(loc.ranges, [wan |-> w, lo |-> loc.total, hi |-> end]), end + 1)
    <3>1. Tiles(loc.ranges, loc.total) /\ loc.ranges \in Seq(Range) /\ loc.total \in Int
      BY <2>1 DEF TilesInv, BalanceLocals
    <3>. HIDE DEF end
    <3>. QED  BY <2>4, <2>5, <3>1, TilesAppend
  <2>7. Tiles(loc'.ranges, loc'.total)
    <3>1. CASE loc' = [loc EXCEPT !.todo = @ \ {w}]
      BY <2>1, <3>1 DEF TilesInv, BalanceLocals
    <3>2. CASE loc' # [loc EXCEPT !.todo = @ \ {w}]
      <4>1. /\ loc'.ranges = Append(loc.ranges, [wan |-> w, lo |-> loc.total, hi |-> end])
            /\ loc'.total = loc.total + BalanceWeight(w)
        BY <2>1, <2>3, <3>2 DEF BalanceLocals
      <4>. QED  BY <2>5, <2>6, <4>1
    <3>. QED  BY <3>1, <3>2
  <2>. QED  BY <1>c, <2>2, <2>7 DEF TilesInv
<1>6. CASE PolicySpecificWan
  <2>. DEFINE r == IF WanUp(Call.policy, Call.wan) THEN Jump(Call.wan) ELSE Return
  <2>1. RouteTiles(r)
    BY DEF RouteTiles, Jump, Return
  <2>2. Decide(r) /\ UNCHANGED <<chain, orphans>>
    BY <1>6 DEF PolicySpecificWan
  <2>. HIDE DEF r
  <2>. QED  BY <1>d, <2>1, <2>2
<1>7. CASE BestOfFinish
  <2>1. RouteTiles(BestRoute(loc.best))
    BY DEF RouteTiles, BestRoute, Jump, Return
  <2>. QED  BY <1>7, <1>d, <2>1 DEF BestOfFinish
<1>8. CASE BalanceFinish
  <2>1. Tiles(loc.ranges, loc.total)
    BY <1>8 DEF BalanceFinish, TilesInv
  <2>2. RouteTiles(BalanceRoute(loc.ranges))
    BY <2>1 DEF RouteTiles, BalanceRoute, Balance, Return, Tiles
  <2>. QED  BY <1>8, <1>d, <2>2 DEF BalanceFinish
<1>9. CASE NftApply
  <2>1. /\ pc = "nft" /\ pc' = "config" /\ UNCHANGED orphans
        /\ chain' = [chain EXCEPT ![Call.policy] = loc.route]
    BY <1>9 DEF NftApply, NextCall
  <2>2. \A p \in Policy : chain'[p] \in {chain[p], loc.route}
    BY <2>1 DEF TypeOK, FilesOK
  <2>. QED  BY <2>1, <2>2 DEF TilesInv, RouteTiles
<1>10. CASE KillDuringNft
  BY <1>10 DEF KillDuringNft, TilesInv, RouteTiles
<1>11. CASE OrphanEnds
  <2>1. PICK o \in orphans : /\ orphans' \subseteq orphans
                             /\ chain' \in {chain, [chain EXCEPT ![o.policy] = o.route]}
                             /\ UNCHANGED <<pc, loc>>
    BY <1>11 DEF OrphanEnds
  <2>2. \A p \in Policy : chain'[p] \in {chain[p], o.route}
    BY <2>1 DEF TypeOK, FilesOK
  <2>. QED  BY <2>1, <2>2 DEF TilesInv, RouteTiles
<1>12. CASE QuietStep
  BY <1>12, <1>c DEF QuietStep, TilesInv, RouteTiles
<1>13. CASE \/ CriteriaAlwaysUp \/ CriteriaUpWrite \/ CriteriaAttribute
            \/ CriteriaMetric \/ ConnectivityWrite
  BY <1>1, <1>13, JudgingActions
<1>14. CASE EndRound \/ WaitTest \/ Arm
  BY <1>1, <1>14, WaitingActions
<1>15. CASE WriteStats \/ NetChange \/ UNCHANGED vars
  BY <1>12, <1>15 DEF WriteStats, NetChange, vars, QuietStep
<1>. QED
  BY <1>1, <1>2, <1>3, <1>4, <1>5, <1>6, <1>7, <1>8, <1>9, <1>10, <1>11, <1>13, <1>14, <1>15,
     ActionCases

(* Whatever the weights, every number nft draws for a balanced chain       *)
(* selects exactly one WAN.                                                *)
THEOREM TilesAlways == Spec => []BalanceTiles
<1>. DEFINE Inv == TypeOK /\ JudgedUp /\ TilesInv
<1>1. Init => Inv
  <2>1. Init => TilesInv
    BY DEF Init, TilesInv, RouteTiles, Unset
  <2>. QED  BY <2>1, InitType, JudgedUpInit
<1>2. Inv /\ [Next]_vars => Inv'
  BY StepType, JudgedUpStep, TilesStep
<1>3. Inv => BalanceTiles
  BY DEF TilesInv, RouteTiles, BalanceTiles
<1>. HIDE DEF Inv
<1>. QED  BY <1>1, <1>2, <1>3, PTL DEF Spec
=============================================================================

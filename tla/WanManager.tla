----------------------------- MODULE WanManager -----------------------------
(***************************************************************************)
(* wan-manager: the shell daemon that keeps one nftables chain per WAN     *)
(* policy pointing at the WANs that currently satisfy the policy.          *)
(*                                                                         *)
(* One round sources /etc/config/wan_manager, a list of calls: for every   *)
(* policy some criteria_* calls, each of which writes a verdict file, and  *)
(* one policy_* call, which reads the verdicts, writes the policy's status *)
(* file and, when the decision changed, replaces the policy's chain with   *)
(* nft.  Then the daemon waits until the statistics file is written again. *)
(*                                                                         *)
(* Beside the daemon run the statistics generator, which may rewrite the   *)
(* file between any two reads, netifd, and whoever stops, kills and        *)
(* starts the daemon.                                                      *)
(***************************************************************************)
EXTENDS Integers, Sequences, FiniteSets

CONSTANTS
  Wan,             \* numeric interface ids of the WANs
  Policy,          \* policy ids
  Config,          \* the calls in /etc/config/wan_manager, in order
  DirRank,         \* place of directory wan-<id> in the shell's glob order
  SettingsWeight,  \* weight current.json gives a WAN under a policy
  StatsContents,   \* contents the generator may give the statistics file
  NetStates,       \* sets of <<wan, family>> pairs netifd may report up
  Probes,          \* probes of a connectivity test (10 in the code)
  Tunnel,          \* WANs whose protocol is vti, which are not pinged
  Reachable,       \* sets of WANs through which the test hosts may answer
  HardKill         \* may SIGKILL hit the daemon while nft runs?

Family   == {"ipv4", "ipv6"}
NoWan    == -1
Verdict  == {"up", "down"}
Compare  == {"le", "lt", "ge", "gt"}

StatName == {"latency", "available_bandwidth"}

WanStats == [offline : BOOLEAN, offline6 : BOOLEAN, value : [StatName -> Int]]
IsStatsFile(c) == DOMAIN c \subseteq Wan /\ c \in [DOMAIN c -> WanStats]

-----------------------------------------------------------------------------
(* The calls of the sourced file.                                          *)

CriteriaCall ==
       [op : {"always_up", "up"}, policy : Policy, wan : Wan, family : Family]
  \cup [op : {"attribute"}, policy : Policy, wan : Wan, family : Family,
        key : STRING, status : Verdict]
  \cup [op : {"metric"}, policy : Policy, wan : Wan, family : Family,
        stat : StatName, cmp : Compare, val : Int]
  \cup [op : {"connectivity"}, policy : Policy, wan : Wan, family : Family,
        test : STRING, threshold : Nat]

PolicyCall ==
       [op : {"specific_wan"}, policy : Policy, wan : Wan]
  \cup [op : {"best_of"}, policy : Policy,
        stat : StatName, cmp : Compare]
  \cup [op : {"balance"}, policy : Policy,
        algorithm : {"WEIGHTED", "BANDWIDTH", "AVAILABLE_BANDWIDTH", "LATENCY"}]

PolicyOp == {"specific_wan", "best_of", "balance"}
Calls    == DOMAIN Config
Deciding == {i \in Calls : Config[i].op \in PolicyOp}

ASSUME WanAssumption == Wan \subseteq Nat /\ DirRank \in [Wan -> Nat]
ASSUME RankAssumption ==
  \A v, w \in Wan : DirRank[v] = DirRank[w] => v = w
ASSUME EnvAssumption ==
  /\ \A c \in StatsContents : IsStatsFile(c)
  /\ NetStates \subseteq SUBSET (Wan \X Family)
  /\ NetStates # {}
  /\ Reachable \subseteq SUBSET Wan
  /\ Reachable # {}
  /\ Probes \in Nat /\ Tunnel \subseteq Wan
  /\ SettingsWeight \in [Policy -> [Wan -> Nat]]
  /\ HardKill \in BOOLEAN
ASSUME ConfigAssumption ==
  /\ Config \in Seq(CriteriaCall \cup PolicyCall)
  /\ \A p \in Policy : \E i \in Deciding : Config[i].policy = p
  /\ \A i \in Calls, j \in Deciding :
       Config[i].policy = Config[j].policy => i <= j

-----------------------------------------------------------------------------
(* The verdict file of a criteria call.  criteria_always_up writes the     *)
(* file of criteria_up.                                                    *)

FileName(e) ==
  CASE e.op \in {"always_up", "up"} -> <<"criteria_up">>
    [] e.op = "attribute"    -> <<"criteria_attribute", e.key>>
    [] e.op = "metric"       -> <<"criteria_metric", e.stat, e.cmp, e.val>>
    [] e.op = "connectivity" -> <<"criteria_connectivity", e.test, e.threshold>>

File(e) ==
  [policy |-> e.policy, wan |-> e.wan, family |-> e.family, name |-> FileName(e)]

CritFile == {File(Config[i]) : i \in Calls \ Deciding}

(* What a chain does with the sessions of its policy, and what a status    *)
(* file records: nothing yet (no file, status "init"), return ("down"),    *)
(* jump to one WAN ("up" and current_best_wan), or a numgen map over       *)
(* contiguous ranges ("up" and balance_string).                            *)
Range  == [wan : Wan, lo : Int, hi : Int]

Unset      == [kind |-> "unset",   wan |-> NoWan, ranges |-> << >>]
Return     == [kind |-> "return",  wan |-> NoWan, ranges |-> << >>]
Jump(w)    == [kind |-> "jump",    wan |-> w,     ranges |-> << >>]
Balance(r) == [kind |-> "balance", wan |-> NoWan, ranges |-> r]

Route ==
  {Unset, Return}
  \cup [kind : {"jump"}, wan : Wan, ranges : {<< >>}]
  \cup [kind : {"balance"}, wan : {NoWan}, ranges : Seq(Range) \ {<< >>}]

Targets(r) == {w \in Wan : r.wan = w \/ \E i \in DOMAIN r.ranges : r.ranges[i].wan = w}

-----------------------------------------------------------------------------
VARIABLES
  stats,     \* contents of /tmp/stats.json: the interfaces it lists
  exists,    \* is there a /tmp/stats.json?
  netUp,     \* <<wan, family>> pairs for which network_is_up succeeds
  reach,     \* WANs through which the test hosts answer
  crit,      \* verdict files
  pstatus,   \* status file of every policy
  chain,     \* chain route-to-<policy>, in ip and ip6
  pc,        \* what the daemon does
  at,        \* index of the current call in Config
  loc,       \* locals of the function the daemon is in
  notified,  \* has the armed inotify watch seen a write?
  orphans    \* nft processes that outlived the daemon that started them

env  == <<stats, exists, netUp, reach>>
vars == <<stats, exists, netUp, reach, crit, pstatus, chain, pc, at, loc, notified, orphans>>

Idle    == [idle |-> TRUE]
Running == pc # "stopped"
Waiting == {"wait", "arm", "watch", "sleep"}

(* is_offline: an interface the file does not list is offline.             *)
Offline(w, f) ==
  IF w \notin DOMAIN stats THEN TRUE
  ELSE IF f = "ipv6" THEN stats[w].offline6 ELSE stats[w].offline

(* get_stat: 0 unless the file lists the statistic.                        *)
Stat(w, s) == IF w \in DOMAIN stats THEN stats[w].value[s] ELSE 0

Holds(cmp, a, b) ==
  \/ cmp = "le" /\ a <= b
  \/ cmp = "lt" /\ a < b
  \/ cmp = "ge" /\ a >= b
  \/ cmp = "gt" /\ a > b

(* is_wan_up: in some family there are verdicts and none says down.        *)
WanUpByFamily(p, w, f) ==
  LET files == {c \in CritFile : /\ c.policy = p /\ c.wan = w /\ c.family = f
                                 /\ crit[c] # "absent"}
  IN  files # {} /\ \A c \in files : crit[c] # "down"

WanUp(p, w) == \E f \in Family : WanUpByFamily(p, w, f)

(* get_policy_wans_and_up_wans: the WANs with a directory under the        *)
(* policy's, and of these the ones that are up.                            *)
PolicyWans(p) == {c.wan : c \in {d \in CritFile : d.policy = p /\ crit[d] # "absent"}}
AllWans(p)    == PolicyWans(p)  \* mutant: the first list for the second
UpWans(p)     == {w \in PolicyWans(p) : WanUp(p, w)}

(* The shell's loops take the WANs of a list in glob order.                *)
IsFirst(w, W) == w \in W /\ \A v \in W : DirRank[w] <= DirRank[v]

-----------------------------------------------------------------------------
Call == Config[at]

AtCall(op) == pc = "config" /\ at \in Calls /\ Call.op = op

NextCall == pc' = "config" /\ at' = at + 1 /\ loc' = Idle

Enter(label, locals) == pc' = label /\ loc' = locals /\ UNCHANGED at

WriteVerdict(v) == crit' = [crit EXCEPT ![File(Call)] = v]

(* The common end of the policy_* functions: write the status file first,  *)
(* then replace the chain, and only when the decision changed.             *)
ChangedKind(new, old) == new.kind # old.kind  \* mutant: up or down, not which WAN
ChangedAny(new, old)  == TRUE                 \* mutant: installs what is installed
Changed(new, old)     == new # old

Decide(route) ==
  \/ /\ Changed(route, pstatus[Call.policy])
     /\ pstatus' = [pstatus EXCEPT ![Call.policy] = route]
     /\ Enter("nft", [route |-> route])
  \/ /\ ~Changed(route, pstatus[Call.policy])
     /\ NextCall
     /\ UNCHANGED pstatus

-----------------------------------------------------------------------------
(* Criteria.                                                               *)

CriteriaAlwaysUp ==
  /\ AtCall("always_up")
  /\ WriteVerdict("up")
  /\ NextCall
  /\ UNCHANGED <<env, pstatus, chain, notified, orphans>>

CriteriaUpRead ==
  /\ AtCall("up")
  /\ Enter("probe", [offline |-> Offline(Call.wan, Call.family)])
  /\ UNCHANGED <<env, crit, pstatus, chain, notified, orphans>>

BothUp(up, offline) == IF up /\ ~offline THEN "up" ELSE "down"

CriteriaUpWrite ==
  /\ pc = "probe"
  /\ WriteVerdict(BothUp(<<Call.wan, Call.family>> \in netUp, loc.offline))
  /\ NextCall
  /\ UNCHANGED <<env, pstatus, chain, notified, orphans>>

CriteriaAttribute ==
  /\ AtCall("attribute")
  /\ WriteVerdict(Call.status)
  /\ NextCall
  /\ UNCHANGED <<env, pstatus, chain, notified, orphans>>

(* A latency of 0, or a value of -1, never satisfies the criterion.        *)
MetricVerdict(e) ==
  LET test == Stat(e.wan, e.stat)
      skip == test = -1 \/ (e.stat = "latency" /\ test = 0)
  IN  IF ~skip /\ Holds(e.cmp, test, e.val) THEN "up" ELSE "down"

CriteriaMetric ==
  /\ AtCall("metric")
  /\ WriteVerdict(MetricVerdict(Call))
  /\ NextCall
  /\ UNCHANGED <<env, pstatus, chain, notified, orphans>>

(* criteria_connectivity probes up to Probes times.  Every turn asks for   *)
(* the interface's state first; an interface that is offline is down, one  *)
(* that is not up is passed over and leaves the verdict as it was.         *)
ConnectivityStart ==
  /\ AtCall("connectivity")
  /\ Enter("test", [left |-> Probes, fails |-> 0, verdict |-> "down"])
  /\ UNCHANGED <<env, crit, pstatus, chain, notified, orphans>>

ConnectivityTest ==
  /\ pc = "test"
  /\ loc.left # 0
  /\ ~Offline(Call.wan, Call.family)
  /\ Enter("ping", loc)
  /\ UNCHANGED <<env, crit, pstatus, chain, notified, orphans>>

(* Only ipv4 is probed, a tunnel is not pinged, and a test the script does *)
(* not know fails.                                                         *)
Answers(e) ==
  /\ e.test \in {"ping", "arp", "dns", "http"}
  /\ \/ e.family = "ipv6"
     \/ e.test = "ping" /\ e.wan \in Tunnel
     \/ e.wan \in reach

ReachedAfter(fails, threshold) == fails > threshold  \* mutant: -gt for -ge
Reached(fails, threshold)      == fails >= threshold

ConnectivityProbe ==
  /\ pc = "ping"
  /\ LET fails == loc.fails + (IF Answers(Call) THEN 0 ELSE 1)
     IN  \/ /\ <<Call.wan, Call.family>> \notin netUp
            /\ Enter("test", [loc EXCEPT !.left = @ - 1])
         \/ /\ <<Call.wan, Call.family>> \in netUp
            /\ Reached(fails, Call.threshold)
            /\ Enter("test", [left |-> 0, fails |-> fails, verdict |-> "down"])
         \/ /\ <<Call.wan, Call.family>> \in netUp
            /\ ~Reached(fails, Call.threshold)
            /\ Enter("test", [left |-> loc.left - 1, fails |-> fails, verdict |-> "up"])
  /\ UNCHANGED <<env, crit, pstatus, chain, notified, orphans>>

ConnectivityWrite ==
  /\ pc = "test"
  /\ loc.left # 0 => Offline(Call.wan, Call.family)
  /\ WriteVerdict(IF loc.left = 0 THEN loc.verdict ELSE "down")
  /\ NextCall
  /\ UNCHANGED <<env, pstatus, chain, notified, orphans>>

-----------------------------------------------------------------------------
(* Policies.                                                               *)

PolicySpecificWan ==
  /\ AtCall("specific_wan")
  /\ Decide(IF WanUp(Call.policy, Call.wan) THEN Jump(Call.wan) ELSE Return)
  /\ UNCHANGED <<env, crit, chain, notified, orphans>>

BestOfStart ==
  /\ AtCall("best_of")
  /\ Enter("pick", [todo |-> UpWans(Call.policy), best |-> NoWan, stat |-> -1])
  /\ UNCHANGED <<env, crit, pstatus, chain, notified, orphans>>

(* One turn of the loop; the file is read again in every turn.             *)
BestOfCompare ==
  /\ pc = "pick"
  /\ \E w \in loc.todo :
       LET stat  == Stat(w, Call.stat)
           skip  == Call.stat = "latency" /\ stat \in {0, -1}
           takes == ~skip /\ (loc.best = NoWan \/ Holds(Call.cmp, stat, loc.stat))
       IN  /\ IsFirst(w, loc.todo)
           /\ Enter("pick", [todo |-> loc.todo \ {w},
                             best |-> IF takes THEN w ELSE loc.best,
                             stat |-> IF takes THEN stat ELSE loc.stat])
  /\ UNCHANGED <<env, crit, pstatus, chain, notified, orphans>>

BestRouteAny(best) == Jump(best)  \* mutant: no test for "no WAN found"
BestRoute(best)    == IF best = NoWan THEN Return ELSE Jump(best)

BestOfFinish ==
  /\ pc = "pick"
  /\ loc.todo = {}
  /\ Decide(BestRoute(loc.best))
  /\ UNCHANGED <<env, crit, chain, notified, orphans>>

BalanceStart ==
  /\ AtCall("balance")
  /\ Enter(IF Call.algorithm = "LATENCY" THEN "total" ELSE "weigh",
           [todo |-> UpWans(Call.policy), latency |-> 0, total |-> 0, ranges |-> << >>])
  /\ UNCHANGED <<env, crit, pstatus, chain, notified, orphans>>

(* LATENCY only: a first pass over the same WANs adds their latencies up.  *)
BalanceTotal ==
  /\ pc = "total"
  /\ \/ \E w \in loc.todo :
          /\ IsFirst(w, loc.todo)
          /\ Enter("total", [loc EXCEPT !.todo = @ \ {w}, !.latency = @ + Stat(w, "latency")])
     \/ /\ loc.todo = {}
        /\ Enter("weigh", [loc EXCEPT !.todo = UpWans(Call.policy)])
  /\ UNCHANGED <<env, crit, pstatus, chain, notified, orphans>>

BalanceWeight(w) ==
  CASE Call.algorithm = "LATENCY" ->
         LET rest == loc.latency - Stat(w, "latency") IN IF rest = 0 THEN 100 ELSE rest
    [] Call.algorithm = "AVAILABLE_BANDWIDTH" -> Stat(w, "available_bandwidth")
    [] OTHER -> SettingsWeight[Call.policy][w]

SkipsNone(weight) == FALSE  \* mutant: a WAN of weight 0 gets a range too
Skips(weight)     == weight = 0

RangeEndOver(weight, total) == weight + total  \* mutant: off by one
RangeEnd(weight, total)     == weight + total - 1

(* A WAN of weight 0 is left out of the map.                               *)
BalanceWeigh ==
  /\ pc = "weigh"
  /\ \E w \in loc.todo :
       LET weight == BalanceWeight(w)
           range  == [wan |-> w, lo |-> loc.total, hi |-> RangeEnd(weight, loc.total)]
       IN  /\ IsFirst(w, loc.todo)
           /\ \/ /\ Skips(weight)
                 /\ Enter("weigh", [loc EXCEPT !.todo = @ \ {w}])
              \/ /\ ~Skips(weight)
                 /\ Enter("weigh", [loc EXCEPT !.todo = @ \ {w}, !.total = @ + weight,
                                               !.ranges = Append(@, range)])
  /\ UNCHANGED <<env, crit, pstatus, chain, notified, orphans>>

BalanceRoute(ranges) == IF ranges = << >> THEN Return ELSE Balance(ranges)

BalanceFinish ==
  /\ pc = "weigh"
  /\ loc.todo = {}
  /\ Decide(BalanceRoute(loc.ranges))
  /\ UNCHANGED <<env, crit, chain, notified, orphans>>

-----------------------------------------------------------------------------
(* nft replaces the chain of both families in one transaction.  It rejects *)
(* a map with an empty or negative range whatever the kernel's state.      *)

Accepted(route) == \A i \in DOMAIN route.ranges : route.ranges[i].lo <= route.ranges[i].hi

NftApply ==
  /\ pc = "nft"
  /\ Accepted(loc.route)
  /\ chain' = [chain EXCEPT ![Call.policy] = loc.route]
  /\ NextCall
  /\ UNCHANGED <<env, crit, pstatus, notified, orphans>>

(* A failed transaction changes nothing; the loop runs the same file again.*)
NftRetry == pc = "nft" /\ UNCHANGED vars

-----------------------------------------------------------------------------
(* The main loop and wait_for_change.                                      *)

EndRound ==
  /\ pc = "config"
  /\ at = Len(Config) + 1
  /\ pc' = "wait"
  /\ UNCHANGED <<env, crit, pstatus, chain, at, loc, notified, orphans>>

WaitTest ==
  /\ pc = "wait"
  /\ pc' = IF exists THEN "arm" ELSE "sleep"
  /\ UNCHANGED <<env, crit, pstatus, chain, at, loc, notified, orphans>>

Arm ==
  /\ pc = "arm"
  /\ pc' = "watch"
  /\ notified' = FALSE
  /\ UNCHANGED <<env, crit, pstatus, chain, at, loc, orphans>>

Wake ==
  /\ pc = "sleep" \/ (pc = "watch" /\ notified)
  /\ pc' = "config"
  /\ at' = 1
  /\ notified' = FALSE
  /\ UNCHANGED <<env, crit, pstatus, chain, loc, orphans>>

-----------------------------------------------------------------------------
(* Starting and stopping.  The start removes every file a previous daemon  *)
(* left; the chains stay as they are.  (It needs the tables wan-routing of *)
(* ip and ip6; without them the script exits and nothing has started.)     *)

StatusKept    == pstatus  \* mutant: the status directory is not emptied
StatusCleared == [p \in Policy |-> Unset]

Start ==
  /\ pc = "stopped"
  /\ crit' = [c \in CritFile |-> "absent"]
  /\ pstatus' = StatusCleared
  /\ pc' = "config"
  /\ at' = 1
  /\ loc' = Idle
  /\ UNCHANGED <<env, chain, notified, orphans>>

(* handle_term runs between two commands, so no nft is in flight.          *)
HandleTerm ==
  /\ Running
  /\ pc' = "stopped"
  /\ at' = 1
  /\ loc' = Idle
  /\ notified' = FALSE
  /\ UNCHANGED <<env, crit, pstatus, chain, orphans>>

(* kill -9 from an interactive instance, while nft runs: nft goes on.      *)
KillDuringNft ==
  /\ HardKill
  /\ pc = "nft"
  /\ orphans = {}
  /\ orphans' = {[policy |-> Call.policy, route |-> loc.route]}
  /\ pc' = "stopped"
  /\ at' = 1
  /\ loc' = Idle
  /\ UNCHANGED <<env, crit, pstatus, chain, notified>>

OrphanEnds ==
  \E o \in orphans :
    /\ orphans' = orphans \ {o}
    /\ chain' \in {chain, [chain EXCEPT ![o.policy] = o.route]}
    /\ Accepted(o.route) \/ chain' = chain
    /\ UNCHANGED <<env, crit, pstatus, pc, at, loc, notified>>

-----------------------------------------------------------------------------
(* The environment.                                                        *)

WriteStats ==
  /\ stats' \in StatsContents
  /\ exists' = TRUE
  /\ notified' = (notified \/ pc = "watch")
  /\ UNCHANGED <<netUp, reach, crit, pstatus, chain, pc, at, loc, orphans>>

NetChange ==
  /\ netUp' \in NetStates
  /\ reach' \in Reachable
  /\ UNCHANGED <<stats, exists, crit, pstatus, chain, pc, at, loc, notified, orphans>>

-----------------------------------------------------------------------------
(* boot() leaves a statistics file that lists no interface; without that   *)
(* init script there is none until the generator writes one.               *)
Init ==
  /\ stats = [w \in {} |-> 0]
  /\ exists \in BOOLEAN
  /\ netUp \in NetStates
  /\ reach \in Reachable
  /\ crit = [c \in CritFile |-> "absent"]
  /\ pstatus = [p \in Policy |-> Unset]
  /\ chain = [p \in Policy |-> Unset]
  /\ pc = "stopped"
  /\ at = 1
  /\ loc = Idle
  /\ notified = FALSE
  /\ orphans = {}

Step ==
  \/ CriteriaAlwaysUp \/ CriteriaUpRead \/ CriteriaUpWrite
  \/ CriteriaAttribute \/ CriteriaMetric
  \/ ConnectivityStart \/ ConnectivityTest \/ ConnectivityProbe \/ ConnectivityWrite
  \/ PolicySpecificWan
  \/ BestOfStart \/ BestOfCompare \/ BestOfFinish
  \/ BalanceStart \/ BalanceTotal \/ BalanceWeigh \/ BalanceFinish
  \/ NftApply
  \/ EndRound \/ WaitTest \/ Arm \/ Wake

Next ==
  \/ Step \/ NftRetry
  \/ Start \/ HandleTerm \/ KillDuringNft \/ OrphanEnds
  \/ WriteStats \/ NetChange

Spec == Init /\ [][Next]_vars

(* The daemon keeps running its script, and nft does not fail for ever.    *)
DaemonFairness == WF_vars(Step)
(* The generator keeps rewriting the statistics file.                      *)
GeneratorFairness == WF_vars(WriteStats)

FairSpec   == Spec /\ DaemonFairness /\ GeneratorFairness
LonelySpec == Spec /\ DaemonFairness
-----------------------------------------------------------------------------
(* Every variable has its type, the daemon is inside the function the      *)
(* current call names, and loc holds that function's locals.               *)
EnvOK ==
  /\ IsStatsFile(stats)
  /\ exists \in BOOLEAN
  /\ netUp \subseteq Wan \X Family
  /\ reach \subseteq Wan
  /\ notified \in BOOLEAN

FilesOK ==
  /\ crit \in [CritFile -> Verdict \cup {"absent"}]
  /\ pstatus \in [Policy -> Route]
  /\ chain \in [Policy -> Route]
  /\ orphans \subseteq [policy : Policy, route : Route]

TestLocals    == [left : 0 .. Probes, fails : Nat, verdict : Verdict]
PickLocals    == [todo : SUBSET Wan, best : Wan \cup {NoWan}, stat : Int]
BalanceLocals == [todo : SUBSET Wan, latency : Int, total : Int, ranges : Seq(Range)]

ControlOK ==
  \/ pc \in {"stopped", "config"} /\ at \in 1 .. Len(Config) + 1 /\ loc = Idle
  \/ pc \in Waiting /\ at = Len(Config) + 1 /\ loc = Idle
  \/ pc = "probe" /\ at \in Calls /\ Call.op = "up" /\ loc \in [offline : BOOLEAN]
  \/ pc = "test" /\ at \in Calls /\ Call.op = "connectivity" /\ loc \in TestLocals
  \/ /\ pc = "ping" /\ at \in Calls /\ Call.op = "connectivity"
     /\ loc \in TestLocals /\ loc.left # 0
  \/ pc = "pick" /\ at \in Calls /\ Call.op = "best_of" /\ loc \in PickLocals
  \/ pc \in {"total", "weigh"} /\ at \in Calls /\ Call.op = "balance" /\ loc \in BalanceLocals
  \/ pc = "nft" /\ at \in Deciding /\ loc \in [route : Route]

TypeOK == EnvOK /\ FilesOK /\ ControlOK

(* A status file is only trusted because it agrees with the chain it       *)
(* stands for: the daemon skips nft when the decision equals the recorded  *)
(* one.  Outside the window between the two writes they agree, although    *)
(* the file is written first and the daemon may be stopped in between      *)
(* (policy_* write status_file before jump_policy, balance_policy and      *)
(* disable_policy; the start empties the status directory).                *)
StatusMatchesChain ==
  Running =>
    \A p \in Policy :
      \/ pstatus[p] = Unset
      \/ pstatus[p] = chain[p]
      \/ pc = "nft" /\ Call.policy = p /\ pstatus[p] = loc.route

(* When a round is over, every policy is decided and no decision sends     *)
(* sessions to a WAN with a down verdict or without any verdict; a policy  *)
(* for one WAN is down only if that WAN is.                                *)
StatusFollowsCriteria ==
  pc \in Waiting =>
    \A i \in Deciding :
      LET p == Config[i].policy IN
        /\ pstatus[p].kind # "unset"
        /\ \A w \in Targets(pstatus[p]) : WanUp(p, w)
        /\ Config[i].op = "specific_wan" /\ WanUp(p, Config[i].wan)
             => pstatus[p] = Jump(Config[i].wan)

(* Chains change one at a time, and a chain only ever starts to send       *)
(* sessions to WANs whose verdicts are up at that moment: none of the      *)
(* reads, loops and retries between a verdict and nft lets the decision go *)
(* stale.                                                                  *)
RoutesOnlyToUpWans ==
  [][\A p \in Policy :
       chain'[p] # chain[p] =>
         /\ \A w \in Targets(chain'[p]) : WanUp(p, w)
         /\ \A q \in Policy \ {p} : chain'[q] = chain[q]]_vars

(* The ranges of a numgen map tile 0 .. total-1 without gap or overlap, so *)
(* every random number selects exactly one WAN (policy_balance computes    *)
(* range_end and total_weight in separate statements).                     *)
Tiles(ranges, total) ==
  /\ \A i \in DOMAIN ranges :
       ranges[i].lo = IF i = 1 THEN 0 ELSE ranges[i - 1].hi + 1
  /\ total = IF ranges = << >> THEN 0 ELSE ranges[Len(ranges)].hi + 1

BalanceTiles ==
  /\ pc = "weigh" => Tiles(loc.ranges, loc.total)
  /\ \A p \in Policy :
       chain[p].kind = "balance" =>
         Tiles(chain[p].ranges, chain[p].ranges[Len(chain[p].ranges)].hi + 1)

-----------------------------------------------------------------------------
(* A round, once begun, reaches its end unless the daemon is stopped: no   *)
(* policy can keep the policies after it from running (main: "run every    *)
(* policy once").                                                          *)
RoundsComplete == pc = "config" /\ at = 1 ~> pc \in Waiting \cup {"stopped"}

(* What the criteria say of the present environment, and the routes that   *)
(* satisfy a policy then.                                                  *)
Satisfied(e) ==
  CASE e.op = "always_up" -> TRUE
    [] e.op = "up"        -> <<e.wan, e.family>> \in netUp /\ ~Offline(e.wan, e.family)
    [] e.op = "attribute" -> e.status = "up"
    [] e.op = "metric"    -> MetricVerdict(e) = "up"
    [] e.op = "connectivity" -> /\ <<e.wan, e.family>> \in netUp /\ ~Offline(e.wan, e.family)
                                /\ e.threshold > IF Answers(e) THEN 0 ELSE Probes

Eligible(p) ==
  {w \in Wan :
     \E f \in Family :
       LET mine == {i \in Calls \ Deciding : /\ Config[i].policy = p
                                             /\ Config[i].wan = w
                                             /\ Config[i].family = f}
       IN  mine # {} /\ \A i \in mine : Satisfied(Config[i])}

Weak(cmp) == CASE cmp \in {"le", "lt"} -> "le" [] OTHER -> "ge"

Suits(e, r) ==
  CASE e.op = "specific_wan" ->
         r = IF e.wan \in Eligible(e.policy) THEN Jump(e.wan) ELSE Return
    [] e.op = "best_of" ->
         LET able == {w \in Eligible(e.policy) :
                        e.stat = "latency" => Stat(w, e.stat) \notin {0, -1}}
         IN  IF able = {} THEN r = Return
             ELSE /\ r.kind = "jump" /\ r.wan \in able
                  /\ \A w \in able : Holds(Weak(e.cmp), Stat(r.wan, e.stat), Stat(w, e.stat))
    [] OTHER ->
         LET weight(w) == IF e.algorithm = "AVAILABLE_BANDWIDTH"
                            THEN Stat(w, "available_bandwidth")
                            ELSE SettingsWeight[e.policy][w]
             able == {w \in Eligible(e.policy) : weight(w) # 0}
         IN  IF able = {} THEN r = Return
             ELSE /\ r.kind = "balance" /\ Targets(r) = able
                  /\ \A i \in DOMAIN r.ranges :
                       r.ranges[i].hi - r.ranges[i].lo + 1 = weight(r.ranges[i].wan)

EnvSettles  == <>[][UNCHANGED env]_vars
StaysUp     == <>[]Running

(* When the network and the statistics settle, every chain ends on a route *)
(* that suits its policy: no verdict, status file or missed notification   *)
(* keeps an outdated decision alive (main: "Wait for stats.json to change, *)
(* and then run every policy once").                                       *)
ActsOnLastWrite ==
  EnvSettles /\ StaysUp => <>[](\A i \in Deciding : Suits(Config[i], chain[Config[i].policy]))

(* And the chains come to rest there: WANs with equal statistics do not    *)
(* make best_of change its mind for ever, nor do weights.                  *)
Converges ==
  /\ ActsOnLastWrite
  /\ EnvSettles /\ StaysUp => <>[][UNCHANGED chain]_vars

(* A WAN that goes offline for good leaves every chain whose policy has    *)
(* criteria_up or criteria_connectivity for it in each family it judges,   *)
(* and one that is up but reaches nothing leaves every chain whose policy  *)
(* probes it in each, whatever the other WANs do (criteria_connectivity:   *)
(* "if we meet our threshold of failures, we can stop immediately").       *)
Judged(p, w) == {i \in Calls \ Deciding : Config[i].policy = p /\ Config[i].wan = w}

Guarded(p, w, Guards(_)) ==
  \A i \in Judged(p, w) :
    \E j \in Judged(p, w) : Config[j].family = Config[i].family /\ Guards(Config[j])

Watches(e) == e.op \in {"up", "connectivity"}
Tests(e)   == /\ e.op = "connectivity" /\ e.threshold <= Probes
              /\ e.family = "ipv4" /\ ~(e.test = "ping" /\ e.wan \in Tunnel)

FailedWanLeavesRoutes ==
  \A w \in Wan :
    /\ StaysUp /\ <>[](\A f \in Family : Offline(w, f)) =>
         <>[](\A p \in Policy : Guarded(p, w, Watches) => w \notin Targets(chain[p]))
    /\ StaysUp /\ <>[](w \notin reach /\ {w} \X Family \subseteq netUp) =>
         <>[](\A p \in Policy : Guarded(p, w, Tests) => w \notin Targets(chain[p]))
-----------------------------------------------------------------------------
(* wan-manager implements PolicyRouting: a stopped daemon has forgotten    *)
(* its verdicts and records, whatever its files still say, because the     *)
(* next start removes them before it reads any; and no chain changes but   *)
(* by installing the decision recorded for it.                             *)
Abstract == INSTANCE PolicyRouting WITH
  up      <- [p \in Policy |-> IF Running THEN {w \in Wan : WanUp(p, w)} ELSE {}],
  record  <- [p \in Policy |-> IF Running THEN pstatus[p] ELSE Unset],
  route   <- chain,
  pending <- IF pc = "nft" THEN {Call.policy} ELSE {}

Refines == Abstract!ASpec
=============================================================================

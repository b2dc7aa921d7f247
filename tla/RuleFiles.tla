------------------------------ MODULE RuleFiles ------------------------------
(***************************************************************************)
(* What get-updates promises whoever reads the rule files, without runs,   *)
(* downloads, copies of the directory, failures or deaths: every source    *)
(* has a newest revision; its files are brought forward one at a time, and *)
(* are spoiled while they are, or by a patch all at once, which spoils     *)
(* those it is not made for; and what is remembered of a source was        *)
(* written.                                                                *)
(***************************************************************************)
EXTENDS Integers

CONSTANTS
  Source,   \* sources of rules
  FilesOf,  \* rule files of every source
  Changes,  \* rule files every revision changes
  Archive,  \* archives: records of a source and whether it is a patch
  MaxRev    \* bound: revisions

VARIABLES
  newest,   \* newest revision
  have,     \* revision of every rule file, 0 if it is absent, -1 if spoiled
  vouched   \* revision remembered of every archive, 0 if none is

avars == <<newest, have, vouched>>

AInit ==
  /\ newest = 1
  /\ have = [f \in UNION {FilesOf[s] : s \in Source} |-> 0]
  /\ vouched = [a \in Archive |-> 0]

Issue ==
  /\ newest < MaxRev
  /\ newest' = newest + 1
  /\ UNCHANGED <<have, vouched>>

(* A full archive overwrites a file: it is empty, then complete.           *)
Empty(s) ==
  /\ \E f \in FilesOf[s] : have' = [have EXCEPT ![f] = -1]
  /\ UNCHANGED <<newest, vouched>>

Write(s) ==
  /\ \E f \in FilesOf[s], r \in 1 .. newest :
       have[f] = -1 /\ have' = [have EXCEPT ![f] = r]
  /\ UNCHANGED <<newest, vouched>>

(* A patch of revision r is made for the text of the revision before.      *)
MadeFor(f, r) == have[f] \in 1 .. r - 1 /\ \A q \in have[f] + 1 .. r - 1 : f \notin Changes[q]

Patch(s) ==
  /\ \E r \in 1 .. newest :
       /\ \A f \in FilesOf[s] \cap Changes[r] : have[f] \notin {0, r}
       /\ have' = [f \in DOMAIN have |->
            IF f \notin FilesOf[s] \cap Changes[r] THEN have[f]
            ELSE IF MadeFor(f, r) THEN r ELSE -1]
  /\ UNCHANGED <<newest, vouched>>

(* A full archive is remembered when all files of its source have its      *)
(* text, a patch when those it changes were patched.                       *)
Written(a, r) ==
  \A f \in FilesOf[a.source] :
    \/ have[f] = r
    \/ a.patch /\ (f \in Changes[r] => have[f] = -1)

Remember(a) ==
  /\ \E r \in 1 .. newest :
       Written(a, r) /\ vouched' = [vouched EXCEPT ![a] = r]
  /\ UNCHANGED <<newest, have>>

Forget(a) ==
  /\ vouched' = [vouched EXCEPT ![a] = 0]
  /\ UNCHANGED <<newest, have>>

ANext ==
  \/ Issue
  \/ \E s \in Source : Empty(s) \/ Write(s) \/ Patch(s)
  \/ \E a \in Archive : Remember(a) \/ Forget(a)

ASpec == AInit /\ [][ANext]_avars
=============================================================================

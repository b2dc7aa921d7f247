----------------------------- MODULE IpsUpdater -----------------------------
(***************************************************************************)
(* intrusion-prevention-get-updates: a run brings the rule files of every  *)
(* source up to date from the first archive of its list that works.  A     *)
(* full archive is copied over the rule files one by one, each truncated   *)
(* first; a patch is applied to a copy, which then replaces the whole      *)
(* directory.  A copy of the archive, saved last, tells later runs by its  *)
(* size that there is nothing to do.                                       *)
(*                                                                         *)
(* The run may die, and most of its steps may fail, at any point; the      *)
(* server publishes and withdraws archives meanwhile.                      *)
(***************************************************************************)
EXTENDS Integers, Sequences, FiniteSets

CONSTANTS
  Sources,     \* the sources of the command line, in order
  Versioned,   \* the sources with a --suricata-version
  FilesOf,     \* rule files in the archives of a source
  Changes,     \* rule files a revision changes
  Size,        \* size of the archives of a revision
  Offers,      \* sets of archives the server may offer
  MaxRev,      \* bound: revisions the server publishes
  SwapBreaks   \* may the run die or fail between rmtree and move?

Source == {Sources[i] : i \in DOMAIN Sources}
Rev    == 1 .. MaxRev
None    == 0
Garbled == -1  \* the text of no revision: truncated, or wrongly patched
Text    == Rev \cup {None, Garbled}
Url    == [source : Source, patch : BOOLEAN, versioned : BOOLEAN]
File   == UNION {FilesOf[s] : s \in Source}

ASSUME SourcesAssumption ==
  /\ Sources \in Seq(Source) /\ Sources # << >>
  /\ \A i, j \in DOMAIN Sources : Sources[i] = Sources[j] => i = j
  /\ DOMAIN FilesOf = Source
  /\ \A s, t \in Source : s # t => FilesOf[s] \cap FilesOf[t] = {}
ASSUME ServerAssumption ==
  /\ MaxRev \in Nat \ {0}
  /\ Changes \in [Rev -> SUBSET File]
  /\ Size \in [Rev -> Nat]
  /\ Offers \subseteq SUBSET Url
  /\ SwapBreaks \in BOOLEAN

VARIABLES
  rev,      \* latest revision: the one the archives on the server are of
  offered,  \* the archives on the server
  current,  \* revision of every rule file in current/, None if it is absent
  saved,    \* revision of the saved copy of every archive, None if absent
  pc,       \* step of the run
  src, url, \* positions in Sources and in the source's list
  got,      \* revision of the downloaded archive
  work,     \* the patched copy of the directory
  left      \* files still to copy

server == <<rev, offered>>
run    == <<pc, src, url, got, work, left>>
vars   == <<rev, offered, current, saved, pc, src, url, got, work, left>>

(* build_urls: patches before full archives, versioned ones first.         *)
UrlsToTry(s) ==
  LET of(p, v) == [source |-> s, patch |-> p, versioned |-> v]
  IN  IF s \in Versioned
      THEN <<of(TRUE, TRUE), of(FALSE, TRUE), of(TRUE, FALSE), of(FALSE, FALSE)>>
      ELSE <<of(TRUE, FALSE), of(FALSE, FALSE)>>

Here  == Sources[src]
Tried == UrlsToTry(Here)[url]
Absent == [f \in File |-> None]

(* The loops over archives and sources.                                    *)
GoTo(label, s, u) ==
  /\ pc' = label /\ src' = s /\ url' = u
  /\ got' = None /\ work' = Absent /\ left' = {}

NextSource ==
  IF src < Len(Sources) THEN GoTo("head", src + 1, 1) ELSE GoTo("idle", 1, 1)

NextUrlOver ==  \* mutant: off by one
  IF url <= Len(UrlsToTry(Here)) THEN GoTo("head", src, url + 1) ELSE NextSource
NextUrl ==
  IF url < Len(UrlsToTry(Here)) THEN GoTo("head", src, url + 1) ELSE NextSource

-----------------------------------------------------------------------------
Start ==
  /\ pc = "idle"
  /\ GoTo("head", 1, 1)
  /\ UNCHANGED <<server, current, saved>>

(* download: a saved archive as large as the offered one ends the source.  *)
SameSizeSaved(a, b) == a # None  \* mutant: any saved archive will do
SameSize(a, b) == a # None /\ Size[a] = Size[b]

AlreadyCurrent ==
  /\ pc = "head" /\ Tried \in offered
  /\ SameSize(saved[Tried], rev)
  /\ NextSource
  /\ UNCHANGED <<server, current, saved>>

NotFound ==
  /\ pc \in {"head", "get"} /\ Tried \notin offered
  /\ NextUrl
  /\ UNCHANGED <<server, current, saved>>

Headers ==
  /\ pc = "head" /\ Tried \in offered
  /\ ~ SameSize(saved[Tried], rev)
  /\ pc' = "get"
  /\ UNCHANGED <<server, current, saved, src, url, got, work, left>>

(* The archive may be newer than the one the headers were of.              *)
Get ==
  /\ pc = "get" /\ Tried \in offered
  /\ got' = rev
  /\ pc' = IF Tried.patch THEN "patch" ELSE "copy"
  /\ left' = IF Tried.patch THEN {} ELSE FilesOf[Here]
  /\ UNCHANGED <<server, current, saved, src, url, work>>

(* install_full: copytree, one file after the other.  A file is emptied by *)
(* opening it and has the archive's text when it is written.               *)
OpenFile ==
  /\ pc = "copy"
  /\ \E f \in left :
       current[f] # Garbled /\ current' = [current EXCEPT ![f] = Garbled]
  /\ UNCHANGED <<server, saved, pc, src, url, got, work, left>>

CopyFile ==
  /\ pc = "copy"
  /\ \E f \in left :
       /\ current[f] = Garbled /\ current' = [current EXCEPT ![f] = got]
       /\ left' = left \ {f}
  /\ UNCHANGED <<server, saved, pc, src, url, got, work>>

CopyDone ==
  /\ pc = "copy" /\ left = {}
  /\ pc' = "finish"
  /\ UNCHANGED <<server, current, saved, src, url, got, work, left>>

(* A file written at revision v has the text of revision r if none between *)
(* changed it.                                                             *)
IsOf(f, v, r) == v \in 1 .. r /\ \A q \in v + 1 .. r : f \notin Changes[q]

(* install_patch: a patch leads from one revision to the next.  It needs a *)
(* directory that is not empty; patch(1) looks only at the files the patch *)
(* changes.  It does not apply where one of them is absent or patched      *)
(* already; where one has another text it may find its context all the     *)
(* same, and what comes out is no revision's.                              *)
Touched  == FilesOf[Here] \cap Changes[got]
Fits(f)  == IsOf(f, current[f], got - 1)
Applies  == current # Absent /\ \A f \in Touched : Fits(f)
MayApply == current # Absent /\ \A f \in Touched : current[f] \notin {None, got}

AppliedAlone ==  \* mutant: the others' files are not copied
  [f \in File |-> IF f \notin FilesOf[Here] THEN None
                  ELSE IF f \in Touched THEN got ELSE current[f]]
AppliedToAll ==  \* mutant: whatever the patch touches
  [f \in File |-> IF f \in FilesOf[Here] THEN got ELSE current[f]]
Applied ==
  [f \in File |-> IF f \notin Touched THEN current[f]
                  ELSE IF Fits(f) THEN got ELSE Garbled]

ApplyPatch ==
  /\ pc = "patch" /\ MayApply
  /\ work' = Applied
  /\ pc' = "remove"
  /\ UNCHANGED <<server, current, saved, src, url, got, left>>

RejectPatch ==
  /\ pc = "patch" /\ ~ Applies
  /\ NextUrl
  /\ UNCHANGED <<server, current, saved>>

RemoveCurrent ==
  /\ pc = "remove"
  /\ current' = Absent
  /\ pc' = "move"
  /\ UNCHANGED <<server, saved, src, url, got, work, left>>

MovePatched ==
  /\ pc = "move"
  /\ current' = work
  /\ pc' = "finish"
  /\ UNCHANGED <<server, saved, src, url, got, work, left>>

Finish ==
  /\ pc = "finish"
  /\ saved' = [saved EXCEPT ![Tried] = got]
  /\ NextSource
  /\ UNCHANGED <<server, current>>

-----------------------------------------------------------------------------
(* Writing the copy of the archive may leave half of it, which no later    *)
(* run takes for a whole one.                                              *)
HalfSaved ==
  \/ UNCHANGED saved
  \/ pc = "finish" /\ saved' = [saved EXCEPT ![Tried] = None]

(* rmtree may have removed some of the files already.                      *)
HalfRemoved ==
  \/ UNCHANGED current
  \/ /\ SwapBreaks /\ pc = "remove"
     /\ \E gone \in SUBSET File :
          current' = [f \in File |-> IF f \in gone THEN None ELSE current[f]]

(* A request, an archive, a copy or the patch program fails where it could *)
(* have succeeded.                                                         *)
Fail ==
  /\ \/ pc \in {"head", "get"} /\ Tried \in offered
     \/ pc = "patch" /\ MayApply
     \/ pc \in {"copy", "finish"}
     \/ SwapBreaks /\ pc \in {"remove", "move"}
  /\ HalfRemoved
  /\ HalfSaved
  /\ NextUrl
  /\ UNCHANGED server

(* The run dies, in the middle of a step or between two.                   *)
Die ==
  /\ pc # "idle"
  /\ pc = "move" => SwapBreaks
  /\ HalfRemoved
  /\ HalfSaved
  /\ GoTo("idle", 1, 1)
  /\ UNCHANGED server

(* The server.                                                             *)
Publish ==
  /\ rev < MaxRev
  /\ rev' = rev + 1
  /\ offered' \in Offers
  /\ UNCHANGED <<current, saved, run>>

Withdraw ==
  /\ offered' \in Offers
  /\ UNCHANGED <<rev, current, saved, run>>

-----------------------------------------------------------------------------
Init ==
  /\ rev = 1
  /\ offered \in Offers
  /\ current = Absent
  /\ saved = [u \in Url |-> None]
  /\ pc = "idle" /\ src = 1 /\ url = 1
  /\ got = None /\ work = Absent /\ left = {}

Step ==
  \/ AlreadyCurrent \/ NotFound \/ Headers \/ Get
  \/ OpenFile \/ CopyFile \/ CopyDone
  \/ ApplyPatch \/ RejectPatch \/ RemoveCurrent \/ MovePatched
  \/ Finish

Next == Start \/ Step \/ Fail \/ Die \/ Publish \/ Withdraw

Spec     == Init /\ [][Next]_vars
FairSpec == Spec /\ WF_vars(Start) /\ WF_vars(Step)

-----------------------------------------------------------------------------
(* Every variable has its type, and every step the locals it works on.     *)
TypeOK ==
  /\ rev \in Rev /\ offered \in Offers
  /\ current \in [File -> Text] /\ work \in [File -> Text]
  /\ saved \in [Url -> Rev \cup {None}]
  /\ src \in DOMAIN Sources /\ url \in DOMAIN UrlsToTry(Here)
  /\ left \subseteq FilesOf[Here] /\ (left # {} => pc = "copy")
  /\ \/ pc \in {"idle", "head", "get"} /\ got = None
     \/ pc \in {"copy", "patch", "remove", "move", "finish"} /\ got \in Rev

(* What the directory holds, or will once the patched copy is moved.       *)
Kept == IF pc = "move" THEN work ELSE current

(* A saved archive vouches for the files it was installed as: whatever     *)
(* failed or died since, and whichever other source's patch replaced the   *)
(* directory, none of them is absent or older.  What it cannot vouch for   *)
(* is their text: a later archive of their source may have spoiled it.     *)
(* (install before finish, and copies of the whole directory.)             *)
Brings(u, r) == IF u.patch THEN FilesOf[u.source] \cap Changes[r] ELSE FilesOf[u.source]

SavedIsInstalled ==
  \A u \in Url : saved[u] # None =>
    \A f \in Brings(u, saved[u]) : Kept[f] = Garbled \/ saved[u] <= Kept[f]

(* No step takes a rule file back to an older revision or loses it, except *)
(* that a file is spoiled by a full archive of its own source while it is  *)
(* copied, or by a patch of its own source that is made for another text;  *)
(* the files of other sources come to no harm.                             *)
NeverOlder ==
  [][\A f \in File : Kept'[f] < Kept[f] =>
       /\ Kept'[f] = Garbled /\ f \in FilesOf[Here]
       /\ \/ pc = "copy"
          \/ pc = "remove" /\ ~ Fits(f)]_vars

(* A source of which only one archive is ever offered: a full one, not     *)
(* patches, nor one for its version of Suricata and one for all.           *)
OneArchive(s) ==
  \A u, v \in UNION Offers : u.source = s /\ v.source = s => ~ u.patch /\ u = v

(* A success alert tells the truth when it is sent: "Successfully updated" *)
(* after a full archive, and "already current" where there is one archive  *)
(* to compare, name rules that are in the directory, all of them.          *)
Holds(s, r) == \A f \in FilesOf[s] : IsOf(f, current[f], r)

AlertsTruthful ==
  [][/\ AlreadyCurrent /\ OneArchive(Here) => Holds(Here, rev)
     /\ Finish /\ ~ Tried.patch => Holds(Here, got)]_vars

(* Once the server keeps offering the one archive of a source, and steps   *)
(* stop failing, the source's files reach the server's revision, whatever  *)
(* earlier runs left half done and other sources' patches do.              *)
Undisturbed == <>[][Start \/ Step]_vars
Full(s) ==
  \E i \in DOMAIN UrlsToTry(s) : ~ UrlsToTry(s)[i].patch /\ UrlsToTry(s)[i] \in offered

CatchesUp ==
  Undisturbed =>
    \A s \in Source : OneArchive(s) /\ <>[]Full(s) => <>[]Holds(s, rev)

-----------------------------------------------------------------------------
(* The updater implements RuleFiles: for whoever reads the directory, a    *)
(* full archive arrives file by file and a patch all at once; other        *)
(* sources' files stay; and no archive is remembered before its files are  *)
(* written.                                                                *)
Abstract == INSTANCE RuleFiles WITH
  Archive <- Url, newest <- rev, have <- Kept, vouched <- saved

UpdatesRuleFiles == Abstract!ASpec
=============================================================================

-------------------------- MODULE IpsUpdaterProofs --------------------------
(* Theorems about the rule updater for any sources, rule files, sizes and  *)
(* offers and any number of revisions.                                     *)
EXTENDS IpsUpdater, TLAPS

(* build_urls returns archives of the source it is given, at least one.    *)
LEMMA UrlsOfSource ==
  ASSUME NEW s \in Source
  PROVE  /\ 1 \in DOMAIN UrlsToTry(s)
         /\ DOMAIN UrlsToTry(s) = 1 .. Len(UrlsToTry(s))
         /\ Len(UrlsToTry(s)) \in Nat
         /\ \A i \in DOMAIN UrlsToTry(s) :
              UrlsToTry(s)[i] \in Url /\ UrlsToTry(s)[i].source = s
<1>. DEFINE U(p, v) == [source |-> s, patch |-> p, versioned |-> v]
            q == UrlsToTry(s)
            Right(u) == u \in Url /\ u.source = s
<1>1. /\ Right(U(TRUE, TRUE)) /\ Right(U(FALSE, TRUE))
      /\ Right(U(TRUE, FALSE)) /\ Right(U(FALSE, FALSE))
  BY DEF Url
<1>2. q = IF s \in Versioned
          THEN <<U(TRUE, TRUE), U(FALSE, TRUE), U(TRUE, FALSE), U(FALSE, FALSE)>>
          ELSE <<U(TRUE, FALSE), U(FALSE, FALSE)>>
  BY DEF UrlsToTry
<1>. HIDE DEF U, q, Right
<1>. DEFINE Good == /\ 1 \in DOMAIN q /\ DOMAIN q = 1 .. Len(q) /\ Len(q) \in Nat
                    /\ \A i \in DOMAIN q : Right(q[i])
<1>3. ASSUME s \in Versioned PROVE Good
  <2>1. /\ DOMAIN q = 1 .. 4 /\ Len(q) = 4
        /\ q[1] = U(TRUE, TRUE) /\ q[2] = U(FALSE, TRUE)
        /\ q[3] = U(TRUE, FALSE) /\ q[4] = U(FALSE, FALSE)
    BY <1>2, <1>3
  <2>2. \A i \in 1 .. 4 : i = 1 \/ i = 2 \/ i = 3 \/ i = 4
    OBVIOUS
  <2>3. \A i \in DOMAIN q : Right(q[i])
    BY <1>1, <2>1, <2>2
  <2>. QED  BY <2>1, <2>3
<1>4. ASSUME s \notin Versioned PROVE Good
  <2>1. /\ DOMAIN q = 1 .. 2 /\ Len(q) = 2
        /\ q[1] = U(TRUE, FALSE) /\ q[2] = U(FALSE, FALSE)
    BY <1>2, <1>4
  <2>2. \A i \in 1 .. 2 : i = 1 \/ i = 2
    OBVIOUS
  <2>3. \A i \in DOMAIN q : Right(q[i])
    BY <1>1, <2>1, <2>2
  <2>. QED  BY <2>1, <2>3
<1>. QED  BY <1>3, <1>4 DEF q, Right

(* The archive a run is trying belongs to the source it is at.             *)
LEMMA TriedHere ==
  ASSUME src \in DOMAIN Sources, url \in DOMAIN UrlsToTry(Here)
  PROVE  /\ Here \in Source
         /\ Tried \in Url /\ Tried.source = Here
         /\ FilesOf[Here] \subseteq File
<1>1. Here \in Source
  BY DEF Source, Here
<1>. QED  BY <1>1, UrlsOfSource DEF Tried, File

(* Whatever ends an archive, a source or a run, the run is then between    *)
(* two archives or over.                                                   *)
LEMMA LoopStep ==
  ASSUME src \in DOMAIN Sources, url \in DOMAIN UrlsToTry(Here),
         NextUrl \/ NextSource \/ GoTo("idle", 1, 1) \/ GoTo("head", 1, 1)
  PROVE  /\ src' \in DOMAIN Sources /\ url' \in DOMAIN UrlsToTry(Sources[src'])
         /\ pc' \in {"idle", "head"} /\ got' = None
         /\ work' = Absent /\ left' = {}
<1>1. /\ DOMAIN Sources = 1 .. Len(Sources) /\ Len(Sources) \in Nat
      /\ 1 \in DOMAIN Sources
  BY SourcesAssumption
<1>2. \A i \in DOMAIN Sources : Sources[i] \in Source
  BY DEF Source
<1>3. CASE GoTo("idle", 1, 1) \/ GoTo("head", 1, 1)
  BY <1>1, <1>2, <1>3, UrlsOfSource DEF GoTo
<1>4. CASE NextSource
  <2>1. src < Len(Sources) => src + 1 \in DOMAIN Sources
    BY <1>1
  <2>. QED  BY <1>1, <1>2, <1>4, <2>1, UrlsOfSource DEF NextSource, GoTo
<1>5. CASE NextUrl
  <2>1. CASE url < Len(UrlsToTry(Here)) /\ GoTo("head", src, url + 1)
    <3>1. url + 1 \in DOMAIN UrlsToTry(Here)
      BY <1>2, <2>1, UrlsOfSource DEF Here
    <3>. QED  BY <2>1, <3>1 DEF GoTo, Here
  <2>2. CASE NextSource
    BY <1>4, <2>2
  <2>. QED  BY <1>5, <2>1, <2>2 DEF NextUrl
<1>. QED  BY <1>3, <1>4, <1>5

(* Texts are numbers: Garbled is below None, and None below every revision. *)
LEMMA Numbers ==
  /\ Text \subseteq Int /\ Rev \subseteq Text /\ None \in Text /\ Garbled \in Text
  /\ \A r \in Rev : Garbled < None /\ None < r
BY ServerAssumption DEF Rev, None, Garbled, Text

LEMMA AbsentType == Absent \in [File -> Text]
BY DEF Absent, Text

LEMMA InitType == Init => TypeOK
<1>. SUFFICES ASSUME Init PROVE TypeOK
  OBVIOUS
<1>1. src \in DOMAIN Sources /\ url \in DOMAIN UrlsToTry(Here)
  <2>1. 1 \in DOMAIN Sources /\ Sources[1] \in Source
    BY SourcesAssumption DEF Source
  <2>. QED  BY <2>1, UrlsOfSource DEF Init, Here
<1>. QED  BY <1>1, ServerAssumption, AbsentType DEF Init, TypeOK, Rev

(* The actions, one by one.                                                *)
LEMMA ActionCases ==
  ASSUME [Next]_vars
  PROVE  \/ Start \/ AlreadyCurrent \/ NotFound \/ Headers \/ Get
         \/ OpenFile \/ CopyFile \/ CopyDone \/ ApplyPatch \/ RejectPatch
         \/ RemoveCurrent \/ MovePatched \/ Finish
         \/ Fail \/ Die \/ Publish \/ Withdraw \/ UNCHANGED vars
BY DEF Next, Step

(* A failure or a death in the middle of a step leaves the directory and   *)
(* the saved archives of their types.                                      *)
LEMMA HalfType ==
  ASSUME TypeOK, HalfRemoved, HalfSaved
  PROVE  /\ current' \in [File -> Text]
         /\ saved' \in [Url -> Rev \cup {None}]
BY Numbers DEF TypeOK, HalfRemoved, HalfSaved

(* What the patch makes of the directory has its type.                     *)
LEMMA AppliedType ==
  ASSUME TypeOK, got \in Rev
  PROVE  Applied \in [File -> Text]
BY Numbers DEF TypeOK, Applied

(* The loops keep the types of the run's locals.                           *)
LEMMA LoopType ==
  ASSUME TypeOK, NextUrl \/ NextSource \/ GoTo("idle", 1, 1) \/ GoTo("head", 1, 1),
         rev' \in Rev, offered' \in Offers,
         current' \in [File -> Text],
         saved' \in [Url -> Rev \cup {None}]
  PROVE  TypeOK'
<1>1. /\ src' \in DOMAIN Sources /\ url' \in DOMAIN UrlsToTry(Sources[src'])
      /\ pc' \in {"idle", "head"} /\ got' = None
      /\ work' = Absent /\ left' = {}
  BY LoopStep DEF TypeOK
<1>2. Here' = Sources[src']
  BY DEF Here
<1>. QED  BY <1>1, <1>2, AbsentType DEF TypeOK

LEMMA StepType == TypeOK /\ [Next]_vars => TypeOK'
<1>. SUFFICES ASSUME TypeOK, [Next]_vars PROVE TypeOK'
  OBVIOUS
<1>. DEFINE Unmoved == src' = src /\ url' = url
<1>1. /\ Here \in Source /\ Tried \in Url /\ FilesOf[Here] \subseteq File
  BY TriedHere DEF TypeOK
<1>2. Unmoved => Here' = Here
  BY DEF Here
<1>3. CASE Start
  BY <1>3, LoopType DEF Start, TypeOK, server
<1>4. CASE AlreadyCurrent
  BY <1>1, <1>4, LoopType DEF AlreadyCurrent, TypeOK, server
<1>5. CASE NotFound
  BY <1>5, LoopType DEF NotFound, TypeOK, server
<1>6. CASE Headers
  BY <1>2, <1>6 DEF Headers, TypeOK, server
<1>7. CASE Get
  BY <1>2, <1>7 DEF Get, TypeOK, server
<1>8. CASE OpenFile
  <2>1. PICK f \in left : current' = [current EXCEPT ![f] = Garbled]
    BY <1>8 DEF OpenFile
  <2>2. current' \in [File -> Text]
    BY <2>1, Numbers DEF TypeOK
  <2>. QED  BY <1>2, <1>8, <2>2 DEF OpenFile, TypeOK, server
<1>9. CASE CopyFile
  <2>1. PICK f \in left : /\ current' = [current EXCEPT ![f] = got]
                          /\ left' = left \ {f}
    BY <1>9 DEF CopyFile
  <2>2. got \in Rev
    BY <1>9 DEF CopyFile, TypeOK
  <2>3. current' \in [File -> Text]
    BY <2>1, <2>2, Numbers DEF TypeOK
  <2>. QED  BY <1>2, <1>9, <2>1, <2>2, <2>3 DEF CopyFile, TypeOK, server
<1>10. CASE CopyDone
  BY <1>2, <1>10 DEF CopyDone, TypeOK, server
<1>11. CASE ApplyPatch
  <2>1. got \in Rev
    BY <1>11 DEF ApplyPatch, TypeOK
  <2>. QED  BY <1>2, <1>11, <2>1, AppliedType DEF ApplyPatch, TypeOK, server
<1>12. CASE RejectPatch
  BY <1>12, LoopType DEF RejectPatch, TypeOK, server
<1>13. CASE RemoveCurrent
  BY <1>2, <1>13, AbsentType DEF RemoveCurrent, TypeOK, server
<1>14. CASE MovePatched
  BY <1>2, <1>14 DEF MovePatched, TypeOK, server
<1>15. CASE Finish
  BY <1>1, <1>15, LoopType DEF Finish, TypeOK, server
<1>16. CASE Fail
  BY <1>16, HalfType, LoopType DEF Fail, TypeOK, server
<1>17. CASE Die
  BY <1>17, HalfType, LoopType DEF Die, TypeOK, server
<1>18. CASE Publish
  BY <1>2, <1>18, ServerAssumption DEF Publish, TypeOK, run, Rev
<1>19. CASE Withdraw
  BY <1>2, <1>19 DEF Withdraw, TypeOK, run
<1>20. CASE UNCHANGED vars
  BY <1>2, <1>20 DEF vars, TypeOK
<1>. QED  BY ActionCases, <1>3, <1>4, <1>5, <1>6, <1>7, <1>8, <1>9, <1>10, <1>11,
             <1>12, <1>13, <1>14, <1>15, <1>16, <1>17, <1>18, <1>19, <1>20

(* In every reachable state the variables have their types, whatever       *)
(* fails, dies, is published or withdrawn.                                 *)
THEOREM TypeCorrect == Spec => []TypeOK
BY InitType, StepType, PTL DEF Spec

-----------------------------------------------------------------------------
(* How far a run is at each of its steps: no archive is remembered that is *)
(* newer than the one at hand, and that is not newer than the server's; a  *)
(* full archive has given its text to the files that are not left; a patch *)
(* has given its text, or none, to those it touches, and to no other.      *)
Recent ==
  /\ got <= rev
  /\ \A u \in Url : saved[u] <= rev /\ (got # None => saved[u] <= got)

Copying ==
  pc = "copy" => ~ Tried.patch /\ \A f \in FilesOf[Here] \ left : current[f] = got

Patching ==
  /\ pc \in {"patch", "remove", "move"} => Tried.patch
  /\ pc = "remove" => MayApply /\ work = Applied

IsInstalled(text) ==
  \A f \in FilesOf[Here] :
    \/ text[f] = got
    \/ Tried.patch /\ (f \in Changes[got] => text[f] = Garbled)

Installed ==
  /\ pc = "move" => IsInstalled(work)
  /\ pc = "finish" => IsInstalled(current)

Progress == Recent /\ Copying /\ Patching /\ Installed

LEMMA InitProgress == Init => Progress
BY DEF Init, Progress, Recent, Copying, Patching, Installed, None

(* What a step does to the saved archives: nothing, or it forgets one, or  *)
(* it remembers the one at hand.                                           *)
LEMMA StepSaves ==
  ASSUME TypeOK, [Next]_vars, NEW u \in Url
  PROVE  \/ saved'[u] = saved[u] \/ saved'[u] = None
         \/ Finish /\ u = Tried /\ saved'[u] = got
<1>1. Tried \in Url
  BY TriedHere DEF TypeOK
<1>2. CASE HalfSaved
  BY <1>1, <1>2 DEF HalfSaved, TypeOK
<1>3. CASE Finish
  BY <1>1, <1>3 DEF Finish, TypeOK
<1>4. CASE UNCHANGED saved
  BY <1>4
<1>. QED
  BY ActionCases, <1>2, <1>3, <1>4
  DEF Start, AlreadyCurrent, NotFound, Headers, Get, OpenFile, CopyFile, CopyDone,
      ApplyPatch, RejectPatch, RemoveCurrent, MovePatched, Fail, Die, Publish,
      Withdraw, run, vars

(* The revision at hand and the server's: a run gets the server's or drops *)
(* what it has.                                                            *)
LEMMA StepGets ==
  ASSUME TypeOK, [Next]_vars
  PROVE  /\ rev' \in Rev /\ rev <= rev' /\ (rev' = rev \/ Publish)
         /\ got' = got \/ got' = None \/ got' = rev
<1>1. rev \in Int
  BY Numbers DEF TypeOK
<1>2. rev' \in Rev
  BY StepType DEF TypeOK
<1>3. ASSUME NextUrl \/ NextSource \/ GoTo("idle", 1, 1) \/ GoTo("head", 1, 1)
      PROVE  got' = None
  BY <1>3, LoopStep DEF TypeOK
<1>4. CASE Start \/ AlreadyCurrent \/ NotFound \/ RejectPatch \/ Finish \/ Fail \/ Die
  BY <1>1, <1>2, <1>3, <1>4
  DEF Start, AlreadyCurrent, NotFound, RejectPatch, Finish, Fail, Die, server
<1>5. CASE \/ Headers \/ Get \/ OpenFile \/ CopyFile \/ CopyDone \/ ApplyPatch
           \/ RemoveCurrent \/ MovePatched
  BY <1>1, <1>2, <1>5
  DEF Headers, Get, OpenFile, CopyFile, CopyDone, ApplyPatch, RemoveCurrent,
      MovePatched, server
<1>6. CASE Publish \/ Withdraw \/ UNCHANGED vars
  BY <1>1, <1>2, <1>6 DEF Publish, Withdraw, run, vars
<1>. QED  BY ActionCases, <1>4, <1>5, <1>6

LEMMA StepRecent ==
  ASSUME TypeOK, Recent, [Next]_vars
  PROVE  Recent'
<1>1. /\ rev \in Int /\ rev' \in Int /\ got \in Int /\ got' \in Int /\ None \in Int
      /\ None < rev /\ None < rev' /\ (got # None => None < got)
      /\ \A u \in Url : saved[u] \in Int /\ saved'[u] \in Int
  <2>1. rev \in Rev /\ rev' \in Rev
    BY StepType DEF TypeOK
  <2>2. got \in Rev \cup {None} /\ got' \in Rev \cup {None}
    BY StepType DEF TypeOK
  <2>3. \A u \in Url : saved[u] \in Rev \cup {None} /\ saved'[u] \in Rev \cup {None}
    BY StepType DEF TypeOK
  <2>. QED  BY <2>1, <2>2, <2>3, Numbers
<1>2. got' <= rev'
  BY <1>1, StepGets DEF Recent
<1>3. ASSUME NEW u \in Url
      PROVE  saved'[u] <= rev' /\ (got' # None => saved'[u] <= got')
  <2>1. saved[u] <= rev /\ (got # None => saved[u] <= got) /\ got <= rev
    BY DEF Recent
  <2>2. CASE saved'[u] = saved[u] \/ saved'[u] = None
    BY <1>1, <2>1, <2>2, StepGets
  <2>3. CASE Finish /\ saved'[u] = got
    <3>1. got' = None
      BY <2>3, LoopStep DEF Finish, TypeOK
    <3>. QED  BY <1>1, <2>1, <2>3, <3>1, StepGets
  <2>. QED  BY <2>2, <2>3, StepSaves
<1>. QED  BY <1>2, <1>3 DEF Recent

(* What a patch makes of a file: nothing, or the archive's text, or none.  *)
LEMMA AppliedText ==
  ASSUME TypeOK, got \in Rev, NEW f \in File
  PROVE  \/ f \notin Touched /\ Applied[f] = current[f]
         \/ f \in Touched /\ Fits(f) /\ Applied[f] = got
         \/ f \in Touched /\ ~ Fits(f) /\ Applied[f] = Garbled
BY DEF Applied

LEMMA AppliedIsInstalled ==
  ASSUME TypeOK, got \in Rev, Tried.patch
  PROVE  IsInstalled(Applied)
<1>1. FilesOf[Here] \subseteq File
  BY TriedHere DEF TypeOK
<1>. QED  BY <1>1, AppliedText DEF IsInstalled, Touched

LEMMA StepProgress == TypeOK /\ Progress /\ [Next]_vars => Progress'
<1>. SUFFICES ASSUME TypeOK, Progress, [Next]_vars PROVE Progress'
  OBVIOUS
<1>. DEFINE Rest == Copying /\ Patching /\ Installed
<1>1. FilesOf[Here] \subseteq File
  BY TriedHere DEF TypeOK
<1>2. src' = src /\ url' = url => Here' = Here /\ Tried' = Tried
  BY DEF Here, Tried
<1>3. ASSUME NextUrl \/ NextSource \/ GoTo("idle", 1, 1) \/ GoTo("head", 1, 1)
      PROVE  Rest'
  <2>1. pc' \in {"idle", "head"}
    BY <1>3, LoopStep DEF TypeOK
  <2>. QED  BY <2>1 DEF Copying, Patching, Installed
<1>4. ASSUME Start \/ AlreadyCurrent \/ NotFound \/ RejectPatch \/ Finish \/ Fail \/ Die PROVE Rest'
  BY <1>3, <1>4 DEF Start, AlreadyCurrent, NotFound, RejectPatch, Finish, Fail, Die
<1>5. ASSUME Headers PROVE Rest'
  BY <1>5 DEF Headers, Copying, Patching, Installed
<1>6. ASSUME Get PROVE Rest'
  BY <1>2, <1>6 DEF Get, Copying, Patching, Installed
<1>7. ASSUME OpenFile PROVE Rest'
  <2>1. PICK f \in left : /\ current' = [current EXCEPT ![f] = Garbled]
    BY <1>7 DEF OpenFile
  <2>2. \A g \in FilesOf[Here] \ left : current'[g] = current[g]
    BY <1>1, <2>1 DEF TypeOK
  <2>3. /\ pc = "copy" /\ pc' = "copy" /\ got' = got /\ left' = left
        /\ Here' = Here /\ Tried' = Tried
    BY <1>2, <1>7 DEF OpenFile
  <2>. QED  BY <2>2, <2>3 DEF Copying, Patching, Installed, Progress
<1>8. ASSUME CopyFile PROVE Rest'
  <2>1. PICK f \in left : /\ current' = [current EXCEPT ![f] = got]
                          /\ left' = left \ {f}
    BY <1>8 DEF CopyFile
  <2>2. f \in File /\ current'[f] = got
    BY <1>1, <2>1 DEF TypeOK
  <2>3. \A g \in FilesOf[Here] : g # f => current'[g] = current[g]
    BY <1>1, <2>1 DEF TypeOK
  <2>4. pc = "copy" /\ pc' = "copy" /\ got' = got /\ Here' = Here /\ Tried' = Tried
    BY <1>2, <1>8 DEF CopyFile
  <2>. QED  BY <2>1, <2>2, <2>3, <2>4 DEF Copying, Patching, Installed, Progress
<1>9. ASSUME CopyDone PROVE Rest'
  BY <1>2, <1>9 DEF CopyDone, Copying, Patching, Installed, IsInstalled, Progress
<1>10. ASSUME ApplyPatch PROVE Rest'
  <2>1. /\ pc = "patch" /\ pc' = "remove" /\ MayApply /\ work' = Applied
        /\ UNCHANGED <<current, got, src, url>>
    BY <1>10 DEF ApplyPatch
  <2>2. MayApply' /\ Applied' = Applied /\ Tried' = Tried
    BY <1>2, <2>1 DEF MayApply, Applied, Touched, Fits
  <2>. QED  BY <2>1, <2>2 DEF Copying, Patching, Installed, Progress
<1>11. ASSUME RemoveCurrent PROVE Rest'
  <2>1. /\ pc = "remove" /\ pc' = "move" /\ work' = work /\ UNCHANGED <<got, src, url>>
    BY <1>11 DEF RemoveCurrent
  <2>2. IsInstalled(work)
    <3>1. got \in Rev /\ Tried.patch /\ work = Applied
      BY <2>1 DEF TypeOK, Patching, Progress
    <3>. QED  BY <3>1, AppliedIsInstalled
  <2>3. IsInstalled(work)'
    BY <1>2, <2>1, <2>2 DEF IsInstalled
  <2>. QED  BY <1>2, <2>1, <2>3 DEF Copying, Patching, Installed, Progress
<1>12. ASSUME MovePatched PROVE Rest'
  <2>1. /\ pc = "move" /\ pc' = "finish" /\ current' = work /\ UNCHANGED <<got, src, url>>
    BY <1>12 DEF MovePatched
  <2>2. IsInstalled(current)'
    BY <1>2, <2>1 DEF Installed, IsInstalled, Progress
  <2>. QED  BY <2>1, <2>2 DEF Copying, Patching, Installed
<1>13. ASSUME Publish \/ Withdraw \/ UNCHANGED vars PROVE Rest'
  <2>1. UNCHANGED <<current, pc, src, url, got, work, left>>
    BY <1>13 DEF Publish, Withdraw, run, vars
  <2>2. MayApply' = MayApply /\ Applied' = Applied
    BY <1>2, <2>1 DEF MayApply, Applied, Touched, Fits
  <2>. QED  BY <1>2, <2>1, <2>2
            DEF Copying, Patching, Installed, IsInstalled, Progress
<1>14. Rest'
  BY ActionCases, <1>4, <1>5, <1>6, <1>7, <1>8, <1>9, <1>10, <1>11, <1>12, <1>13
<1>. QED  BY <1>14, StepRecent DEF Progress

-----------------------------------------------------------------------------
(* What a step does to a file, unless it breaks the swap: nothing, or it   *)
(* has the text of the archive at hand from an older or none, or it is     *)
(* spoiled by its own source.                                              *)
LEMMA StepFiles ==
  ASSUME ~ SwapBreaks, TypeOK, Progress, [Next]_vars, NEW f \in File
  PROVE  \/ Kept'[f] = Kept[f]
         \/ Kept'[f] = got /\ got \in Rev /\ Kept[f] < got
         \/ /\ Kept'[f] = Garbled /\ f \in FilesOf[Here]
            /\ pc = "copy" \/ (pc = "remove" /\ ~ Fits(f))
<1>1. FilesOf[Here] \subseteq File
  BY TriedHere DEF TypeOK
<1>2. ASSUME UNCHANGED current, pc # "move", pc' # "move" PROVE Kept' = Kept
  BY <1>2 DEF Kept
<1>3. ASSUME NextUrl \/ NextSource \/ GoTo("idle", 1, 1) \/ GoTo("head", 1, 1)
      PROVE  pc' # "move"
  BY <1>3, LoopStep DEF TypeOK
<1>4. CASE Start \/ AlreadyCurrent \/ NotFound \/ RejectPatch \/ Finish
  BY <1>2, <1>3, <1>4 DEF Start, AlreadyCurrent, NotFound, RejectPatch, Finish
<1>5. CASE Headers \/ Get \/ CopyDone \/ ApplyPatch
  BY <1>2, <1>5 DEF Headers, Get, CopyDone, ApplyPatch
<1>6. CASE Fail \/ Die
  BY <1>2, <1>3, <1>6 DEF Fail, Die, HalfRemoved
<1>7. CASE OpenFile
  <2>1. PICK g \in left : current' = [current EXCEPT ![g] = Garbled]
    BY <1>7 DEF OpenFile
  <2>2. pc = "copy" /\ Kept = current /\ Kept' = current' /\ g \in FilesOf[Here]
    BY <1>7 DEF OpenFile, Kept, TypeOK
  <2>. QED  BY <1>1, <2>1, <2>2 DEF TypeOK
<1>8. CASE CopyFile
  <2>1. PICK g \in left : current[g] = Garbled /\ current' = [current EXCEPT ![g] = got]
    BY <1>8 DEF CopyFile
  <2>2. pc = "copy" /\ Kept = current /\ Kept' = current' /\ g \in FilesOf[Here]
    BY <1>8 DEF CopyFile, Kept, TypeOK
  <2>3. got \in Rev /\ Garbled < got
    <3>1. got \in Rev
      BY <2>2 DEF TypeOK
    <3>. QED  BY <3>1, Numbers DEF Garbled, None
  <2>. QED  BY <1>1, <2>1, <2>2, <2>3 DEF TypeOK
<1>9. CASE RemoveCurrent
  <2>1. pc = "remove" /\ Kept = current /\ Kept' = work /\ work = Applied
    BY <1>9 DEF RemoveCurrent, Kept, Progress, Patching
  <2>2. got \in Rev
    BY <2>1 DEF TypeOK
  <2>3. ASSUME Fits(f) PROVE current[f] < got
    <3>1. got \in Int
      BY <2>2, Numbers
    <3>2. current[f] \in 1 .. got - 1
      BY <2>3 DEF Fits, IsOf
    <3>. QED  BY <3>1, <3>2
  <2>. QED  BY <2>1, <2>2, <2>3, AppliedText DEF Touched
<1>10. CASE MovePatched
  BY <1>10 DEF MovePatched, Kept
<1>11. CASE Publish \/ Withdraw \/ UNCHANGED vars
  BY <1>11 DEF Publish, Withdraw, run, vars, Kept
<1>. QED  BY ActionCases, <1>4, <1>5, <1>6, <1>7, <1>8, <1>9, <1>10, <1>11

(* Before and after a step, what a file has is a number.                   *)
LEMMA KeptType ==
  ASSUME TypeOK, [Next]_vars, NEW f \in File
  PROVE  Kept[f] \in Int /\ Kept'[f] \in Int
<1>1. Kept \in [File -> Text] /\ Kept' \in [File -> Text]
  BY StepType DEF TypeOK, Kept
<1>. QED  BY <1>1, Numbers

(* If neither death nor failure falls between rmtree and move, no step     *)
(* takes a rule file back to an older revision or loses it, and only its   *)
(* own source ever spoils it.                                              *)
THEOREM OnlyForward == ASSUME ~ SwapBreaks PROVE Spec => NeverOlder
<1>1. TypeOK /\ Progress /\ [Next]_vars =>
        [\A f \in File : Kept'[f] < Kept[f] =>
           /\ Kept'[f] = Garbled /\ f \in FilesOf[Here]
           /\ \/ pc = "copy"
              \/ pc = "remove" /\ ~ Fits(f)]_vars
  <2>. SUFFICES ASSUME TypeOK, Progress, [Next]_vars, NEW f \in File, Kept'[f] < Kept[f]
                PROVE  /\ Kept'[f] = Garbled /\ f \in FilesOf[Here]
                       /\ pc = "copy" \/ (pc = "remove" /\ ~ Fits(f))
    OBVIOUS
  <2>1. got \in Rev => got \in Int
    BY Numbers
  <2>. QED  BY <2>1, StepFiles, KeptType
<1>. QED  BY <1>1, InitType, StepType, InitProgress, StepProgress, PTL DEF Spec, NeverOlder

LEMMA InitBacked == Init => SavedIsInstalled
BY DEF Init, SavedIsInstalled

LEMMA StepBacked ==
  ASSUME ~ SwapBreaks, TypeOK, Progress, SavedIsInstalled, [Next]_vars
  PROVE  SavedIsInstalled'
<1>. SUFFICES ASSUME NEW u \in Url, saved'[u] # None, NEW f \in Brings(u, saved'[u])
              PROVE  Kept'[f] = Garbled \/ saved'[u] <= Kept'[f]
  BY DEF SavedIsInstalled, Brings
<1>1. f \in File
  BY DEF File, Url, Brings
<1>2. /\ saved'[u] \in Int /\ Kept[f] \in Int /\ Kept'[f] \in Int
      /\ (got \in Rev => got \in Int /\ got # None)
  <2>1. saved'[u] \in Rev \cup {None}
    BY StepType DEF TypeOK
  <2>2. saved'[u] \in Int
    BY <2>1, Numbers
  <2>3. got \in Rev => got \in Int /\ got # None
    BY Numbers DEF Rev, None
  <2>. QED  BY <1>1, <2>2, <2>3, KeptType
<1>3. CASE saved'[u] = saved[u]
  <2>1. Kept[f] = Garbled \/ saved'[u] <= Kept[f]
    BY <1>3 DEF SavedIsInstalled
  <2>2. got \in Rev => saved'[u] <= got
    BY <1>2, <1>3 DEF Progress, Recent
  <2>. QED  BY <1>1, <1>2, <2>1, <2>2, StepFiles
<1>4. CASE Finish /\ u = Tried /\ saved'[u] = got
  <2>1. pc = "finish" /\ current' = current
    BY <1>4 DEF Finish
  <2>2. pc' # "move"
    BY <1>4, LoopStep DEF Finish, TypeOK
  <2>3. Kept'[f] = current[f]
    BY <2>1, <2>2 DEF Kept
  <2>4. u.source = Here
    BY <1>4, TriedHere DEF TypeOK
  <2>5. current[f] = got \/ current[f] = Garbled
    BY <1>4, <2>1, <2>4 DEF Progress, Installed, IsInstalled, Brings
  <2>. QED  BY <1>2, <1>4, <2>3, <2>5
<1>. QED  BY <1>3, <1>4, StepSaves

(* None of the files a remembered archive was installed as is absent or    *)
(* older, whatever failed, died or replaced the directory since.           *)
THEOREM SavedBacked == ASSUME ~ SwapBreaks PROVE Spec => []SavedIsInstalled
<1>1. TypeOK /\ Progress /\ SavedIsInstalled /\ [Next]_vars => SavedIsInstalled'
  BY StepBacked
<1>. QED  BY <1>1, InitType, StepType, InitProgress, StepProgress, InitBacked, PTL DEF Spec

-----------------------------------------------------------------------------
(* A source of one archive has seen its archive offered, and the run does  *)
(* not fetch it again at the server's revision if it remembers that one.   *)
Single ==
  /\ \A u \in Url : saved[u] # None => u \in UNION Offers
  /\ pc \in {"get", "copy", "patch", "remove", "move", "finish"} =>
       Tried \in UNION Offers
  /\ pc \in {"get", "copy", "finish"} /\ OneArchive(Here) => saved[Tried] # rev

(* So what it remembers at the server's revision is in the directory: a    *)
(* run that spoils its files has remembered an older one.                  *)
AsRemembered ==
  \A u \in Url : OneArchive(u.source) /\ saved[u] = rev =>
    \A f \in FilesOf[u.source] : Kept[f] = rev

LEMMA InitSingle == Init => Single /\ AsRemembered
<1>. SUFFICES ASSUME Init PROVE Single /\ AsRemembered
  OBVIOUS
<1>. QED  BY DEF Init, Single, AsRemembered, None

LEMMA TriedOffered ==
  ASSUME TypeOK, Tried \in offered
  PROVE  Tried \in UNION Offers
BY DEF TypeOK

LEMMA StepSingle ==
  ASSUME \A a, b \in Rev : Size[a] = Size[b] => a = b,
         TypeOK, Progress, Single, [Next]_vars
  PROVE  Single'
<1>1. Tried \in Url
  BY TriedHere DEF TypeOK
<1>2. src' = src /\ url' = url => Here' = Here /\ Tried' = Tried
  BY DEF Here, Tried
<1>. DEFINE Fetching(p) == p \in {"get", "copy", "patch", "remove", "move", "finish"}
            Steps == /\ Fetching(pc') => Tried' \in UNION Offers
                     /\ pc' \in {"get", "copy", "finish"} /\ OneArchive(Here') =>
                          saved'[Tried'] # rev'
<1>3. \A u \in Url : saved'[u] # None => u \in UNION Offers
  BY StepSaves DEF Single, Finish
<1>4. ASSUME NextUrl \/ NextSource \/ GoTo("idle", 1, 1) \/ GoTo("head", 1, 1)
      PROVE  Steps
  <2>1. pc' \in {"idle", "head"}
    BY <1>4, LoopStep DEF TypeOK
  <2>. QED  BY <2>1
<1>5. ASSUME Start \/ AlreadyCurrent \/ NotFound \/ RejectPatch \/ Finish \/ Fail \/ Die
      PROVE  Steps
  BY <1>4, <1>5 DEF Start, AlreadyCurrent, NotFound, RejectPatch, Finish, Fail, Die
<1>6. ASSUME Headers PROVE Steps
  <2>1. saved[Tried] = rev => Size[saved[Tried]] = Size[rev] /\ rev # None
    BY DEF TypeOK, Rev, None
  <2>2. saved[Tried] # rev
    BY <1>6, <2>1 DEF Headers, SameSize
  <2>3. Tried \in UNION Offers
    BY <1>6, TriedOffered DEF Headers
  <2>. QED  BY <1>2, <1>6, <2>2, <2>3 DEF Headers, server
<1>7. ASSUME Get \/ OpenFile \/ CopyFile \/ CopyDone PROVE Steps
  <2>1. /\ pc \in {"get", "copy"}
        /\ UNCHANGED <<rev, saved, src, url>>
    BY <1>7 DEF Get, OpenFile, CopyFile, CopyDone, server
  <2>. QED  BY <1>2, <2>1 DEF Single
<1>8. ASSUME ApplyPatch \/ RemoveCurrent PROVE Steps
  BY <1>2, <1>8 DEF ApplyPatch, RemoveCurrent, Single
<1>9. ASSUME MovePatched PROVE Steps
  <2>1. pc = "move" /\ src' = src /\ url' = url
    BY <1>9 DEF MovePatched
  <2>2. Tried \in UNION Offers /\ Tried.patch /\ Tried.source = Here
    BY <2>1, TriedHere DEF Single, Progress, Patching, TypeOK
  <2>3. ~ OneArchive(Here)
    BY <2>2 DEF OneArchive
  <2>. QED  BY <1>2, <2>1, <2>2, <2>3
<1>10. ASSUME Publish PROVE Steps
  <2>1. rev' = rev + 1 /\ UNCHANGED <<saved, pc, src, url>>
    BY <1>10 DEF Publish, run
  <2>2. saved[Tried] <= rev /\ rev \in Int /\ saved[Tried] \in Int
    <3>1. saved[Tried] \in Rev \cup {None} /\ rev \in Rev
      BY <1>1 DEF TypeOK
    <3>. QED  BY <1>1, <3>1, Numbers DEF Progress, Recent
  <2>3. saved[Tried] # rev + 1
    BY <2>2
  <2>. QED  BY <1>2, <2>1, <2>3 DEF Single
<1>11. ASSUME Withdraw \/ UNCHANGED vars PROVE Steps
  BY <1>2, <1>11 DEF Withdraw, run, vars, Single
<1>12. Steps
  BY ActionCases, <1>5, <1>6, <1>7, <1>8, <1>9, <1>10, <1>11
<1>. QED  BY <1>3, <1>12 DEF Single

(* A step that changes a file is at an archive that is not remembered at   *)
(* the server's revision.                                                  *)
LEMMA StepRemembered ==
  ASSUME ~ SwapBreaks, TypeOK, Progress, Single, AsRemembered, [Next]_vars
  PROVE  AsRemembered'
<1>. SUFFICES ASSUME NEW u \in Url, OneArchive(u.source), saved'[u] = rev',
                     NEW f \in FilesOf[u.source]
              PROVE  Kept'[f] = rev'
  BY DEF AsRemembered, OneArchive
<1>1. f \in File /\ u.source \in Source
  BY DEF File, Url
<1>2. Here \in Source /\ Tried \in Url /\ Tried.source = Here
  BY TriedHere DEF TypeOK
<1>3. rev \in Int /\ rev' \in Rev /\ rev' \in Int /\ rev <= rev'
  BY StepGets, Numbers DEF TypeOK
<1>4. saved'[u] # None
  BY <1>3, Numbers
<1>5. CASE saved'[u] = saved[u]
  <2>1. saved[u] <= rev
    BY DEF Progress, Recent
  <2>2. rev' = rev
    BY <1>3, <1>5, <2>1
  <2>3. Kept[f] = rev
    BY <1>5, <2>2 DEF AsRemembered
  <2>4. u \in UNION Offers
    BY <1>4, <1>5 DEF Single
  <2>5. ASSUME pc = "copy" \/ pc = "remove" PROVE f \notin FilesOf[Here]
    <3>1. Tried \in UNION Offers
      BY <2>5 DEF Single
    <3>2. ASSUME u.source = Here PROVE FALSE
      <4>1. ~ Tried.patch /\ Tried = u
        BY <1>2, <2>4, <3>1, <3>2 DEF OneArchive
      <4>2. pc = "copy"
        BY <2>5, <4>1 DEF Progress, Patching
      <4>. QED  BY <1>5, <2>2, <3>2, <4>1, <4>2 DEF Single
    <3>. QED  BY <1>1, <1>2, <3>2, SourcesAssumption
  <2>6. got \in Rev => got \in Int /\ got <= rev
    BY Numbers DEF Progress, Recent
  <2>. QED  BY <1>1, <1>3, <2>2, <2>3, <2>5, <2>6, StepFiles
<1>6. CASE Finish /\ u = Tried /\ saved'[u] = got
  <2>1. pc = "finish" /\ current' = current
    BY <1>6 DEF Finish
  <2>2. pc' # "move"
    BY <1>6, LoopStep DEF Finish, TypeOK
  <2>3. ~ Tried.patch
    BY <1>6, <2>1 DEF Single, OneArchive
  <2>4. current[f] = got
    BY <1>2, <1>6, <2>1, <2>3 DEF Progress, Installed, IsInstalled
  <2>. QED  BY <1>6, <2>1, <2>2, <2>4 DEF Kept
<1>. QED  BY <1>4, <1>5, <1>6, StepSaves

(* A file of revision r has its text.                                      *)
LEMMA OwnText ==
  ASSUME NEW f, NEW r \in Rev
  PROVE  IsOf(f, r, r)
<1>1. r \in 1 .. r /\ r + 1 .. r = {}
  BY DEF Rev
<1>. QED  BY <1>1 DEF IsOf

LEMMA StepAlerts ==
  ASSUME \A a, b \in Rev : Size[a] = Size[b] => a = b,
         TypeOK, Progress, AsRemembered
  PROVE  /\ AlreadyCurrent /\ OneArchive(Here) => Holds(Here, rev)
         /\ Finish /\ ~ Tried.patch => Holds(Here, got)
<1>1. Tried \in Url /\ Tried.source = Here
  BY TriedHere DEF TypeOK
<1>2. ASSUME AlreadyCurrent, OneArchive(Here) PROVE Holds(Here, rev)
  <2>1. saved[Tried] \in Rev \cup {None} /\ rev \in Rev
    BY <1>1 DEF TypeOK
  <2>2. saved[Tried] = rev /\ Kept = current
    BY <1>2, <2>1 DEF AlreadyCurrent, SameSize, Kept
  <2>3. \A f \in FilesOf[Here] : current[f] = rev
    BY <1>1, <1>2, <2>2 DEF AsRemembered
  <2>. QED  BY <2>1, <2>3, OwnText DEF Holds
<1>3. ASSUME Finish, ~ Tried.patch PROVE Holds(Here, got)
  <2>1. pc = "finish" /\ got \in Rev
    BY <1>3 DEF Finish, TypeOK
  <2>2. \A f \in FilesOf[Here] : current[f] = got
    BY <1>3, <2>1 DEF Progress, Installed, IsInstalled
  <2>. QED  BY <2>1, <2>2, OwnText DEF Holds
<1>. QED  BY <1>2, <1>3

(* If neither death nor failure falls between rmtree and move, and no two  *)
(* revisions have archives of one size, "Successfully updated" after a     *)
(* full archive, and "already current" for a source of one archive, name   *)
(* rules that are in the directory, wherever earlier runs failed or died   *)
(* and whatever patches of other sources replaced.                         *)
THEOREM AlertsTrue ==
  ASSUME ~ SwapBreaks, \A a, b \in Rev : Size[a] = Size[b] => a = b
  PROVE  Spec => AlertsTruthful
<1>1. TypeOK /\ Progress /\ Single /\ [Next]_vars => Single'
  BY StepSingle
<1>2. TypeOK /\ Progress /\ Single /\ AsRemembered /\ [Next]_vars => AsRemembered'
  BY StepRemembered
<1>3. TypeOK /\ Progress /\ AsRemembered =>
        [/\ AlreadyCurrent /\ OneArchive(Here) => Holds(Here, rev)
         /\ Finish /\ ~ Tried.patch => Holds(Here, got)]_vars
  BY StepAlerts
<1>. QED  BY <1>1, <1>2, <1>3, InitType, StepType, InitProgress, StepProgress,
             InitSingle, PTL DEF Spec, AlertsTruthful

-----------------------------------------------------------------------------
LEMMA InitRefines == Init => Abstract!AInit
<1>. SUFFICES ASSUME Init PROVE Abstract!AInit
  OBVIOUS
<1>1. Kept = [f \in UNION {FilesOf[s] : s \in Source} |-> 0]
  BY DEF Init, Kept, Absent, File, None
<1>. QED  BY <1>1 DEF Init, Abstract!AInit, None

(* Every step is one of RuleFiles or changes nothing a reader sees.        *)
LEMMA StepRefines ==
  ASSUME ~ SwapBreaks, TypeOK, Progress, [Next]_vars
  PROVE  Abstract!ANext \/ UNCHANGED <<rev, Kept, saved>>
<1>1. /\ Here \in Source /\ Tried \in Url /\ Tried.source = Here /\ FilesOf[Here] \subseteq File
  BY TriedHere DEF TypeOK
<1>2. ASSUME NextUrl \/ NextSource \/ GoTo("idle", 1, 1) \/ GoTo("head", 1, 1)
      PROVE  pc' # "move"
  BY <1>2, LoopStep DEF TypeOK
<1>3. DOMAIN Kept = File /\ None = 0 /\ Garbled = -1
  BY DEF Kept, TypeOK, None, Garbled
<1>4. ASSUME UNCHANGED current, pc # "move", pc' # "move" PROVE Kept' = Kept
  BY <1>4 DEF Kept
<1>5. got \in Rev => got \in 1 .. rev
  BY ServerAssumption DEF TypeOK, Rev, Progress, Recent
<1>6. CASE \/ Start \/ AlreadyCurrent \/ NotFound \/ RejectPatch
           \/ Headers \/ Get \/ CopyDone \/ ApplyPatch
  <2>1. UNCHANGED <<rev, saved, current>> /\ pc # "move"
    BY <1>6 DEF Start, AlreadyCurrent, NotFound, RejectPatch, Headers, Get, CopyDone,
                ApplyPatch, server
  <2>2. pc' # "move"
    BY <1>2, <1>6 DEF Start, AlreadyCurrent, NotFound, RejectPatch, Headers, Get,
                      CopyDone, ApplyPatch
  <2>. QED  BY <1>4, <2>1, <2>2
<1>7. CASE OpenFile
  <2>1. PICK f \in left : current' = [current EXCEPT ![f] = Garbled]
    BY <1>7 DEF OpenFile
  <2>2. f \in FilesOf[Here] /\ Kept = current /\ Kept' = current' /\ UNCHANGED <<rev, saved>>
    BY <1>7 DEF OpenFile, Kept, server, TypeOK
  <2>3. Abstract!Empty(Here)
    BY <1>3, <2>1, <2>2 DEF Abstract!Empty
  <2>. QED  BY <1>1, <2>3 DEF Abstract!ANext
<1>8. CASE CopyFile
  <2>1. PICK f \in left : current[f] = Garbled /\ current' = [current EXCEPT ![f] = got]
    BY <1>8 DEF CopyFile
  <2>2. f \in FilesOf[Here] /\ Kept = current /\ Kept' = current' /\ UNCHANGED <<rev, saved>>
    BY <1>8 DEF CopyFile, Kept, server, TypeOK
  <2>3. got \in 1 .. rev
    BY <1>5, <1>8 DEF CopyFile, TypeOK
  <2>4. Abstract!Write(Here)
    BY <1>3, <2>1, <2>2, <2>3 DEF Abstract!Write
  <2>. QED  BY <1>1, <2>4 DEF Abstract!ANext
<1>9. CASE RemoveCurrent
  <2>1. /\ pc = "remove" /\ pc' = "move" /\ work' = work /\ UNCHANGED <<rev, saved>>
    BY <1>9 DEF RemoveCurrent, server
  <2>2. Kept = current /\ Kept' = Applied /\ MayApply
    BY <2>1 DEF Kept, Progress, Patching
  <2>3. got \in 1 .. rev
    BY <1>5, <2>1 DEF TypeOK
  <2>4. \A f \in FilesOf[Here] \cap Changes[got] : Kept[f] \notin {0, got}
    BY <1>3, <2>2 DEF MayApply, Touched
  <2>5. \A f \in File : Abstract!MadeFor(f, got) <=> Fits(f)
    BY <2>2 DEF Abstract!MadeFor, Fits, IsOf
  <2>6. Kept' = [f \in DOMAIN Kept |->
                   IF f \notin FilesOf[Here] \cap Changes[got] THEN Kept[f]
                   ELSE IF Abstract!MadeFor(f, got) THEN got ELSE -1]
    BY <1>3, <2>2, <2>5 DEF Applied, Touched
  <2>7. Abstract!Patch(Here)
    BY <2>1, <2>3, <2>4, <2>6 DEF Abstract!Patch
  <2>. QED  BY <1>1, <2>7 DEF Abstract!ANext
<1>10. CASE MovePatched
  BY <1>10 DEF MovePatched, Kept, server
<1>11. CASE Finish
  <2>1. /\ UNCHANGED <<rev, current>> /\ pc = "finish" /\ pc' # "move"
        /\ saved' = [saved EXCEPT ![Tried] = got]
    BY <1>2, <1>11 DEF Finish, server
  <2>2. got \in 1 .. rev
    BY <1>5, <2>1 DEF TypeOK
  <2>3. Kept' = Kept /\ Kept = current
    BY <1>4, <2>1 DEF Kept
  <2>4. Abstract!Written(Tried, got)
    BY <1>1, <1>3, <2>1, <2>3 DEF Abstract!Written, Progress, Installed, IsInstalled
  <2>5. Abstract!Remember(Tried)
    BY <2>1, <2>2, <2>3, <2>4 DEF Abstract!Remember
  <2>. QED  BY <1>1, <2>5 DEF Abstract!ANext
<1>12. CASE Fail \/ Die
  <2>1. /\ UNCHANGED <<rev, current>> /\ HalfSaved /\ pc # "move" /\ pc' # "move"
    BY <1>2, <1>12 DEF Fail, Die, HalfRemoved, server
  <2>2. Kept' = Kept
    BY <1>4, <2>1
  <2>3. CASE UNCHANGED saved
    BY <2>1, <2>2, <2>3
  <2>4. CASE saved' = [saved EXCEPT ![Tried] = None]
    <3>1. Abstract!Forget(Tried)
      BY <1>3, <2>1, <2>2, <2>4 DEF Abstract!Forget
    <3>. QED  BY <1>1, <3>1 DEF Abstract!ANext
  <2>. QED  BY <2>1, <2>3, <2>4 DEF HalfSaved
<1>13. CASE Publish
  <2>1. Kept' = Kept
    BY <1>13 DEF Publish, run, Kept
  <2>2. Abstract!Issue
    BY <1>13, <2>1 DEF Publish, Abstract!Issue
  <2>. QED  BY <2>2 DEF Abstract!ANext
<1>14. CASE Withdraw \/ UNCHANGED vars
  BY <1>14 DEF Withdraw, run, vars, Kept
<1>. QED
  BY ActionCases, <1>6, <1>7, <1>8, <1>9, <1>10, <1>11, <1>12, <1>13, <1>14

(* If neither death nor failure falls between rmtree and move, the updater *)
(* implements RuleFiles.                                                   *)
THEOREM Implements == ASSUME ~ SwapBreaks PROVE Spec => UpdatesRuleFiles
<1>1. TypeOK /\ Progress /\ [Next]_vars => [Abstract!ANext]_(Abstract!avars)
  BY StepRefines DEF Abstract!avars
<1>. QED  BY <1>1, InitType, StepType, InitProgress, StepProgress, InitRefines,
             PTL DEF Spec, UpdatesRuleFiles, Abstract!ASpec
=============================================================================

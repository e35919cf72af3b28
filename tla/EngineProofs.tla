--------------------------- MODULE EngineProofs ---------------------------
(***************************************************************************)
(* Proofs about what the engine leaves on the host and how its threads     *)
(* work together.                                                          *)
(*   - The providers of routes and DNS (NativeBackends) and the DNS of a   *)
(*     link in systemd-resolved (ResolvedLink): their answers are true,    *)
(*     and what they overwrite or remove is what they were told to or what *)
(*     they could not have seen.                                           *)
(*   - Routes and resolv.conf (EngineNetwork): what the engine changed is  *)
(*     known to it, and is put back.                                       *)
(*   - The threads (EngineIO): packets, order, teardown and exit code.     *)
(***************************************************************************)
EXTENDS NativeBackends, ResolvedLink, EngineNetwork, EngineIO, SequenceTheorems, TLAPS

----------------------------------------------------------------------------
(* The providers and the link *)

Ours == [Nowhere EXCEPT !["exact"] = "us"]

\* Systems with one entry in a place have one.
OneEntry ==
  /\ kind \in {"darwin", "store", "windows"} =>
       \A c, d \in Class : There(c) /\ There(d) => c = d
  /\ kind = "store" => ~There("variant")

\* Only the NRPT provider runs scripts, and they are not for looking.
Control ==
  /\ late # "none" \/ stage \in {"script", "routed"} => kind = "nrpt"
  /\ stage \in {"script", "write", "confirm"} => op # "inspect"
  /\ stage = "routed" => op = "apply"
  /\ stage \in {"confirm", "routed"} => wrote
  /\ ~meddled => ~stale

\* There is room for a rule that is about to be added: its script saw none.
Adding == stage = "write" /\ op = "apply"
Room ==
  kind = "nrpt" =>
    /\ Adding \/ late = "apply" => ~There("exact") \/ ~There("variant")
    /\ Adding /\ late = "apply" => ~There("exact") /\ ~There("variant")

\* What the last look showed still holds, unless others have changed it.
Seen ==
  /\ stage = "write" /\ ~stale =>
       /\ op = "apply" /\ kind # "windows" => Found = "none"
       /\ op = "remove" => Found = want
  /\ stage = "confirm" /\ op = "apply" /\ ~meddled => table = Ours
  /\ stage = "routed" => /\ ~stale => There(want)
                         /\ ~meddled => want = "exact" /\ table = Ours

BackInv == BackTypeOK /\ OneEntry /\ Control /\ Room /\ Seen /\ AnswersTrue

\* systemd-resolved.  What is read is the link's, as far as it has been read and
\* unless the history knows of a change; a request follows a whole reading.
ReadsLink ==
  /\ talk = "read" /\ ~viewStale =>
       /\ readSoFar > 0 => view.dns = dnsLink.dns
       /\ readSoFar > 1 => view.domains = dnsLink.domains
       /\ readSoFar > 2 => view.dflt = dnsLink.dflt
  /\ talk = "call" /\ ~viewStale => view = dnsLink
  /\ talk = "call" /\ goal = "revert" => view = IF errand = "remove" THEN Desired ELSE confirmed

\* Which errands have which goals.
Errands ==
  /\ talk = "call" => goal \in SetGoals \cup {"revert"} /\ errand # "inspect"
  /\ talk = "read" => goal # "revert"
  /\ talk # "idle" /\ goal \in SetGoals \cup {"undo", "final"} => errand = "apply"
  /\ talk = "read" /\ goal = "gone" => errand = "remove"

\* A request that was given up is carried out before the next call reads.
GivenUp ==
  /\ pendingCall # "none" => talk # "call" /\ readSoFar = 0
  /\ pendingCall # "none" /\ talk = "read" => goal = "first"
  /\ pendingCall # "none" /\ talk = "idle" => unsure
  /\ ~disturbed /\ (talk = "call" \/ (talk = "read" /\ readSoFar > 0)) => ~viewStale

\* What apply has set so far has been read back, and, left alone, the link is
\* exactly that.
SetSoFar ==
  errand = "apply" /\ talk # "idle" =>
    /\ goal = "dns" => Unset(confirmed)
    /\ goal \in {"domains", "dflt"} => confirmed.dns = "wanted"
    /\ goal = "dflt" => confirmed.domains = Desired.domains
    /\ ~disturbed /\ ~unsure =>
         /\ talk = "call" => dnsLink = confirmed
         /\ talk = "read" /\ goal \in SetGoals => dnsLink = Expected
         /\ talk = "read" /\ goal = "undo" => dnsLink = confirmed
         /\ talk = "read" /\ goal = "final" => dnsLink = Desired

LinkInv == LinkTypeOK /\ ReadsLink /\ Errands /\ GivenUp /\ SetSoFar /\ LinkAnswers
-----------------------------------------------------------------------------
USE DEF Class, Owner, Kinds, RouteKinds, Ops, Stages, Nowhere

\* A table is its three entries.
LEMMA TableIs ==
  ASSUME NEW t \in [Class -> Owner], NEW u \in [Class -> Owner],
         t["exact"] = u["exact"], t["variant"] = u["variant"], t["rival"] = u["rival"]
  PROVE  t = u
  OBVIOUS

LEMMA NowhereIs ==
  /\ Nowhere \in [Class -> Owner] /\ \A c \in Class : Nowhere[c] = "nobody"
  /\ Ours \in [Class -> Owner]
  /\ Ours["exact"] = "us" /\ Ours["variant"] = "nobody" /\ Ours["rival"] = "nobody"
  BY DEF Ours

\* A set of classes is empty or a singleton according to its members.
LEMMA FewClasses ==
  ASSUME NEW S \in SUBSET Class
  PROVE  /\ S = {} <=> "exact" \notin S /\ "variant" \notin S /\ "rival" \notin S
         /\ S = {"exact"} <=> "exact" \in S /\ "variant" \notin S /\ "rival" \notin S
         /\ S = {"variant"} <=> "exact" \notin S /\ "variant" \in S /\ "rival" \notin S
<1>1. S = {} <=> "exact" \notin S /\ "variant" \notin S /\ "rival" \notin S
  OBVIOUS
<1>2. S = {"exact"} <=> "exact" \in S /\ "variant" \notin S /\ "rival" \notin S
  OBVIOUS
<1>3. S = {"variant"} <=> "exact" \notin S /\ "variant" \in S /\ "rival" \notin S
  OBVIOUS
<1> QED BY <1>1, <1>2, <1>3

\* What every provider finds in an empty table, and what a find says of the table.
FoundSays ==
  /\ Found \in {"none", "error", "exact", "variant"}
  /\ Found = "none" => ~There("exact") /\ ~There("variant")
  /\ Found = "none" /\ kind # "linux" => ~There("rival")
  /\ Found = "exact" => There("exact") /\ ~There("variant")
  /\ Found = "variant" => There("variant") /\ ~There("exact")
  /\ There("exact") /\ ~There("variant") /\ ~There("rival") => Found = "exact"

LEMMA FoundIs ==
  ASSUME BackTypeOK, OneEntry
  PROVE  FoundSays
<1>1. CASE kind = "linux"
  <2> DEFINE found == {c \in Class : There(c) /\ LinuxMatching(c)}
  <2>1. /\ "exact" \in found <=> There("exact")
        /\ "variant" \in found <=> There("variant")
        /\ "rival" \notin found
        /\ found \in SUBSET Class
    BY DEF LinuxMatching
  <2>2. Found = Sole(found)
    BY <1>1 DEF Found, LinuxFind
  <2> HIDE DEF found
  <2> QED BY <2>1, <2>2, FewClasses, <1>1 DEF FoundSays, Sole
<1>2. CASE kind = "darwin"
  <2> DEFINE found == {c \in Class : There(c)}
  <2>1. /\ "exact" \in found <=> There("exact")
        /\ "variant" \in found <=> There("variant")
        /\ "rival" \in found <=> There("rival")
        /\ found \in SUBSET Class
    OBVIOUS
  <2>2. Found = IF There("rival") THEN "error" ELSE Sole(found)
    BY <1>2 DEF Found, DarwinFind, DarwinAccepts
  <2> HIDE DEF found
  <2> QED BY <2>1, <2>2, FewClasses, <1>2 DEF FoundSays, Sole
<1>3. CASE kind = "store"
  BY <1>3 DEF Found, StoreValue, There, BackTypeOK, OneEntry, FoundSays
<1>4. CASE kind = "windows"
  BY <1>4 DEF Found, WindowsQuery, There, BackTypeOK, OneEntry, FoundSays
<1>5. CASE kind = "nrpt"
  <2>1. /\ "exact" \in NrptOwned <=> There("exact")
        /\ "variant" \in NrptOwned <=> There("variant")
        /\ "rival" \notin NrptOwned
        /\ NrptOwned \in SUBSET Class
    BY DEF NrptOwned
  <2>2. Found = IF There("rival") THEN "error" ELSE Sole(NrptOwned)
    BY <1>5 DEF Found, NrptInspect, NrptOverlaps
  <2> QED BY <2>1, <2>2, FewClasses, <1>5 DEF FoundSays, Sole
<1> QED BY <1>1, <1>2, <1>3, <1>4, <1>5 DEF BackTypeOK

LEMMA BackInitInv == BackInit => BackInv
<1> SUFFICES ASSUME BackInit PROVE BackInv
  OBVIOUS
<1>1. table \in [Class -> Owner] /\ BackTypeOK
  BY DEF BackInit, BackTypeOK
<1>2. OneEntry
  BY DEF BackInit, OneEntry, There
<1> QED BY <1>1, <1>2 DEF BackInit, BackInv, Control, Room, Seen, AnswersTrue, Adding, There

-----------------------------------------------------------------------------
\* A look shows what the last one did while the table is the same.
LEMMA SameFound ==
  ASSUME UNCHANGED <<kind, table>>
  PROVE  Found' = Found /\ \A c : There(c)' = There(c)
  BY DEF Found, LinuxFind, DarwinFind, StoreValue, WindowsQuery, NrptInspect, NrptOverlaps, NrptOwned,
         There, LinuxMatching, DarwinAccepts, Sole

\* A step that changes neither table nor history keeps what is said of the table.
LEMMA SameTable ==
  ASSUME BackInv, UNCHANGED <<kind, table>>
  PROVE  OneEntry'
  BY SameFound DEF BackInv, OneEntry

\* Answers are well formed.
Replies == [op : Ops \cup {"none"}, ok : BOOLEAN, id : {"none", "exact", "variant"}]

LEMMA AnswerTyped ==
  ASSUME BackTypeOK, NEW ok \in BOOLEAN, NEW id \in {"none", "exact", "variant"}, Answer(ok, id)
  PROVE  reply' \in Replies /\ stage' \in Stages
  BY DEF BackTypeOK, Answer, Replies

LEMMA CallKeeps ==
  ASSUME BackInv, NEW o \in Ops, NEW w \in {"exact", "variant"}, CallBackend(o, w)
  PROVE  BackInv'
<1>1. BackTypeOK'
  BY ZenonT(60) DEF BackInv, BackTypeOK, CallBackend, FirstStage
<1>2. OneEntry'
  BY SameTable DEF CallBackend
<1>3. Control' /\ AnswersTrue' /\ Seen'
  BY DEF BackInv, Control, CallBackend, FirstStage, AnswersTrue, Seen
<1>4. Room'
  BY SameFound DEF BackInv, Control, Room, Adding, CallBackend, FirstStage
<1> QED BY <1>1, <1>2, <1>3, <1>4 DEF BackInv

LEMMA LookKeeps ==
  ASSUME BackInv, Look
  PROVE  BackInv'
<1> USE DEF BackInv
<1>1. FoundSays
  BY FoundIs
<1>2. BackTypeOK'
  <2>1. reply' \in Replies /\ stage' \in Stages
    <3>1. CASE op = "inspect" /\ Found # "error" /\ Answer(TRUE, Found)
      BY <1>1, <3>1, AnswerTyped DEF FoundSays
    <3>2. CASE op = "remove" /\ Answer(TRUE, "none")
      BY <3>2, AnswerTyped
    <3>3. CASE Proceed(AfterLook)
      BY <3>3 DEF Proceed, AfterLook, BackTypeOK, Replies
    <3> QED BY <3>1, <3>2, <3>3 DEF Look
  <2> QED BY <2>1 DEF BackTypeOK, Look, Replies
<1>3. OneEntry'
  BY SameTable DEF Look
<1>4. Control'
  BY DEF BackTypeOK, Control, Look, Answer, Proceed, AfterLook
<1>5. Room'
  BY <1>1, SameFound DEF BackTypeOK, Control, Room, Adding, Look, Answer, Proceed, AfterLook, FoundSays
<1>6. Seen'
  BY <1>1, SameFound DEF BackTypeOK, Control, Seen, Look, Answer, Proceed, AfterLook
<1>7. AnswersTrue'
  BY <1>1, SameFound DEF BackTypeOK, Control, AnswersTrue, Look, Answer, Proceed, AfterLook, FoundSays
<1> QED BY <1>2, <1>3, <1>4, <1>5, <1>6, <1>7

LEMMA GiveUpKeeps ==
  ASSUME BackInv, GiveUp
  PROVE  BackInv'
<1> USE DEF BackInv, GiveUp, Answer
<1>1. BackTypeOK'
  BY DEF BackTypeOK
<1>2. OneEntry'
  BY SameTable
<1>3. Control' /\ Seen' /\ AnswersTrue'
  BY DEF BackTypeOK, Control, Seen, AnswersTrue
<1>4. Room'
  BY SameFound DEF Room, Adding
<1> QED BY <1>1, <1>2, <1>3, <1>4

LEMMA RoutedKeeps ==
  ASSUME BackInv, StillRouted
  PROVE  BackInv'
<1> USE DEF BackInv, StillRouted, Answer
<1>1. BackTypeOK'
  BY DEF BackTypeOK
<1>2. OneEntry'
  BY SameTable
<1>3. Control' /\ Seen'
  BY DEF BackTypeOK, Control, Seen
<1>4. Room'
  BY SameFound DEF Room, Adding
<1>5. AnswersTrue'
  BY SameFound DEF BackTypeOK, Control, Seen, AnswersTrue, Ours
<1> QED BY <1>1, <1>2, <1>3, <1>4, <1>5

LEMMA AbandonKeeps ==
  ASSUME BackInv, Abandon
  PROVE  BackInv'
<1> USE DEF BackInv, Abandon, Answer
<1>1. BackTypeOK'
  BY DEF BackTypeOK, Control
<1>2. OneEntry'
  BY SameTable
<1>3. Control' /\ Seen' /\ AnswersTrue'
  BY DEF BackTypeOK, Control, Seen, AnswersTrue
<1>4. Room'
  BY SameFound DEF Room, Adding, BackTypeOK
<1> QED BY <1>1, <1>2, <1>3, <1>4

LEMMA ConfirmKeeps ==
  ASSUME BackInv, Confirm
  PROVE  BackInv'
<1> USE DEF BackInv, Confirm, Answer, Proceed
<1>1. FoundSays
  BY FoundIs
<1>2. BackTypeOK'
  <2>1. \A id \in Confirmed : id \in {"exact", "variant"}
    BY DEF Confirmed
  <2>2. reply' \in Replies /\ stage' \in Stages /\ want' \in {"exact", "variant"}
    <3>1. CASE op = "apply"
      <4>1. PICK id \in Confirmed : want' = id /\ IF kind = "nrpt" THEN Proceed("routed") ELSE Answer(TRUE, id)
        BY <3>1
      <4> QED BY <2>1, <4>1, AnswerTyped DEF BackTypeOK, Replies
    <3>2. CASE op # "apply"
      BY <3>2, AnswerTyped DEF BackTypeOK
    <3> QED BY <3>1, <3>2
  <2> QED BY <2>2 DEF BackTypeOK, Replies
<1>3. OneEntry'
  BY SameTable
<1>4. Control'
  BY DEF BackTypeOK, Control
<1>5. Room'
  BY SameFound DEF BackTypeOK, Room, Adding
<1>6. table = Ours => Found = "exact"
  BY <1>1, NowhereIs DEF FoundSays, There
<1>7. Seen'
  BY <1>1, <1>6, SameFound DEF BackTypeOK, Seen, Confirmed, FoundSays, Control
<1>8. AnswersTrue'
  BY <1>1, <1>6, SameFound DEF BackTypeOK, Seen, Control, Confirmed, FoundSays, AnswersTrue, Ours
<1> QED BY <1>2, <1>3, <1>4, <1>5, <1>7, <1>8
-----------------------------------------------------------------------------
(* Writes. *)

\* A table with one entry changed.
LEMMA HoldingIs ==
  ASSUME BackTypeOK, NEW c \in Class, NEW o \in Owner
  PROVE  /\ Holding(c, o) \in [Class -> Owner]
         /\ \A d \in Class : Holding(c, o)[d] = IF d = c THEN o ELSE table[d]
  BY DEF BackTypeOK, Holding

LEMMA VacantHolds ==
  ASSUME BackTypeOK, Vacant
  PROVE  Holding("exact", "us") = Ours
<1>1. Holding("exact", "us") \in [Class -> Owner] /\ table \in [Class -> Owner]
  BY HoldingIs DEF BackTypeOK
<1>2. /\ Holding("exact", "us")["exact"] = "us"
      /\ Holding("exact", "us")["variant"] = "nobody"
      /\ Holding("exact", "us")["rival"] = "nobody"
  BY HoldingIs DEF Vacant, There
<1> QED BY <1>1, <1>2, TableIs, NowhereIs

\* What the table can become by an addition.
LEMMA AddedIs ==
  ASSUME BackTypeOK, NEW t, t \in WriteNew
  PROVE  /\ kind # "nrpt" => t = Ours /\ (kind # "store" => Vacant)
         /\ kind = "nrpt" => t = Holding(IF There("exact") THEN "variant" ELSE "exact", "us")
<1>1. Vacant => Holding("exact", "us") = Ours
  BY VacantHolds
<1>2. CASE kind = "linux"
  BY <1>1, <1>2 DEF WriteNew, LinuxCreate
<1>3. CASE kind = "darwin"
  BY <1>1, <1>3 DEF WriteNew, DarwinCreate
<1>4. CASE kind = "store"
  BY <1>4 DEF WriteNew, StoreSet, Ours
<1>5. CASE kind = "windows"
  BY <1>1, <1>5 DEF WriteNew, WindowsCreate
<1>6. CASE kind = "nrpt"
  BY <1>6 DEF WriteNew, NrptAdd
<1> QED BY <1>2, <1>3, <1>4, <1>5, <1>6 DEF BackTypeOK

\* What an NRPT rule's removal leaves.
LEMMA NrptRemovedIs ==
  ASSUME BackTypeOK, NEW f \in {"exact", "variant"}, NEW t, t \in NrptRemove(f)
  PROVE  \E c \in {"exact", "variant"} :
           There(c) /\ t = Holding(c, "nobody") /\ (There(f) => c = f)
  BY DEF NrptRemove, NrptOwned

\* What the table can become by a removal.
LEMMA RemovedIs ==
  ASSUME BackTypeOK, NEW t, t \in WriteGone
  PROVE  /\ kind = "linux" => There(want) /\ t = Holding(want, "nobody")
         /\ kind \in {"darwin", "store", "windows"} => t = Nowhere
         /\ kind = "nrpt" => \E c \in {"exact", "variant"} :
              There(c) /\ t = Holding(c, "nobody") /\ (There(want) => c = want)
<1> USE DEF BackTypeOK
<1>1. CASE kind = "linux"
  BY <1>1 DEF WriteGone, LinuxDelete
<1>2. CASE kind = "darwin"
  BY <1>2 DEF WriteGone, DarwinDelete
<1>3. CASE kind = "store"
  BY <1>3 DEF WriteGone, StoreRemove
<1>4. CASE kind = "windows"
  BY <1>4 DEF WriteGone, WindowsDelete
<1>5. CASE kind = "nrpt"
  <2>1. t \in NrptRemove(want)
    BY <1>5 DEF WriteGone
  <2> QED BY <1>5, <2>1, NrptRemovedIs
<1> QED BY <1>1, <1>2, <1>3, <1>4, <1>5

\* Every write leaves a table, with no more entries than fit.
WriteSays(t) ==
  /\ t \in [Class -> Owner]
  /\ kind \in {"darwin", "store", "windows"} =>
       /\ \A c, d \in Class : t[c] # "nobody" /\ t[d] # "nobody" => c = d
       /\ t["variant"] = "nobody"
  /\ op = "remove" => \A c \in Class : t[c] \in {table[c], "nobody"}
  /\ op = "apply" => \/ ~There("exact") /\ t = Holding("exact", "us")
                     \/ There("exact") /\ kind = "nrpt" /\ t = Holding("variant", "us")
                     \/ kind = "store" /\ t = Ours

LEMMA WriteIs ==
  ASSUME BackInv, NEW t, t \in WriteResult, op # "inspect"
  PROVE  WriteSays(t)
<1> USE DEF BackInv
<1>1. CASE op = "apply"
  <2>1. /\ kind # "nrpt" => t = Ours /\ (kind # "store" => Vacant)
        /\ kind = "nrpt" => t = Holding(IF There("exact") THEN "variant" ELSE "exact", "us")
    BY <1>1, AddedIs DEF WriteResult
  <2>2. CASE kind = "nrpt"
    BY <1>1, <2>1, <2>2, HoldingIs DEF WriteSays
  <2>3. CASE kind # "nrpt"
    <3>1. Vacant => ~There("exact")
      BY DEF Vacant
    <3> QED BY <1>1, <2>1, <2>3, <3>1, VacantHolds, NowhereIs DEF WriteSays
  <2> QED BY <2>2, <2>3
<1>2. CASE op = "remove"
  <2>1. t \in WriteGone
    BY <1>2 DEF WriteResult
  <2>2. CASE kind = "linux"
    BY <1>2, <2>1, <2>2, RemovedIs, HoldingIs DEF WriteSays, BackTypeOK
  <2>3. CASE kind = "nrpt"
    BY <1>2, <2>1, <2>3, RemovedIs, HoldingIs DEF WriteSays, BackTypeOK
  <2>4. CASE kind \in {"darwin", "store", "windows"}
    BY <1>2, <2>1, <2>4, RemovedIs, NowhereIs DEF WriteSays
  <2> QED BY <2>2, <2>3, <2>4 DEF BackTypeOK
<1> QED BY <1>1, <1>2 DEF BackTypeOK

LEMMA WriteKeeps ==
  ASSUME BackInv, NEW told \in BOOLEAN, WriteEntry(told)
  PROVE  BackInv'
<1> USE DEF BackInv
<1>1. op # "inspect" /\ WriteSays(table')
  BY WriteIs DEF WriteEntry, Control
<1>2. BackTypeOK'
  <2>1. reply' \in Replies /\ stage' \in Stages
    BY AnswerTyped DEF WriteEntry, Proceed, Answer, BackTypeOK, Replies
  <2> QED BY <1>1, <2>1 DEF BackTypeOK, WriteEntry, WriteSays, Replies
<1>3. OneEntry'
  BY <1>1 DEF OneEntry, WriteSays, There, WriteEntry
<1>4. Control'
  BY DEF Control, WriteEntry, Proceed, Answer, BackTypeOK
<1>5. Room'
  <2> SUFFICES ASSUME kind = "nrpt", late = "apply"
               PROVE  table'["exact"] = "nobody" \/ table'["variant"] = "nobody"
    BY DEF Room, Adding, WriteEntry, Proceed, Answer, There
  <2>1. CASE op = "apply"
    BY <1>1, <2>1, HoldingIs DEF Room, Adding, WriteEntry, WriteSays, There
  <2>2. CASE op = "remove"
    BY <1>1, <2>2 DEF Room, Adding, WriteEntry, WriteSays, There
  <2> QED BY <1>1, <2>1, <2>2 DEF BackTypeOK
<1>6. op = "apply" /\ ~meddled => table' = Ours
  <2> SUFFICES ASSUME op = "apply", ~meddled PROVE table' = Ours
    OBVIOUS
  <2>1. table' \in WriteNew
    BY DEF WriteEntry, WriteResult
  <2>2. CASE kind # "nrpt"
    BY <2>1, <2>2, AddedIs
  <2>3. CASE kind = "nrpt"
    <3>1. Found = "none"
      BY <2>3 DEF Seen, Control, WriteEntry
    <3>2. Vacant
      BY <2>3, <3>1, FoundIs DEF FoundSays, Vacant
    <3>3. ~There("exact")
      BY <3>2 DEF Vacant
    <3> QED BY <2>1, <2>3, <3>2, <3>3, AddedIs, VacantHolds
  <2> QED BY <2>2, <2>3
<1>7. Seen' /\ AnswersTrue'
  BY <1>6 DEF Seen, AnswersTrue, WriteEntry, Proceed, Answer
<1> QED BY <1>2, <1>3, <1>4, <1>5, <1>7
-----------------------------------------------------------------------------
(* The late script and the others. *)

\* A step of the others makes the history say so: of the call nothing is left
\* to be shown but where it is.
LEMMA MeddledKeeps ==
  ASSUME BackInv, UNCHANGED <<kind, stage, op, want, wrote, reply>>,
         late' \in {late, "none"}, stale' = TRUE, meddled' = TRUE, bound' \in BOOLEAN,
         table' \in [Class -> Owner], OneEntry', Room'
  PROVE  BackInv'
<1> USE DEF BackInv
<1>1. BackTypeOK'
  BY DEF BackTypeOK
<1>2. Control'
  BY DEF BackTypeOK, Control
<1>3. Seen' /\ AnswersTrue'
  BY DEF Seen, AnswersTrue
<1> QED BY <1>1, <1>2, <1>3

LEMMA LateKeeps ==
  ASSUME BackInv, LateWrite
  PROVE  BackInv'
<1> USE DEF BackInv
<1>1. kind = "nrpt" /\ kind' = "nrpt"
  BY DEF LateWrite, Control
<1>2. OneEntry'
  BY <1>1 DEF OneEntry
<1>3. CASE late = "apply" /\ table' \in NrptAdd
  <2>1. table' = Holding(IF There("exact") THEN "variant" ELSE "exact", "us")
    BY <1>3 DEF NrptAdd
  <2>2. table' \in [Class -> Owner]
    BY <2>1, HoldingIs
  <2>3. Room'
    BY <1>1, <1>3, <2>1, HoldingIs DEF Room, Adding, LateWrite, There
  <2> QED BY <1>2, <2>2, <2>3, MeddledKeeps DEF LateWrite, BackTypeOK
<1>4. CASE late = "remove" /\ \E f \in {"exact", "variant"} : table' \in NrptRemove(f)
  <2>1. PICK c \in {"exact", "variant"} : table' = Holding(c, "nobody")
    BY <1>4, NrptRemovedIs
  <2>2. table' \in [Class -> Owner]
    BY <2>1, HoldingIs
  <2>3. Room'
    BY <1>1, <1>4, <2>1, HoldingIs DEF Room, Adding, LateWrite, There
  <2> QED BY <1>2, <2>2, <2>3, MeddledKeeps DEF LateWrite, BackTypeOK
<1>5. CASE UNCHANGED table
  <2>1. Room'
    BY <1>1, <1>5 DEF Room, Adding, LateWrite, There
  <2> QED BY <1>2, <1>5, <2>1, MeddledKeeps DEF LateWrite, BackTypeOK
<1> QED BY <1>3, <1>4, <1>5 DEF LateWrite

LEMMA OthersKeep ==
  ASSUME BackInv, NEW t \in [Class -> Owner], OthersChange(t)
  PROVE  BackInv'
<1> USE DEF BackInv
<1>1. OneEntry'
  BY DEF OneEntry, OthersChange, Possible, There
<1>2. Room'
  BY DEF Room, Adding, OthersChange, Possible, There, BackTypeOK
<1> QED BY <1>1, <1>2, MeddledKeeps DEF OthersChange, BackTypeOK

LEMMA DetachKeeps ==
  ASSUME BackInv, Detach
  PROVE  BackInv'
<1> USE DEF BackInv
<1> DEFINE left == [Nowhere EXCEPT !["rival"] = table["rival"]]
<1>1. /\ left \in [Class -> Owner]
      /\ left["exact"] = "nobody" /\ left["variant"] = "nobody" /\ left["rival"] = table["rival"]
  BY DEF BackTypeOK
<1>2. table' = IF kind \in RouteKinds THEN left ELSE table
  BY DEF Detach
<1> HIDE DEF left
<1>3. table' \in [Class -> Owner]
  BY <1>1, <1>2 DEF BackTypeOK
<1>4. OneEntry'
  BY <1>1, <1>2 DEF OneEntry, Detach, There
<1>5. Room'
  BY <1>1, <1>2 DEF Room, Adding, Detach, There
<1> QED BY <1>3, <1>4, <1>5, MeddledKeeps DEF Detach, BackTypeOK

\* Neither the interface's return nor a stuttering step says anything new.
LEMMA QuietKeeps ==
  ASSUME BackInv, bound' \in BOOLEAN,
         UNCHANGED <<kind, table, stage, op, want, wrote, late, reply, stale, meddled>>
  PROVE  BackInv'
<1> USE DEF BackInv
<1>1. BackTypeOK'
  BY DEF BackTypeOK
<1>2. OneEntry'
  BY SameTable
<1>3. Control' /\ Room'
  BY SameFound DEF Control, Room, Adding
<1>4. Seen' /\ AnswersTrue'
  BY SameFound DEF Seen, AnswersTrue
<1> QED BY <1>1, <1>2, <1>3, <1>4
-----------------------------------------------------------------------------
(* The theorems. *)

LEMMA BackStep == BackInv /\ [BackNext]_backVars => BackInv'
<1> SUFFICES ASSUME BackInv, [BackNext]_backVars PROVE BackInv'
  OBVIOUS
<1>1. ASSUME NEW o \in Ops, NEW w \in {"exact", "variant"}, CallBackend(o, w) PROVE BackInv'
  BY <1>1, CallKeeps
<1>2. CASE Look
  BY <1>2, LookKeeps
<1>3. CASE GiveUp
  BY <1>3, GiveUpKeeps
<1>4. CASE Confirm
  BY <1>4, ConfirmKeeps
<1>5. CASE StillRouted
  BY <1>5, RoutedKeeps
<1>6. CASE Abandon
  BY <1>6, AbandonKeeps
<1>7. CASE LateWrite
  BY <1>7, LateKeeps
<1>8. ASSUME NEW told \in BOOLEAN, WriteEntry(told) PROVE BackInv'
  BY <1>8, WriteKeeps
<1>9. ASSUME NEW t \in [Class -> Owner], OthersChange(t) PROVE BackInv'
  BY <1>9, OthersKeep
<1>10. CASE Detach
  BY <1>10, DetachKeeps
<1>11. CASE Reattach
  BY <1>11, QuietKeeps DEF Reattach
<1>12. CASE UNCHANGED backVars
  BY <1>12, QuietKeeps DEF backVars, BackInv, BackTypeOK
<1> QED BY <1>1, <1>2, <1>3, <1>4, <1>5, <1>6, <1>7, <1>8, <1>9, <1>10, <1>11, <1>12 DEF BackNext, Provider

\* No step of a provider overwrites or removes an entry that it was not told to
\* and could have seen.
LEMMA BackKeepsEntries ==
  ASSUME BackInv, Provider, NEW c \in Class, There(c), table'[c] # table[c]
  PROVE  \/ stage = "write" /\ op = "remove" /\ c = want
         \/ stage = "write" /\ stale /\ ((op = "remove" /\ kind # "linux") \/ kind = "store")
         \/ kind = "nrpt" /\ late = "remove" /\ c # "rival"
<1> USE DEF BackInv
<1>0. FoundSays
  BY FoundIs
<1>1. (\E told \in BOOLEAN : WriteEntry(told)) \/ LateWrite
  BY DEF Provider, CallBackend, Look, GiveUp, Confirm, StillRouted, Abandon
<1>2. CASE \E told \in BOOLEAN : WriteEntry(told)
  <2>1. stage = "write" /\ op # "inspect" /\ table' \in WriteResult
    BY <1>2 DEF WriteEntry, Control
  <2>2. CASE op = "apply"
    <3>1. table' \in WriteNew
      BY <2>1, <2>2 DEF WriteResult
    <3>2. ~Vacant
      BY DEF Vacant
    <3>3. CASE kind = "nrpt"
      BY <2>1, <2>2, <3>1, <3>3, AddedIs, HoldingIs DEF Room, Adding
    <3>4. CASE kind = "store"
      <4>1. stale
        BY <1>0, <2>1, <2>2, <3>4 DEF Seen, FoundSays
      <4> QED BY <2>1, <3>4, <4>1
    <3> QED BY <3>1, <3>2, <3>3, <3>4, AddedIs
  <2>3. CASE op = "remove"
    <3>1. table' \in WriteGone
      BY <2>1, <2>3 DEF WriteResult
    <3>2. ~stale => There(want) /\ want \in Class
      BY <1>0, <2>1, <2>3 DEF Seen, FoundSays, BackTypeOK
    <3>3. CASE kind = "linux"
      BY <2>1, <2>3, <3>1, <3>3, RemovedIs, HoldingIs DEF BackTypeOK
    <3>4. CASE kind = "nrpt"
      BY <2>1, <2>3, <3>1, <3>2, <3>4, RemovedIs, HoldingIs
    <3>5. CASE kind \in {"darwin", "store", "windows"}
      BY <2>1, <2>3, <3>2, <3>5 DEF OneEntry
    <3> QED BY <3>3, <3>4, <3>5 DEF BackTypeOK
  <2> QED BY <2>1, <2>2, <2>3 DEF BackTypeOK
<1>3. CASE LateWrite
  <2>1. kind = "nrpt"
    BY <1>3 DEF LateWrite, Control
  <2>2. CASE late = "apply" /\ table' \in NrptAdd
    BY <2>1, <2>2, HoldingIs DEF NrptAdd, Room
  <2>3. CASE late = "remove" /\ \E f \in {"exact", "variant"} : table' \in NrptRemove(f)
    BY <2>1, <2>3, NrptRemovedIs, HoldingIs
  <2> QED BY <1>3, <2>2, <2>3 DEF LateWrite
<1> QED BY <1>1, <1>2, <1>3

\* The invariant holds in every state: the providers answer truthfully because
\* what the last look showed still holds or the history knows better.
THEOREM ProvidersInductive == BackSpec => []BackInv
<1>1. BackInit => BackInv
  BY BackInitInv
<1>2. BackInv /\ [BackNext]_backVars => BackInv'
  BY BackStep
<1> QED BY <1>1, <1>2, PTL DEF BackSpec

\* Answers of inspect, apply and remove are true of the system's table while
\* nobody changes it after their look, and no provider touches an entry that it
\* had to leave alone, on any platform and in any interleaving with others.
THEOREM ProvidersSound == BackSpec => BackendsSound
<1>1. BackInv => BackTypeOK /\ AnswersTrue
  BY DEF BackInv
<1>2. BackInv /\ [BackNext]_backVars => [KeepsEntries]_backVars
  BY BackKeepsEntries DEF KeepsEntries
<1> QED BY <1>1, <1>2, ProvidersInductive, PTL DEF BackSpec, BackendsSound, EntriesKept
-----------------------------------------------------------------------------
(* systemd-resolved. *)

\* A link is its three properties.
LEMMA LinkIs ==
  ASSUME NEW k \in Links, NEW l \in Links, k.dns = l.dns, k.domains = l.domains, k.dflt = l.dflt
  PROVE  k = l
  BY DEF Links

LEMMA DesiredIs ==
  ASSUME scoped \in BOOLEAN
  PROVE  /\ Desired \in Links /\ Desired.dns = "wanted" /\ ~Unset(Desired)
         /\ Blank \in Links /\ Unset(Blank)
  BY DEF Desired, Links, Values, Unset, Blank

LEMMA SettingIs ==
  ASSUME scoped \in BOOLEAN, NEW l \in Links
  PROVE  /\ [l EXCEPT !.dns = "wanted"] \in Links
         /\ [l EXCEPT !.domains = Desired.domains] \in Links
         /\ [l EXCEPT !.dflt = Desired.dflt] \in Links
  BY DEF Desired, Links, Values

LEMMA LinkInitInv == LinkInit => LinkInv
<1> SUFFICES ASSUME LinkInit PROVE LinkInv
  OBVIOUS
<1>1. LinkTypeOK
  <2>1. dnsLink \in Links /\ view \in Links /\ confirmed \in Links
    BY DesiredIs DEF LinkInit
  <2>2. outcome \in [op : {"none", "inspect", "apply", "remove"}, ok : BOOLEAN, found : BOOLEAN]
    BY DEF LinkInit
  <2>3. unsure \in BOOLEAN /\ viewStale \in BOOLEAN /\ disturbed \in BOOLEAN /\ scoped \in BOOLEAN
    BY DEF LinkInit
  <2>4. /\ goal \in {"first", "undo", "final", "gone", "revert"} \cup SetGoals
        /\ pendingCall \in {"none", "revert"} \cup SetGoals
    BY DEF LinkInit
  <2> QED BY <2>1, <2>2, <2>3, <2>4 DEF LinkInit, LinkTypeOK
<1> QED BY <1>1 DEF LinkInit, LinkInv, ReadsLink, Errands, GivenUp, SetSoFar, LinkAnswers

\* The ways a step ends: with an answer, a reading or a request.
LEMMA TellTyped ==
  ASSUME LinkTypeOK, NEW ok \in BOOLEAN, NEW found \in BOOLEAN, Tell(ok, found)
  PROVE  /\ outcome' \in [op : {"none", "inspect", "apply", "remove"}, ok : BOOLEAN, found : BOOLEAN]
         /\ talk' \in {"idle", "read", "call"} /\ readSoFar' \in 0..3 /\ view' \in Links
         /\ confirmed' \in Links /\ goal' = goal
  BY DesiredIs DEF LinkTypeOK, Tell

LEMMA CallResolvedKeeps ==
  ASSUME LinkInv, NEW o \in {"inspect", "apply", "remove"}, CallResolved(o)
  PROVE  LinkInv'
<1> USE DEF LinkInv
<1>1. LinkTypeOK'
  <2>1. view' \in Links /\ confirmed' \in Links
    BY DesiredIs DEF LinkTypeOK, CallResolved, Reading
  <2>2. unsure' \in BOOLEAN /\ viewStale' \in BOOLEAN /\ disturbed' \in BOOLEAN
    BY DEF CallResolved
  <2> QED BY <2>1, <2>2 DEF LinkTypeOK, CallResolved, Reading
<1>2. ReadsLink' /\ Errands' /\ SetSoFar' /\ LinkAnswers'
  BY DEF LinkTypeOK, CallResolved, Reading, ReadsLink, Errands, SetSoFar, LinkAnswers, SetGoals
<1>3. GivenUp'
  BY DEF LinkTypeOK, CallResolved, Reading, GivenUp
<1> QED BY <1>1, <1>2, <1>3

LEMMA ReadKeeps ==
  ASSUME LinkInv, ReadProperty
  PROVE  LinkInv'
<1> USE DEF LinkInv
<1>1. view' \in Links
  BY DEF LinkTypeOK, ReadProperty, Links
<1>2. LinkTypeOK'
  BY <1>1 DEF LinkTypeOK, ReadProperty
<1>3. ReadsLink'
  BY DEF LinkTypeOK, ReadProperty, ReadsLink, Links
<1>4. Errands' /\ GivenUp'
  BY DEF LinkTypeOK, ReadProperty, Errands, GivenUp
<1>5. SetSoFar' /\ LinkAnswers'
  BY DEF LinkTypeOK, ReadProperty, SetSoFar, LinkAnswers, Desired, Expected
<1> QED BY <1>2, <1>3, <1>4, <1>5

LEMMA TimeoutKeeps ==
  ASSUME LinkInv, Timeout
  PROVE  LinkInv'
<1> USE DEF LinkInv
<1>1. LinkTypeOK'
  BY TellTyped DEF LinkTypeOK, Timeout, Refuse, SetGoals, Errands
<1>2. ReadsLink' /\ Errands' /\ SetSoFar' /\ LinkAnswers'
  BY DEF Timeout, Refuse, Tell, ReadsLink, Errands, SetSoFar, LinkAnswers
<1>3. GivenUp'
  BY DEF Timeout, Refuse, Tell, GivenUp
<1> QED BY <1>1, <1>2, <1>3

\* What a request makes of a link.
LEMMA EffectIs ==
  ASSUME LinkTypeOK, NEW call, NEW l \in Effect(call)
  PROVE  /\ l \in Links
         /\ call = "dns" => l = [dnsLink EXCEPT !.dns = "wanted"]
         /\ call = "domains" => l = [dnsLink EXCEPT !.domains = Desired.domains]
         /\ call = "dflt" => l = [dnsLink EXCEPT !.dflt = Desired.dflt]
         /\ call \notin SetGoals => Unset(l)
  BY SettingIs DEF LinkTypeOK, Effect, SetGoals

LEMMA SentKeeps ==
  ASSUME LinkInv, SentArrives
  PROVE  LinkInv'
<1> USE DEF LinkInv
<1>1. dnsLink' \in Links
  BY EffectIs DEF SentArrives, LinkTypeOK
<1>2. LinkTypeOK'
  BY <1>1 DEF SentArrives, LinkTypeOK
<1>3. ReadsLink' /\ Errands'
  BY DEF SentArrives, ReadsLink, Errands, Desired, GivenUp
<1>4. GivenUp'
  BY DEF SentArrives, GivenUp, LinkTypeOK
<1>5. SetSoFar' /\ LinkAnswers'
  BY DEF SentArrives, SetSoFar, LinkAnswers, GivenUp, Desired, SetGoals
<1> QED BY <1>2, <1>3, <1>4, <1>5

LEMMA LinkChangedKeeps ==
  ASSUME LinkInv, NEW l \in Links, LinkChanged(l)
  PROVE  LinkInv'
<1> USE DEF LinkInv
<1>1. LinkTypeOK'
  BY DEF LinkChanged, LinkTypeOK
<1>2. ReadsLink' /\ Errands' /\ GivenUp'
  BY DEF LinkChanged, ReadsLink, Errands, Desired, GivenUp
<1>3. SetSoFar' /\ LinkAnswers'
  BY DEF LinkChanged, SetSoFar, LinkAnswers, Desired, SetGoals
<1> QED BY <1>1, <1>2, <1>3

\* A reading that ends, read as the whole link.
LEMMA WholeReading ==
  ASSUME LinkInv, talk = "read", readSoFar = 3
  PROVE  /\ ~viewStale => view = dnsLink
         /\ ~disturbed => ~viewStale
         /\ pendingCall = "none"
<1> USE DEF LinkInv
<1>1. ~viewStale => view = dnsLink
  BY LinkIs DEF ReadsLink, LinkTypeOK
<1> QED BY <1>1 DEF GivenUp, LinkTypeOK

\* An answer is all that is left of a call.
LEMMA ToldKeeps ==
  ASSUME LinkInv, NEW ok \in BOOLEAN, NEW found \in BOOLEAN, Tell(ok, found), dnsLink' \in Links,
         UNCHANGED <<scoped, errand, pendingCall, viewStale, disturbed>>, unsure' \in BOOLEAN,
         pendingCall = "none" \/ unsure', LinkAnswers'
  PROVE  LinkInv'
<1> USE DEF LinkInv
<1>1. LinkTypeOK'
  BY TellTyped DEF LinkTypeOK
<1>2. ReadsLink' /\ Errands' /\ SetSoFar' /\ GivenUp'
  BY DEF Tell, ReadsLink, Errands, SetSoFar, GivenUp
<1> QED BY <1>1, <1>2

\* A new reading begins.
LEMMA ReadingKeeps ==
  ASSUME LinkInv, NEW g \in {"first", "undo", "final", "gone"} \cup SetGoals, NEW c \in Links,
         Reading(g, c), dnsLink' \in Links,
         UNCHANGED <<scoped, errand, pendingCall, viewStale, disturbed>>, unsure' \in BOOLEAN,
         pendingCall = "none",
         g \in SetGoals \cup {"undo", "final"} => errand = "apply",
         g = "gone" => errand = "remove",
         SetSoFar'
  PROVE  LinkInv'
<1> USE DEF LinkInv
<1>1. LinkTypeOK'
  BY DesiredIs DEF LinkTypeOK, Reading
<1>2. ReadsLink' /\ LinkAnswers'
  BY DEF Reading, ReadsLink, LinkAnswers
<1>3. Errands'
  BY DEF Reading, Errands, SetGoals
<1>4. GivenUp'
  BY DEF Reading, GivenUp
<1> QED BY <1>1, <1>2, <1>3, <1>4

\* A request is sent after a whole reading, in the knowledge of it.
LEMMA CallingKeeps ==
  ASSUME LinkInv, talk = "read", readSoFar = 3,
         NEW g \in SetGoals \cup {"revert"}, NEW c \in Links, Calling(g, c),
         UNCHANGED <<dnsLink, scoped, errand, pendingCall, unsure, viewStale, disturbed>>,
         errand # "inspect", g \in SetGoals => errand = "apply",
         g = "revert" => view = IF errand = "remove" THEN Desired ELSE c,
         SetSoFar'
  PROVE  LinkInv'
<1> USE DEF LinkInv
<1>1. LinkTypeOK'
  BY DEF LinkTypeOK, Calling
<1>2. ReadsLink'
  BY WholeReading DEF Calling, ReadsLink, Desired
<1>3. Errands' /\ LinkAnswers'
  BY DEF Calling, Errands, LinkAnswers, SetGoals
<1>4. GivenUp'
  BY WholeReading DEF Calling, GivenUp
<1> QED BY <1>1, <1>2, <1>3, <1>4

\* What apply set so far is taken back, or is nothing: the link is still as it
\* was read back last if nothing interfered.
LEMMA TakeBackKeeps ==
  ASSUME LinkInv, TakeBack, dnsLink' \in Links, talk # "idle", errand = "apply", goal \in SetGoals,
         UNCHANGED <<scoped, errand, pendingCall, viewStale, disturbed>>, unsure' \in BOOLEAN,
         pendingCall = "none",
         ~disturbed /\ ~unsure' => dnsLink' = confirmed
  PROVE  LinkInv'
<1> USE DEF LinkInv
<1>1. CASE Unset(confirmed)
  <2>1. Tell(FALSE, FALSE)
    BY <1>1 DEF TakeBack, Refuse
  <2>2. LinkAnswers'
    BY <1>1, <2>1 DEF Tell, LinkAnswers, Unset
  <2> QED BY <2>1, <2>2, ToldKeeps
<1>2. CASE ~Unset(confirmed)
  <2>1. Reading("undo", confirmed)
    BY <1>2 DEF TakeBack
  <2>2. SetSoFar'
    BY <2>1 DEF Reading, SetSoFar, SetGoals
  <2> QED BY <2>1, <2>2, ReadingKeeps DEF LinkTypeOK, SetGoals
<1> QED BY <1>1, <1>2

LEMMA RefuseKeeps ==
  ASSUME LinkInv, Refuse, dnsLink' \in Links,
         UNCHANGED <<scoped, errand, pendingCall, viewStale, disturbed>>, unsure' \in BOOLEAN,
         pendingCall = "none" \/ unsure',
         errand = "apply" /\ goal # "first" /\ ~disturbed /\ ~unsure' => Unset(dnsLink')
  PROVE  LinkInv'
<1>1. Tell(FALSE, FALSE)
  BY DEF Refuse
<1>2. LinkAnswers'
  BY <1>1 DEF Tell, LinkAnswers, Unset
<1> QED BY <1>1, <1>2, ToldKeeps

LEMMA PropertyFailsKeeps ==
  ASSUME LinkInv, PropertyFails
  PROVE  LinkInv'
<1>1. CASE errand = "apply" /\ goal \in SetGoals
  <2>1. pendingCall = "none"
    BY <1>1 DEF PropertyFails, LinkInv, GivenUp, SetGoals
  <2> QED BY <1>1, <2>1, TakeBackKeeps DEF PropertyFails, LinkInv, LinkTypeOK
<1>2. CASE ~(errand = "apply" /\ goal \in SetGoals)
  BY <1>2, RefuseKeeps DEF PropertyFails, LinkInv, LinkTypeOK
<1> QED BY <1>1, <1>2

LEMMA CallFailsKeeps ==
  ASSUME LinkInv, NEW done \in BOOLEAN, CallFails(done)
  PROVE  LinkInv'
<1> USE DEF LinkInv
<1>1. dnsLink' \in Links /\ unsure' \in BOOLEAN
  BY EffectIs DEF CallFails, LinkTypeOK
<1>2. CASE goal \in SetGoals
  <2>1. ~unsure' => UNCHANGED dnsLink /\ ~unsure
    BY DEF CallFails, LinkTypeOK
  <2> QED BY <1>1, <1>2, <2>1, TakeBackKeeps DEF CallFails, Errands, SetSoFar
<1>3. CASE goal \notin SetGoals
  <2>1. unsure'
    BY <1>3 DEF CallFails, Errands, LinkTypeOK
  <2> QED BY <1>1, <1>3, <2>1, RefuseKeeps DEF CallFails
<1> QED BY <1>2, <1>3

LEMMA CalledKeeps ==
  ASSUME LinkInv, Called
  PROVE  LinkInv'
<1> USE DEF LinkInv
<1>1. dnsLink' \in Links /\ unsure' \in BOOLEAN
  BY EffectIs DEF Called, LinkTypeOK
<1>2. CASE goal # "revert" /\ Reading(goal, confirmed)
  <2>1. goal \in SetGoals /\ errand = "apply"
    BY <1>2 DEF Called, Errands
  <2>2. SetSoFar'
    <3>1. CASE ~disturbed /\ ~unsure
      <4>1. dnsLink = confirmed
        BY <2>1, <3>1 DEF Called, SetSoFar
      <4>2. CASE goal = "dns"
        BY <1>2, <2>1, <4>1, <4>2, EffectIs DEF Called, Reading, SetSoFar, Expected, Desired
      <4>3. CASE goal = "domains"
        BY <1>2, <2>1, <4>1, <4>3, EffectIs DEF Called, Reading, SetSoFar, Expected, Desired
      <4>4. CASE goal = "dflt"
        <5>1. dnsLink' = [dnsLink EXCEPT !.dflt = Desired.dflt]
          BY <4>4, EffectIs DEF Called
        <5>2. dnsLink.dns = Desired.dns /\ dnsLink.domains = Desired.domains
          BY <2>1, <4>1, <4>4, DesiredIs DEF Called, SetSoFar, LinkTypeOK
        <5>3. dnsLink' = Desired
          <6> DEFINE l == [dnsLink EXCEPT !.dflt = Desired.dflt]
          <6>1. l \in Links /\ l.dns = Desired.dns /\ l.domains = Desired.domains /\ l.dflt = Desired.dflt
            BY <5>2, SettingIs DEF LinkTypeOK, Links
          <6> QED BY <5>1, <6>1, LinkIs, DesiredIs DEF LinkTypeOK
        <5>4. Desired' = Desired
          BY DEF Called, Desired
        <5> QED BY <1>2, <2>1, <4>4, <5>3, <5>4 DEF Called, Reading, SetSoFar, Expected
      <4> QED BY <2>1, <4>2, <4>3, <4>4 DEF SetGoals
    <3>2. CASE disturbed \/ unsure
      BY <1>2, <2>1, <3>2 DEF Called, Reading, SetSoFar, Desired
    <3> QED BY <3>1, <3>2
  <2> QED BY <1>1, <1>2, <2>1, <2>2, ReadingKeeps DEF Called, LinkTypeOK, SetGoals
<1>3. CASE goal = "revert" /\ errand = "remove" /\ Reading("gone", confirmed)
  <2>1. SetSoFar'
    BY <1>3 DEF Called, Reading, SetSoFar
  <2> QED BY <1>1, <1>3, <2>1, ReadingKeeps DEF Called, LinkTypeOK, SetGoals
<1>4. CASE goal = "revert" /\ errand = "apply" /\ Refuse
  <2>1. Unset(dnsLink')
    BY <1>4, EffectIs DEF Called, SetGoals
  <2> QED BY <1>1, <1>4, <2>1, RefuseKeeps DEF Called, LinkTypeOK
<1> QED BY <1>2, <1>3, <1>4 DEF Called

LEMMA InspectKeeps ==
  ASSUME LinkInv, Decide, errand = "inspect", InspectDecides
  PROVE  LinkInv'
<1> USE DEF LinkInv
<1>1. /\ pendingCall = "none" /\ (~viewStale => view = dnsLink)
      /\ UNCHANGED <<dnsLink, scoped, errand, pendingCall, unsure, viewStale, disturbed>>
  BY WholeReading DEF Decide
<1>2. CASE view = Desired /\ Tell(TRUE, TRUE)
  <2>1. LinkAnswers'
    BY <1>1, <1>2 DEF Tell, LinkAnswers, Desired
  <2> QED BY <1>1, <1>2, <2>1, ToldKeeps DEF LinkTypeOK
<1>3. CASE Unset(view) /\ Tell(TRUE, FALSE)
  <2>1. LinkAnswers'
    BY <1>1, <1>3 DEF Tell, LinkAnswers, Unset
  <2> QED BY <1>1, <1>3, <2>1, ToldKeeps DEF LinkTypeOK
<1>4. CASE Refuse
  BY <1>1, <1>4, RefuseKeeps DEF LinkTypeOK
<1> QED BY <1>2, <1>3, <1>4 DEF InspectDecides

LEMMA RemoveKeeps ==
  ASSUME LinkInv, Decide, errand = "remove", RemoveDecides
  PROVE  LinkInv'
<1> USE DEF LinkInv
<1>1. /\ pendingCall = "none" /\ (~viewStale => view = dnsLink)
      /\ UNCHANGED <<dnsLink, scoped, errand, pendingCall, unsure, viewStale, disturbed>>
  BY WholeReading DEF Decide
<1>2. CASE Tell(Unset(view), FALSE)
  <2>1. Unset(view) \in BOOLEAN
    BY DEF Unset
  <2>2. LinkAnswers'
    BY <1>1, <1>2 DEF Tell, LinkAnswers, Unset
  <2> QED BY <1>1, <1>2, <2>1, <2>2, ToldKeeps DEF LinkTypeOK
<1>3. CASE Unset(view) /\ Tell(TRUE, FALSE)
  <2>1. LinkAnswers'
    BY <1>1, <1>3 DEF Tell, LinkAnswers, Unset
  <2> QED BY <1>1, <1>3, <2>1, ToldKeeps DEF LinkTypeOK
<1>4. CASE view = Desired /\ Calling("revert", confirmed)
  <2>1. SetSoFar'
    BY <1>1, <1>4 DEF Calling, SetSoFar
  <2> QED BY <1>1, <1>4, <2>1, CallingKeeps DEF Decide, LinkTypeOK, SetGoals
<1>5. CASE Refuse
  BY <1>1, <1>5, RefuseKeeps DEF LinkTypeOK
<1> QED BY <1>2, <1>3, <1>4, <1>5 DEF RemoveDecides

\* Left alone, apply reads back what it has set.
LEMMA ApplyKeeps ==
  ASSUME LinkInv, Decide, errand = "apply", ApplyDecides
  PROVE  LinkInv'
<1> USE DEF LinkInv
<1>1. /\ pendingCall = "none" /\ (~viewStale => view = dnsLink) /\ (~disturbed => view = dnsLink)
      /\ UNCHANGED <<dnsLink, scoped, errand, pendingCall, unsure, viewStale, disturbed>>
      /\ talk = "read" /\ readSoFar = 3 /\ view \in Links /\ confirmed \in Links
      /\ dnsLink' \in Links /\ unsure' \in BOOLEAN
  BY WholeReading DEF Decide, LinkTypeOK
<1>2. Desired' = Desired /\ scoped \in BOOLEAN
  BY <1>1 DEF Desired, LinkTypeOK
<1>3. CASE goal = "first" /\ Unset(view) /\ Calling("dns", view)
  <2>1. SetSoFar'
    BY <1>1, <1>3 DEF Calling, SetSoFar, Unset
  <2> QED BY <1>1, <1>3, <2>1, CallingKeeps DEF SetGoals
<1>4. CASE goal = "first" /\ Refuse
  BY <1>1, <1>4, RefuseKeeps
<1>5. CASE goal = "dns" /\ view = Expected /\ Calling("domains", view)
  <2>1. view.dns = "wanted"
    BY <1>1, <1>5 DEF Expected, Links
  <2>2. SetSoFar'
    BY <1>1, <1>5, <2>1 DEF Calling, SetSoFar
  <2> QED BY <1>1, <1>5, <2>2, CallingKeeps DEF SetGoals
<1>6. CASE goal = "domains" /\ view = Expected /\ Calling("dflt", view)
  <2>1. view.dns = "wanted" /\ view.domains = Desired.domains
    BY <1>1, <1>6 DEF Expected, Links, SetSoFar
  <2>2. SetSoFar'
    BY <1>1, <1>2, <1>6, <2>1 DEF Calling, SetSoFar
  <2> QED BY <1>1, <1>6, <2>2, CallingKeeps DEF SetGoals
<1>7. CASE goal = "dflt" /\ view = Expected /\ Reading("final", confirmed)
  <2>1. view = Desired
    BY <1>7 DEF Expected
  <2>2. SetSoFar'
    BY <1>1, <1>2, <1>7, <2>1 DEF Reading, SetSoFar, SetGoals
  <2> QED BY <1>1, <1>7, <2>2, ReadingKeeps DEF SetGoals
<1>8. CASE goal \in SetGoals /\ view # Expected /\ TakeBack
  <2>1. disturbed \/ unsure'
    BY <1>1, <1>8 DEF SetSoFar
  <2> QED BY <1>1, <1>8, <2>1, TakeBackKeeps
<1>9. CASE goal = "undo" /\ view = confirmed /\ Calling("revert", confirmed)
  <2>1. SetSoFar'
    BY <1>1, <1>9 DEF Calling, SetSoFar
  <2> QED BY <1>1, <1>9, <2>1, CallingKeeps DEF SetGoals
<1>10. CASE goal = "undo" /\ view # confirmed /\ Refuse
  <2>1. disturbed \/ unsure'
    BY <1>1, <1>10 DEF SetSoFar
  <2> QED BY <1>1, <1>10, <2>1, RefuseKeeps
<1>11. CASE goal = "final" /\ Tell(view = Desired, TRUE)
  <2>1. ~disturbed /\ ~unsure => view = Desired
    BY <1>1, <1>11 DEF SetSoFar
  <2>2. LinkAnswers'
    BY <1>1, <1>2, <1>11, <2>1 DEF Tell, LinkAnswers
  <2> QED BY <1>1, <1>11, <2>2, ToldKeeps
<1> QED BY <1>3, <1>4, <1>5, <1>6, <1>7, <1>8, <1>9, <1>10, <1>11 DEF ApplyDecides

LEMMA LinkQuiet ==
  ASSUME LinkInv, UNCHANGED linkVars
  PROVE  LinkInv'
  BY DEF LinkInv, linkVars, LinkTypeOK, ReadsLink, Errands, GivenUp, SetSoFar, LinkAnswers, Desired, Expected, Unset

LEMMA LinkStep == LinkInv /\ [LinkNext]_linkVars => LinkInv'
<1> SUFFICES ASSUME LinkInv, [LinkNext]_linkVars PROVE LinkInv'
  OBVIOUS
<1>1. ASSUME NEW o \in {"inspect", "apply", "remove"}, CallResolved(o) PROVE LinkInv'
  BY <1>1, CallResolvedKeeps
<1>2. CASE ReadProperty
  BY <1>2, ReadKeeps
<1>3. CASE PropertyFails
  BY <1>3, PropertyFailsKeeps
<1>4. CASE Decide
  BY <1>4, InspectKeeps, ApplyKeeps, RemoveKeeps DEF Decide
<1>5. CASE Called
  BY <1>5, CalledKeeps
<1>6. CASE Timeout
  BY <1>6, TimeoutKeeps
<1>7. CASE SentArrives
  BY <1>7, SentKeeps
<1>8. ASSUME NEW done \in BOOLEAN, CallFails(done) PROVE LinkInv'
  BY <1>8, CallFailsKeeps
<1>9. ASSUME NEW l \in Links, LinkChanged(l) PROVE LinkInv'
  BY <1>9, LinkChangedKeeps
<1>10. CASE UNCHANGED linkVars
  BY <1>10, LinkQuiet
<1> QED BY <1>1, <1>2, <1>3, <1>4, <1>5, <1>6, <1>7, <1>8, <1>9, <1>10 DEF LinkNext, Resolver

\* Requests are made in the knowledge of a whole reading of the link.
LEMMA LinkStepKept ==
  ASSUME LinkInv, [LinkNext]_linkVars
  PROVE  [KeepsLink]_linkVars
<1> SUFFICES ASSUME dnsLink' # dnsLink, pendingCall = "none", Resolver
             PROVE  /\ talk = "call"
                    /\ viewStale \/ dnsLink = view
                    /\ goal = "revert" /\ ~viewStale => dnsLink \in {confirmed, Desired}
  BY DEF KeepsLink
<1>1. talk = "call"
  BY DEF Resolver, CallResolved, ReadProperty, PropertyFails, Decide, Called, Timeout, SentArrives, CallFails
<1> QED BY <1>1 DEF LinkInv, ReadsLink

\* The invariant holds in every state: while nothing interferes, the link is what
\* apply has set so far and read back.
THEOREM LinkInductive == LinkSpec => []LinkInv
<1>1. LinkInit => LinkInv
  BY LinkInitInv
<1>2. LinkInv /\ [LinkNext]_linkVars => LinkInv'
  BY LinkStep
<1> QED BY <1>1, <1>2, PTL DEF LinkSpec

\* systemd-resolved's link is as inspect, apply and remove say although it is
\* read property by property, an apply that fails takes back what it had set,
\* and a link is never overwritten or reverted except as it was read.
THEOREM ResolvedSound == LinkSpec => LinkSound
<1>1. LinkInv => LinkTypeOK /\ LinkAnswers
  BY DEF LinkInv
<1>2. LinkInv /\ [LinkNext]_linkVars => [KeepsLink]_linkVars
  BY LinkStepKept
<1> QED BY <1>1, <1>2, LinkInductive, PTL DEF LinkSpec, LinkSound, LinkKept

----------------------------------------------------------------------------
(* Routes and resolv.conf *)

\* The hosts the proof is about: no route to the gateway of their own, a DNS suffix
\* without a ';', and one IPCP acknowledgement.  (On others on_ppp_if_down may take
\* the user's route, or leave a line: the README says how.)
PlainHost == TRUE \notin KnownGateway /\ "list" \notin SuffixForms /\ MaxAcks <= 1

\* A call that fails is counted.
LEMMA Charged ==
  ASSUME NetTypeOK, NEW ok \in Works, Charge(ok)
  PROVE  ok \in BOOLEAN /\ faults' \in 0 .. MaxFault /\ (faults' = 0 => ok /\ faults = 0)
<1>1. MaxFault \in Nat /\ faults \in 0 .. MaxFault
  BY NetworkAssumption DEF NetTypeOK
<1>2. CASE ok
  BY <1>1, <1>2 DEF Charge
<1>3. CASE ~ok
  <2>1. ok = FALSE /\ faults < MaxFault /\ faults' = faults + 1
    BY <1>3 DEF Works, Charge
  <2>2. faults' \in 0 .. MaxFault /\ faults' # 0
    BY <1>1, <2>1
  <2> QED BY <2>1, <2>2
<1>4. ok \in BOOLEAN
  BY DEF Works
<1> QED BY <1>2, <1>3, <1>4

\* pppd brings the interface up.
LEMMA Net_LinkUp ==
  ASSUME PlainHost, NetInv, LinkUp
  PROVE  NetInv'
<1>1. NetTypeOK'
  BY NetworkAssumption DEF LinkUp, ViaPpp, NetInv, NetTypeOK, TunnelState, Routes, Slots, Texts, Lines
<1>2. HostFound'
  BY NetworkAssumption DEF LinkUp, ViaPpp, NetInv, NetTypeOK, TunnelState, HostFound, PlainHost, Slots
<1>3. RoutesNoted'
  BY DEF LinkUp, ViaPpp, NetInv, NetTypeOK, TunnelState, RoutesNoted, HostFound
<1>4. RoutesAccounted'
  BY DEF LinkUp, ViaPpp, NetInv, NetTypeOK, TunnelState, RoutesNoted, RoutesAccounted, Lasting,
       HostFound
<1>5. ResolvAccounted'
  BY DEF LinkUp, ViaPpp, NetInv, NetTypeOK, TunnelState, ResolvAccounted, OurText, Added,
       HostFound, Slots
<1>6. SpoiltTold'
  BY DEF LinkUp, ViaPpp, NetInv, NetTypeOK, SpoiltTold
<1> QED BY <1>1, <1>2, <1>3, <1>4, <1>5, <1>6 DEF NetInv

\* pppd takes the interface and its routes away.
LEMMA Net_LinkGone ==
  ASSUME PlainHost, NetInv, LinkGone
  PROVE  NetInv'
<1>1. NetTypeOK'
  BY NetworkAssumption DEF LinkGone, ViaPpp, NetInv, NetTypeOK, TunnelState, Routes, Slots, Texts, Lines
<1>2. HostFound'
  BY NetworkAssumption DEF LinkGone, ViaPpp, NetInv, NetTypeOK, TunnelState, HostFound, PlainHost, Slots
<1>3. RoutesNoted'
  BY DEF LinkGone, ViaPpp, NetInv, NetTypeOK, TunnelState, RoutesNoted, HostFound
<1>4. RoutesAccounted'
  BY DEF LinkGone, ViaPpp, NetInv, NetTypeOK, TunnelState, RoutesNoted, RoutesAccounted,
       Lasting, HostFound
<1>5. ResolvAccounted'
  BY DEF LinkGone, ViaPpp, NetInv, NetTypeOK, TunnelState, ResolvAccounted, OurText, Added,
       HostFound, Slots
<1>6. SpoiltTold'
  BY DEF LinkGone, ViaPpp, NetInv, NetTypeOK, SpoiltTold
<1> QED BY <1>1, <1>2, <1>3, <1>4, <1>5, <1>6 DEF NetInv

\* The acknowledgement comes before if_config acts.
LEMMA Net_ssl_read_ipcp ==
  ASSUME PlainHost, NetInv, ssl_read_ipcp
  PROVE  NetInv'
<1>1. NetTypeOK'
  BY NetworkAssumption DEF ssl_read_ipcp, ViaPpp, NetInv, NetTypeOK, TunnelState, Routes, Slots, Texts, Lines
<1>2. HostFound'
  BY NetworkAssumption DEF ssl_read_ipcp, ViaPpp, NetInv, NetTypeOK, TunnelState, HostFound, PlainHost, Slots
<1>3. RoutesNoted'
  BY DEF ssl_read_ipcp, ViaPpp, NetInv, NetTypeOK, TunnelState, RoutesNoted, HostFound
<1>4. RoutesAccounted'
  BY DEF ssl_read_ipcp, ViaPpp, NetInv, NetTypeOK, TunnelState, RoutesNoted, RoutesAccounted,
       Lasting, HostFound
<1>5. ResolvAccounted'
  <2>1. acks = 0
    BY NetworkAssumption DEF ssl_read_ipcp, NetInv, NetTypeOK, PlainHost
  <2>2. ~tun.dnsStarted /\ tun'.dnsStarted = tun.dnsStarted
    BY <2>1 DEF ssl_read_ipcp, NetInv, NetTypeOK, TunnelState, HostFound, ResolvAccounted
  <2> QED BY <2>2 DEF ssl_read_ipcp, NetInv, ResolvAccounted
<1>6. SpoiltTold'
  BY DEF ssl_read_ipcp, ViaPpp, NetInv, NetTypeOK, SpoiltTold
<1> QED BY <1>1, <1>2, <1>3, <1>4, <1>5, <1>6 DEF NetInv

\* if_config begins.
LEMMA Net_if_config_network ==
  ASSUME PlainHost, NetInv, if_config_network
  PROVE  NetInv'
<1>1. NetTypeOK'
  BY NetworkAssumption DEF if_config_network, Configuring, Kept, ViaPpp, NetInv, NetTypeOK, TunnelState, Routes,
       Slots, Texts, Lines
<1>2. HostFound'
  BY NetworkAssumption DEF if_config_network, Configuring, Kept, ViaPpp, NetInv, NetTypeOK, TunnelState,
       HostFound, PlainHost, Slots
<1>3. RoutesNoted'
  BY DEF if_config_network, Configuring, Kept, ViaPpp, NetInv, NetTypeOK, TunnelState,
       RoutesNoted, HostFound
<1>4. RoutesAccounted'
  BY DEF if_config_network, Configuring, Kept, ViaPpp, NetInv, NetTypeOK, TunnelState,
       RoutesNoted, RoutesAccounted, Lasting, HostFound
<1>5. ResolvAccounted'
  BY DEF if_config_network, Configuring, Kept, ViaPpp, NetInv, NetTypeOK, TunnelState,
       ResolvAccounted, OurText, Added, HostFound, Slots
<1>6. SpoiltTold'
  BY DEF if_config_network, Configuring, Kept, ViaPpp, NetInv, NetTypeOK, SpoiltTold
<1> QED BY <1>1, <1>2, <1>3, <1>4, <1>5, <1>6 DEF NetInv

\* A route through the tunnel to its own gateway is dropped.
LEMMA Net_ipv4_drop_wrong_route ==
  ASSUME PlainHost, NetInv, ipv4_drop_wrong_route
  PROVE  NetInv'
<1>0. faults' \in 0 .. MaxFault /\ (faults' = 0 => faults = 0)
  BY Charged DEF ipv4_drop_wrong_route, NetInv
<1>1. NetTypeOK'
  <2>1. tun' \in TunnelState
    BY DEF ipv4_drop_wrong_route, Kept, NetInv, NetTypeOK, TunnelState, Works, Slots
  <2>2. routes' \subseteq Routes /\ resolv' \subseteq Lines
    BY DEF ipv4_drop_wrong_route, NetInv, NetTypeOK, TunnelState, HostFound, ipv4_set_route,
       ipv4_del_route, Settable, ViaPpp, Routes, Lines, Slots
  <2> QED BY <1>0, <2>1, <2>2 DEF ipv4_drop_wrong_route, Configuring, Kept, Works, AfterRoutes, ipv4_set_route,
       ipv4_del_route, Settable, NetInv, NetTypeOK
<1>2. HostFound'
  BY NetworkAssumption DEF ipv4_drop_wrong_route, Configuring, Kept, Works, Charge, ipv4_set_route,
       ipv4_del_route, Settable, AfterRoutes, ViaPpp, NetInv, NetTypeOK, TunnelState,
       HostFound, PlainHost, Slots
<1>3. RoutesNoted'
  BY DEF ipv4_drop_wrong_route, Configuring, Kept, Works, Charge, ipv4_set_route,
       ipv4_del_route, Settable, AfterRoutes, ViaPpp, NetInv, NetTypeOK, TunnelState,
       RoutesNoted, HostFound
<1>4. RoutesAccounted'
  BY DEF ipv4_drop_wrong_route, Configuring, Kept, Works, Charge, ipv4_set_route,
       ipv4_del_route, Settable, AfterRoutes, ViaPpp, NetInv, NetTypeOK, TunnelState,
       RoutesNoted, RoutesAccounted, Lasting, HostFound
<1>5. ResolvAccounted'
  BY DEF ipv4_drop_wrong_route, Configuring, Kept, Works, Charge, ipv4_set_route,
       ipv4_del_route, Settable, AfterRoutes, ViaPpp, NetInv, NetTypeOK, TunnelState,
       ResolvAccounted, OurText, Added, HostFound, Slots
<1>6. SpoiltTold'
  BY DEF ipv4_drop_wrong_route, Configuring, Kept, Works, Charge, ipv4_set_route,
       ipv4_del_route, Settable, AfterRoutes, ViaPpp, NetInv, NetTypeOK, SpoiltTold
<1> QED BY <1>1, <1>2, <1>3, <1>4, <1>5, <1>6 DEF NetInv

\* route_to_vpn_is_added is set before the route is.
LEMMA Net_LookUpRoutes ==
  ASSUME PlainHost, NetInv, LookUpRoutes
  PROVE  NetInv'
<1>0. faults' \in 0 .. MaxFault /\ (faults' = 0 => faults = 0)
  BY Charged DEF LookUpRoutes, NetInv
<1>1. NetTypeOK'
  <2>1. tun' \in TunnelState
    BY DEF LookUpRoutes, Kept, NetInv, NetTypeOK, TunnelState, Works, Slots
  <2>2. routes' \subseteq Routes /\ resolv' \subseteq Lines
    BY DEF LookUpRoutes, NetInv, NetTypeOK, TunnelState, HostFound, ipv4_set_route,
       ipv4_del_route, Settable, ViaPpp, Routes, Lines, Slots
  <2> QED BY <1>0, <2>1, <2>2 DEF LookUpRoutes, Configuring, Kept, Works, AfterProtect, ipv4_set_route, ipv4_del_route,
       Settable, NetInv, NetTypeOK
<1>2. HostFound'
  BY NetworkAssumption DEF LookUpRoutes, Configuring, Kept, Works, Charge, ipv4_set_route, ipv4_del_route,
       Settable, AfterProtect, ViaPpp, NetInv, NetTypeOK, TunnelState, HostFound, PlainHost,
       Slots
<1>3. RoutesNoted'
  <2>1. /\ undo = "running" /\ step = "default" /\ UNCHANGED <<routes, undo, config>>
        /\ \/ step' = "gateway" /\ tun' = [tun EXCEPT !.gtwAdded = TRUE]
           \/ step' \in {"split", "failed"} /\ tun' = [tun EXCEPT !.gtwAdded = FALSE]
    BY DEF LookUpRoutes, Configuring, AfterProtect, Kept, Works
  <2>2. Lasting = {"default"} /\ ~tun.gtwAdded
    BY <2>1 DEF NetInv, RoutesNoted, RoutesAccounted
  <2>3. routes \cap {"gateway", "pppDefault", "half0", "half1"} = {}
    BY <2>2 DEF NetInv, RoutesNoted, Lasting, ViaPpp
  <2> QED BY <1>0, <2>1, <2>2, <2>3 DEF NetInv, NetTypeOK, TunnelState, RoutesNoted
<1>4. RoutesAccounted'
  BY DEF LookUpRoutes, Configuring, Kept, Works, Charge, ipv4_set_route, ipv4_del_route,
       Settable, AfterProtect, ViaPpp, NetInv, NetTypeOK, TunnelState, RoutesNoted,
       RoutesAccounted, Lasting, HostFound
<1>5. ResolvAccounted'
  BY DEF LookUpRoutes, Configuring, Kept, Works, Charge, ipv4_set_route, ipv4_del_route,
       Settable, AfterProtect, ViaPpp, NetInv, NetTypeOK, TunnelState, ResolvAccounted, OurText, Added,
       HostFound, Slots
<1>6. SpoiltTold'
  BY DEF LookUpRoutes, Configuring, Kept, Works, Charge, ipv4_set_route, ipv4_del_route,
       Settable, AfterProtect, ViaPpp, NetInv, NetTypeOK, SpoiltTold
<1> QED BY <1>1, <1>2, <1>3, <1>4, <1>5, <1>6 DEF NetInv

\* The route to the gateway, outside the tunnel.
LEMMA Net_ipv4_protect_tunnel_route ==
  ASSUME PlainHost, NetInv, ipv4_protect_tunnel_route
  PROVE  NetInv'
<1>0. faults' \in 0 .. MaxFault /\ (faults' = 0 => faults = 0)
  BY Charged DEF ipv4_protect_tunnel_route, NetInv
<1>1. NetTypeOK'
  <2>1. tun' \in TunnelState
    BY DEF ipv4_protect_tunnel_route, Kept, NetInv, NetTypeOK, TunnelState, Works, Slots
  <2>2. routes' \subseteq Routes /\ resolv' \subseteq Lines
    BY DEF ipv4_protect_tunnel_route, NetInv, NetTypeOK, TunnelState, HostFound, ipv4_set_route,
       ipv4_del_route, Settable, ViaPpp, Routes, Lines, Slots
  <2> QED BY <1>0, <2>1, <2>2 DEF ipv4_protect_tunnel_route, Configuring, Kept, Works, AfterProtect, ipv4_set_route,
       ipv4_del_route, Settable, NetInv, NetTypeOK
<1>2. HostFound'
  BY NetworkAssumption DEF ipv4_protect_tunnel_route, Configuring, Kept, Works, Charge, ipv4_set_route,
       ipv4_del_route, Settable, AfterProtect, ViaPpp, NetInv, NetTypeOK, TunnelState,
       HostFound, PlainHost, Slots
<1>3. RoutesNoted'
  <2>1. PICK ok \in Works : Charge(ok) /\ ipv4_set_route("gateway", ok)
                              /\ tun' = [tun EXCEPT !.gtwAdded = ~ok \/ "gateway" \notin routes]
    BY DEF ipv4_protect_tunnel_route
  <2>2. /\ undo = "running" /\ step = "gateway" /\ step' = AfterProtect(TRUE) /\ UNCHANGED <<undo, config>>
    BY DEF ipv4_protect_tunnel_route, Configuring, Kept
  <2>3. tun.gtwAdded /\ routes \cap {"gateway", "pppDefault", "half0", "half1"} = {}
    BY <2>2 DEF NetInv, RoutesNoted
  <2>4. tun' = [tun EXCEPT !.gtwAdded = TRUE]
    BY <2>1, <2>3
  <2>5. routes' \in {routes, routes \cup {"gateway"}} /\ (faults' = 0 => "gateway" \in routes')
    BY <2>1, <2>3, Charged DEF NetInv, ipv4_set_route, Settable, ViaPpp
  <2> QED BY NetworkAssumption, <2>2, <2>3, <2>4, <2>5 DEF NetInv, NetTypeOK, TunnelState, RoutesNoted, AfterProtect
<1>4. RoutesAccounted'
  BY DEF ipv4_protect_tunnel_route, Configuring, Kept, Works, Charge, ipv4_set_route,
       ipv4_del_route, Settable, AfterProtect, ViaPpp, NetInv, NetTypeOK, TunnelState,
       RoutesNoted, RoutesAccounted, Lasting, HostFound
<1>5. ResolvAccounted'
  BY DEF ipv4_protect_tunnel_route, Configuring, Kept, Works, Charge, ipv4_set_route,
       ipv4_del_route, Settable, AfterProtect, ViaPpp, NetInv, NetTypeOK, TunnelState,
       ResolvAccounted, OurText, Added, HostFound, Slots
<1>6. SpoiltTold'
  BY DEF ipv4_protect_tunnel_route, Configuring, Kept, Works, Charge, ipv4_set_route,
       ipv4_del_route, Settable, AfterProtect, ViaPpp, NetInv, NetTypeOK, SpoiltTold
<1> QED BY <1>1, <1>2, <1>3, <1>4, <1>5, <1>6 DEF NetInv

\* The split routes go with the interface.
LEMMA Net_ipv4_set_split_routes ==
  ASSUME PlainHost, NetInv, ipv4_set_split_routes
  PROVE  NetInv'
<1>0. faults' \in 0 .. MaxFault /\ (faults' = 0 => faults = 0)
  BY Charged DEF ipv4_set_split_routes, NetInv
<1>1. NetTypeOK'
  <2>1. tun' \in TunnelState
    BY DEF ipv4_set_split_routes, Kept, NetInv, NetTypeOK, TunnelState, Works, Slots
  <2>2. routes' \subseteq Routes /\ resolv' \subseteq Lines
    BY DEF ipv4_set_split_routes, NetInv, NetTypeOK, TunnelState, HostFound, ipv4_set_route,
       ipv4_del_route, Settable, ViaPpp, Routes, Lines, Slots
  <2> QED BY <1>0, <2>1, <2>2 DEF ipv4_set_split_routes, Configuring, Kept, Works, AfterRoutes, ipv4_set_route,
       ipv4_del_route, Settable, NetInv, NetTypeOK
<1>2. HostFound'
  BY NetworkAssumption DEF ipv4_set_split_routes, Configuring, Kept, Works, Charge, ipv4_set_route,
       ipv4_del_route, Settable, AfterRoutes, ViaPpp, NetInv, NetTypeOK, TunnelState,
       HostFound, PlainHost, Slots
<1>3. RoutesNoted'
  BY DEF ipv4_set_split_routes, Configuring, Kept, Works, Charge, ipv4_set_route,
       ipv4_del_route, Settable, AfterRoutes, ViaPpp, NetInv, NetTypeOK, TunnelState,
       RoutesNoted, HostFound
<1>4. RoutesAccounted'
  BY DEF ipv4_set_split_routes, Configuring, Kept, Works, Charge, ipv4_set_route,
       ipv4_del_route, Settable, AfterRoutes, ViaPpp, NetInv, NetTypeOK, TunnelState,
       RoutesNoted, RoutesAccounted, Lasting, HostFound
<1>5. ResolvAccounted'
  BY DEF ipv4_set_split_routes, Configuring, Kept, Works, Charge, ipv4_set_route,
       ipv4_del_route, Settable, AfterRoutes, ViaPpp, NetInv, NetTypeOK, TunnelState,
       ResolvAccounted, OurText, Added, HostFound, Slots
<1>6. SpoiltTold'
  BY DEF ipv4_set_split_routes, Configuring, Kept, Works, Charge, ipv4_set_route,
       ipv4_del_route, Settable, AfterRoutes, ViaPpp, NetInv, NetTypeOK, SpoiltTold
<1> QED BY <1>1, <1>2, <1>3, <1>4, <1>5, <1>6 DEF NetInv

\* The default route is deleted once the engine knows how to put it back.
LEMMA Net_DropDefault ==
  ASSUME PlainHost, NetInv, DropDefault
  PROVE  NetInv'
<1>0. faults' \in 0 .. MaxFault /\ (faults' = 0 => faults = 0)
  BY Charged DEF DropDefault, NetInv
<1>1. NetTypeOK'
  <2>1. tun' \in TunnelState
    BY DEF DropDefault, Kept, NetInv, NetTypeOK, TunnelState, Works, Slots
  <2>2. routes' \subseteq Routes /\ resolv' \subseteq Lines
    BY DEF DropDefault, NetInv, NetTypeOK, TunnelState, HostFound, ipv4_set_route,
       ipv4_del_route, Settable, ViaPpp, Routes, Lines, Slots
  <2> QED BY <1>0, <2>1, <2>2 DEF DropDefault, Configuring, Kept, Works, ipv4_set_route, ipv4_del_route, Settable,
       NetInv, NetTypeOK
<1>2. HostFound'
  BY NetworkAssumption DEF DropDefault, Configuring, Kept, Works, Charge, ipv4_set_route, ipv4_del_route,
       Settable, ViaPpp, NetInv, NetTypeOK, TunnelState, HostFound, PlainHost, Slots
<1>3. RoutesNoted'
  BY DEF DropDefault, Configuring, Kept, Works, Charge, ipv4_set_route, ipv4_del_route,
       Settable, ViaPpp, NetInv, NetTypeOK, TunnelState, RoutesNoted, HostFound
<1>4. RoutesAccounted'
  BY DEF DropDefault, Configuring, Kept, Works, Charge, ipv4_set_route, ipv4_del_route,
       Settable, ViaPpp, NetInv, NetTypeOK, TunnelState, RoutesNoted, RoutesAccounted,
       Lasting, HostFound
<1>5. ResolvAccounted'
  BY DEF DropDefault, Configuring, Kept, Works, Charge, ipv4_set_route, ipv4_del_route,
       Settable, ViaPpp, NetInv, NetTypeOK, TunnelState, ResolvAccounted, OurText, Added,
       HostFound, Slots
<1>6. SpoiltTold'
  BY DEF DropDefault, Configuring, Kept, Works, Charge, ipv4_set_route, ipv4_del_route,
       Settable, ViaPpp, NetInv, NetTypeOK, SpoiltTold
<1> QED BY <1>1, <1>2, <1>3, <1>4, <1>5, <1>6 DEF NetInv

\* The default route through the tunnel.
LEMMA Net_ipv4_set_default_routes ==
  ASSUME PlainHost, NetInv, ipv4_set_default_routes
  PROVE  NetInv'
<1>0. faults' \in 0 .. MaxFault /\ (faults' = 0 => faults = 0)
  BY Charged DEF ipv4_set_default_routes, NetInv
<1>1. NetTypeOK'
  <2>1. tun' \in TunnelState
    BY DEF ipv4_set_default_routes, Kept, NetInv, NetTypeOK, TunnelState, Works, Slots
  <2>2. routes' \subseteq Routes /\ resolv' \subseteq Lines
    BY DEF ipv4_set_default_routes, NetInv, NetTypeOK, TunnelState, HostFound, ipv4_set_route,
       ipv4_del_route, Settable, ViaPpp, Routes, Lines, Slots
  <2> QED BY <1>0, <2>1, <2>2 DEF ipv4_set_default_routes, Configuring, Kept, Works, AfterRoutes, ipv4_set_route,
       ipv4_del_route, Settable, NetInv, NetTypeOK
<1>2. HostFound'
  BY NetworkAssumption DEF ipv4_set_default_routes, Configuring, Kept, Works, Charge, ipv4_set_route,
       ipv4_del_route, Settable, AfterRoutes, ViaPpp, NetInv, NetTypeOK, TunnelState,
       HostFound, PlainHost, Slots
<1>3. RoutesNoted'
  BY DEF ipv4_set_default_routes, Configuring, Kept, Works, Charge, ipv4_set_route,
       ipv4_del_route, Settable, AfterRoutes, ViaPpp, NetInv, NetTypeOK, TunnelState,
       RoutesNoted, HostFound
<1>4. RoutesAccounted'
  BY DEF ipv4_set_default_routes, Configuring, Kept, Works, Charge, ipv4_set_route,
       ipv4_del_route, Settable, AfterRoutes, ViaPpp, NetInv, NetTypeOK, TunnelState,
       RoutesNoted, RoutesAccounted, Lasting, HostFound
<1>5. ResolvAccounted'
  BY DEF ipv4_set_default_routes, Configuring, Kept, Works, Charge, ipv4_set_route,
       ipv4_del_route, Settable, AfterRoutes, ViaPpp, NetInv, NetTypeOK, TunnelState,
       ResolvAccounted, OurText, Added, HostFound, Slots
<1>6. SpoiltTold'
  BY DEF ipv4_set_default_routes, Configuring, Kept, Works, Charge, ipv4_set_route,
       ipv4_del_route, Settable, AfterRoutes, ViaPpp, NetInv, NetTypeOK, SpoiltTold
<1> QED BY <1>1, <1>2, <1>3, <1>4, <1>5, <1>6 DEF NetInv

\* The two halves go with the interface.
LEMMA Net_HalfInternet ==
  ASSUME PlainHost, NetInv, HalfInternet
  PROVE  NetInv'
<1>0. faults' \in 0 .. MaxFault /\ (faults' = 0 => faults = 0)
  BY Charged DEF HalfInternet, NetInv
<1>1. NetTypeOK'
  <2>1. tun' \in TunnelState
    BY DEF HalfInternet, Kept, NetInv, NetTypeOK, TunnelState, Works, Slots
  <2>2. routes' \subseteq Routes /\ resolv' \subseteq Lines
    BY DEF HalfInternet, NetInv, NetTypeOK, TunnelState, HostFound, ipv4_set_route,
       ipv4_del_route, Settable, ViaPpp, Routes, Lines, Slots
  <2> QED BY <1>0, <2>1, <2>2 DEF HalfInternet, Configuring, Kept, Works, AfterRoutes, ipv4_set_route, ipv4_del_route,
       Settable, NetInv, NetTypeOK
<1>2. HostFound'
  BY NetworkAssumption DEF HalfInternet, Configuring, Kept, Works, Charge, ipv4_set_route, ipv4_del_route,
       Settable, AfterRoutes, ViaPpp, NetInv, NetTypeOK, TunnelState, HostFound, PlainHost,
       Slots
<1>3. RoutesNoted'
  BY DEF HalfInternet, Configuring, Kept, Works, Charge, ipv4_set_route, ipv4_del_route,
       Settable, AfterRoutes, ViaPpp, NetInv, NetTypeOK, TunnelState, RoutesNoted, HostFound
<1>4. RoutesAccounted'
  BY DEF HalfInternet, Configuring, Kept, Works, Charge, ipv4_set_route, ipv4_del_route,
       Settable, AfterRoutes, ViaPpp, NetInv, NetTypeOK, TunnelState, RoutesNoted,
       RoutesAccounted, Lasting, HostFound
<1>5. ResolvAccounted'
  BY DEF HalfInternet, Configuring, Kept, Works, Charge, ipv4_set_route, ipv4_del_route,
       Settable, AfterRoutes, ViaPpp, NetInv, NetTypeOK, TunnelState, ResolvAccounted, OurText, Added,
       HostFound, Slots
<1>6. SpoiltTold'
  BY DEF HalfInternet, Configuring, Kept, Works, Charge, ipv4_set_route, ipv4_del_route,
       Settable, AfterRoutes, ViaPpp, NetInv, NetTypeOK, SpoiltTold
<1> QED BY <1>1, <1>2, <1>3, <1>4, <1>5, <1>6 DEF NetInv

\* Only lines that the file does not have are noted as the engine's.
LEMMA Net_ReadResolv ==
  ASSUME PlainHost, NetInv, ReadResolv
  PROVE  NetInv'
<1>0. faults' \in 0 .. MaxFault /\ (faults' = 0 => faults = 0)
  BY Charged DEF ReadResolv, NetInv
<1>1. NetTypeOK'
  <2>1. tun' \in TunnelState
    <3>1. [s \in Slots |-> Present(s)] \in [Slots -> {-1, 0, 1}]
      BY DEF Present
    <3>2. tun' \in {tun, [tun EXCEPT !.dnsStarted = TRUE, !.wasThere = [s \in Slots |-> Present(s)]]}
      BY DEF ReadResolv
    <3> QED BY <3>1, <3>2 DEF NetInv, NetTypeOK, TunnelState
  <2>2. routes' \subseteq Routes /\ resolv' \subseteq Lines
    BY DEF ReadResolv, NetInv, NetTypeOK, TunnelState, HostFound, ipv4_set_route, ipv4_del_route,
       Settable, ViaPpp, Routes, Lines, Written, Slots
  <2> QED BY <1>0, <2>1, <2>2 DEF ReadResolv, Configuring, Kept, Works, ipv4_set_route, ipv4_del_route, Settable,
       NetInv, NetTypeOK
<1>2. HostFound'
  BY NetworkAssumption DEF ReadResolv, Configuring, Kept, Works, Charge, ipv4_set_route, ipv4_del_route,
       Settable, ViaPpp, NetInv, NetTypeOK, TunnelState, HostFound, PlainHost, Slots
<1>3. RoutesNoted'
  BY DEF ReadResolv, Configuring, Kept, Works, Charge, ipv4_set_route, ipv4_del_route,
       Settable, ViaPpp, NetInv, NetTypeOK, TunnelState, RoutesNoted, HostFound
<1>4. RoutesAccounted'
  BY DEF ReadResolv, Configuring, Kept, Works, Charge, ipv4_set_route, ipv4_del_route,
       Settable, ViaPpp, NetInv, NetTypeOK, TunnelState, RoutesNoted, RoutesAccounted,
       Lasting, HostFound
<1>5. ResolvAccounted'
  <2>0. /\ undo = "running" /\ step = "read" /\ UNCHANGED <<undo, orig, resolv, config, spoilt>>
        /\ \/ step' = "failed" /\ tun' = tun
           \/ /\ step' = "write"
              /\ tun' = [tun EXCEPT !.dnsStarted = TRUE, !.wasThere = [s \in Slots |-> Present(s)]]
    BY DEF ReadResolv, Configuring, Kept
  <2>1. ~tun.dnsStarted /\ resolv = orig.resolv
    BY <2>0 DEF NetInv, NetTypeOK, TunnelState, ResolvAccounted
  <2>2. CASE tun' = tun /\ step' = "failed"
    BY <2>0, <2>1, <2>2 DEF ResolvAccounted
  <2>3. CASE step' = "write" /\ tun' = [tun EXCEPT !.dnsStarted = TRUE, !.wasThere = [s \in Slots |-> Present(s)]]
    <3>1. tun'.dnsStarted /\ tun'.text = tun.text /\ \A s \in Slots : tun'.wasThere[s] = Present(s)
      BY <2>3 DEF NetInv, NetTypeOK, TunnelState
    <3>2. OurText' \cap orig.resolv = {}
      <4>1. CASE config.resolvconf
        BY <2>0, <4>1 DEF OurText, NetInv, HostFound
      <4>2. CASE ~config.resolvconf
        <5>1. ASSUME NEW s \in Slots, Present(s) = 0 PROVE tun.text[s] \notin resolv
          <6>1. Written(tun.text[s]) = tun.text[s]
            BY DEF NetInv, HostFound, Written, Slots, NoText
          <6> QED BY <4>2, <5>1, <6>1 DEF Present
        <5>2. OurText' = {tun.text[s] : s \in {x \in Slots : Present(x) = 0 /\ tun.text[x] # NoText}}
          BY <2>0, <3>1, <4>2 DEF OurText, Added
        <5> QED BY <2>1, <5>1, <5>2
      <4> QED BY <4>1, <4>2
    <3> QED BY <2>0, <2>1, <2>3, <3>1, <3>2 DEF ResolvAccounted
  <2> QED BY <2>0, <2>2, <2>3
<1>6. SpoiltTold'
  BY DEF ReadResolv, Configuring, Kept, Works, Charge, ipv4_set_route, ipv4_del_route,
       Settable, ViaPpp, NetInv, NetTypeOK, SpoiltTold
<1> QED BY <1>1, <1>2, <1>3, <1>4, <1>5, <1>6 DEF NetInv

\* Only the lines so noted are added.
LEMMA Net_ipv4_add_nameservers_to_resolv_conf ==
  ASSUME PlainHost, NetInv, ipv4_add_nameservers_to_resolv_conf
  PROVE  NetInv'
<1>0. faults' \in 0 .. MaxFault /\ (faults' = 0 => faults = 0)
  BY Charged DEF ipv4_add_nameservers_to_resolv_conf, NetInv
<1>1. NetTypeOK'
  <2>1. tun' \in TunnelState
    BY DEF ipv4_add_nameservers_to_resolv_conf, Kept, NetInv, NetTypeOK, TunnelState, Works,
       Slots
  <2>2. routes' \subseteq Routes /\ resolv' \subseteq Lines
    BY DEF ipv4_add_nameservers_to_resolv_conf, NetInv, NetTypeOK, TunnelState, HostFound,
       ipv4_set_route, ipv4_del_route, Settable, ViaPpp, Routes, Lines, Added, Written,
       Slots
  <2> QED BY <1>0, <2>1, <2>2 DEF ipv4_add_nameservers_to_resolv_conf, Configuring, Kept, Works, ipv4_set_route,
       ipv4_del_route, Settable, NetInv, NetTypeOK
<1>2. HostFound'
  BY NetworkAssumption DEF ipv4_add_nameservers_to_resolv_conf, Configuring, Kept, Works, Charge, ipv4_set_route,
       ipv4_del_route, Settable, ViaPpp, NetInv, NetTypeOK, TunnelState, HostFound,
       PlainHost, Slots
<1>3. RoutesNoted'
  BY DEF ipv4_add_nameservers_to_resolv_conf, Configuring, Kept, Works, Charge, ipv4_set_route,
       ipv4_del_route, Settable, ViaPpp, NetInv, NetTypeOK, TunnelState, RoutesNoted,
       HostFound
<1>4. RoutesAccounted'
  BY DEF ipv4_add_nameservers_to_resolv_conf, Configuring, Kept, Works, Charge, ipv4_set_route,
       ipv4_del_route, Settable, ViaPpp, NetInv, NetTypeOK, TunnelState, RoutesNoted,
       RoutesAccounted, Lasting, HostFound
<1>5. ResolvAccounted'
  <2>1. /\ undo = "running" /\ step = "write" /\ step' \in {"emit", "failed"}
        /\ UNCHANGED <<undo, orig, tun, config, spoilt>>
    BY DEF ipv4_add_nameservers_to_resolv_conf, Configuring, Kept
  <2>2. resolv' \in {resolv, resolv \cup OurText}
    <3>1. {Written(t) : t \in Added} = Added
      <4>1. \A t \in Added : Written(t) = t
        BY DEF Added, NetInv, HostFound, Written, Slots, NoText
      <4> QED BY <4>1
    <3>2. resolv' \in {resolv, resolv \cup IF config.resolvconf THEN {"resolvconf"} ELSE {Written(t) : t \in Added}}
      BY DEF ipv4_add_nameservers_to_resolv_conf
    <3> QED BY <3>1, <3>2 DEF OurText
  <2>3. OurText' = OurText /\ tun.dnsStarted
    BY <2>1 DEF OurText, Added, NetInv, ResolvAccounted
  <2> QED BY <2>1, <2>2, <2>3 DEF NetInv, ResolvAccounted
<1>6. SpoiltTold'
  BY DEF ipv4_add_nameservers_to_resolv_conf, Configuring, Kept, Works, Charge, ipv4_set_route,
       ipv4_del_route, Settable, ViaPpp, NetInv, NetTypeOK, SpoiltTold
<1> QED BY <1>1, <1>2, <1>3, <1>4, <1>5, <1>6 DEF NetInv

\* The event changes nothing of the host.
LEMMA Net_TunnelUp ==
  ASSUME PlainHost, NetInv, TunnelUp
  PROVE  NetInv'
<1>1. NetTypeOK'
  BY NetworkAssumption DEF TunnelUp, Configuring, Kept, ViaPpp, NetInv, NetTypeOK, TunnelState, Routes, Slots,
       Texts, Lines
<1>2. HostFound'
  BY NetworkAssumption DEF TunnelUp, Configuring, Kept, ViaPpp, NetInv, NetTypeOK, TunnelState, HostFound,
       PlainHost, Slots
<1>3. RoutesNoted'
  BY DEF TunnelUp, Configuring, Kept, ViaPpp, NetInv, NetTypeOK, TunnelState, RoutesNoted,
       HostFound
<1>4. RoutesAccounted'
  BY DEF TunnelUp, Configuring, Kept, ViaPpp, NetInv, NetTypeOK, TunnelState, RoutesNoted,
       RoutesAccounted, Lasting, HostFound
<1>5. ResolvAccounted'
  BY DEF TunnelUp, Configuring, Kept, ViaPpp, NetInv, NetTypeOK, TunnelState, ResolvAccounted,
       OurText, Added, HostFound, Slots
<1>6. SpoiltTold'
  BY DEF TunnelUp, Configuring, Kept, ViaPpp, NetInv, NetTypeOK, SpoiltTold
<1> QED BY <1>1, <1>2, <1>3, <1>4, <1>5, <1>6 DEF NetInv

\* if_config ends wherever it is.
LEMMA Net_StopWorkers ==
  ASSUME PlainHost, NetInv, StopWorkers
  PROVE  NetInv'
<1>1. NetTypeOK'
  BY NetworkAssumption DEF StopWorkers, ViaPpp, NetInv, NetTypeOK, TunnelState, Routes, Slots, Texts, Lines
<1>2. HostFound'
  BY NetworkAssumption DEF StopWorkers, ViaPpp, NetInv, NetTypeOK, TunnelState, HostFound, PlainHost, Slots
<1>3. RoutesNoted'
  BY DEF StopWorkers, ViaPpp, NetInv, NetTypeOK, TunnelState, RoutesNoted, HostFound
<1>4. RoutesAccounted'
  BY DEF StopWorkers, ViaPpp, NetInv, NetTypeOK, TunnelState, RoutesNoted, RoutesAccounted,
       Lasting, HostFound
<1>5. ResolvAccounted'
  BY DEF StopWorkers, ViaPpp, NetInv, NetTypeOK, TunnelState, ResolvAccounted, OurText, Added,
       HostFound, Slots
<1>6. SpoiltTold'
  BY DEF StopWorkers, ViaPpp, NetInv, NetTypeOK, SpoiltTold
<1> QED BY <1>1, <1>2, <1>3, <1>4, <1>5, <1>6 DEF NetInv

\* The route to the gateway is deleted.
LEMMA Net_DelGateway ==
  ASSUME PlainHost, NetInv, DelGateway
  PROVE  NetInv'
<1>0. faults' \in 0 .. MaxFault /\ (faults' = 0 => faults = 0)
  BY Charged DEF DelGateway, NetInv
<1>1. NetTypeOK'
  <2>1. tun' \in TunnelState
    BY DEF DelGateway, Undone, NetInv, NetTypeOK, TunnelState, Works, Slots
  <2>2. routes' \subseteq Routes /\ resolv' \subseteq Lines
    BY DEF DelGateway, NetInv, NetTypeOK, TunnelState, HostFound, ipv4_set_route, ipv4_del_route,
       Settable, ViaPpp, Routes, Lines, Slots
  <2> QED BY <1>0, <2>1, <2>2 DEF DelGateway, Cleaning, Undone, Note, Works, ipv4_set_route, ipv4_del_route, Settable,
       NetInv, NetTypeOK
<1>2. HostFound'
  BY NetworkAssumption DEF DelGateway, Works, Charge, ipv4_set_route, ipv4_del_route, Settable, Cleaning, Undone,
       Note, ViaPpp, NetInv, NetTypeOK, TunnelState, HostFound, PlainHost, Slots
<1>3. RoutesNoted'
  BY DEF DelGateway, Works, Charge, ipv4_set_route, ipv4_del_route, Settable, Cleaning, Undone,
       Note, ViaPpp, NetInv, NetTypeOK, TunnelState, RoutesNoted, HostFound
<1>4. RoutesAccounted'
  BY DEF DelGateway, Works, Charge, ipv4_set_route, ipv4_del_route, Settable, Cleaning, Undone,
       Note, ViaPpp, NetInv, NetTypeOK, TunnelState, RoutesNoted, RoutesAccounted, Lasting,
       HostFound
<1>5. ResolvAccounted'
  BY DEF DelGateway, Works, Charge, ipv4_set_route, ipv4_del_route, Settable, Cleaning, Undone,
       Note, ViaPpp, NetInv, NetTypeOK, TunnelState, ResolvAccounted, OurText, Added, HostFound, Slots
<1>6. SpoiltTold'
  BY DEF DelGateway, Works, Charge, ipv4_set_route, ipv4_del_route, Settable, Cleaning, Undone,
       Note, ViaPpp, NetInv, NetTypeOK, SpoiltTold
<1> QED BY <1>1, <1>2, <1>3, <1>4, <1>5, <1>6 DEF NetInv

\* A default route is deleted, perhaps the user's own.
LEMMA Net_DelPpp ==
  ASSUME PlainHost, NetInv, DelPpp
  PROVE  NetInv'
<1>0. faults' \in 0 .. MaxFault /\ (faults' = 0 => faults = 0)
  BY Charged DEF DelPpp, NetInv
<1>1. NetTypeOK'
  <2>1. tun' \in TunnelState
    BY DEF DelPpp, Undone, NetInv, NetTypeOK, TunnelState, Works, Slots
  <2>2. routes' \subseteq Routes /\ resolv' \subseteq Lines
    BY DEF DelPpp, NetInv, NetTypeOK, TunnelState, HostFound, ipv4_set_route, ipv4_del_route,
       Settable, ViaPpp, Routes, Lines, Slots
  <2> QED BY <1>0, <2>1, <2>2 DEF DelPpp, Cleaning, Undone, Note, Works, ipv4_set_route, ipv4_del_route, Settable,
       NetInv, NetTypeOK
<1>2. HostFound'
  BY NetworkAssumption DEF DelPpp, Works, Charge, ipv4_set_route, ipv4_del_route, Settable, Cleaning, Undone,
       Note, ViaPpp, NetInv, NetTypeOK, TunnelState, HostFound, PlainHost, Slots
<1>3. RoutesNoted'
  BY DEF DelPpp, Works, Charge, ipv4_set_route, ipv4_del_route, Settable, Cleaning, Undone,
       Note, ViaPpp, NetInv, NetTypeOK, TunnelState, RoutesNoted, HostFound
<1>4. RoutesAccounted'
  BY DEF DelPpp, Works, Charge, ipv4_set_route, ipv4_del_route, Settable, Cleaning, Undone,
       Note, ViaPpp, NetInv, NetTypeOK, TunnelState, RoutesNoted, RoutesAccounted, Lasting,
       HostFound
<1>5. ResolvAccounted'
  BY DEF DelPpp, Works, Charge, ipv4_set_route, ipv4_del_route, Settable, Cleaning, Undone,
       Note, ViaPpp, NetInv, NetTypeOK, TunnelState, ResolvAccounted, OurText, Added, HostFound, Slots
<1>6. SpoiltTold'
  BY DEF DelPpp, Works, Charge, ipv4_set_route, ipv4_del_route, Settable, Cleaning, Undone,
       Note, ViaPpp, NetInv, NetTypeOK, SpoiltTold
<1> QED BY <1>1, <1>2, <1>3, <1>4, <1>5, <1>6 DEF NetInv

\* The default route is there again.
LEMMA Net_SetDefault ==
  ASSUME PlainHost, NetInv, SetDefault
  PROVE  NetInv'
<1>0. faults' \in 0 .. MaxFault /\ (faults' = 0 => faults = 0)
  BY Charged DEF SetDefault, NetInv
<1>1. NetTypeOK'
  <2>1. tun' \in TunnelState
    BY DEF SetDefault, Undone, NetInv, NetTypeOK, TunnelState, Works, Slots
  <2>2. routes' \subseteq Routes /\ resolv' \subseteq Lines
    BY DEF SetDefault, NetInv, NetTypeOK, TunnelState, HostFound, ipv4_set_route, ipv4_del_route,
       Settable, ViaPpp, Routes, Lines, Slots
  <2> QED BY <1>0, <2>1, <2>2 DEF SetDefault, Cleaning, Undone, Note, Works, ipv4_set_route, ipv4_del_route, Settable,
       NetInv, NetTypeOK
<1>2. HostFound'
  BY NetworkAssumption DEF SetDefault, Works, Charge, ipv4_set_route, ipv4_del_route, Settable, Cleaning, Undone,
       Note, ViaPpp, NetInv, NetTypeOK, TunnelState, HostFound, PlainHost, Slots
<1>3. RoutesNoted'
  BY DEF SetDefault, Works, Charge, ipv4_set_route, ipv4_del_route, Settable, Cleaning, Undone,
       Note, ViaPpp, NetInv, NetTypeOK, TunnelState, RoutesNoted, HostFound
<1>4. RoutesAccounted'
  BY DEF SetDefault, Works, Charge, ipv4_set_route, ipv4_del_route, Settable, Cleaning, Undone,
       Note, ViaPpp, NetInv, NetTypeOK, TunnelState, RoutesNoted, RoutesAccounted, Lasting,
       HostFound
<1>5. ResolvAccounted'
  BY DEF SetDefault, Works, Charge, ipv4_set_route, ipv4_del_route, Settable, Cleaning, Undone,
       Note, ViaPpp, NetInv, NetTypeOK, TunnelState, ResolvAccounted, OurText, Added, HostFound, Slots
<1>6. SpoiltTold'
  BY DEF SetDefault, Works, Charge, ipv4_set_route, ipv4_del_route, Settable, Cleaning, Undone,
       Note, ViaPpp, NetInv, NetTypeOK, SpoiltTold
<1> QED BY <1>1, <1>2, <1>3, <1>4, <1>5, <1>6 DEF NetInv

\* The lines noted as the engine's go.
LEMMA Net_ipv4_del_nameservers_from_resolv_conf ==
  ASSUME PlainHost, NetInv, ipv4_del_nameservers_from_resolv_conf
  PROVE  NetInv'
<1>0. faults' \in 0 .. MaxFault /\ (faults' = 0 => faults = 0)
  BY Charged DEF ipv4_del_nameservers_from_resolv_conf, NetInv
<1>1. NetTypeOK'
  <2>1. tun' \in TunnelState
    BY DEF ipv4_del_nameservers_from_resolv_conf, Undone, NetInv, NetTypeOK, TunnelState, Works,
       Slots
  <2>2. routes' \subseteq Routes /\ resolv' \subseteq Lines
    BY DEF ipv4_del_nameservers_from_resolv_conf, NetInv, NetTypeOK, TunnelState, HostFound,
       ipv4_set_route, ipv4_del_route, Settable, ViaPpp, Routes, Lines, Added, Slots
  <2> QED BY <1>0, <2>1, <2>2 DEF ipv4_del_nameservers_from_resolv_conf, Cleaning, Undone, Note, Works, ipv4_set_route,
       ipv4_del_route, Settable, NetInv, NetTypeOK
<1>2. HostFound'
  BY NetworkAssumption DEF ipv4_del_nameservers_from_resolv_conf, Works, Charge, ipv4_set_route, ipv4_del_route,
       Settable, Cleaning, Undone, Note, ViaPpp, NetInv, NetTypeOK, TunnelState, HostFound,
       PlainHost, Slots
<1>3. RoutesNoted'
  BY DEF ipv4_del_nameservers_from_resolv_conf, Works, Charge, ipv4_set_route, ipv4_del_route,
       Settable, Cleaning, Undone, Note, ViaPpp, NetInv, NetTypeOK, TunnelState, RoutesNoted,
       HostFound
<1>4. RoutesAccounted'
  BY DEF ipv4_del_nameservers_from_resolv_conf, Works, Charge, ipv4_set_route, ipv4_del_route,
       Settable, Cleaning, Undone, Note, ViaPpp, NetInv, NetTypeOK, TunnelState, RoutesNoted,
       RoutesAccounted, Lasting, HostFound
<1>5. ResolvAccounted'
  BY DEF ipv4_del_nameservers_from_resolv_conf, Works, Charge, ipv4_set_route, ipv4_del_route,
       Settable, Cleaning, Undone, Note, ViaPpp, NetInv, NetTypeOK, TunnelState,
       ResolvAccounted, OurText, Added, HostFound, Slots
<1>6. SpoiltTold'
  BY DEF ipv4_del_nameservers_from_resolv_conf, Works, Charge, ipv4_set_route, ipv4_del_route,
       Settable, Cleaning, Undone, Note, ViaPpp, NetInv, NetTypeOK, SpoiltTold
<1> QED BY <1>1, <1>2, <1>3, <1>4, <1>5, <1>6 DEF NetInv

\* Nothing was added.
LEMMA Net_NoDns ==
  ASSUME PlainHost, NetInv, NoDns
  PROVE  NetInv'
<1>1. NetTypeOK'
  BY NetworkAssumption DEF NoDns, Cleaning, Undone, ViaPpp, NetInv, NetTypeOK, TunnelState, Routes, Slots, Texts,
       Lines
<1>2. HostFound'
  BY NetworkAssumption DEF NoDns, Cleaning, Undone, ViaPpp, NetInv, NetTypeOK, TunnelState, HostFound, PlainHost,
       Slots
<1>3. RoutesNoted'
  BY DEF NoDns, Cleaning, Undone, ViaPpp, NetInv, NetTypeOK, TunnelState, RoutesNoted,
       HostFound
<1>4. RoutesAccounted'
  BY DEF NoDns, Cleaning, Undone, ViaPpp, NetInv, NetTypeOK, TunnelState, RoutesNoted,
       RoutesAccounted, Lasting, HostFound
<1>5. ResolvAccounted'
  BY DEF NoDns, Cleaning, Undone, ViaPpp, NetInv, NetTypeOK, TunnelState, ResolvAccounted,
       OurText, Added, HostFound, Slots
<1>6. SpoiltTold'
  BY DEF NoDns, Cleaning, Undone, ViaPpp, NetInv, NetTypeOK, SpoiltTold
<1> QED BY <1>1, <1>2, <1>3, <1>4, <1>5, <1>6 DEF NetInv

\* What is left goes with pppd.
LEMMA Net_pppd_terminate_link ==
  ASSUME PlainHost, NetInv, pppd_terminate_link
  PROVE  NetInv'
<1>1. NetTypeOK'
  BY NetworkAssumption DEF pppd_terminate_link, Cleaning, ViaPpp, NetInv, NetTypeOK, TunnelState, Routes, Slots,
       Texts, Lines
<1>2. HostFound'
  BY NetworkAssumption DEF pppd_terminate_link, Cleaning, ViaPpp, NetInv, NetTypeOK, TunnelState, HostFound,
       PlainHost, Slots
<1>3. RoutesNoted'
  BY DEF pppd_terminate_link, Cleaning, ViaPpp, NetInv, NetTypeOK, TunnelState, RoutesNoted,
       HostFound
<1>4. RoutesAccounted'
  BY DEF pppd_terminate_link, Cleaning, ViaPpp, NetInv, NetTypeOK, TunnelState, RoutesNoted,
       RoutesAccounted, Lasting, HostFound
<1>5. ResolvAccounted'
  BY DEF pppd_terminate_link, Cleaning, ViaPpp, NetInv, NetTypeOK, TunnelState,
       ResolvAccounted, OurText, Added, HostFound, Slots
<1>6. SpoiltTold'
  BY DEF pppd_terminate_link, Cleaning, ViaPpp, NetInv, NetTypeOK, SpoiltTold
<1> QED BY <1>1, <1>2, <1>3, <1>4, <1>5, <1>6 DEF NetInv

\* The host as the engine finds it.
LEMMA NetStarts ==
  ASSUME PlainHost, NetInit
  PROVE  NetInv
<1>1. PICK known \in KnownGateway, lines \in SUBSET {"a", "b", "spaced"}, suffix \in SuffixForms, address \in {NoText, "a"} :
        /\ orig = [routes |-> {"default"} \cup (IF known THEN {"gateway"} ELSE {}), resolv |-> lines \cup {"user"}]
        /\ tun = [gtwAdded |-> FALSE, pppRt |-> "unset", routesStarted |-> FALSE, dnsStarted |-> FALSE,
                  text |-> [s \in Slots |-> IF s = "ns1" THEN address ELSE suffix],
                  wasThere |-> [s \in Slots |-> 0]]
  BY DEF NetInit
<1>2. ~known /\ suffix \in {NoText, "plain"}
  BY NetworkAssumption DEF PlainHost
<1>3. /\ routes = {"default"} /\ orig.routes = {"default"} /\ resolv = lines \cup {"user"} /\ orig.resolv = resolv
      /\ link = "down" /\ step = "await" /\ undo = "running" /\ failed = FALSE /\ spoilt = FALSE /\ acks = 0 /\ faults = 0
      /\ config \in [mode : Modes, setRoutes : BOOLEAN, setDns : BOOLEAN, resolvconf : BOOLEAN]
  BY <1>1, <1>2 DEF NetInit
<1>4. /\ tun \in TunnelState /\ ~tun.gtwAdded /\ tun.pppRt = "unset" /\ ~tun.routesStarted /\ ~tun.dnsStarted
      /\ tun.text["ns1"] = address /\ tun.text["suffix"] = suffix
  BY <1>1, <1>2 DEF TunnelState, Slots, Texts, NoText
<1>5. NetTypeOK
  <2>1. orig \in [routes : SUBSET Routes, resolv : SUBSET Lines]
    BY <1>1, <1>2 DEF Routes, Lines
  <2>2. MaxAcks \in Nat /\ MaxFault \in Nat
    BY NetworkAssumption
  <2>3. routes \subseteq Routes /\ resolv \subseteq Lines
    BY <1>1, <1>3 DEF Routes, Lines
  <2>4. acks \in 0 .. MaxAcks /\ faults \in 0 .. MaxFault
    BY <1>3, <2>2
  <2>5. {failed, spoilt} \subseteq BOOLEAN
    BY <1>3
  <2> QED BY <1>3, <1>4, <2>1, <2>3, <2>4, <2>5 DEF NetTypeOK
<1>6. HostFound /\ ResolvAccounted /\ SpoiltTold
  BY <1>1, <1>2, <1>3, <1>4 DEF HostFound, ResolvAccounted, SpoiltTold, NoText
<1>7. RoutesNoted /\ RoutesAccounted
  BY <1>3, <1>4 DEF RoutesNoted, RoutesAccounted, Lasting, ViaPpp
<1> QED BY <1>5, <1>6, <1>7 DEF NetInv

\* NetInv is inductive.
LEMMA NetKeeps ==
  ASSUME PlainHost, NetInv, [NetNext]_netVars
  PROVE  NetInv'
<1>1. CASE UNCHANGED netVars
  BY <1>1 DEF netVars, NetInv, NetTypeOK, HostFound, RoutesNoted, RoutesAccounted, Lasting, ResolvAccounted,
       OurText, Added, SpoiltTold
<1>2. CASE Applying
  BY <1>2, Net_if_config_network, Net_ipv4_drop_wrong_route, Net_LookUpRoutes, Net_ipv4_protect_tunnel_route,
     Net_ipv4_set_split_routes, Net_DropDefault, Net_ipv4_set_default_routes, Net_HalfInternet, Net_ReadResolv,
     Net_ipv4_add_nameservers_to_resolv_conf, Net_TunnelUp
  DEF Applying
<1>3. CASE Restoring
  BY <1>3, Net_StopWorkers, Net_DelGateway, Net_DelPpp, Net_SetDefault, Net_ipv4_del_nameservers_from_resolv_conf,
     Net_NoDns, Net_pppd_terminate_link
  DEF Restoring
<1> QED BY <1>1, <1>2, <1>3, Net_LinkUp, Net_LinkGone, Net_ssl_read_ipcp DEF NetNext

\* Wherever if_config is stopped, whatever fails and whenever pppd takes the interface away:
\* a cleanup whose own calls work leaves routes and resolv.conf as they were, cleanup_result
\* says so only if it is so, and the tunnel never carries itself (ipv4_restore_routes,
\* ipv4_del_nameservers_from_resolv_conf, on_ppp_if_down).
THEOREM HostRestored ==
  ASSUME PlainHost
  PROVE  NetSpec => []HostSound
<1>1. NetInit => NetInv
  BY NetStarts
<1>2. NetInv /\ [NetNext]_netVars => NetInv'
  BY NetKeeps
<1>3. NetInv => HostSound
  <2> SUFFICES ASSUME NetInv PROVE HostSound
    OBVIOUS
  <2>1. RoutesRestored
    BY DEF NetInv, HostFound, RoutesAccounted, RoutesRestored
  <2>2. ResolvRestored
    BY DEF NetInv, ResolvAccounted, ResolvRestored
  <2>3. ReportHonest
    BY <2>1, <2>2 DEF NetInv, NetTypeOK, SpoiltTold, ReportHonest, RoutesRestored, ResolvRestored
  <2>4. GatewayOutside
    BY DEF NetInv, NetTypeOK, TunnelState, RoutesNoted, GatewayOutside
  <2> QED BY <2>1, <2>2, <2>3, <2>4 DEF NetInv, HostSound
<1> QED BY <1>1, <1>2, <1>3, PTL DEF NetSpec

----------------------------------------------------------------------------
(* The threads *)

\* The workers, in the order they are created in.
LEMMA WorkersAre ==
  /\ Workers = {"pppd_read", "pppd_write", "ssl_read", "ssl_write", "if_config"}
  /\ Len(Entries) = 5 /\ \A i \in 1 .. 5 : Entries[i] \in Workers
  /\ \A i, j \in 1 .. 5 : Entries[i] = Entries[j] => i = j
  /\ \A w \in Workers : \E i \in 1 .. 5 : Entries[i] = w
BY DEF Workers, Entries

\* The pools, their ends and their bounds.
LEMMA PoolsAre ==
  /\ Pools = {"pty_to_ssl", "ssl_to_pty"}
  /\ ReaderOf["pty_to_ssl"] = "pppd_read" /\ ReaderOf["ssl_to_pty"] = "ssl_read"
  /\ WriterOf["pty_to_ssl"] = "ssl_write" /\ WriterOf["ssl_to_pty"] = "pppd_write"
  /\ \A p \in Pools : ReaderOf[p] \in Workers /\ WriterOf[p] \in Workers /\ MaxPackets[p] \in Nat
  /\ \A p, q \in Pools : WriterOf[p] = WriterOf[q] => p = q
  /\ \A p, q \in Pools : ReaderOf[p] # WriterOf[q] /\ ReaderOf[p] # "if_config" /\ WriterOf[p] # "if_config"
BY WorkersAre, IoAssumption DEF Pools, ReaderOf, WriterOf, MaxPackets

\* The parts of IoTypeOK.
LEMMA IoTyped ==
  ASSUME IoTypeOK
  PROVE  /\ thr \in [Workers -> Places]
         /\ sem \in [{"ready", "ifc", "stop"} -> Nat] /\ sem.ready \in Nat /\ sem.ifc \in Nat /\ sem.stop \in Nat
         /\ emitted \in [Pools -> Nat] /\ popped \in [Pools -> Nat]
         /\ pool \in [Pools -> Seq(Nat)] /\ got \in [Pools -> Seq(Nat)]
         /\ \A p \in Pools : emitted[p] <= MaxPackets[p]
         /\ tunnel \in TunnelFacts
         /\ started \in 0 .. 5 /\ cancel \subseteq Workers
BY WorkersAre DEF IoTypeOK

\* A worker that moves: what the others see of it.
Stands(w, place) ==
  /\ thr' \in [Workers -> Places] /\ thr'[w] = place
  /\ \A v \in Workers : v # w => thr'[v] = thr[v]

LEMMA Standing ==
  ASSUME IoTypeOK, NEW w \in Workers, NEW place \in Places, WorkerGoes(w, place)
  PROVE  Stands(w, place)
BY DEF IoTypeOK, WorkerGoes, Stands

\* A worker that is alive keeps the count of the workers.
LEMMA WorkersKept ==
  ASSUME IoInv, Own, NEW w \in Workers, thr[w] \notin Ended, NEW place, Stands(w, place)
  PROVE  WorkersCounted'
<1>1. main' = main /\ started' = started
  BY DEF Own
<1>2. main \notin {"setup", "start", "down", "terminate", "report", "logout", "sleep", "exit"}
  BY DEF IoInv, WorkersCounted, NoWorkerLeft
<1>3. main = "spawn" => \A i \in started + 1 .. Len(Entries) : Entries[i] # w
  BY DEF IoInv, WorkersCounted, Ended
<1>4. \A i \in started + 1 .. Len(Entries) : Entries[i] \in Workers
  BY WorkersAre, IoTyped DEF IoInv
<1> QED BY <1>1, <1>2, <1>3, <1>4 DEF IoInv, WorkersCounted, NoWorkerLeft, Stands

\* Pools are numbered as before where traffic rests and no writer takes a packet up or puts one down.
LEMMA PacketsKept ==
  ASSUME IoInv, UNCHANGED traffic, main' \in {"spawn", "wait"} => main \in {"spawn", "wait"},
         \A p \in Pools :
           LET v == WriterOf[p]
           IN  \/ thr'[v] \in {"post", "done", "cancelled"}
               \/ thr'[v] = thr[v]
               \/ /\ thr[v] \notin {"post", "done", "cancelled", "write"} /\ thr'[v] # "write"
  PROVE  PacketsNumbered'
BY DEF IoInv, PacketsNumbered, Delivered, InHand, traffic

\* sem_pppd_ready and pppd's side of the traffic rest, and pppd_write does not get on.
LEMMA TalkKept ==
  ASSUME IoInv, UNCHANGED <<emitted, got>>, sem'.ready = sem.ready, main' = "spawn" => main = "spawn",
         LET v == "pppd_write"
         IN  thr'[v] = thr[v] \/ thr'[v] \notin {"wait", "pop", "write"}
  PROVE  ReadyMeansTalk'
BY DEF IoInv, ReadyMeansTalk, PppdTalksFirst

\* event_mutex and the notes about the configuration rest.
LEMMA FailureKept ==
  ASSUME IoInv, UNCHANGED <<lock, tunnel, ret>>,
         main' \in {"logout", "sleep", "exit"} => main \in {"logout", "sleep", "exit"}
  PROVE  FailureNoted'
BY DEF IoInv, FailureNoted

\* A semaphore that is posted, or waited for.
LEMMA SemTyped ==
  ASSUME IoTypeOK, NEW s \in {"ready", "ifc", "stop"}, NEW n \in Nat, sem' = [sem EXCEPT ![s] = n]
  PROVE  sem' \in [{"ready", "ifc", "stop"} -> Nat] /\ sem'[s] = n
         /\ \A r \in {"ready", "ifc", "stop"} : r # s => sem'[r] = sem[r]
BY DEF IoTypeOK

\* A signal posts, waits or kills.
LEMMA Io_Signal ==
  ASSUME IoInv, Signal
  PROVE  IoInv'
<1>1. /\ UNCHANGED <<thr, started, cancel, pool, popped, emitted, got, lock, tunnel, pppd, handler, masked, ret, runs>>
      /\ main' \in {main, "killed"} /\ main \notin {"exit", "killed"} /\ signals < MaxSignals /\ signals' = signals + 1
      /\ sem' \in {sem, [sem EXCEPT !.stop = @ + 1]} /\ pending' \in {pending, TRUE} /\ sig' \in {sig, TRUE}
  BY DEF Signal, group, traffic
<1>2. sem' \in [{"ready", "ifc", "stop"} -> Nat] /\ sem'.ready = sem.ready
  BY <1>1, IoTyped, SemTyped DEF IoInv
<1>3. signals' \in 0 .. MaxSignals
  BY <1>1, IoAssumption DEF IoInv, IoTypeOK
<1>4. IoTypeOK'
  BY <1>1, <1>2, <1>3 DEF IoInv, IoTypeOK
<1>5. WorkersCounted'
  BY <1>1 DEF IoInv, WorkersCounted, NoWorkerLeft
<1>6. PacketsNumbered'
  BY <1>1, PacketsKept DEF traffic
<1>7. ReadyMeansTalk' /\ FailureNoted'
  BY <1>1, <1>2, TalkKept, FailureKept
<1> QED BY <1>4, <1>5, <1>6, <1>7 DEF IoInv

\* pppd ends.
LEMMA Io_PppdEnds ==
  ASSUME IoInv, PppdEnds
  PROVE  IoInv'
<1>1. /\ UNCHANGED <<main, thr, started, cancel, sem, pool, popped, emitted, got, lock, tunnel, handler, masked, pending,
                    sig, signals, ret, runs>>
      /\ pppd' \in {"ok", "error"}
  BY DEF PppdEnds, group, traffic, signal
<1>2. IoTypeOK'
  BY <1>1 DEF IoInv, IoTypeOK
<1>3. WorkersCounted'
  BY <1>1 DEF IoInv, WorkersCounted, NoWorkerLeft
<1>4. PacketsNumbered'
  BY <1>1, PacketsKept DEF traffic
<1>5. ReadyMeansTalk' /\ FailureNoted'
  BY <1>1, TalkKept, FailureKept
<1> QED BY <1>2, <1>3, <1>4, <1>5 DEF IoInv

\* What a worker leaves alone.
LEMMA OwnTyped ==
  ASSUME IoInv, Own, thr' \in [Workers -> Places], sem' \in [{"ready", "ifc", "stop"} -> Nat],
         emitted' \in [Pools -> Nat], popped' \in [Pools -> Nat], pool' \in [Pools -> Seq(Nat)],
         got' \in [Pools -> Seq(Nat)], \A p \in Pools : emitted'[p] <= MaxPackets[p],
         lock' \in Workers \cup {Main, Unowned}, tunnel' \in TunnelFacts
  PROVE  IoTypeOK'
BY DEF IoInv, IoTypeOK, Own, signal

\* The worker neither takes a packet up nor puts one down, and pppd_write begins only when it may.
Goes(w, place) ==
  /\ w \in Workers /\ place \in Places /\ thr[w] \notin Ended /\ Stands(w, place)
  /\ sem' \in [{"ready", "ifc", "stop"} -> Nat]
  /\ sem'.ready = sem.ready \/ (w = "pppd_write" /\ place = "pop")
  /\ \A p \in Pools : w = WriterOf[p] =>
       place \in {"post", "done", "cancelled"} \/ (thr[w] \notin {"post", "done", "cancelled", "write"} /\ place # "write")
  /\ w = "pppd_write" => place \notin {"wait", "write"} /\ (place = "pop" => thr[w] = "wait" /\ sem.ready # 0)

\* A worker that moves without touching traffic, tunnel and mutex.
LEMMA WorkerMoves ==
  ASSUME IoInv, Own, NEW w, NEW place, Goes(w, place), UNCHANGED <<traffic, lock, tunnel>>
  PROVE  IoInv'
<1>1. IoTypeOK'
  <2>1. /\ emitted \in [Pools -> Nat] /\ popped \in [Pools -> Nat] /\ pool \in [Pools -> Seq(Nat)]
        /\ got \in [Pools -> Seq(Nat)] /\ (\A p \in Pools : emitted[p] <= MaxPackets[p]) /\ tunnel \in TunnelFacts
        /\ lock \in Workers \cup {Main, Unowned}
    BY IoTyped DEF IoInv, IoTypeOK
  <2>2. UNCHANGED <<emitted, popped, pool, got, lock, tunnel>> /\ thr' \in [Workers -> Places]
    BY DEF traffic, Stands, Goes
  <2> QED BY <2>1, <2>2, OwnTyped DEF Goes
<1>2. WorkersCounted'
  BY WorkersKept DEF Goes
<1>3. PacketsNumbered'
  <2>1. \A p \in Pools : WriterOf[p] \in Workers
    BY PoolsAre
  <2> QED BY <2>1, PacketsKept DEF Goes, Stands, Own
<1>4. ReadyMeansTalk'
  <2>1. "pppd_write" \in Workers
    BY WorkersAre
  <2>2. CASE w # "pppd_write"
    BY <2>1, <2>2, TalkKept DEF Goes, Stands, Own, traffic
  <2>3. CASE w = "pppd_write" /\ place = "pop"
    <3>1. thr["pppd_write"] = "wait" /\ sem.ready # 0 /\ thr'["pppd_write"] = "pop" /\ UNCHANGED <<emitted, got, main>>
      BY <2>3 DEF Goes, Stands, Own, traffic
    <3>2. emitted["pty_to_ssl"] > 0
      BY <3>1 DEF IoInv, ReadyMeansTalk
    <3> QED BY <3>1, <3>2 DEF IoInv, ReadyMeansTalk, PppdTalksFirst
  <2>4. CASE w = "pppd_write" /\ place # "pop"
    BY <2>4, TalkKept DEF Goes, Stands, Own, traffic
  <2> QED BY <2>2, <2>3, <2>4
<1>5. FailureNoted'
  BY FailureKept DEF Own
<1> QED BY <1>1, <1>2, <1>3, <1>4, <1>5 DEF IoInv

\* A read that fails.
LEMMA Io_ReadFails ==
  ASSUME IoInv, NEW p \in Pools, ReadFails(p)
  PROVE  IoInv'
<1>1. /\ ReaderOf[p] \in Workers /\ ReaderOf[p] # "pppd_write" /\ \A q \in Pools : ReaderOf[p] # WriterOf[q]
  BY PoolsAre
<1>2. /\ thr[ReaderOf[p]] = "read" /\ "post" \in Places /\ thr[ReaderOf[p]] \notin Ended
  BY DEF ReadFails, Passes, Places, Ended
<1>3. Stands(ReaderOf[p], "post") /\ Own /\ UNCHANGED <<sem, traffic, lock, tunnel>>
  BY <1>1, <1>2, Standing DEF ReadFails, IoInv
<1>4. Goes(ReaderOf[p], "post")
  BY <1>1, <1>2, <1>3, IoTyped DEF IoInv, Goes
<1> QED BY <1>3, <1>4, WorkerMoves

\* pppd_write begins.
LEMMA Io_pppd_write ==
  ASSUME IoInv, pppd_write
  PROVE  IoInv'
<1>1. /\ "pppd_write" \in Workers /\ "pop" \in Places /\ thr["pppd_write"] = "wait" /\ thr["pppd_write"] \notin Ended
      /\ sem.ready > 0
  BY WorkersAre DEF pppd_write, Passes, Places, Ended
<1>2. Stands("pppd_write", "pop") /\ Own /\ UNCHANGED <<traffic, lock, tunnel>>
  BY <1>1, Standing DEF pppd_write, IoInv
<1>3. sem' \in [{"ready", "ifc", "stop"} -> Nat] /\ sem.ready # 0
  <2>1. sem.ready - 1 \in Nat /\ sem' = [sem EXCEPT !.ready = sem.ready - 1]
    BY <1>1, IoTyped DEF pppd_write, IoInv
  <2>2. sem.ready # 0 /\ sem \in [{"ready", "ifc", "stop"} -> Nat]
    BY <1>1, IoTyped DEF IoInv
  <2> QED BY <2>1, <2>2
<1>4. Goes("pppd_write", "pop")
  BY <1>1, <1>2, <1>3, PoolsAre DEF Goes
<1> QED BY <1>2, <1>4, WorkerMoves

\* A worker that gives up posts the stop.
LEMMA Io_PostStop ==
  ASSUME IoInv, NEW w \in Workers, PostStop(w)
  PROVE  IoInv'
<1>1. thr[w] = "post" /\ "done" \in Places /\ thr[w] \notin Ended
  BY DEF PostStop, WorkerAt, Places, Ended
<1>2. Stands(w, "done") /\ Own /\ UNCHANGED <<traffic, lock, tunnel>>
  BY <1>1, Standing DEF PostStop, IoInv
<1>3. sem' \in [{"ready", "ifc", "stop"} -> Nat] /\ sem'.ready = sem.ready
  <2>1. sem.stop + 1 \in Nat /\ sem' = [sem EXCEPT !.stop = sem.stop + 1]
    BY IoTyped DEF PostStop, IoInv
  <2> QED BY <2>1, IoTyped DEF IoInv
<1>4. Goes(w, "done")
  BY <1>1, <1>2, <1>3 DEF Goes
<1> QED BY <1>2, <1>4, WorkerMoves

\* if_config begins.
LEMMA Io_if_config ==
  ASSUME IoInv, if_config
  PROVE  IoInv'
<1>1. /\ "if_config" \in Workers /\ "poll" \in Places /\ thr["if_config"] = "wait" /\ thr["if_config"] \notin Ended
      /\ sem.ifc > 0 /\ \A p \in Pools : WriterOf[p] # "if_config"
  BY WorkersAre, PoolsAre DEF if_config, Passes, Places, Ended
<1>2. Stands("if_config", "poll") /\ Own /\ UNCHANGED <<traffic, lock, tunnel>>
  BY <1>1, Standing DEF if_config, IoInv
<1>3. sem' \in [{"ready", "ifc", "stop"} -> Nat] /\ sem'.ready = sem.ready
  <2>1. sem.ifc - 1 \in Nat /\ sem' = [sem EXCEPT !.ifc = sem.ifc - 1]
    BY <1>1, IoTyped DEF if_config, IoInv
  <2> QED BY <1>1, <2>1, IoTyped DEF IoInv
<1>4. Goes("if_config", "poll")
  BY <1>1, <1>2, <1>3 DEF Goes
<1> QED BY <1>2, <1>4, WorkerMoves

\* A worker that is cancelled keeps what it has locked.
LEMMA Io_Cancelled ==
  ASSUME IoInv, NEW w \in Workers, Cancelled(w)
  PROVE  IoInv'
<1>1. thr[w] \notin Ended /\ "cancelled" \in Places
  BY DEF Cancelled, Places, Ended
<1>2. Stands(w, "cancelled") /\ Own /\ UNCHANGED <<sem, traffic, lock, tunnel>>
  BY <1>1, Standing DEF Cancelled, IoInv
<1>3. Goes(w, "cancelled")
  BY <1>1, <1>2, IoTyped DEF IoInv, Goes
<1> QED BY <1>2, <1>3, WorkerMoves

\* Counting one packet more.
LEMMA OneMore ==
  ASSUME NEW g \in Nat, NEW h \in Nat, NEW n \in Nat, NEW e, e = g + h + n
  PROVE  e + 1 = g + h + (n + 1)
OBVIOUS

\* A reader receives a packet and puts it at the end of its pool.
Arrives(p) ==
  /\ Own /\ thr' = thr /\ thr[ReaderOf[p]] = "read" /\ emitted[p] < MaxPackets[p]
  /\ emitted' = [emitted EXCEPT ![p] = @ + 1] /\ pool_push(p, emitted[p] + 1)
  /\ UNCHANGED <<popped, got, lock, tunnel>> /\ sem' \in [{"ready", "ifc", "stop"} -> Nat]
  /\ sem'.ready # sem.ready => p = "pty_to_ssl"

\* Its number is the next one.
LEMMA PacketArrives ==
  ASSUME IoInv, NEW p \in Pools, Arrives(p)
  PROVE  IoInv'
<1>0. Own /\ thr' = thr /\ UNCHANGED <<popped, got, lock, tunnel>>
  BY DEF Arrives
<1>1. /\ emitted[p] \in Nat /\ emitted' \in [Pools -> Nat] /\ emitted'[p] = emitted[p] + 1
      /\ \A q \in Pools : q # p => emitted'[q] = emitted[q]
  BY IoTyped DEF IoInv, Arrives
<1>2. /\ pool' \in [Pools -> Seq(Nat)] /\ pool'[p] = Append(pool[p], emitted[p] + 1)
      /\ \A q \in Pools : q # p => pool'[q] = pool[q]
  <2>1. pool \in [Pools -> Seq(Nat)] /\ Append(pool[p], emitted[p] + 1) \in Seq(Nat)
    BY <1>1, IoTyped, AppendProperties DEF IoInv
  <2> QED BY <2>1 DEF pool_push, Arrives
<1>3. IoTypeOK'
  <2>1. \A q \in Pools : emitted'[q] <= MaxPackets[q]
    <3>1. MaxPackets[p] \in Nat /\ \A q \in Pools : emitted[q] <= MaxPackets[q]
      BY IoTyped, PoolsAre DEF IoInv
    <3>2. emitted[p] + 1 <= MaxPackets[p]
      BY <1>1, <3>1 DEF Arrives
    <3> QED BY <1>1, <3>1, <3>2
  <2>2. thr \in [Workers -> Places] /\ popped \in [Pools -> Nat] /\ got \in [Pools -> Seq(Nat)] /\ tunnel \in TunnelFacts
        /\ lock \in Workers \cup {Main, Unowned}
    BY IoTyped DEF IoInv, IoTypeOK
  <2>3. sem' \in [{"ready", "ifc", "stop"} -> Nat]
    BY DEF Arrives
  <2> QED BY <1>0, <1>1, <1>2, <2>1, <2>2, <2>3, OwnTyped
<1>4. WorkersCounted'
  <2>1. ReaderOf[p] \in Workers /\ thr[ReaderOf[p]] \notin Ended /\ thr \in [Workers -> Places]
    BY PoolsAre, IoTyped DEF Ended, IoInv, Arrives
  <2>2. Stands(ReaderOf[p], "read")
    BY <1>0, <2>1 DEF Stands, Arrives
  <2> QED BY <1>0, <2>1, <2>2, WorkersKept
<1>5. PacketsNumbered'
  <2> SUFFICES ASSUME NEW q \in Pools, main \in {"spawn", "wait"},
                      thr[WriterOf[q]] \notin {"post", "done", "cancelled"}
               PROVE  /\ popped[q] = IF thr[WriterOf[q]] = "write" THEN Len(got[q]) + 1 ELSE 0
                      /\ emitted'[q] = Len(got[q]) + InHand(q) + Len(pool'[q])
                      /\ \A i \in 1..Len(got[q]) : Delivered(q, i)
                      /\ \A i \in 1..Len(pool'[q]) : pool'[q][i] = Len(got[q]) + InHand(q) + i
    BY <1>0 DEF PacketsNumbered, Delivered, InHand, Own
  <2>1. /\ popped[q] = IF thr[WriterOf[q]] = "write" THEN Len(got[q]) + 1 ELSE 0
        /\ emitted[q] = Len(got[q]) + InHand(q) + Len(pool[q])
        /\ \A i \in 1..Len(got[q]) : Delivered(q, i)
        /\ \A i \in 1..Len(pool[q]) : pool[q][i] = Len(got[q]) + InHand(q) + i
    BY DEF IoInv, PacketsNumbered
  <2>2. CASE q # p
    BY <1>1, <1>2, <2>1, <2>2
  <2>3. CASE q = p
    <3>1. pool[p] \in Seq(Nat) /\ Len(pool[p]) \in Nat /\ Len(got[p]) \in Nat /\ InHand(p) \in Nat
      BY IoTyped, LenProperties DEF IoInv, InHand
    <3>2. /\ Len(pool'[p]) = Len(pool[p]) + 1
          /\ \A i \in 1 .. Len(pool[p]) : pool'[p][i] = pool[p][i]
          /\ pool'[p][Len(pool[p]) + 1] = emitted[p] + 1
      <4>1. emitted[p] + 1 \in Nat /\ pool'[p] = Append(pool[p], emitted[p] + 1)
        BY <1>1, <1>2
      <4> QED BY <3>1, <4>1, AppendProperties
    <3>5. Len(pool[p]) \in Nat /\ Len(got[p]) \in Nat /\ InHand(p) \in Nat
      BY <3>1
    <3>0. emitted[p] = Len(got[p]) + InHand(p) + Len(pool[p])
      BY <2>1, <2>3
    <3>3. emitted'[p] = Len(got[p]) + InHand(p) + Len(pool'[p])
      <4>1. emitted'[p] = emitted[p] + 1 /\ Len(pool'[p]) = Len(pool[p]) + 1
        BY <1>1, <3>2
      <4>2. emitted[p] + 1 = Len(got[p]) + InHand(p) + (Len(pool[p]) + 1)
        BY <3>0, <3>5, OneMore
      <4> QED BY <4>1, <4>2
    <3>4. ASSUME NEW i \in 1 .. Len(pool'[p]) PROVE pool'[p][i] = Len(got[p]) + InHand(p) + i
      <4>1. CASE i = Len(pool[p]) + 1
        <5>1. pool'[p][i] = emitted[p] + 1
          BY <3>2, <4>1
        <5>2. emitted[p] + 1 = Len(got[p]) + InHand(p) + (Len(pool[p]) + 1)
          BY <3>0, <3>5, OneMore
        <5> QED BY <4>1, <5>1, <5>2
      <4>2. CASE i \in 1 .. Len(pool[p])
        BY <2>1, <2>3, <3>1, <3>2, <4>2
      <4> QED BY <3>1, <3>2, <4>1, <4>2
    <3> QED BY <2>1, <2>3, <3>3, <3>4
  <2> QED BY <2>2, <2>3
<1>6. ReadyMeansTalk'
  <2>1. "pty_to_ssl" \in Pools /\ main' = main
    BY <1>0, PoolsAre DEF Own
  <2>2. CASE p = "pty_to_ssl"
    <3>1. emitted'["pty_to_ssl"] > 0
      BY <1>1, <2>2
    <3> QED BY <3>1 DEF ReadyMeansTalk, PppdTalksFirst
  <2>3. CASE p # "pty_to_ssl"
    <3>1. emitted'["pty_to_ssl"] = emitted["pty_to_ssl"] /\ sem'.ready = sem.ready
      BY <1>1, <2>1, <2>3 DEF Arrives
    <3> QED BY <1>0, <2>1, <3>1 DEF IoInv, ReadyMeansTalk, PppdTalksFirst
  <2> QED BY <2>2, <2>3
<1>7. FailureNoted'
  BY <1>0, FailureKept DEF Own
<1> QED BY <1>3, <1>4, <1>5, <1>6, <1>7 DEF IoInv

\* A packet of pppd, and the first one posts sem_pppd_ready.
LEMMA Io_pppd_read ==
  ASSUME IoInv, pppd_read
  PROVE  IoInv'
<1>1. "pty_to_ssl" \in Pools /\ ReaderOf["pty_to_ssl"] = "pppd_read"
  BY PoolsAre
<1>2. sem' \in [{"ready", "ifc", "stop"} -> Nat]
  <2>1. PICK n \in Nat : sem' = [sem EXCEPT !.ready = n]
    <3>1. sem' = [sem EXCEPT !.ready = IF emitted["pty_to_ssl"] = 0 THEN sem.ready + 1 ELSE sem.ready]
      BY DEF pppd_read
    <3>2. sem.ready \in Nat /\ sem.ready + 1 \in Nat
      BY IoTyped DEF IoInv
    <3> QED BY <3>1, <3>2
  <2> QED BY <2>1, IoTyped DEF IoInv
<1>3. thr["pppd_read"] = "read" /\ Own /\ UNCHANGED <<thr, popped, got, lock, tunnel>>
  BY DEF pppd_read, Passes
<1>4. /\ emitted["pty_to_ssl"] < MaxPackets["pty_to_ssl"] /\ emitted' = [emitted EXCEPT !["pty_to_ssl"] = @ + 1]
      /\ pool_push("pty_to_ssl", emitted["pty_to_ssl"] + 1)
  BY DEF pppd_read
<1>5. Arrives("pty_to_ssl")
  BY <1>1, <1>2, <1>3, <1>4 DEF Arrives
<1> QED BY <1>1, <1>5, PacketArrives

\* A packet of the gateway, which may let if_config begin.
LEMMA Io_ssl_read ==
  ASSUME IoInv, ssl_read
  PROVE  IoInv'
<1>1. "ssl_to_pty" \in Pools /\ ReaderOf["ssl_to_pty"] = "ssl_read"
  BY PoolsAre
<1>2. sem' \in [{"ready", "ifc", "stop"} -> Nat] /\ sem'.ready = sem.ready
  <2>1. PICK n \in Nat : sem' = [sem EXCEPT !.ifc = n]
    <3>1. PICK last \in BOOLEAN : sem' = [sem EXCEPT !.ifc = IF last /\ ~tunnel.up THEN sem.ifc + 1 ELSE sem.ifc]
      BY DEF ssl_read
    <3>2. sem.ifc \in Nat /\ sem.ifc + 1 \in Nat
      BY IoTyped DEF IoInv
    <3> QED BY <3>1, <3>2
  <2> QED BY <2>1, IoTyped DEF IoInv
<1>3. thr["ssl_read"] = "read" /\ Own /\ UNCHANGED <<thr, popped, got, lock, tunnel>>
  BY DEF ssl_read, Passes
<1>4. /\ emitted["ssl_to_pty"] < MaxPackets["ssl_to_pty"] /\ emitted' = [emitted EXCEPT !["ssl_to_pty"] = @ + 1]
      /\ pool_push("ssl_to_pty", emitted["ssl_to_pty"] + 1)
  BY DEF ssl_read
<1>5. Arrives("ssl_to_pty")
  BY <1>1, <1>2, <1>3, <1>4 DEF Arrives
<1> QED BY <1>1, <1>5, PacketArrives

\* One packet less in the pool, one more with the writer.
LEMMA OneLess ==
  ASSUME NEW g \in Nat, NEW n \in Nat
  PROVE  g + n = g + 1 + (n - 1)
OBVIOUS

LEMMA OneFurther ==
  ASSUME NEW g \in Nat, NEW i \in Nat
  PROVE  g + (i + 1) = g + 1 + i
OBVIOUS

\* What PacketsNumbered says of one pool.
Numbered(p) ==
  /\ popped[p] = IF thr[WriterOf[p]] = "write" THEN Len(got[p]) + 1 ELSE 0
  /\ emitted[p] = Len(got[p]) + InHand(p) + Len(pool[p])
  /\ \A i \in 1..Len(got[p]) : Delivered(p, i)
  /\ \A i \in 1..Len(pool[p]) : pool[p][i] = Len(got[p]) + InHand(p) + i

\* A writer takes up or puts down a packet of its own pool.
WriterMoves(p, place) ==
  /\ Own /\ Stands(WriterOf[p], place) /\ place \in {"write", "pop", "post"}
  /\ thr[WriterOf[p]] \in {"pop", "write"} /\ UNCHANGED <<sem, emitted, lock, tunnel>>
  /\ popped' \in [Pools -> Nat] /\ pool' \in [Pools -> Seq(Nat)] /\ got' \in [Pools -> Seq(Nat)]
  /\ \A q \in Pools : q # p => popped'[q] = popped[q] /\ pool'[q] = pool[q] /\ got'[q] = got[q]
  /\ got'[p] # got[p] => thr[WriterOf[p]] = "write"

\* The pool it serves is numbered, and everything else is as before.
LEMMA WriterKeeps ==
  ASSUME IoInv, NEW p \in Pools, NEW place, WriterMoves(p, place),
         main \in {"spawn", "wait"} /\ Numbered(p) /\ place # "post" => Numbered(p)'
  PROVE  IoInv'
<1>0. /\ WriterOf[p] \in Workers /\ (\A q \in Pools : WriterOf[q] \in Workers /\ (WriterOf[q] = WriterOf[p] => q = p))
      /\ Own /\ Stands(WriterOf[p], place) /\ UNCHANGED <<sem, emitted, lock, tunnel>> /\ main' = main
      /\ thr[WriterOf[p]] \notin Ended
  BY PoolsAre DEF WriterMoves, Own, Ended
<1>1. IoTypeOK'
  <2>1. /\ sem \in [{"ready", "ifc", "stop"} -> Nat] /\ emitted \in [Pools -> Nat]
        /\ (\A q \in Pools : emitted[q] <= MaxPackets[q]) /\ tunnel \in TunnelFacts
        /\ lock \in Workers \cup {Main, Unowned}
    BY IoTyped DEF IoInv, IoTypeOK
  <2>2. /\ popped' \in [Pools -> Nat] /\ pool' \in [Pools -> Seq(Nat)] /\ got' \in [Pools -> Seq(Nat)]
        /\ thr' \in [Workers -> Places]
    BY <1>0 DEF WriterMoves, Stands
  <2> QED BY <1>0, <2>1, <2>2, OwnTyped
<1>2. WorkersCounted'
  BY <1>0, WorkersKept
<1>3. PacketsNumbered'
  <2> SUFFICES ASSUME NEW q \in Pools, main \in {"spawn", "wait"},
                      thr'[WriterOf[q]] \notin {"post", "done", "cancelled"}
               PROVE  Numbered(q)'
    BY <1>0 DEF PacketsNumbered, Numbered
  <2>1. CASE q = p
    <3>1. place # "post" /\ thr[WriterOf[p]] \notin {"post", "done", "cancelled"}
      BY <1>0, <2>1 DEF Stands, WriterMoves
    <3>2. Numbered(p)
      BY <3>1 DEF IoInv, PacketsNumbered, Numbered
    <3> QED BY <2>1, <3>1, <3>2
  <2>2. CASE q # p
    <3>1. /\ thr'[WriterOf[q]] = thr[WriterOf[q]] /\ emitted'[q] = emitted[q] /\ popped'[q] = popped[q]
          /\ pool'[q] = pool[q] /\ got'[q] = got[q]
      BY <1>0, <2>2 DEF Stands, WriterMoves
    <3>2. Numbered(q)
      BY <3>1 DEF IoInv, PacketsNumbered, Numbered
    <3> QED BY <3>1, <3>2 DEF Numbered, Delivered, InHand
  <2> QED BY <2>1, <2>2
<1>4. ReadyMeansTalk'
  <2>1. "ssl_to_pty" \in Pools /\ WriterOf["ssl_to_pty"] = "pppd_write" /\ "pppd_write" \in Workers
    BY PoolsAre, WorkersAre
  <2>2. CASE p # "ssl_to_pty"
    <3>1. thr'["pppd_write"] = thr["pppd_write"] /\ got'["ssl_to_pty"] = got["ssl_to_pty"]
      BY <1>0, <2>1, <2>2 DEF Stands, WriterMoves
    <3> QED BY <1>0, <3>1 DEF IoInv, ReadyMeansTalk, PppdTalksFirst
  <2>3. CASE p = "ssl_to_pty"
    <3>1. thr["pppd_write"] \in {"pop", "write"} /\ thr'["pppd_write"] # "wait"
      BY <1>0, <2>1, <2>3 DEF WriterMoves, Stands
    <3>2. emitted["pty_to_ssl"] > 0
      BY <3>1 DEF IoInv, ReadyMeansTalk
    <3> QED BY <1>0, <3>2 DEF ReadyMeansTalk, PppdTalksFirst
  <2> QED BY <2>2, <2>3
<1>5. FailureNoted'
  BY <1>0, FailureKept DEF Own
<1> QED BY <1>1, <1>2, <1>3, <1>4, <1>5 DEF IoInv

\* The first packet of the pool is taken up.
LEMMA Io_pool_pop ==
  ASSUME IoInv, NEW p \in Pools, pool_pop(p)
  PROVE  IoInv'
<1>1. WriterOf[p] \in Workers /\ thr[WriterOf[p]] = "pop" /\ pool[p] # <<>> /\ "write" \in Places
  BY PoolsAre DEF pool_pop, WorkerAt, Places
<1>2. pool[p] \in Seq(Nat) /\ pool \in [Pools -> Seq(Nat)] /\ popped \in [Pools -> Nat] /\ got \in [Pools -> Seq(Nat)]
  BY IoTyped DEF IoInv
<1>3. /\ Head(pool[p]) = pool[p][1] /\ Head(pool[p]) \in Nat /\ Tail(pool[p]) \in Seq(Nat)
      /\ Len(pool[p]) \in Nat /\ Len(pool[p]) # 0 /\ Len(Tail(pool[p])) = Len(pool[p]) - 1
      /\ \A i \in 1 .. Len(pool[p]) - 1 : Tail(pool[p])[i] = pool[p][i + 1]
  BY <1>1, <1>2, HeadTailProperties, EmptySeq
<1>4. /\ popped' = [popped EXCEPT ![p] = Head(pool[p])] /\ pool' = [pool EXCEPT ![p] = Tail(pool[p])]
      /\ Own /\ UNCHANGED <<sem, emitted, got, lock, tunnel>>
  BY DEF pool_pop
<1>5. Stands(WriterOf[p], "write")
  BY <1>1, Standing DEF pool_pop, IoInv
<1>6. /\ popped' \in [Pools -> Nat] /\ pool' \in [Pools -> Seq(Nat)] /\ popped'[p] = Head(pool[p]) /\ pool'[p] = Tail(pool[p])
      /\ \A q \in Pools : q # p => popped'[q] = popped[q] /\ pool'[q] = pool[q]
  BY <1>2, <1>3, <1>4
<1>7. WriterMoves(p, "write")
  BY <1>1, <1>2, <1>4, <1>5, <1>6 DEF WriterMoves
<1>8. ASSUME Numbered(p) PROVE Numbered(p)'
  <2>1. /\ thr'[WriterOf[p]] = "write" /\ InHand(p) = 0 /\ InHand(p)' = 1 /\ Len(got[p]) \in Nat
        /\ emitted' = emitted /\ got' = got
    BY <1>1, <1>2, <1>4, <1>5, LenProperties DEF Stands, InHand
  <2>2. /\ emitted[p] = Len(got[p]) + Len(pool[p]) /\ (\A i \in 1..Len(got[p]) : Delivered(p, i))
        /\ \A i \in 1..Len(pool[p]) : pool[p][i] = Len(got[p]) + i
    BY <1>3, <1>8, <2>1 DEF Numbered
  <2>3. popped'[p] = Len(got[p]) + 1
    <3>1. 1 \in 1 .. Len(pool[p])
      BY <1>3
    <3>2. pool[p][1] = Len(got[p]) + 1
      BY <2>2, <3>1
    <3> QED BY <1>3, <1>6, <3>2
  <2>4. emitted[p] = Len(got[p]) + 1 + Len(Tail(pool[p]))
    <3>1. /\ Len(got[p]) \in Nat /\ Len(pool[p]) \in Nat /\ Len(Tail(pool[p])) = Len(pool[p]) - 1
          /\ emitted[p] = Len(got[p]) + Len(pool[p])
      BY <1>3, <2>1, <2>2
    <3>2. Len(got[p]) + Len(pool[p]) = Len(got[p]) + 1 + (Len(pool[p]) - 1)
      BY <3>1, OneLess
    <3> QED BY <3>1, <3>2
  <2>5. ASSUME NEW i \in 1 .. Len(Tail(pool[p])) PROVE Tail(pool[p])[i] = Len(got[p]) + 1 + i
    <3>1. i \in Nat /\ i + 1 \in 1 .. Len(pool[p]) /\ Tail(pool[p])[i] = pool[p][i + 1]
      BY <1>3
    <3>2. pool[p][i + 1] = Len(got[p]) + (i + 1)
      BY <2>2, <3>1
    <3>3. i \in Nat /\ Len(got[p]) \in Nat
      BY <2>1, <3>1
    <3>4. Len(got[p]) + (i + 1) = Len(got[p]) + 1 + i
      BY <3>3, OneFurther
    <3> QED BY <3>1, <3>2, <3>4
  <2> QED BY <1>6, <2>1, <2>2, <2>3, <2>4, <2>5 DEF Numbered, Delivered
<1> QED BY <1>7, <1>8, WriterKeeps

\* The packet is written, dropped, or lost with the worker.
LEMMA Io_Write ==
  ASSUME IoInv, NEW p \in Pools, Write(p)
  PROVE  IoInv'
<1>1. WriterOf[p] \in Workers /\ thr[WriterOf[p]] = "write" /\ {"pop", "post"} \subseteq Places
  BY PoolsAre DEF Write, Passes, Places
<1>2. /\ pool \in [Pools -> Seq(Nat)] /\ popped \in [Pools -> Nat] /\ got \in [Pools -> Seq(Nat)]
      /\ popped[p] \in Nat /\ got[p] \in Seq(Nat) /\ Dropped \in Nat
      /\ Append(got[p], popped[p]) \in Seq(Nat) /\ Append(got[p], Dropped) \in Seq(Nat)
  BY IoTyped, AppendProperties DEF IoInv, Dropped
<1>3. /\ popped' = [popped EXCEPT ![p] = 0] /\ Own /\ UNCHANGED <<sem, pool, emitted, lock, tunnel>>
      /\ \/ \E n \in {popped[p], Dropped} :
              /\ n = Dropped => p = "ssl_to_pty" \/ n = popped[p]
              /\ got' = [got EXCEPT ![p] = Append(got[p], n)] /\ WorkerGoes(WriterOf[p], "pop")
         \/ WorkerGoes(WriterOf[p], "post") /\ UNCHANGED got
  BY DEF Write
<1>4. popped' \in [Pools -> Nat] /\ popped'[p] = 0 /\ \A q \in Pools : q # p => popped'[q] = popped[q]
  BY <1>2, <1>3
<1>5. CASE WorkerGoes(WriterOf[p], "post") /\ UNCHANGED got
  <2>1. Stands(WriterOf[p], "post")
    BY <1>1, <1>5, Standing DEF IoInv
  <2>2. WriterMoves(p, "post")
    BY <1>1, <1>2, <1>3, <1>4, <1>5, <2>1 DEF WriterMoves
  <2> QED BY <2>2, WriterKeeps
<1>6. ASSUME NEW n \in {popped[p], Dropped}, n = Dropped => p = "ssl_to_pty" \/ n = popped[p],
             got' = [got EXCEPT ![p] = Append(got[p], n)], WorkerGoes(WriterOf[p], "pop")
      PROVE  IoInv'
  <2>1. Stands(WriterOf[p], "pop")
    BY <1>1, <1>6, Standing DEF IoInv
  <2>2. /\ got' \in [Pools -> Seq(Nat)] /\ got'[p] = Append(got[p], n) /\ n \in Nat
        /\ \A q \in Pools : q # p => got'[q] = got[q]
    BY <1>2, <1>6
  <2>3. WriterMoves(p, "pop")
    BY <1>1, <1>2, <1>3, <1>4, <2>1, <2>2 DEF WriterMoves
  <2>4. ASSUME Numbered(p) PROVE Numbered(p)'
    <3>1. /\ thr'[WriterOf[p]] = "pop" /\ InHand(p) = 1 /\ InHand(p)' = 0 /\ Len(got[p]) \in Nat /\ Len(pool[p]) \in Nat
          /\ emitted' = emitted /\ pool' = pool
      BY <1>1, <1>2, <1>3, <2>1, LenProperties DEF Stands, InHand
    <3>2. /\ emitted[p] = Len(got[p]) + 1 + Len(pool[p]) /\ popped[p] = Len(got[p]) + 1
          /\ (\A i \in 1..Len(got[p]) : Delivered(p, i))
          /\ \A i \in 1..Len(pool[p]) : pool[p][i] = Len(got[p]) + 1 + i
      BY <1>1, <2>4, <3>1 DEF Numbered
    <3>3. /\ Len(got'[p]) = Len(got[p]) + 1 /\ got'[p][Len(got[p]) + 1] = n
          /\ \A i \in 1 .. Len(got[p]) : got'[p][i] = got[p][i]
      BY <1>2, <2>2, AppendProperties
    <3>4. ASSUME NEW i \in 1 .. Len(got'[p]) PROVE Delivered(p, i)'
      <4>1. CASE i = Len(got[p]) + 1
        BY <1>6, <3>2, <3>3, <4>1 DEF Delivered
      <4>2. CASE i \in 1 .. Len(got[p])
        BY <3>2, <3>3, <4>2 DEF Delivered
      <4> QED BY <3>1, <3>3, <4>1, <4>2
    <3>5. /\ emitted[p] = Len(got'[p]) + 0 + Len(pool[p])
          /\ \A i \in 1..Len(pool[p]) : pool[p][i] = Len(got'[p]) + 0 + i
      BY <3>1, <3>2, <3>3
    <3> QED BY <1>4, <3>1, <3>4, <3>5 DEF Numbered
  <2> QED BY <2>3, <2>4, WriterKeeps
<1> QED BY <1>3, <1>5, <1>6

\* if_config moves, with what it notes about the configuration.
LEMMA ConfigMoves ==
  ASSUME IoInv, Own, NEW place, Stands("if_config", place), thr["if_config"] \notin Ended,
         UNCHANGED <<sem, traffic>>, lock' \in {Unowned, "if_config"}, tunnel' \in TunnelFacts, FailureNoted'
  PROVE  IoInv'
<1>0. "if_config" \in Workers /\ "pppd_write" \in Workers /\ \A p \in Pools : WriterOf[p] \in Workers /\ WriterOf[p] # "if_config"
  BY PoolsAre, WorkersAre
<1>1. UNCHANGED <<pool, popped, emitted, got>> /\ main' = main
  BY DEF traffic, Own
<1>2. IoTypeOK'
  <2>1. /\ sem \in [{"ready", "ifc", "stop"} -> Nat] /\ emitted \in [Pools -> Nat] /\ popped \in [Pools -> Nat]
        /\ pool \in [Pools -> Seq(Nat)] /\ got \in [Pools -> Seq(Nat)] /\ \A p \in Pools : emitted[p] <= MaxPackets[p]
    BY IoTyped DEF IoInv
  <2>2. thr' \in [Workers -> Places] /\ lock' \in Workers \cup {Main, Unowned}
    BY <1>0 DEF Stands
  <2> QED BY <1>1, <2>1, <2>2, OwnTyped
<1>3. WorkersCounted'
  BY <1>0, WorkersKept
<1>4. \A p \in Pools : thr'[WriterOf[p]] = thr[WriterOf[p]]
  BY <1>0 DEF Stands
<1>5. PacketsNumbered'
  BY <1>1, <1>4, PacketsKept
<1>6. ReadyMeansTalk'
  BY <1>0, <1>1, TalkKept DEF Stands
<1> QED BY <1>2, <1>3, <1>5, <1>6 DEF IoInv

\* While a worker lives the main thread has not come to the end.
LEMMA Alive ==
  ASSUME IoInv, NEW w \in Workers, thr[w] \notin Ended
  PROVE  main \notin {"logout", "sleep", "exit"}
BY DEF IoInv, WorkersCounted, NoWorkerLeft

\* The interface comes up, or the configuration has failed.
LEMMA Io_PollInterface ==
  ASSUME IoInv, PollInterface
  PROVE  IoInv'
<1>1. /\ "if_config" \in Workers /\ thr["if_config"] = "poll" /\ thr["if_config"] \notin Ended /\ {"apply", "post"} \subseteq Places
      /\ Own /\ UNCHANGED <<sem, traffic, lock>> /\ main' = main
  BY WorkersAre DEF PollInterface, Passes, Ended, Places, Own
<1>2. PICK place \in {"apply", "post"} : WorkerGoes("if_config", place)
  BY DEF PollInterface
<1>3. Stands("if_config", place)
  BY <1>1, <1>2, Standing DEF IoInv
<1>4. tunnel \in TunnelFacts /\ tunnel' \in {tunnel, [tunnel EXCEPT !.applyFailed = TRUE]}
  BY IoTyped DEF PollInterface, IoInv
<1>5. tunnel' \in TunnelFacts /\ tunnel'.applied = tunnel.applied /\ (tunnel.applyFailed => tunnel'.applyFailed)
  BY <1>4 DEF TunnelFacts
<1>6. FailureNoted' /\ lock' \in {Unowned, "if_config"}
  BY <1>1, <1>5, Alive DEF FailureNoted, IoInv
<1> QED BY <1>1, <1>3, <1>5, <1>6, ConfigMoves

\* The configuration is applied, and its event begun.
LEMMA Io_on_ppp_if_up ==
  ASSUME IoInv, on_ppp_if_up
  PROVE  IoInv'
<1>1. /\ "if_config" \in Workers /\ thr["if_config"] = "apply" /\ thr["if_config"] \notin Ended /\ {"emit", "post"} \subseteq Places
      /\ Own /\ UNCHANGED <<sem, traffic>> /\ main' = main
  BY WorkersAre DEF on_ppp_if_up, WorkerAt, Ended, Places, Own
<1>2. PICK what \in {"ok", "failed"} :
        /\ tunnel' = [tunnel EXCEPT !.applied = what, !.applyFailed = (what = "failed" /\ ~Events)]
        /\ WorkerGoes("if_config", IF what = "failed" /\ ~Events THEN "post" ELSE "emit")
  BY DEF on_ppp_if_up
<1>3. PICK place \in {"emit", "post"} : Stands("if_config", place)
  BY <1>1, <1>2, Standing DEF IoInv
<1>4. tunnel' \in TunnelFacts /\ tunnel'.applied = what /\ (what = "failed" /\ ~Events => tunnel'.applyFailed)
  BY <1>2, IoTyped DEF IoInv, TunnelFacts
<1>5. lock' = IF Events THEN "if_config" ELSE Unowned
  BY DEF on_ppp_if_up
<1>6. FailureNoted' /\ lock' \in {Unowned, "if_config"}
  BY <1>1, <1>4, <1>5, Alive DEF FailureNoted
<1> QED BY <1>1, <1>3, <1>4, <1>6, ConfigMoves

\* The event is out: what it says is noted and the mutex given back.
LEMMA Io_Emitted ==
  ASSUME IoInv, Emitted
  PROVE  IoInv'
<1>1. /\ "if_config" \in Workers /\ thr["if_config"] = "emit" /\ thr["if_config"] \notin Ended /\ {"done", "post"} \subseteq Places
      /\ Own /\ UNCHANGED <<sem, traffic>> /\ main' = main /\ lock' = Unowned
  BY WorkersAre DEF Emitted, Passes, Ended, Places, Own
<1>2. PICK place \in {"done", "post"} : WorkerGoes("if_config", place)
  BY DEF Emitted
<1>3. Stands("if_config", place)
  BY <1>1, <1>2, Standing DEF IoInv
<1>4. /\ tunnel \in TunnelFacts
      /\ \/ tunnel.applied = "ok" /\ tunnel' = [tunnel EXCEPT !.up = TRUE]
         \/ tunnel.applied = "failed" /\ tunnel' = [tunnel EXCEPT !.applyFailed = TRUE]
  BY IoTyped DEF Emitted, IoInv
<1>5. tunnel' \in TunnelFacts /\ (tunnel'.applied = "failed" => tunnel'.applyFailed)
  BY <1>4 DEF TunnelFacts
<1>6. FailureNoted'
  BY <1>1, <1>5, Alive DEF FailureNoted
<1> QED BY <1>1, <1>3, <1>5, <1>6, ConfigMoves

\* A round is set up, or fails.
LEMMA Io_Setup ==
  ASSUME IoInv, Setup
  PROVE  IoInv'
<1>1. /\ UNCHANGED <<thr, started, cancel, sem, pool, popped, emitted, got, lock, tunnel, handler, masked, pending, sig,
                    signals, runs>>
      /\ main = "setup" /\ main' \in {"report", "terminate", "start"} /\ ret' \in {"setup", "tunnel", "ok"}
      /\ pppd' \in {pppd, "running"}
  BY DEF Setup, Before, group, traffic, signal
<1>2. IoTypeOK'
  BY <1>1 DEF IoInv, IoTypeOK
<1>3. WorkersCounted'
  BY <1>1 DEF IoInv, WorkersCounted, NoWorkerLeft
<1>4. PacketsNumbered' /\ ReadyMeansTalk'
  BY <1>1, TalkKept DEF PacketsNumbered
<1>5. FailureNoted'
  BY <1>1 DEF IoInv, FailureNoted
<1> QED BY <1>2, <1>3, <1>4, <1>5 DEF IoInv

\* io_loop begins with fresh pools and semaphores.
LEMMA Io_StartIo ==
  ASSUME IoInv, StartIo
  PROVE  IoInv'
<1>1. /\ UNCHANGED <<thr, started, cancel, popped, emitted, got, lock, tunnel, pppd, pending, sig, runs, signals>>
      /\ main = "start" /\ main' \in {"spawn", "join"} /\ ret' \in {"tunnel", ret}
      /\ masked' \in {TRUE, masked} /\ handler' \in {TRUE, handler}
      /\ sem' = NoPosts /\ pool' = NoPackets
  BY DEF StartIo, Before, group
<1>2. /\ sem' \in [{"ready", "ifc", "stop"} -> Nat] /\ sem'.ready = 0
      /\ \A p \in Pools : pool'[p] = <<>> /\ pool' \in [Pools -> Seq(Nat)]
  BY <1>1 DEF NoPackets, NoPosts
<1>3. /\ started = 0 /\ emitted = Zeroes /\ popped = Zeroes /\ got = NoPackets
      /\ (\A w \in Workers : thr[w] = "none")
  BY <1>1 DEF IoInv, WorkersCounted, Idle
<1>4. IoTypeOK'
  BY <1>1, <1>2, PoolsAre DEF IoInv, IoTypeOK
<1>5. WorkersCounted'
  <2>1. \A i \in 1 .. Len(Entries) : Entries[i] \in Workers
    BY WorkersAre
  <2> QED BY <1>1, <1>3, <2>1 DEF WorkersCounted, NoWorkerLeft, Ended
<1>6. PacketsNumbered'
  <2>1. ASSUME NEW p \in Pools
        PROVE  /\ thr'[WriterOf[p]] = "none" /\ popped'[p] = 0 /\ emitted'[p] = 0 /\ got'[p] = <<>> /\ pool'[p] = <<>>
    BY <1>1, <1>2, <1>3, PoolsAre DEF Zeroes, NoPackets
  <2>2. Len(<<>>) = 0
    OBVIOUS
  <2>3. ASSUME NEW p \in Pools
        PROVE  /\ popped'[p] = IF thr'[WriterOf[p]] = "write" THEN Len(got'[p]) + 1 ELSE 0
               /\ emitted'[p] = Len(got'[p]) + InHand(p)' + Len(pool'[p])
               /\ Len(got'[p]) = 0 /\ Len(pool'[p]) = 0
    <3>1. Len(got'[p]) = 0 /\ Len(pool'[p]) = 0 /\ InHand(p)' = 0
      BY <2>1, <2>2 DEF InHand
    <3>2. emitted'[p] = 0 /\ popped'[p] = 0 /\ thr'[WriterOf[p]] # "write"
      BY <2>1
    <3> QED BY <3>1, <3>2
  <2> QED BY <2>3 DEF PacketsNumbered
<1>7. ReadyMeansTalk'
  <2>1. "ssl_to_pty" \in Pools /\ "pppd_write" \in Workers
    BY PoolsAre, WorkersAre
  <2> QED BY <1>1, <1>2, <1>3, <2>1 DEF ReadyMeansTalk, PppdTalksFirst, NoPackets
<1>8. FailureNoted'
  BY <1>1 DEF IoInv, FailureNoted
<1> QED BY <1>4, <1>5, <1>6, <1>7, <1>8 DEF IoInv

\* Unblocking the signals.
LEMMA Unmasked ==
  ASSUME IoInv, Unmask
  PROVE  /\ masked' \in BOOLEAN /\ pending' \in BOOLEAN /\ sig' \in BOOLEAN
         /\ sem' \in [{"ready", "ifc", "stop"} -> Nat] /\ sem'.ready = sem.ready
<1>1. sem' \in {sem, [sem EXCEPT !.stop = sem.stop + 1]} /\ sem.stop + 1 \in Nat /\ sem \in [{"ready", "ifc", "stop"} -> Nat]
  BY IoTyped DEF Unmask, IoInv
<1>2. sem' \in [{"ready", "ifc", "stop"} -> Nat] /\ sem'.ready = sem.ready
  BY <1>1
<1>3. masked' \in BOOLEAN /\ pending' \in BOOLEAN /\ sig' \in BOOLEAN
  BY DEF Unmask, IoInv, IoTypeOK
<1> QED BY <1>2, <1>3

\* The workers that were created.
LEMMA Created ==
  ASSUME NEW n \in 0 .. 5
  PROVE  {Entries[i] : i \in 1 .. n} \subseteq Workers
BY WorkersAre

\* One worker more, or an end of the round.
LEMMA Io_ofv_thread_start ==
  ASSUME IoInv, ofv_thread_start
  PROVE  IoInv'
<1>0. /\ UNCHANGED <<pool, popped, emitted, got, lock, tunnel, pppd, handler, runs, signals>> /\ main = "spawn"
      /\ started \in 0 .. 5 /\ Len(Entries) = 5 /\ started < 5
  BY IoTyped, WorkersAre DEF ofv_thread_start, Before, traffic, IoInv
<1>1. CASE /\ thr' = [thr EXCEPT ![Entries[started + 1]] = Begins[Entries[started + 1]]] /\ started' = started + 1
           /\ UNCHANGED <<main, cancel, sem, masked, pending, sig, ret>>
  <2> DEFINE w == Entries[started + 1]
  <2>1. started + 1 \in 1 .. 5 /\ w \in Workers
    BY <1>0, WorkersAre
  <2>2. thr[w] = "none"
    BY <1>0, <2>1 DEF IoInv, WorkersCounted
  <2>3. Begins[w] \in {"read", "wait", "pop"} /\ Begins[w] \in Places /\ (w = "pppd_write" => Begins[w] = "wait")
    BY <2>1, WorkersAre DEF Begins, Places
  <2> HIDE DEF w
  <2>4. Stands(w, Begins[w])
    BY <1>1, <2>1, <2>3, Standing DEF IoInv, WorkerGoes, w
  <2>5. IoTypeOK'
    <3>1. started' \in 0 .. Len(Entries) /\ thr' \in [Workers -> Places]
      BY <1>0, <1>1, <2>1, <2>4 DEF Stands
    <3> QED BY <1>0, <1>1, <3>1 DEF IoInv, IoTypeOK
  <2>6. WorkersCounted'
    <3>1. \A i \in started + 2 .. 5 : Entries[i] \in Workers /\ Entries[i] # w
      BY <1>0, <2>1, WorkersAre DEF w
    <3>2. \A i \in started' + 1 .. Len(Entries) : thr'[Entries[i]] = "none"
      <4> TAKE i \in started' + 1 .. Len(Entries)
      <4>1. i \in started + 1 .. Len(Entries) /\ i \in started + 2 .. 5
        BY <1>0, <1>1
      <4>2. thr[Entries[i]] = "none"
        BY <1>0, <4>1 DEF IoInv, WorkersCounted
      <4> QED BY <2>4, <3>1, <4>1, <4>2 DEF Stands
    <3>3. ASSUME NEW v \in Workers, thr'[v] \notin Ended PROVE v \in {Entries[i] : i \in 1 .. started'}
      <4>1. CASE v = w
        BY <1>0, <1>1, <4>1 DEF w
      <4>2. CASE v # w
        <5>1. PICK i \in 1 .. started : v = Entries[i]
          BY <1>0, <2>4, <3>3, <4>2 DEF IoInv, WorkersCounted, Stands
        <5>2. i \in 1 .. started'
          BY <1>0, <1>1
        <5> QED BY <5>1, <5>2
      <4> QED BY <4>1, <4>2
    <3>4. main' = "spawn"
      BY <1>0, <1>1
    <3> QED BY <3>2, <3>3, <3>4 DEF WorkersCounted, NoWorkerLeft
  <2>7. PacketsNumbered'
    <3>1. \A p \in Pools : WriterOf[p] \in Workers
      BY PoolsAre
    <3> QED BY <1>0, <1>1, <2>2, <2>3, <2>4, <3>1, PacketsKept DEF Stands, traffic
  <2>8. ReadyMeansTalk'
    <3>1. "pppd_write" \in Workers
      BY WorkersAre
    <3>2. thr'["pppd_write"] \in {"pop", "write"} => thr["pppd_write"] \in {"pop", "write"}
      BY <2>3, <2>4, <3>1 DEF Stands
    <3> QED BY <1>0, <1>1, <3>2 DEF IoInv, ReadyMeansTalk, PppdTalksFirst
  <2>9. FailureNoted'
    BY <1>0, <1>1, FailureKept
  <2> QED BY <2>5, <2>6, <2>7, <2>8, <2>9 DEF IoInv
<1>2. CASE /\ main' = "join" /\ ret' = "tunnel" /\ Unmask /\ cancel' = {Entries[i] : i \in 1..started}
           /\ UNCHANGED <<thr, started>>
  <2>1. cancel' \subseteq Workers
    BY <1>0, <1>2, Created
  <2>2. IoTypeOK'
    BY <1>0, <1>2, <2>1, Unmasked DEF IoInv, IoTypeOK
  <2>3. WorkersCounted'
    BY <1>0, <1>2 DEF IoInv, WorkersCounted, NoWorkerLeft
  <2>4. PacketsNumbered' /\ ReadyMeansTalk'
    BY <1>0, <1>2, Unmasked, TalkKept DEF PacketsNumbered
  <2>5. FailureNoted'
    BY <1>0, <1>2 DEF IoInv, FailureNoted
  <2> QED BY <2>2, <2>3, <2>4, <2>5 DEF IoInv
<1> QED BY <1>1, <1>2 DEF ofv_thread_start

\* All workers run.
LEMMA Io_AllStarted ==
  ASSUME IoInv, AllStarted
  PROVE  IoInv'
<1>1. /\ UNCHANGED <<thr, started, cancel, pool, popped, emitted, got, lock, tunnel, pppd, handler, ret, runs, signals>>
      /\ main = "spawn" /\ main' = "wait" /\ Unmask
  BY DEF AllStarted, Before, group, traffic
<1>2. IoTypeOK'
  BY <1>1, Unmasked DEF IoInv, IoTypeOK
<1>3. WorkersCounted'
  BY <1>1 DEF IoInv, WorkersCounted, NoWorkerLeft
<1>4. PacketsNumbered' /\ ReadyMeansTalk' /\ FailureNoted'
  BY <1>1, Unmasked, TalkKept, PacketsKept, FailureKept DEF traffic
<1> QED BY <1>2, <1>3, <1>4 DEF IoInv

\* The workers are told to stop.
LEMMA Io_io_loop ==
  ASSUME IoInv, io_loop
  PROVE  IoInv'
<1>1. /\ UNCHANGED <<thr, started, pool, popped, emitted, got, lock, tunnel, pppd, handler, masked, pending, sig, signals,
                    ret, runs>>
      /\ main = "wait" /\ main' = "join" /\ cancel' = {Entries[i] : i \in 1..started}
      /\ sem.stop > 0 /\ sem' = [sem EXCEPT !.stop = sem.stop - 1]
  BY DEF io_loop, Before, traffic, signal
<1>2. cancel' \subseteq Workers
  BY <1>1, Created, IoTyped DEF IoInv
<1>3. sem' \in [{"ready", "ifc", "stop"} -> Nat] /\ sem'.ready = sem.ready
  <2>1. sem.stop - 1 \in Nat /\ sem \in [{"ready", "ifc", "stop"} -> Nat]
    BY <1>1, IoTyped DEF IoInv
  <2> QED BY <1>1, <2>1
<1>4. IoTypeOK'
  BY <1>1, <1>2, <1>3 DEF IoInv, IoTypeOK
<1>5. WorkersCounted'
  BY <1>1 DEF IoInv, WorkersCounted, NoWorkerLeft
<1>6. PacketsNumbered' /\ ReadyMeansTalk' /\ FailureNoted'
  BY <1>1, <1>3, TalkKept, FailureKept DEF PacketsNumbered
<1> QED BY <1>4, <1>5, <1>6 DEF IoInv

\* Every worker has ended, and the pools go.
LEMMA Io_ofv_thread_join ==
  ASSUME IoInv, ofv_thread_join
  PROVE  IoInv'
<1>1. /\ UNCHANGED <<thr, lock, tunnel, pppd, handler, masked, pending, sig, signals, runs>>
      /\ main = "join" /\ main' = "down" /\ started' = 0 /\ cancel' = {} /\ ret' \in {"tunnel", ret}
      /\ pool' = NoPackets /\ popped' = Zeroes /\ emitted' = Zeroes /\ got' = NoPackets /\ sem' = NoPosts
      /\ \A i \in 1..started : thr[Entries[i]] \in Ended
  BY DEF ofv_thread_join, Destroyed, Before, signal
<1>2. /\ pool' \in [Pools -> Seq(Nat)] /\ got' \in [Pools -> Seq(Nat)] /\ popped' \in [Pools -> Nat]
      /\ emitted' \in [Pools -> Nat] /\ sem' \in [{"ready", "ifc", "stop"} -> Nat]
      /\ sem'.ready = 0 /\ \A p \in Pools : emitted'[p] = 0 /\ got'[p] = <<>>
  BY <1>1 DEF NoPackets, Zeroes, NoPosts
<1>3. IoTypeOK'
  <2>1. \A p \in Pools : emitted'[p] <= MaxPackets[p]
    <3>1. \A p \in Pools : MaxPackets[p] \in Nat
      BY PoolsAre
    <3> QED BY <1>2, <3>1
  <2> QED BY <1>1, <1>2, <2>1, WorkersAre DEF IoInv, IoTypeOK
<1>4. \A w \in Workers : thr[w] \in Ended
  BY <1>1 DEF IoInv, WorkersCounted
<1>5. WorkersCounted'
  BY <1>1, <1>4 DEF WorkersCounted, NoWorkerLeft
<1>6. PacketsNumbered'
  BY <1>1 DEF PacketsNumbered
<1>7. ReadyMeansTalk'
  <2>1. thr'["pppd_write"] \in Ended /\ "ssl_to_pty" \in Pools
    BY <1>1, <1>4, WorkersAre, PoolsAre
  <2> QED BY <1>1, <1>2, <2>1 DEF ReadyMeansTalk, PppdTalksFirst, Ended
<1>8. FailureNoted'
  BY <1>1 DEF IoInv, FailureNoted
<1> QED BY <1>3, <1>5, <1>6, <1>7, <1>8 DEF IoInv

\* A cleanup leaves alone what was noted of the configuration.
LEMMA CleanupFacts ==
  ASSUME IoInv, NEW f \in BOOLEAN, tunnel' = CleanedUp(f)
  PROVE  tunnel' \in TunnelFacts /\ tunnel'.applied = tunnel.applied /\ tunnel'.applyFailed = tunnel.applyFailed
BY IoTyped DEF IoInv, TunnelFacts, CleanedUp

\* The host is put back.
LEMMA Io_on_ppp_if_down ==
  ASSUME IoInv, on_ppp_if_down
  PROVE  IoInv'
<1>1. /\ UNCHANGED <<thr, started, cancel, sem, pool, popped, emitted, got, lock, pppd, handler, masked, pending, sig,
                    signals, ret, runs>>
      /\ main = "down" /\ main' = "terminate"
  BY DEF on_ppp_if_down, Before, group, traffic, signal
<1>3. /\ tunnel' \in TunnelFacts /\ tunnel'.applied = tunnel.applied /\ tunnel'.applyFailed = tunnel.applyFailed
  BY CleanupFacts DEF on_ppp_if_down
<1>4. IoTypeOK'
  BY <1>1, <1>3 DEF IoInv, IoTypeOK
<1>5. WorkersCounted'
  BY <1>1 DEF IoInv, WorkersCounted, NoWorkerLeft
<1>6. PacketsNumbered' /\ ReadyMeansTalk'
  BY <1>1, TalkKept DEF PacketsNumbered
<1>7. FailureNoted'
  BY <1>1, <1>3 DEF IoInv, FailureNoted
<1> QED BY <1>4, <1>5, <1>6, <1>7 DEF IoInv

\* pppd is waited for.
LEMMA Io_pppd_terminate ==
  ASSUME IoInv, pppd_terminate
  PROVE  IoInv'
<1>1. /\ UNCHANGED <<thr, started, cancel, sem, pool, popped, emitted, got, lock, tunnel, pppd, handler, masked, pending,
                    sig, signals, runs>>
      /\ main = "terminate" /\ main' = "report" /\ ret' \in {ret, "ok", "tunnel"}
  BY DEF pppd_terminate, Before, group, traffic, signal
<1>2. IoTypeOK'
  BY <1>1 DEF IoInv, IoTypeOK
<1>3. WorkersCounted'
  BY <1>1 DEF IoInv, WorkersCounted, NoWorkerLeft
<1>4. PacketsNumbered' /\ ReadyMeansTalk'
  BY <1>1, TalkKept DEF PacketsNumbered
<1>5. FailureNoted'
  BY <1>1 DEF IoInv, FailureNoted
<1> QED BY <1>2, <1>3, <1>4, <1>5 DEF IoInv

\* The exit code: event_mutex is free by now, and so a failure is noted.
LEMMA Io_run_tunnel ==
  ASSUME IoInv, run_tunnel
  PROVE  IoInv'
<1>1. /\ UNCHANGED <<thr, started, cancel, sem, pool, popped, emitted, got, lock, pppd, handler, masked, pending,
                    sig, signals, runs>>
      /\ main = "report" /\ main' \in {"logout", "sleep", "exit"} /\ CanEmit
      /\ ret' = IF tunnel'.cleanupFailed \/ tunnel'.applyFailed THEN "config" ELSE ret
  BY DEF run_tunnel, AfterRound, Before, group, traffic, signal
<1>2. tunnel' \in TunnelFacts /\ tunnel'.applied = tunnel.applied /\ tunnel'.applyFailed = tunnel.applyFailed
  <2>1. CASE UNCHANGED tunnel
    BY <2>1, IoTyped DEF IoInv
  <2>2. CASE \E lost \in {FALSE, Native} : tunnel' = CleanedUp(lost)
    BY <2>2, CleanupFacts, IoAssumption
  <2> QED BY <2>1, <2>2 DEF run_tunnel
<1>3. IoTypeOK'
  BY <1>1, <1>2 DEF IoInv, IoTypeOK
<1>4. WorkersCounted'
  BY <1>1 DEF IoInv, WorkersCounted, NoWorkerLeft
<1>5. PacketsNumbered' /\ ReadyMeansTalk'
  BY <1>1, TalkKept DEF PacketsNumbered
<1>6. FailureNoted'
  <2>1. lock = Unowned
    BY <1>1 DEF CanEmit, IoInv, FailureNoted
  <2>2. Unowned # "if_config"
    BY DEF Unowned
  <2> QED BY <1>1, <1>2, <2>1, <2>2 DEF IoInv, FailureNoted
<1> QED BY <1>3, <1>4, <1>5, <1>6 DEF IoInv

\* The logout returns.
LEMMA Io_auth_log_out ==
  ASSUME IoInv, auth_log_out
  PROVE  IoInv'
<1>1. /\ UNCHANGED <<thr, started, cancel, sem, pool, popped, emitted, got, lock, tunnel, pppd, handler, masked, pending,
                    sig, signals, ret, runs>>
      /\ main = "logout" /\ main' \in {"sleep", "exit"}
  BY DEF auth_log_out, AfterRound, Before, group, traffic, signal
<1>2. IoTypeOK'
  BY <1>1 DEF IoInv, IoTypeOK
<1>3. WorkersCounted'
  BY <1>1 DEF IoInv, WorkersCounted, NoWorkerLeft
<1>4. PacketsNumbered' /\ ReadyMeansTalk' /\ FailureNoted'
  BY <1>1, TalkKept, FailureKept DEF PacketsNumbered
<1> QED BY <1>2, <1>3, <1>4 DEF IoInv

\* A fresh round, or the end.
LEMMA Io_Again ==
  ASSUME IoInv, Again
  PROVE  IoInv'
<1>0. main = "sleep" /\ UNCHANGED <<started, cancel, sem, pool, popped, emitted, got, lock, handler, masked, pending, sig, signals>>
  BY DEF Again, Before, traffic, signal
<1>1. CASE sig /\ main' = "exit" /\ UNCHANGED <<thr, tunnel, pppd, ret, runs>>
  <2>1. IoTypeOK'
    BY <1>0, <1>1 DEF IoInv, IoTypeOK
  <2>2. WorkersCounted'
    BY <1>0, <1>1 DEF IoInv, WorkersCounted, NoWorkerLeft
  <2>3. PacketsNumbered' /\ ReadyMeansTalk' /\ FailureNoted'
    BY <1>0, <1>1, TalkKept, FailureKept DEF PacketsNumbered
  <2> QED BY <2>1, <2>2, <2>3 DEF IoInv
<1>2. CASE /\ ~sig /\ runs < MaxRuns /\ main' = "setup" /\ runs' = runs + 1
           /\ thr' = Idle /\ tunnel' = NoTunnel /\ pppd' = "none" /\ ret' = "ok"
  <2>1. /\ thr' \in [Workers -> Places] /\ (\A w \in Workers : thr'[w] = "none") /\ tunnel' \in TunnelFacts
        /\ tunnel'.applied = "no"
    BY <1>2 DEF Idle, NoTunnel, TunnelFacts, Places, Ended
  <2>2. runs' \in 0 .. MaxRuns
    BY <1>2, IoAssumption DEF IoInv, IoTypeOK
  <2>3. IoTypeOK'
    BY <1>0, <1>2, <2>1, <2>2 DEF IoInv, IoTypeOK
  <2>4. WorkersCounted'
    BY <1>0, <1>2, <2>1 DEF IoInv, WorkersCounted, NoWorkerLeft, Ended
  <2>5. PacketsNumbered' /\ ReadyMeansTalk'
    BY <1>0, <1>2, <2>1, WorkersAre, TalkKept DEF PacketsNumbered
  <2>6. FailureNoted'
    BY <1>0, <1>2, <2>1 DEF IoInv, FailureNoted
  <2> QED BY <2>3, <2>4, <2>5, <2>6 DEF IoInv
<1> QED BY <1>1, <1>2 DEF Again

\* The engine begins without workers and packets.
LEMMA IoStarts ==
  ASSUME IoInit
  PROVE  IoInv
<1>1. /\ thr \in [Workers -> Places] /\ (\A w \in Workers : thr[w] = "none") /\ tunnel \in TunnelFacts
      /\ tunnel.applied = "no" /\ sem \in [{"ready", "ifc", "stop"} -> Nat]
  BY DEF IoInit, Idle, NoTunnel, NoPosts, TunnelFacts, Places, Ended
<1>2. /\ popped \in [Pools -> Nat] /\ emitted \in [Pools -> Nat] /\ got \in [Pools -> Seq(Nat)] /\ pool \in [Pools -> Seq(Nat)]
      /\ \A p \in Pools : emitted[p] = 0 /\ got[p] = <<>>
  BY DEF IoInit, Zeroes, NoPackets
<1>3. runs \in 0 .. MaxRuns /\ signals \in 0 .. MaxSignals /\ started \in 0 .. Len(Entries) /\ \A p \in Pools : MaxPackets[p] \in Nat
  BY IoAssumption, WorkersAre, PoolsAre DEF IoInit
<1>4. \A p \in Pools : emitted[p] <= MaxPackets[p]
  BY <1>2, <1>3
<1>5. IoTypeOK
  BY <1>1, <1>2, <1>3, <1>4 DEF IoInit, IoTypeOK
<1>6. WorkersCounted
  BY <1>1 DEF IoInit, WorkersCounted, NoWorkerLeft, Ended
<1>7. PacketsNumbered /\ ReadyMeansTalk
  BY <1>1, <1>2, PoolsAre, WorkersAre DEF IoInit, PacketsNumbered, ReadyMeansTalk, PppdTalksFirst
<1>8. FailureNoted
  BY <1>1 DEF IoInit, FailureNoted
<1> QED BY <1>5, <1>6, <1>7, <1>8 DEF IoInv

\* Every step of every thread keeps it.
LEMMA IoKeeps ==
  ASSUME IoInv, [IoNext]_ioVars
  PROVE  IoInv'
<1>1. CASE Signal \/ PppdEnds
  BY <1>1, Io_Signal, Io_PppdEnds
<1>2. CASE Advance
  BY <1>2, Io_pppd_write, Io_if_config, Io_PollInterface, Io_on_ppp_if_up, Io_Emitted, Io_pool_pop, Io_Write, Io_PostStop
     DEF Advance
<1>3. CASE Work
  BY <1>2, <1>3, Io_pppd_read, Io_ssl_read, Io_ReadFails DEF Work
<1>4. CASE Step
  BY <1>4, Io_StartIo, Io_ofv_thread_start, Io_AllStarted, Io_io_loop, Io_ofv_thread_join, Io_on_ppp_if_down,
     Io_pppd_terminate, Io_run_tunnel, Io_Again DEF Step
<1>7. CASE Exchange
  BY <1>7, Io_Setup, Io_auth_log_out DEF Exchange
<1>5. CASE \E w \in Workers : Cancelled(w)
  BY <1>5, Io_Cancelled
<1>6. CASE UNCHANGED ioVars
  <2>1. /\ UNCHANGED <<main, thr, started, cancel, sem, pool, popped, emitted, got, lock, tunnel, pppd>>
        /\ UNCHANGED <<handler, masked, pending, sig, ret, runs, signals>>
    BY <1>6 DEF ioVars
  <2>2. IoTypeOK'
    BY <2>1 DEF IoInv, IoTypeOK
  <2>3. WorkersCounted'
    BY <2>1 DEF IoInv, WorkersCounted, NoWorkerLeft
  <2>4. PacketsNumbered' /\ ReadyMeansTalk' /\ FailureNoted'
    BY <2>1, PacketsKept, TalkKept, FailureKept DEF traffic
  <2> QED BY <2>2, <2>3, <2>4 DEF IoInv
<1> QED BY <1>1, <1>3, <1>4, <1>5, <1>6, <1>7 DEF IoNext

\* Counting three stretches.
LEMMA Stretches ==
  ASSUME NEW g \in Nat, NEW h \in {0, 1}, NEW n \in Nat, NEW e, e = g + h + n
  PROVE  /\ h = 1 => g + 1 \in 1 .. e /\ g + 1 > g
         /\ \A i \in 1 .. n : g + h + i \in 1 .. e /\ g + h + i > g
OBVIOUS

\* What is numbered is what was sent, in its order.
LEMMA Conveys ==
  ASSUME IoInv
  PROVE  Conveyed
<1> SUFFICES ASSUME NEW p \in Pools, main = "wait", thr[WriterOf[p]] \notin {"post"} \cup Ended
             PROVE  got[p] \o (IF popped[p] = 0 THEN <<>> ELSE <<popped[p]>>) \o pool[p]
                      = [i \in 1..emitted[p] |->
                           IF i \in {j \in 1..Len(got[p]) : p = "ssl_to_pty" /\ got[p][j] = Dropped}
                             THEN Dropped ELSE i]
  BY DEF Conveyed
<1>1. Numbered(p)
  BY DEF IoInv, PacketsNumbered, Numbered, Ended
<1>2. /\ got[p] \in Seq(Nat) /\ pool[p] \in Seq(Nat) /\ popped[p] \in Nat
      /\ Len(got[p]) \in Nat /\ Len(pool[p]) \in Nat
  BY IoTyped, LenProperties DEF IoInv
<1>3. InHand(p) \in {0, 1} /\ (InHand(p) = 1 <=> thr[WriterOf[p]] = "write")
  BY DEF InHand
<1>9. emitted[p] = Len(got[p]) + InHand(p) + Len(pool[p]) /\ emitted[p] \in Nat
  BY <1>1, IoTyped DEF Numbered, IoInv
<1> DEFINE h == IF popped[p] = 0 THEN <<>> ELSE <<popped[p]>>
           a == got[p] \o h
           gone == {j \in 1..Len(got[p]) : p = "ssl_to_pty" /\ got[p][j] = Dropped}
           f == [i \in 1..emitted[p] |-> IF i \in gone THEN Dropped ELSE i]
<1>10. \A i \in 1 .. Len(got[p]) : got[p][i] = f[i]
  <2>1. \A i \in 1 .. Len(got[p]) : i \in 1 .. emitted[p]
    BY <1>2, <1>3, <1>9
  <2> QED BY <1>1, <2>1 DEF Numbered, Delivered
<1>11. \A i \in 1 .. emitted[p] : i > Len(got[p]) => f[i] = i
  BY <1>2
<1>12. f = [i \in 1 .. emitted[p] |-> f[i]]
  OBVIOUS
<1> HIDE DEF f, gone
<1>4. /\ h \in Seq(Nat) /\ Len(h) = InHand(p) /\ \A i \in 1 .. InHand(p) : h[i] = f[Len(got[p]) + i]
  <2>1. CASE InHand(p) = 0
    <3>1. popped[p] = 0
      BY <1>1, <1>3, <2>1 DEF Numbered
    <3> QED BY <2>1, <3>1
  <2>2. CASE InHand(p) = 1
    <3>1. popped[p] = Len(got[p]) + 1 /\ popped[p] # 0
      BY <1>1, <1>2, <1>3, <2>2 DEF Numbered
    <3>2. f[Len(got[p]) + 1] = Len(got[p]) + 1
      <4>1. Len(got[p]) + 1 \in 1 .. emitted[p] /\ Len(got[p]) + 1 > Len(got[p])
        BY <1>2, <1>3, <1>9, <2>2, Stretches
      <4> QED BY <1>11, <4>1
    <3> QED BY <1>2, <2>2, <3>1, <3>2
  <2> QED BY <1>3, <2>1, <2>2
<1> HIDE DEF h
<1>5. a \in Seq(Nat) /\ Len(a) = Len(got[p]) + InHand(p) /\ \A i \in 1 .. Len(got[p]) + InHand(p) : a[i] = f[i]
  <2> DEFINE m == Len(got[p])
             n == InHand(p)
             c == got[p]
  <2>1. m \in Nat /\ n \in Nat /\ c \in Seq(Nat) /\ h \in Seq(Nat) /\ Len(c) = m /\ Len(h) = n
    BY <1>2, <1>3, <1>4
  <2>2. a = c \o h /\ (\A i \in 1 .. m : c[i] = f[i]) /\ \A i \in 1 .. n : h[i] = f[m + i]
    BY <1>4, <1>10
  <2> HIDE DEF a, m, n, c
  <2>3. /\ a \in Seq(Nat) /\ Len(a) = m + n
        /\ \A i \in 1 .. m + n : a[i] = IF i <= m THEN c[i] ELSE h[i - m]
    <3>1. /\ c \o h \in Seq(Nat) /\ Len(c \o h) = m + n
          /\ \A i \in 1 .. m + n : (c \o h)[i] = IF i <= m THEN c[i] ELSE h[i - m]
      BY <2>1, ConcatProperties
    <3> QED BY <2>2, <3>1
  <2>4. ASSUME NEW i \in 1 .. m + n PROVE a[i] = f[i]
    <3>1. CASE i <= m
      <4>1. i \in 1 .. m
        BY <2>1, <3>1
      <4> QED BY <2>2, <2>3, <3>1, <4>1
    <3>2. CASE ~(i <= m)
      <4>1. i - m \in 1 .. n /\ m + (i - m) = i
        BY <2>1, <3>2
      <4>2. a[i] = h[i - m]
        BY <2>3, <3>2
      <4>3. h[i - m] = f[m + (i - m)]
        BY <2>2, <4>1
      <4> QED BY <4>1, <4>2, <4>3
    <3> QED BY <3>1, <3>2
  <2> QED BY <2>3, <2>4 DEF m, n
<1> HIDE DEF a
<1>6. Len(got[p]) + InHand(p) \in Nat
  BY <1>2, <1>3
<1>7. \A i \in 1..Len(pool[p]) : pool[p][i] = f[Len(got[p]) + InHand(p) + i]
  <2>1. ASSUME NEW i \in 1 .. Len(pool[p])
        PROVE  Len(got[p]) + InHand(p) + i \in 1 .. emitted[p] /\ Len(got[p]) + InHand(p) + i > Len(got[p])
    BY <1>2, <1>3, <1>9, Stretches
  <2> QED BY <1>1, <1>11, <2>1 DEF Numbered
<1>8. /\ a \o pool[p] \in Seq(Nat) /\ Len(a \o pool[p]) = Len(got[p]) + InHand(p) + Len(pool[p])
      /\ \A i \in 1 .. Len(got[p]) + InHand(p) + Len(pool[p]) : (a \o pool[p])[i] = f[i]
  <2> DEFINE k == Len(got[p]) + InHand(p)
             b == pool[p]
             n == Len(b)
  <2>1. k \in Nat /\ n \in Nat /\ a \in Seq(Nat) /\ Len(a) = k /\ b \in Seq(Nat) /\ Len(b) = n
    BY <1>2, <1>5, <1>6
  <2>2. (\A i \in 1 .. k : a[i] = f[i]) /\ \A i \in 1 .. n : b[i] = f[k + i]
    BY <1>5, <1>7
  <2> HIDE DEF k, b, n
  <2>3. /\ a \o b \in Seq(Nat) /\ Len(a \o b) = k + n
        /\ \A i \in 1 .. k + n : (a \o b)[i] = IF i <= k THEN a[i] ELSE b[i - k]
    BY <2>1, ConcatProperties
  <2>4. ASSUME NEW i \in 1 .. k + n PROVE (a \o b)[i] = f[i]
    <3>1. CASE i <= k
      <4>1. i \in 1 .. k
        BY <2>1, <3>1
      <4> QED BY <2>2, <2>3, <3>1, <4>1
    <3>2. CASE ~(i <= k)
      <4>1. i - k \in 1 .. n /\ k + (i - k) = i
        BY <2>1, <3>2
      <4>2. (a \o b)[i] = b[i - k]
        BY <2>3, <3>2
      <4>3. b[i - k] = f[k + (i - k)]
        BY <2>2, <4>1
      <4> QED BY <4>1, <4>2, <4>3
    <3> QED BY <3>1, <3>2
  <2> QED BY <2>3, <2>4 DEF k, b, n
<1>13. a \o pool[p] = f
  <2>1. a \o pool[p] = [i \in 1 .. Len(a \o pool[p]) |-> (a \o pool[p])[i]]
    BY <1>8, LenProperties
  <2> QED BY <1>8, <1>9, <1>12, <2>1
<1> QED BY <1>13 DEF a, h, f, gone

\* The engine's threads, for any number of packets, rounds and signals: every packet that is not
\* dropped once and in order, pppd first, no worker outliving pools and semaphores, no failure forgotten.
THEOREM ThreadsCarry == IoSpec => []ThreadsSound
<1>1. IoInit => IoInv
  BY IoStarts
<1>2. IoInv /\ [IoNext]_ioVars => IoInv'
  BY IoKeeps
<1>3. IoInv => ThreadsSound
  BY Conveys DEF IoInv, WorkersCounted, ReadyMeansTalk, FailureNoted, FailureTold, ThreadsSound
<1> QED BY <1>1, <1>2, <1>3, PTL DEF IoSpec
============================================================================

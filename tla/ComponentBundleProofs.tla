------------------------ MODULE ComponentBundleProofs ------------------------
(***************************************************************************)
(* BundleSound and AtomicSwitch for any number of targets, any generations *)
(* and any number of failures and interruptions: of every behaviour of     *)
(* Step, where no power is lost, and of every behaviour of BundleSpec in   *)
(* which NamesFlushed holds and nobody uninstalls.                         *)
(*                                                                         *)
(* One invariant serves both.  Its parameter, power, tells whether power   *)
(* may be lost; only then does it speak of what the disk holds under a     *)
(* replacement in progress.                                                *)
(***************************************************************************)
EXTENDS ComponentBundle, TLAPS

Target == 1..N
Payload == Gens \cup {Missing}
Contents == [Target -> Payload]

\* Nothing of two generations; a target may be missing.
Uniform(t) == \A i, j \in Target : t[i] = t[j] \/ Missing \in {t[i], t[j]}

Manifests == {m \in [before : Contents, after : {All(g) : g \in Gens}] : Uniform(m.before)}
Markers == Manifests \cup {NoManifest}

\* Every target holds its payload before or after m.
Within(t, m) == \A i \in Target : t[i] \in {m.before[i], m.after[i]}

Controls == {"idle", "recover", "check", "restore", "unmark", "gc", "stage", "mark", "replace",
             "keep", "rollback", "drop", "uninstall", "purge"}
Commands == {"none", "install", "rollback", "recover", "uninstall"}

Images == [t : Contents, pending : Markers, previous : Markers]
Runs == [pc : Controls, op : Commands, gen : Payload, man : Markers, i : 1..(N + 1),
         next : {"none", "done", "fail", "stage", "rollback", "uninstall"}]
Reports == [op : Commands, gen : Payload, man : Markers, ok : BOOLEAN]

\* The files, whatever the process is at.
PayloadsKept ==
  uninstaller # "purge" =>
    /\ Kept(vis.pending) \subseteq blobs /\ Kept(vis.previous) \subseteq blobs
    /\ Kept(dur.pending) \subseteq blobs /\ Kept(dur.previous) \subseteq blobs

\* The installed bundle is one of those that a rollback knows.
RollbackKnows(d, q) == q # NoManifest => Within(BundleIn(d), q)

Undoable ==
  uninstaller = "none" =>
    /\ vis.pending # NoManifest => Within(vis.t, vis.pending)
    /\ RollbackKnows(vis, vis.previous)

\* The same of what a loss of power may bring back.
DiskUndoable ==
  uninstaller = "none" =>
    /\ vis.pending = NoManifest => vis.t = dur.t
    /\ dur.pending # NoManifest => Within(vis.t, dur.pending) /\ Within(dur.t, dur.pending)
    /\ \A d \in {vis, dur} : RollbackKnows(d, vis.previous) /\ RollbackKnows(d, dur.previous)

Installing == run.op = "install" /\ run.next = "done"
RollingBack == run.op = "rollback" /\ run.next = "done"

\* Which command is where.
Course ==
  /\ run.pc # "idle" => run.next # "none" /\ run.op # "none"
  /\ run.op = "install" => run.gen \in Gens
  /\ run.pc \in {"stage", "replace", "keep"} => Installing
  /\ run.pc \in {"rollback", "drop"} => RollingBack
  /\ run.pc = "mark" => Installing \/ RollingBack
  /\ run.pc \in {"uninstall", "purge"} => run.op = "uninstall" /\ uninstaller # "none"
  /\ run.pc = "purge" => uninstaller = "purge"
  /\ run.pc = "recover" /\ run.next = "done" => run.op = "recover"
  /\ run.pc \in {"check", "restore"} => ~Installing
  /\ run.next = "stage" => run.op = "install"
  /\ run.next = "rollback" => run.op = "rollback"
  /\ run.next = "uninstall" => run.op = "uninstall" /\ uninstaller # "none"

\* What the process has read or written of the markers.
Marked ==
  /\ run.pc \in {"check", "restore", "unmark", "replace", "keep"} =>
       run.man # NoManifest /\ run.man = vis.pending
  /\ run.pc \in {"gc", "drop", "stage", "mark", "rollback"} => vis.pending = NoManifest
  /\ run.pc \in {"gc", "drop"} => dur.pending = NoManifest /\ dur.previous = vis.previous
  /\ run.pc = "mark" /\ Installing => run.man \in Manifests /\ run.man.before = vis.t
  /\ run.pc = "mark" /\ RollingBack => run.man \in Manifests /\ run.man = vis.previous
  /\ run.pc = "mark" /\ uninstaller # "purge" => Kept(run.man) \subseteq blobs
  /\ run.pc \in {"mark", "replace", "keep", "unmark"} /\ Installing => run.man.after = All(run.gen)
  /\ run.pc = "unmark" /\ Installing => vis.previous = run.man /\ dur.previous = run.man

Staged(j) == vis.t[j] # Missing => <<j, vis.t[j]>> \in blobs

\* Written for certain: on the disk, or a removal that was not flushed.
Held(j, g) == vis.t[j] = g /\ (dur.t[j] = g \/ g = Missing)
Settled(t) == \A j \in Target : Held(j, t[j])

\* How far the loop over the targets is.
Progress ==
  /\ run.pc = "stage" => \A j \in Target : j < run.i => Staged(j)
  /\ run.pc = "replace" => \A j \in Target : j < run.i => Held(j, run.gen)
  /\ run.pc = "keep" \/ (run.pc \in {"unmark", "gc"} /\ Installing) => Settled(All(run.gen))
  /\ run.pc = "restore" => Within(vis.t, run.man)
  /\ run.pc = "restore" => \A j \in Target : j < run.i => Held(j, run.man.before[j])
  /\ run.pc = "unmark" /\ ~Installing => Settled(run.man.before)
  /\ run.pc \in {"gc", "drop"} /\ RollingBack => run.man # NoManifest /\ Settled(run.man.before)
  /\ run.pc = "uninstall" /\ uninstaller # "helper" =>
       \A j \in Target : j < run.i => vis.t[j] = Missing
  /\ run.pc = "purge" => \A j \in Target : vis.t[j] = Missing

\* What was reported.
Reported ==
  run.pc = "idle" /\ last.ok /\ last.op \in {"install", "rollback"} =>
    /\ vis.pending = NoManifest /\ dur.pending = NoManifest
    /\ last.op = "install" => last.gen \in Gens /\ Settled(All(last.gen))
    /\ last.op = "rollback" => last.man # NoManifest /\ Settled(last.man.before)

Files(power) ==
  /\ vis \in Images /\ dur \in Images
  /\ vis.pending = NoManifest => Uniform(vis.t)
  /\ PayloadsKept
  /\ Undoable
  /\ power => DiskUndoable

Control == run \in Runs /\ last \in Reports /\ Course /\ Marked /\ Progress /\ Reported

BundleInv(power) == Files(power) /\ Control

-----------------------------------------------------------------------------
(* Manifests. *)

\* A manifest names every target, and there is one at least.
LEMMA ManifestNamesTargets ==
  /\ NoManifest \notin Manifests
  /\ Kept(NoManifest) = {}
  /\ \A m \in Manifests : /\ m.before \in Contents /\ m.after \in Contents
                          /\ DOMAIN m.before = Target /\ Uniform(m.before)
                          /\ \E g \in Gens : m.after = All(g)
<1>1. NoManifest.before = <<>> /\ DOMAIN NoManifest.before = {}
  BY DEF NoManifest
<1>2. 1 \in Target
  BY BundleAssumption DEF Target
<1>3. \A m \in Manifests : m.before \in Contents /\ Uniform(m.before)
  BY DEF Manifests
<1>4. \A m \in Manifests : DOMAIN m.before = Target
  BY <1>3 DEF Contents
<1>5. \A m \in Manifests : \E g \in Gens : m.after = All(g)
  BY DEF Manifests
<1>6. \A g \in Gens : All(g) \in Contents
  BY DEF All, Contents, Payload, Target
<1>7. NoManifest \notin Manifests
  BY <1>1, <1>2, <1>4
<1>8. Kept(NoManifest) = {}
  BY <1>1 DEF Kept
<1> QED BY <1>3, <1>4, <1>5, <1>6, <1>7, <1>8

\* A bundle of one generation.
LEMMA AllUniform ==
  ASSUME NEW g \in Payload
  PROVE  All(g) \in Contents /\ Uniform(All(g)) /\ \A i \in Target : All(g)[i] = g
BY DEF All, Contents, Uniform, Target

-----------------------------------------------------------------------------
(* Control: what every way to end or to go on preserves. *)

LEMMA ErrControl ==
  ASSUME Control, Err, UNCHANGED uninstaller
  PROVE  Control'
<1> USE DEF Control
<1>1. CASE Committing
  <2>1. /\ run' = [run EXCEPT !.pc = "recover", !.next = "fail", !.i = 1]
        /\ last' = last /\ run.op = "install"
    BY <1>1 DEF Err, Committing
  <2>2. run' \in Runs /\ last' \in Reports
    <3>1. 1 \in 1..(N + 1)
      BY BundleAssumption
    <3> QED BY <2>1, <3>1 DEF Runs, Controls
  <2>3. run'.pc = "recover" /\ run'.next = "fail" /\ run'.op = "install" /\ run'.gen = run.gen
    BY <2>1 DEF Runs
  <2>4. Course'
    BY <2>1, <2>3 DEF Course, Installing, RollingBack
  <2>5. Marked' /\ Progress' /\ Reported'
    BY <2>3 DEF Marked, Progress, Reported
  <2> QED BY <2>2, <2>4, <2>5
<1>2. CASE ~Committing
  <2>1. run' = Idle /\ last' = [op |-> run.op, gen |-> run.gen, man |-> run.man, ok |-> FALSE]
    BY <1>2 DEF Err, FinishRun, Said
  <2>2. run' \in Runs /\ last' \in Reports
    BY <2>1, BundleAssumption DEF Runs, Reports, Idle, Controls, Commands, Payload, Markers
  <2>3. run'.pc = "idle" /\ run'.next = "none" /\ run'.op = "none" /\ ~last'.ok
    BY <2>1 DEF Idle
  <2>4. Course' /\ Marked' /\ Progress' /\ Reported'
    BY <2>3 DEF Course, Marked, Progress, Reported, Installing, RollingBack
  <2> QED BY <2>2, <2>4
<1> QED BY <1>1, <1>2

LEMMA ContinueControl ==
  ASSUME Control, Continue, run.pc \in {"recover", "gc"}, vis.pending = NoManifest,
         UNCHANGED <<uninstaller, vis, dur>>
  PROVE  Control'
<1> USE DEF Control
<1>0. 1 \in 1..(N + 1) /\ N \in Nat
  BY BundleAssumption
<1>1. CASE run.next \in {"done", "fail"}
  <2>1. /\ run' = Idle
        /\ last' = [op |-> run.op, gen |-> run.gen, man |-> run.man, ok |-> run.next = "done"]
    BY <1>1 DEF Continue, FinishRun, Said
  <2>2. (run.next = "done") \in BOOLEAN
    OBVIOUS
  <2>3. run' \in Runs /\ last' \in Reports
    BY <1>0, <2>1, <2>2 DEF Runs, Reports, Idle, Controls, Commands, Payload, Markers
  <2>4. run'.pc = "idle" /\ run'.next = "none" /\ run'.op = "none"
    BY <2>1 DEF Idle
  <2>5. Course' /\ Marked' /\ Progress'
    BY <2>4 DEF Course, Marked, Progress, Installing, RollingBack
  <2>6. ASSUME last'.ok, last'.op \in {"install", "rollback"}
        PROVE  run.next = "done" /\ run.pc = "gc" /\ dur.pending = NoManifest
    BY <2>1, <2>6 DEF Course, Marked
  <2>7. ASSUME last'.ok, last'.op = "install"
        PROVE  last'.gen \in Gens /\ Settled(All(last.gen))'
    <3>1. Installing /\ run.pc = "gc" /\ last'.gen = run.gen
      BY <2>1, <2>6, <2>7 DEF Installing
    <3>2. run.gen \in Gens /\ Settled(All(run.gen))
      BY <3>1 DEF Course, Progress, Installing
    <3> QED BY <3>1, <3>2 DEF Settled, Held, All
  <2>8. ASSUME last'.ok, last'.op = "rollback"
        PROVE  last'.man # NoManifest /\ Settled(last.man.before)'
    <3>1. RollingBack /\ run.pc = "gc" /\ last'.man = run.man
      BY <2>1, <2>6, <2>8 DEF RollingBack
    <3>2. run.man # NoManifest /\ Settled(run.man.before)
      BY <3>1 DEF Progress
    <3> QED BY <3>1, <3>2 DEF Settled, Held
  <2>9. Reported'
    BY <2>6, <2>7, <2>8 DEF Reported
  <2> QED BY <2>3, <2>5, <2>9
<1>2. CASE run.next \notin {"done", "fail"}
  <2>1. run' = [run EXCEPT !.pc = run.next, !.next = "done", !.i = 1] /\ last' = last
    BY <1>2 DEF Continue
  <2>2. run.next \in {"stage", "rollback", "uninstall"}
    BY <1>2 DEF Runs, Course
  <2>3. run' \in Runs /\ last' \in Reports
    BY <1>0, <2>1, <2>2 DEF Runs, Controls
  <2>4. /\ run'.pc = run.next /\ run'.next = "done" /\ run'.i = 1
        /\ run'.op = run.op /\ run'.gen = run.gen /\ run'.man = run.man
    BY <2>1 DEF Runs
  <2>5. Course'
    BY <2>2, <2>4 DEF Course, Installing, RollingBack
  <2>6. Marked' /\ Reported'
    BY <2>2, <2>4 DEF Marked, Reported
  <2>7. \A j \in Target : ~(j < 1)
    BY <1>0 DEF Target
  <2>8. Progress'
    BY <2>2, <2>4, <2>7 DEF Progress
  <2> QED BY <2>3, <2>5, <2>6, <2>8
<1> QED BY <1>1, <1>2

-----------------------------------------------------------------------------
(* Files: what the operations on them preserve. *)

LEMMA FilesSame ==
  ASSUME NEW power \in BOOLEAN, Files(power), UNCHANGED <<vis, dur, blobs, uninstaller>>
  PROVE  Files(power)' /\ Bundle' = Bundle
BY DEF Files, PayloadsKept, Undoable, DiskUndoable, Bundle

\* A bundle that was written target by target.
LEMMA SettledIs ==
  ASSUME vis \in Images, dur \in Images, NEW x \in Contents, Settled(x)
  PROVE  vis.t = x /\ (NamesFlushed => dur.t = x)
<1>1. vis.t \in Contents /\ dur.t \in Contents
  BY DEF Images
<1>2. \A j \in Target : vis.t[j] = x[j] /\ (dur.t[j] = x[j] \/ x[j] = Missing)
  BY DEF Settled, Held
<1>3. vis.t = x
  BY <1>1, <1>2 DEF Contents
<1>4. NamesFlushed => \A j \in Target : dur.t[j] = x[j]
  BY <1>2 DEF NamesFlushed, Target
<1>5. NamesFlushed => dur.t = x
  BY <1>1, <1>4 DEF Contents
<1> QED BY <1>3, <1>5

\* A target gets the payload that pending.json has for it.
LEMMA FilesTarget ==
  ASSUME NEW power \in BOOLEAN, Files(power), NEW i \in Target, NEW g \in Payload,
         NEW out \in Outcomes, SetTarget(i, g, out), UNCHANGED <<blobs, uninstaller>>,
         vis.pending # NoManifest, g \in {vis.pending.before[i], vis.pending.after[i]},
         power => NamesFlushed
  PROVE  Files(power)' /\ Bundle' = Bundle
<1> USE DEF Files
<1>1. /\ vis' = vis \/ vis' = [vis EXCEPT !.t[i] = g]
      /\ dur' = dur \/ dur' = [dur EXCEPT !.t[i] = g]
  BY DEF SetTarget
<1>2. /\ vis' \in Images /\ vis'.pending = vis.pending /\ vis'.previous = vis.previous
      /\ \A j \in Target : vis'.t[j] = vis.t[j] \/ (j = i /\ vis'.t[j] = g)
  BY <1>1 DEF Images, Contents
<1>3. /\ dur' \in Images /\ dur'.pending = dur.pending /\ dur'.previous = dur.previous
      /\ \A j \in Target : dur'.t[j] = dur.t[j] \/ (j = i /\ dur'.t[j] = g)
  BY <1>1 DEF Images, Contents
<1>4. /\ Within(vis.t, vis.pending) => Within(vis'.t, vis.pending)
      /\ Within(dur.t, vis.pending) => Within(dur'.t, vis.pending)
  BY <1>2, <1>3 DEF Within
<1>5. BundleIn(vis') = BundleIn(vis) /\ (power => BundleIn(dur') = BundleIn(dur))
  BY <1>2, <1>3 DEF BundleIn, NamesFlushed
<1>6. PayloadsKept'
  BY <1>2, <1>3 DEF PayloadsKept
<1>7. Undoable'
  BY <1>2, <1>4, <1>5 DEF Undoable, RollbackKnows
<1>8. power => DiskUndoable'
  BY <1>2, <1>3, <1>4, <1>5 DEF DiskUndoable, RollbackKnows, NamesFlushed
<1> QED BY <1>2, <1>3, <1>5, <1>6, <1>7, <1>8 DEF Bundle

-----------------------------------------------------------------------------
(* The steps that touch no file. *)

LEMMA StartStep ==
  ASSUME NEW power \in BOOLEAN, BundleInv(power),
         NEW op \in {"install", "rollback", "recover", "uninstall"}, NEW g \in Gens, Start(op, g)
  PROVE  BundleInv(power)' /\ Bundle' = Bundle
<1> USE DEF BundleInv
<1>0. 1 \in 1..(N + 1)
  BY BundleAssumption
<1>1. Files(power)' /\ Bundle' = Bundle
  BY FilesSame DEF Start
<1> DEFINE then == [install |-> "stage", rollback |-> "rollback", recover |-> "done",
                    uninstall |-> "uninstall"][op]
           next == IF EntryOf(op) = "recover" THEN then ELSE "done"
<1>2. /\ op = "install" => then = "stage"
      /\ op = "rollback" => then = "rollback"
      /\ op = "recover" => then = "done"
      /\ op = "uninstall" => then = "uninstall"
  OBVIOUS
<1>21. run' = [Idle EXCEPT !.pc = EntryOf(op), !.op = op,
                           !.gen = IF op = "install" THEN g ELSE Missing, !.next = next]
  BY DEF Start
<1> HIDE DEF then
<1>3. /\ next \in {"done", "stage", "rollback", "uninstall"}
      /\ next = "stage" => op = "install"
      /\ next = "rollback" => op = "rollback"
      /\ next = "uninstall" => op = "uninstall"
      /\ next = "done" /\ EntryOf(op) = "recover" => op = "recover"
  BY <1>2
<1> HIDE DEF next
<1>4. /\ EntryOf(op) \in {"recover", "uninstall"}
      /\ EntryOf(op) = "uninstall" => op = "uninstall"
  BY DEF EntryOf
<1>5. run' = [pc |-> EntryOf(op), op |-> op, gen |-> IF op = "install" THEN g ELSE Missing,
              man |-> NoManifest, i |-> 1, next |-> next]
  BY <1>21 DEF Idle
<1>6. run' \in Runs
  BY <1>0, <1>3, <1>4, <1>5 DEF Runs, Controls, Commands, Payload, Markers
<1>7. last' = last /\ uninstaller' = uninstaller /\ (op = "uninstall" => uninstaller # "none")
  BY DEF Start
<1>8. /\ run'.pc = EntryOf(op) /\ run'.op = op /\ run'.next = next
      /\ op = "install" => run'.gen = g
  BY <1>5
<1>9. Course'
  BY <1>3, <1>4, <1>7, <1>8 DEF Course, Installing, RollingBack
<1>10. Marked' /\ Reported' /\ run'.i = 1 /\ \A j \in Target : ~(j < 1)
  BY <1>4, <1>5, <1>8 DEF Marked, Reported, Target
<1>11. Progress'
  BY <1>4, <1>8, <1>10 DEF Progress
<1> QED BY <1>1, <1>6, <1>7, <1>9, <1>10, <1>11 DEF Control

LEMMA RecoverStep ==
  ASSUME NEW power \in BOOLEAN, BundleInv(power), Recover
  PROVE  BundleInv(power)' /\ Bundle' = Bundle
<1> USE DEF BundleInv
<1>1. Files(power)' /\ Bundle' = Bundle
  BY FilesSame DEF Recover
<1>2. CASE vis.pending = NoManifest
  <2>1. Continue /\ run.pc = "recover" /\ UNCHANGED <<uninstaller, vis, dur>>
    BY <1>2 DEF Recover
  <2> QED BY <1>1, <1>2, <2>1, ContinueControl
<1>3. CASE vis.pending # NoManifest
  <2>1. /\ run' = [run EXCEPT !.pc = "check", !.man = vis.pending] /\ last' = last
        /\ run.pc = "recover" /\ UNCHANGED <<uninstaller, vis, dur>>
    BY <1>3 DEF Recover
  <2>2. run \in Runs /\ last' \in Reports /\ vis.pending \in Markers
    BY <2>1 DEF Control, Files, Images
  <2>3. run' \in Runs
    BY <2>1, <2>2 DEF Runs, Controls
  <2>4. /\ run'.pc = "check" /\ run'.man = vis.pending /\ run'.op = run.op
        /\ run'.next = run.next /\ run'.gen = run.gen
    BY <2>1, <2>2 DEF Runs
  <2>5. Course'
    BY <2>1, <2>4 DEF Control, Course, Installing, RollingBack
  <2>6. Marked' /\ Progress' /\ Reported'
    BY <1>3, <2>1, <2>4 DEF Marked, Progress, Reported
  <2> QED BY <1>1, <2>2, <2>3, <2>5, <2>6 DEF Control
<1> QED BY <1>2, <1>3

LEMMA RestoreChecksStep ==
  ASSUME NEW power \in BOOLEAN, BundleInv(power), RestoreChecks
  PROVE  BundleInv(power)' /\ Bundle' = Bundle
<1> USE DEF BundleInv
<1>0. 1 \in 1..(N + 1) /\ \A j \in Target : ~(j < 1)
  BY BundleAssumption DEF Target
<1>1. Files(power)' /\ Bundle' = Bundle
  BY FilesSame DEF RestoreChecks
<1>2. CASE ~Restorable(run.man)
  BY <1>1, <1>2, ErrControl DEF RestoreChecks
<1>3. CASE Restorable(run.man)
  <2>1. /\ run' = [run EXCEPT !.pc = "restore", !.i = 1] /\ last' = last
        /\ run.pc = "check" /\ UNCHANGED <<uninstaller, vis, dur>>
    BY <1>3 DEF RestoreChecks, Goto
  <2>2. run \in Runs /\ last' \in Reports
    BY <2>1 DEF Control
  <2>3. run' \in Runs
    BY <1>0, <2>1, <2>2 DEF Runs, Controls
  <2>4. /\ run'.pc = "restore" /\ run'.man = run.man /\ run'.op = run.op
        /\ run'.next = run.next /\ run'.gen = run.gen /\ run'.i = 1
    BY <2>1, <2>2 DEF Runs
  <2>5. Course' /\ Marked' /\ Reported'
    BY <2>1, <2>4 DEF Control, Course, Marked, Reported, Installing, RollingBack
  <2>6. run.man \in Manifests
    BY <2>1, <2>2 DEF Control, Marked, Runs, Markers
  <2>7. Within(vis.t, run.man)
    BY <1>3, <2>6, ManifestNamesTargets DEF Restorable, Within
  <2>8. Progress'
    BY <1>0, <2>1, <2>4, <2>7 DEF Progress
  <2> QED BY <1>1, <2>2, <2>3, <2>5, <2>8 DEF Control
<1> QED BY <1>2, <1>3

LEMMA RollbackStep ==
  ASSUME NEW power \in BOOLEAN, BundleInv(power), Rollback
  PROVE  BundleInv(power)' /\ Bundle' = Bundle
<1> USE DEF BundleInv
<1>1. Files(power)' /\ Bundle' = Bundle
  BY FilesSame DEF Rollback
<1>2. CASE vis.previous = NoManifest
  BY <1>1, <1>2, ErrControl DEF Rollback
<1>3. CASE vis.previous # NoManifest
  <2>1. /\ run' = [run EXCEPT !.pc = "mark", !.man = vis.previous] /\ last' = last
        /\ run.pc = "rollback" /\ UNCHANGED <<uninstaller, vis, dur, blobs>>
    BY <1>3 DEF Rollback
  <2>2. run \in Runs /\ last' \in Reports /\ vis.previous \in Manifests
    BY <1>3, <2>1 DEF Control, Files, Images, Markers
  <2>3. run' \in Runs
    BY <2>1, <2>2 DEF Runs, Controls, Markers
  <2>4. /\ run'.pc = "mark" /\ run'.man = vis.previous /\ run'.op = run.op
        /\ run'.next = run.next /\ run'.gen = run.gen
    BY <2>1, <2>2 DEF Runs
  <2>5. Course'
    BY <2>1, <2>4 DEF Control, Course, Installing, RollingBack
  <2>6. RollingBack /\ (uninstaller # "purge" => Kept(vis.previous) \subseteq blobs)
    BY <2>1 DEF Control, Course, Files, PayloadsKept
  <2>7. Marked'
    BY <2>1, <2>2, <2>4, <2>6 DEF Control, Marked, Installing, RollingBack
  <2>8. Progress' /\ Reported'
    BY <2>4 DEF Progress, Reported
  <2> QED BY <1>1, <2>2, <2>3, <2>5, <2>7, <2>8 DEF Control
<1> QED BY <1>2, <1>3

LEMMA KilledStep ==
  ASSUME NEW power \in BOOLEAN, BundleInv(power), Killed
  PROVE  BundleInv(power)' /\ Bundle' = Bundle
<1> USE DEF BundleInv
<1>0. 1 \in 1..(N + 1)
  BY BundleAssumption
<1>1. Files(power)' /\ Bundle' = Bundle
  BY FilesSame DEF Killed
<1>2. /\ run' = Idle
      /\ last' = [op |-> "none", gen |-> run.gen, man |-> run.man, ok |-> FALSE]
  BY DEF Killed, Said
<1>3. run' \in Runs /\ last' \in Reports
  BY <1>0, <1>2 DEF Control, Runs, Reports, Idle, Controls, Commands, Payload, Markers
<1>4. run'.pc = "idle" /\ run'.next = "none" /\ run'.op = "none" /\ ~last'.ok
  BY <1>2 DEF Idle
<1>5. Course' /\ Marked' /\ Progress' /\ Reported'
  BY <1>4 DEF Course, Marked, Progress, Reported, Installing, RollingBack
<1> QED BY <1>1, <1>3, <1>5 DEF Control

-----------------------------------------------------------------------------
(* The loops over the targets. *)

\* The loop goes on to the next target.
LEMMA NextTarget ==
  ASSUME run \in Runs, ~Past(run.i), run' = [run EXCEPT !.i = @ + 1]
  PROVE  /\ run' \in Runs /\ run'.i = run.i + 1 /\ run'.pc = run.pc /\ run'.op = run.op
         /\ run'.gen = run.gen /\ run'.man = run.man /\ run'.next = run.next
         /\ \A j \in Target : j < run.i + 1 => j < run.i \/ j = run.i
<1>1. run.i \in 1..(N + 1) /\ ~(run.i > N) /\ N \in Nat
  BY BundleAssumption DEF Runs, Past
<1>2. run.i + 1 \in 1..(N + 1)
  BY <1>1
<1>3. \A j \in Target : j < run.i + 1 => j < run.i \/ j = run.i
  BY <1>1 DEF Target
<1> QED BY <1>2, <1>3 DEF Runs

LEMMA LoopIndex ==
  ASSUME run \in Runs
  PROVE  /\ ~Past(run.i) => run.i \in Target
         /\ Past(run.i) => \A j \in Target : j < run.i
         /\ 1 \in 1..(N + 1)
         /\ \A j \in Target : ~(j < 1)
<1>1. run.i \in 1..(N + 1) /\ N \in Nat
  BY BundleAssumption DEF Runs
<1> QED BY <1>1 DEF Past, Target

\* A target is written, and the others stay as they were.
LEMMA TargetWritten ==
  ASSUME vis \in Images, dur \in Images, NEW i \in Target, NEW g, SetTarget(i, g, "ok")
  PROVE  /\ vis'.t[i] = g /\ dur'.t[i] = g /\ vis'.pending = vis.pending
         /\ \A j \in Target : j # i => vis'.t[j] = vis.t[j] /\ dur'.t[j] = dur.t[j]
<1>1. vis' = [vis EXCEPT !.t[i] = g] /\ dur' = [dur EXCEPT !.t[i] = g]
  BY DEF SetTarget
<1>2. /\ vis'.t = [vis.t EXCEPT ![i] = g] /\ dur'.t = [dur.t EXCEPT ![i] = g]
      /\ vis'.pending = vis.pending
  BY <1>1 DEF Images
<1> QED BY <1>2 DEF Images, Contents

LEMMA RestoreStep ==
  ASSUME NEW power \in BOOLEAN, BundleInv(power), power => NamesFlushed,
         NEW out \in Outcomes, Restore(out)
  PROVE  BundleInv(power)' /\ Bundle' = Bundle
<1> USE DEF BundleInv
<1>1. /\ run \in Runs /\ last \in Reports /\ run.pc = "restore" /\ ~Installing
      /\ vis \in Images /\ dur \in Images /\ uninstaller' = uninstaller /\ blobs' = blobs
      /\ run.man # NoManifest /\ run.man = vis.pending /\ Within(vis.t, run.man)
      /\ \A j \in Target : j < run.i => Held(j, run.man.before[j])
  BY DEF Restore, Control, Course, Marked, Progress, Files
<1>2. run.man \in Manifests
  BY <1>1 DEF Runs, Markers
<1>3. run.man.before \in Contents
  BY <1>2, ManifestNamesTargets
<1>4. CASE Past(run.i)
  <2>1. /\ run' = [run EXCEPT !.pc = "unmark", !.i = 1] /\ last' = last /\ UNCHANGED <<vis, dur>>
    BY <1>4 DEF Restore, Goto
  <2>2. run' \in Runs
    BY <1>1, <2>1, LoopIndex DEF Runs, Controls
  <2>3. /\ run'.pc = "unmark" /\ run'.man = run.man /\ run'.op = run.op
        /\ run'.next = run.next /\ run'.gen = run.gen
    BY <1>1, <2>1 DEF Runs
  <2>4. Course' /\ Marked' /\ Reported'
    BY <1>1, <2>1, <2>3 DEF Control, Course, Marked, Reported, Installing, RollingBack
  <2>5. Settled(run.man.before)
    BY <1>1, <1>4, LoopIndex DEF Settled
  <2>6. Settled(run.man.before)'
    BY <2>1, <2>3, <2>5 DEF Settled, Held
  <2>7. Progress'
    BY <1>1, <2>3, <2>6 DEF Progress, Installing
  <2>8. Files(power)' /\ Bundle' = Bundle
    BY <1>1, <2>1, FilesSame
  <2> QED BY <1>1, <2>1, <2>2, <2>4, <2>7, <2>8 DEF Control
<1>5. CASE ~Past(run.i)
  <2>1. run.i \in Target
    BY <1>1, <1>5, LoopIndex
  <2>2. \/ out = "ok" /\ UNCHANGED <<vis, dur>> /\ NothingToRemove
        \/ SetTarget(run.i, run.man.before[run.i], out)
    BY <1>5 DEF Restore
  <2>3. run.man.before[run.i] \in Payload
    BY <1>3, <2>1 DEF Contents
  <2>4. Files(power)' /\ Bundle' = Bundle
    BY <1>1, <2>1, <2>2, <2>3, FilesSame, FilesTarget
  <2>5. CASE Failed(out)
    <3>1. Err
      BY <1>5, <2>5 DEF Restore
    <3> QED BY <1>1, <2>4, <3>1, ErrControl
  <2>6. CASE ~Failed(out)
    <3>1. out = "ok" /\ run' = [run EXCEPT !.i = @ + 1] /\ last' = last
      BY <1>5, <2>6 DEF Restore, Failed
    <3>2. /\ run' \in Runs /\ run'.i = run.i + 1 /\ run'.pc = run.pc /\ run'.op = run.op
          /\ run'.gen = run.gen /\ run'.man = run.man /\ run'.next = run.next
          /\ \A j \in Target : j < run.i + 1 => j < run.i \/ j = run.i
      BY <1>1, <1>5, <3>1, NextTarget
    <3>3. \A j \in Target : run.man.before[j] \in Payload
      BY <1>3 DEF Contents
    <3>4. \A j \in Target : j < run.i + 1 => Held(j, run.man.before[j])'
      <4>1. CASE UNCHANGED <<vis, dur>> /\ NothingToRemove
        BY <1>1, <2>1, <3>2, <4>1 DEF NothingToRemove, Held
      <4>2. CASE SetTarget(run.i, run.man.before[run.i], "ok")
        <5>1. /\ vis'.t[run.i] = run.man.before[run.i] /\ dur'.t[run.i] = run.man.before[run.i]
              /\ \A j \in Target : j # run.i => vis'.t[j] = vis.t[j] /\ dur'.t[j] = dur.t[j]
          BY <1>1, <2>1, <4>2, TargetWritten
        <5> QED BY <1>1, <3>2, <5>1 DEF Held
      <4> QED BY <2>2, <3>1, <4>1, <4>2
    <3>5. vis'.pending = vis.pending
      BY <1>1, <2>2 DEF SetTarget, Images
    <3>6. Within(vis'.t, run.man)
      <4>1. CASE UNCHANGED <<vis, dur>>
        BY <1>1, <4>1
      <4>2. CASE SetTarget(run.i, run.man.before[run.i], "ok")
        <5>1. \A j \in Target : vis'.t[j] \in {vis.t[j], run.man.before[j]}
          BY <1>1, <2>1, <4>2 DEF SetTarget, Images, Contents
        <5> QED BY <1>1, <5>1 DEF Within
      <4> QED BY <2>2, <3>1, <4>1, <4>2
    <3>7. Course' /\ Marked' /\ Reported'
      BY <1>1, <3>1, <3>2, <3>5 DEF Control, Course, Marked, Reported, Installing, RollingBack
    <3>8. Progress'
      BY <1>1, <3>2, <3>4, <3>6 DEF Progress
    <3> QED BY <1>1, <2>4, <3>1, <3>2, <3>7, <3>8 DEF Control
  <2> QED BY <2>5, <2>6
<1> QED BY <1>4, <1>5

LEMMA ReplaceStep ==
  ASSUME NEW power \in BOOLEAN, BundleInv(power), power => NamesFlushed,
         NEW out \in Outcomes, Replace(out)
  PROVE  BundleInv(power)' /\ Bundle' = Bundle
<1> USE DEF BundleInv
<1>1. /\ run \in Runs /\ last \in Reports /\ run.pc = "replace" /\ Installing
      /\ vis \in Images /\ dur \in Images /\ uninstaller' = uninstaller /\ blobs' = blobs
      /\ run.man # NoManifest /\ run.man = vis.pending /\ run.man.after = All(run.gen)
      /\ run.gen \in Gens /\ \A j \in Target : j < run.i => Held(j, run.gen)
  BY DEF Replace, Control, Course, Marked, Progress, Files, Installing
<1>2. run.gen \in Payload /\ \A j \in Target : All(run.gen)[j] = run.gen
  BY <1>1, AllUniform DEF Payload
<1>3. CASE Past(run.i)
  <2>1. /\ run' = [run EXCEPT !.pc = "keep", !.i = 1] /\ last' = last /\ UNCHANGED <<vis, dur>>
    BY <1>3 DEF Replace, Goto
  <2>2. run' \in Runs
    BY <1>1, <2>1, LoopIndex DEF Runs, Controls
  <2>3. /\ run'.pc = "keep" /\ run'.man = run.man /\ run'.op = run.op
        /\ run'.next = run.next /\ run'.gen = run.gen
    BY <1>1, <2>1 DEF Runs
  <2>4. Course' /\ Marked' /\ Reported'
    BY <1>1, <2>1, <2>3 DEF Control, Course, Marked, Reported, Installing, RollingBack
  <2>5. \A j \in Target : Held(j, All(run.gen)[j])
    BY <1>1, <1>2, <1>3, LoopIndex
  <2>6. Settled(All(run.gen))'
    BY <2>1, <2>3, <2>5, ZenonT(60) DEF Settled, Held, All
  <2>7. Progress'
    BY <2>3, <2>6 DEF Progress, Installing
  <2>8. Files(power)' /\ Bundle' = Bundle
    BY <1>1, <2>1, FilesSame
  <2> QED BY <1>1, <2>1, <2>2, <2>4, <2>7, <2>8 DEF Control
<1>4. CASE ~Past(run.i)
  <2>1. run.i \in Target
    BY <1>1, <1>4, LoopIndex
  <2>2. SetTarget(run.i, run.gen, out)
    BY <1>4 DEF Replace
  <2>3. run.gen = vis.pending.after[run.i]
    BY <1>1, <1>2, <2>1
  <2>4. Files(power)' /\ Bundle' = Bundle
    BY <1>1, <1>2, <2>1, <2>2, <2>3, FilesTarget
  <2>5. CASE Failed(out)
    <3>1. Err
      BY <1>4, <2>5 DEF Replace
    <3> QED BY <1>1, <2>4, <3>1, ErrControl
  <2>6. CASE ~Failed(out)
    <3>1. out = "ok" /\ run' = [run EXCEPT !.i = @ + 1] /\ last' = last
      BY <1>4, <2>6 DEF Replace, Failed
    <3>2. /\ run' \in Runs /\ run'.i = run.i + 1 /\ run'.pc = run.pc /\ run'.op = run.op
          /\ run'.gen = run.gen /\ run'.man = run.man /\ run'.next = run.next
          /\ \A j \in Target : j < run.i + 1 => j < run.i \/ j = run.i
      BY <1>1, <1>4, <3>1, NextTarget
    <3>3. /\ vis'.t[run.i] = run.gen /\ dur'.t[run.i] = run.gen /\ vis'.pending = vis.pending
          /\ \A j \in Target : j # run.i => vis'.t[j] = vis.t[j] /\ dur'.t[j] = dur.t[j]
      BY <1>1, <2>1, <2>2, <3>1, TargetWritten
    <3>4. \A j \in Target : j < run.i + 1 => Held(j, run.gen)'
      BY <1>1, <3>2, <3>3 DEF Held
    <3>5. Course' /\ Marked' /\ Reported'
      BY <1>1, <3>1, <3>2, <3>3 DEF Control, Course, Marked, Reported, Installing, RollingBack
    <3>6. Progress'
      BY <1>1, <3>2, <3>4 DEF Progress
    <3> QED BY <1>1, <2>4, <3>1, <3>2, <3>5, <3>6 DEF Control
  <2> QED BY <2>5, <2>6
<1> QED BY <1>3, <1>4

LEMMA UninstallStep ==
  ASSUME NEW power \in BOOLEAN, BundleInv(power), NEW gone \in BOOLEAN, UninstallOne(gone)
  PROVE  BundleInv(power)' /\ run.op = "uninstall"
<1> USE DEF BundleInv
<1>1. /\ run \in Runs /\ last \in Reports /\ run.pc = "uninstall" /\ run.op = "uninstall"
      /\ vis \in Images /\ dur \in Images /\ uninstaller # "none"
      /\ uninstaller' = uninstaller /\ blobs' = blobs
  BY DEF UninstallOne, Control, Course, Files
<1>2. CASE Past(run.i) /\ FinishRun(TRUE)
  <2>1. /\ run' = Idle /\ UNCHANGED <<vis, dur>>
        /\ last' = [op |-> run.op, gen |-> run.gen, man |-> run.man, ok |-> TRUE]
    BY <1>2 DEF UninstallOne, FinishRun, Said
  <2>2. run' \in Runs /\ last' \in Reports
    BY <1>1, <2>1, LoopIndex DEF Runs, Reports, Idle, Controls, Commands, Payload, Markers
  <2>3. run'.pc = "idle" /\ run'.next = "none" /\ run'.op = "none" /\ last'.op = "uninstall"
    BY <1>1, <2>1 DEF Idle
  <2>4. Course' /\ Marked' /\ Progress' /\ Reported'
    BY <2>3 DEF Course, Marked, Progress, Reported, Installing, RollingBack
  <2> QED BY <1>1, <2>1, <2>2, <2>4, FilesSame DEF Control
<1>3. CASE Past(run.i) /\ uninstaller = "purge" /\ Goto("purge")
  <2>1. run' = [run EXCEPT !.pc = "purge", !.i = 1] /\ UNCHANGED <<vis, dur, last>>
    BY <1>3 DEF UninstallOne, Goto
  <2>2. run' \in Runs /\ run'.pc = "purge" /\ run'.op = run.op /\ run'.next = run.next
    BY <1>1, <2>1, LoopIndex DEF Runs, Controls
  <2>3. \A j \in Target : vis.t[j] = Missing
    BY <1>1, <1>3, LoopIndex, BundleAssumption DEF Control, Progress, Past, Target
  <2>4. Course'
    BY <1>1, <1>3, <2>1, <2>2 DEF Control, Course, Installing, RollingBack
  <2>5. Marked' /\ Progress' /\ Reported'
    BY <2>1, <2>2, <2>3 DEF Marked, Progress, Reported, Installing, RollingBack
  <2> QED BY <1>1, <2>1, <2>2, <2>4, <2>5, FilesSame DEF Control
<1>4. CASE ~Past(run.i)
  <2>1. run.i \in Target
    BY <1>1, <1>4, LoopIndex
  <2>2. /\ vis' = (IF gone THEN [vis EXCEPT !.t[run.i] = Missing] ELSE vis) /\ dur' = dur
        /\ IF gone \/ (uninstaller = "helper" /\ run.i < N)
           THEN run' = [run EXCEPT !.i = @ + 1] /\ UNCHANGED last ELSE Err
    BY <1>4 DEF UninstallOne, SetTarget
  <2>3. /\ vis' \in Images /\ vis'.pending = vis.pending /\ vis'.previous = vis.previous
        /\ \A j \in Target : vis'.t[j] \in {vis.t[j], Missing}
        /\ gone => vis'.t[run.i] = Missing
    BY <1>1, <2>1, <2>2 DEF Images, Contents, Payload
  <2>4. Uniform(vis.t) => Uniform(vis'.t)
    BY <2>3 DEF Uniform
  <2>5. Files(power)'
    BY <1>1, <2>2, <2>3, <2>4 DEF Files, PayloadsKept, Undoable, DiskUndoable
  <2>6. CASE Err
    BY <1>1, <2>5, <2>6, ErrControl
  <2>7. CASE ~Err
    <3>1. run' = [run EXCEPT !.i = @ + 1] /\ last' = last /\ (gone \/ uninstaller = "helper")
      BY <2>2, <2>7
    <3>2. /\ run' \in Runs /\ run'.pc = run.pc /\ run'.op = run.op /\ run'.i = run.i + 1
          /\ run'.gen = run.gen /\ run'.man = run.man /\ run'.next = run.next
          /\ \A j \in Target : j < run.i + 1 => j < run.i \/ j = run.i
      BY <1>1, <1>4, <3>1, NextTarget
    <3>3. Course' /\ Marked' /\ Reported'
      BY <1>1, <3>2 DEF Control, Course, Marked, Reported, Installing, RollingBack
    <3>4. ASSUME uninstaller # "helper", NEW j \in Target, j < run.i + 1
          PROVE  vis'.t[j] = Missing
      BY <1>1, <2>3, <3>1, <3>2, <3>4 DEF Control, Progress
    <3>5. Progress'
      BY <1>1, <3>2, <3>4 DEF Progress, Installing, RollingBack
    <3> QED BY <1>1, <2>5, <3>1, <3>2, <3>3, <3>5 DEF Control
  <2> QED BY <2>6, <2>7
<1> QED BY <1>1, <1>2, <1>3, <1>4 DEF UninstallOne

\* A purge comes after the last target: there is nothing left to mix.
LEMMA PurgeOneStep ==
  ASSUME NEW power \in BOOLEAN, BundleInv(power), PurgeOne
  PROVE  BundleInv(power)' /\ run.op = "uninstall"
<1> USE DEF BundleInv
<1>1. /\ run.pc = "purge" /\ run.op = "uninstall" /\ uninstaller = "purge"
      /\ run \in Runs /\ last \in Reports /\ vis \in Images /\ dur \in Images
      /\ UNCHANGED <<uninstaller, dur, run, last>>
      /\ \A j \in Target : vis.t[j] = Missing
  BY DEF PurgeOne, Control, Course, Progress, Files
<1>2. vis' \in Images /\ vis'.t = vis.t
  BY <1>1 DEF PurgeOne, Images, Markers
<1>3. Uniform(vis'.t)
  BY <1>1, <1>2 DEF Uniform
<1>4. Files(power)'
  BY <1>1, <1>2, <1>3 DEF Files, PayloadsKept, Undoable, DiskUndoable
<1>5. Course' /\ Marked' /\ Progress' /\ Reported'
  BY <1>1, <1>2 DEF Control, Course, Marked, Progress, Reported, Installing, RollingBack
<1> QED BY <1>1, <1>4, <1>5 DEF Control

LEMMA PurgeEndsStep ==
  ASSUME NEW power \in BOOLEAN, BundleInv(power), NEW ok \in BOOLEAN, PurgeEnds(ok)
  PROVE  BundleInv(power)' /\ run.op = "uninstall"
<1> USE DEF BundleInv
<1>1. /\ run.op = "uninstall" /\ run \in Runs /\ last \in Reports
      /\ run' = Idle /\ UNCHANGED <<vis, dur, blobs, uninstaller>>
      /\ last' = [op |-> run.op, gen |-> run.gen, man |-> run.man, ok |-> ok]
  BY DEF PurgeEnds, FinishRun, Said, Control, Course
<1>2. run' \in Runs /\ last' \in Reports
  BY <1>1, LoopIndex DEF Runs, Reports, Idle, Controls, Commands, Payload, Markers
<1>3. run'.pc = "idle" /\ run'.next = "none" /\ run'.op = "none" /\ last'.op = "uninstall"
  BY <1>1 DEF Idle
<1>4. Course' /\ Marked' /\ Progress' /\ Reported'
  BY <1>3 DEF Course, Marked, Progress, Reported, Installing, RollingBack
<1> QED BY <1>1, <1>2, <1>4, FilesSame DEF Control

-----------------------------------------------------------------------------
(* The markers. *)

\* pending.json is written or removed.
LEMMA PendingSet ==
  ASSUME vis \in Images, dur \in Images, NEW x \in Markers, NEW out \in Outcomes,
         SetMarker([vis EXCEPT !.pending = x], out)
  PROVE  /\ vis' \in Images /\ dur' \in Images
         /\ vis'.t = vis.t /\ dur'.t = dur.t /\ vis'.previous = vis.previous
         /\ vis'.pending = IF out = "lost" THEN vis.pending ELSE x
         /\ dur'.pending = IF out = "ok" THEN x ELSE dur.pending
         /\ dur'.previous = IF out = "ok" THEN vis.previous ELSE dur.previous
BY DEF SetMarker, Flushed, Images, Outcomes

\* previous.json is written or removed.
LEMMA PreviousSet ==
  ASSUME vis \in Images, dur \in Images, NEW x \in Markers, NEW out \in Outcomes,
         SetMarker([vis EXCEPT !.previous = x], out)
  PROVE  /\ vis' \in Images /\ dur' \in Images
         /\ vis'.t = vis.t /\ dur'.t = dur.t /\ vis'.pending = vis.pending
         /\ vis'.previous = IF out = "lost" THEN vis.previous ELSE x
         /\ dur'.previous = IF out = "ok" THEN x ELSE dur.previous
         /\ dur'.pending = IF out = "ok" THEN vis.pending ELSE dur.pending
BY DEF SetMarker, Flushed, Images, Outcomes

\* A manifest admits the payloads before it, and those after it.
LEMMA WithinEnds ==
  ASSUME NEW m \in Manifests
  PROVE  Within(m.before, m) /\ Within(m.after, m)
BY DEF Within

LEMMA MarkStep ==
  ASSUME NEW power \in BOOLEAN, BundleInv(power), power => NamesFlushed /\ NamesFlushed',
         NEW out \in Outcomes, Mark(out)
  PROVE  BundleInv(power)' /\ SwitchesWhole
<1> USE DEF BundleInv
<1>1. /\ run \in Runs /\ last \in Reports /\ run.pc = "mark"
      /\ vis \in Images /\ dur \in Images /\ uninstaller' = uninstaller /\ blobs' = blobs
      /\ vis.pending = NoManifest /\ run.man \in Manifests
      /\ uninstaller # "purge" => Kept(run.man) \subseteq blobs
      /\ Installing => run.man.before = vis.t /\ run.man.after = All(run.gen)
      /\ RollingBack => run.man = vis.previous
      /\ Installing \/ RollingBack
  BY DEF Mark, Control, Course, Marked, Files
<1>2. run.man \in Markers /\ run.man # NoManifest
  BY <1>1, ManifestNamesTargets DEF Markers
<1>3. /\ vis' \in Images /\ dur' \in Images
      /\ vis'.t = vis.t /\ dur'.t = dur.t /\ vis'.previous = vis.previous
      /\ vis'.pending = IF out = "lost" THEN vis.pending ELSE run.man
      /\ dur'.pending = IF out = "ok" THEN run.man ELSE dur.pending
      /\ dur'.previous = IF out = "ok" THEN vis.previous ELSE dur.previous
  BY <1>1, <1>2, PendingSet DEF Mark
<1>4. BundleIn(vis) = vis.t
  BY <1>1 DEF BundleIn
<1>5. \/ Installing /\ BundleIn(vis') = BundleIn(vis)
      \/ RollingBack /\ BundleIn(vis') \in {BundleIn(vis), vis.previous.before}
  BY <1>1, <1>2, <1>3, <1>4 DEF BundleIn
<1>6. SwitchesWhole
  BY <1>5 DEF SwitchesWhole, Bundle, RollingBack
<1>7. PayloadsKept'
  BY <1>1, <1>3 DEF Files, PayloadsKept
<1>8. uninstaller = "none" => Within(vis.t, run.man)
  <2>1. CASE Installing
    BY <1>1, <2>1, WithinEnds
  <2>2. CASE RollingBack
    BY <1>1, <1>2, <1>4, <2>2 DEF Files, Undoable, RollbackKnows
  <2> QED BY <1>1, <2>1, <2>2
<1>9. uninstaller = "none" => RollbackKnows(vis', vis.previous)
  BY <1>1, <1>2, <1>5, WithinEnds DEF Files, Undoable, RollbackKnows
<1>10. Undoable'
  BY <1>1, <1>3, <1>8, <1>9 DEF Undoable
<1>11. ASSUME power, uninstaller = "none"
       PROVE  DiskUndoable'
  <2>1. dur.t = vis.t
    BY <1>1, <1>11 DEF Files, DiskUndoable
  <2>2. CASE out = "lost"
    <3>1. vis'.pending = vis.pending /\ dur'.pending = dur.pending /\ dur'.previous = dur.previous
      BY <1>3, <2>2
    <3>2. BundleIn(vis') = BundleIn(vis) /\ BundleIn(dur') = BundleIn(dur)
      BY <1>3, <3>1 DEF BundleIn
    <3> QED BY <1>3, <1>11, <3>1, <3>2 DEF Files, DiskUndoable, RollbackKnows
  <2>3. CASE out # "lost"
    <3>1. vis'.pending = run.man /\ dur'.pending = run.man
      BY <1>2, <1>3, <1>11, <2>3 DEF NamesFlushed
    <3>2. BundleIn(vis') = run.man.before /\ BundleIn(dur') = run.man.before
      BY <1>2, <3>1 DEF BundleIn
    <3>3. RollbackKnows(vis', vis.previous) /\ RollbackKnows(dur', vis.previous)
      BY <1>9, <1>11, <3>2 DEF RollbackKnows
    <3>4. CASE out = "ok"
      BY <1>2, <1>3, <1>8, <1>11, <2>1, <3>1, <3>3, <3>4 DEF DiskUndoable
    <3>5. CASE out # "ok"
      <4>1. dur.pending = run.man /\ dur'.previous = dur.previous
        BY <1>3, <3>1, <3>5
      <4>2. BundleIn(dur) = run.man.before
        BY <1>2, <4>1 DEF BundleIn
      <4>3. RollbackKnows(vis', dur.previous) /\ RollbackKnows(dur', dur.previous)
        BY <1>11, <3>2, <4>2 DEF Files, DiskUndoable, RollbackKnows
      <4> QED BY <1>2, <1>3, <1>8, <1>11, <2>1, <3>1, <3>3, <4>1, <4>3 DEF DiskUndoable
    <3> QED BY <3>4, <3>5
  <2> QED BY <2>2, <2>3
<1>12. vis'.pending = NoManifest => Uniform(vis'.t)
  BY <1>1, <1>3 DEF Files
<1>13. Files(power)'
  BY <1>1, <1>3, <1>7, <1>10, <1>11, <1>12 DEF Files, DiskUndoable
<1>14. CASE Failed(out)
  <2>1. Err
    BY <1>14 DEF Mark
  <2> QED BY <1>1, <1>6, <1>13, <2>1, ErrControl
<1>15. CASE ~Failed(out)
  <2> DEFINE to == IF run.op = "install" THEN "replace" ELSE "check"
  <2>1. out = "ok" /\ run' = [run EXCEPT !.pc = to, !.i = 1] /\ last' = last
    BY <1>15 DEF Mark, Failed, Goto
  <2>2. to \in Controls
    BY DEF Controls
  <2>3. run' \in Runs
    BY <1>1, <2>1, <2>2, LoopIndex DEF Runs
  <2>4. /\ run'.pc = to /\ run'.man = run.man /\ run'.op = run.op
        /\ run'.next = run.next /\ run'.gen = run.gen /\ run'.i = 1
    BY <1>1, <2>1 DEF Runs
  <2>5. Course'
    BY <1>1, <2>4 DEF Control, Course, Installing, RollingBack
  <2>6. Marked'
    BY <1>1, <1>2, <1>3, <2>1, <2>4 DEF Marked, Installing, RollingBack
  <2>7. Progress' /\ Reported'
    BY <1>1, <2>4, LoopIndex DEF Progress, Reported
  <2> QED BY <1>1, <1>6, <1>13, <2>1, <2>3, <2>5, <2>6, <2>7 DEF Control
<1> QED BY <1>14, <1>15

LEMMA UnmarkStep ==
  ASSUME NEW power \in BOOLEAN, BundleInv(power), power => NamesFlushed,
         NEW out \in Outcomes, Unmark(out)
  PROVE  BundleInv(power)' /\ SwitchesWhole
<1> USE DEF BundleInv
<1>1. /\ run \in Runs /\ last \in Reports /\ run.pc = "unmark"
      /\ vis \in Images /\ dur \in Images /\ uninstaller' = uninstaller /\ blobs' = blobs
      /\ run.man # NoManifest /\ run.man = vis.pending
      /\ Installing => /\ run.man.after = All(run.gen) /\ Settled(All(run.gen))
                       /\ vis.previous = run.man /\ dur.previous = run.man /\ run.gen \in Gens
      /\ ~Installing => Settled(run.man.before)
  BY DEF Unmark, Control, Course, Marked, Progress, Files, Installing
<1>2. run.man \in Manifests /\ NoManifest \in Markers
  BY <1>1 DEF Runs, Markers
<1>3. /\ vis' \in Images /\ dur' \in Images
      /\ vis'.t = vis.t /\ dur'.t = dur.t /\ vis'.previous = vis.previous
      /\ vis'.pending = IF out = "lost" THEN vis.pending ELSE NoManifest
      /\ dur'.pending = IF out = "ok" THEN NoManifest ELSE dur.pending
      /\ dur'.previous = IF out = "ok" THEN vis.previous ELSE dur.previous
  BY <1>1, <1>2, PendingSet DEF Unmark
<1>4. /\ Installing => vis.t = run.man.after /\ Uniform(vis.t) /\ (power => dur.t = vis.t)
      /\ ~Installing => vis.t = run.man.before /\ (power => dur.t = vis.t)
  BY <1>1, <1>2, AllUniform, SettledIs, ManifestNamesTargets DEF Payload
<1>5. Uniform(vis.t) /\ (power => dur.t = vis.t)
  BY <1>2, <1>4, ManifestNamesTargets
<1>6. BundleIn(vis) = run.man.before /\ BundleIn(vis') \in {run.man.before, vis.t}
  BY <1>1, <1>3 DEF BundleIn
<1>7. SwitchesWhole
  BY <1>1, <1>4, <1>6 DEF SwitchesWhole, Bundle, Installing
<1>8. PayloadsKept'
  BY <1>1, <1>3, ManifestNamesTargets DEF Files, PayloadsKept
<1>9. ASSUME uninstaller = "none"
      PROVE  vis.previous # NoManifest => Within(vis.t, vis.previous) /\ Within(run.man.before, vis.previous)
  BY <1>1, <1>2, <1>4, <1>6, <1>9, WithinEnds DEF Files, Undoable, RollbackKnows
<1>10. Undoable'
  BY <1>1, <1>3, <1>6, <1>9 DEF Files, Undoable, RollbackKnows
<1>11. ASSUME power, uninstaller = "none"
       PROVE  DiskUndoable'
  <2>1. dur.pending = run.man /\ dur.t = vis.t
    BY <1>1, <1>5, <1>11 DEF NamesFlushed
  <2>2. dur.previous # NoManifest => Within(vis.t, dur.previous) /\ Within(run.man.before, dur.previous)
    BY <1>1, <1>2, <1>4, <1>6, <1>11, WithinEnds DEF Files, DiskUndoable, RollbackKnows
  <2>3. BundleIn(dur') \in {run.man.before, vis.t}
    BY <1>3, <2>1 DEF BundleIn
  <2>4. /\ RollbackKnows(vis', vis.previous) /\ RollbackKnows(vis', dur.previous)
        /\ RollbackKnows(dur', vis.previous) /\ RollbackKnows(dur', dur.previous)
    BY <1>6, <1>9, <1>11, <2>2, <2>3 DEF RollbackKnows
  <2>5. /\ RollbackKnows(vis', vis'.previous) /\ RollbackKnows(vis', dur'.previous)
        /\ RollbackKnows(dur', vis'.previous) /\ RollbackKnows(dur', dur'.previous)
    BY <1>3, <2>4
  <2>6. dur'.pending # NoManifest => Within(vis'.t, dur'.pending) /\ Within(dur'.t, dur'.pending)
    BY <1>3, <1>11 DEF Files, DiskUndoable
  <2> QED BY <1>3, <2>1, <2>5, <2>6 DEF DiskUndoable
<1>12. Files(power)'
  BY <1>1, <1>3, <1>5, <1>8, <1>10, <1>11 DEF Files, DiskUndoable
<1>13. CASE Failed(out)
  <2>1. Err
    BY <1>13 DEF Unmark
  <2> QED BY <1>1, <1>7, <1>12, <2>1, ErrControl
<1>14. CASE ~Failed(out)
  <2> DEFINE to == IF run.op = "rollback" /\ run.next = "done" THEN "drop" ELSE "gc"
  <2>1. out = "ok" /\ run' = [run EXCEPT !.pc = to, !.i = 1] /\ last' = last
    BY <1>14 DEF Unmark, Failed, Goto
  <2>2. to \in Controls
    BY DEF Controls
  <2>3. run' \in Runs
    BY <1>1, <2>1, <2>2, LoopIndex DEF Runs
  <2>4. /\ run'.pc = to /\ run'.man = run.man /\ run'.op = run.op
        /\ run'.next = run.next /\ run'.gen = run.gen /\ run'.i = 1
    BY <1>1, <2>1 DEF Runs
  <2>5. Course'
    BY <1>1, <2>4 DEF Control, Course, Installing, RollingBack
  <2>6. Marked'
    BY <1>1, <1>3, <2>1, <2>4 DEF Marked, Installing, RollingBack
  <2>7. /\ Installing => Settled(All(run.gen))'
        /\ ~Installing => Settled(run.man.before)'
    <3>1. vis'.t = vis.t /\ dur'.t = dur.t /\ All(run.gen)' = All(run.gen) /\ run'.man = run.man
      BY <1>3, <2>4 DEF All
    <3>2. \A j, g : Held(j, g)' <=> Held(j, g)
      BY <3>1 DEF Held
    <3>3. Installing => Settled(All(run.gen))'
      BY <1>1, <3>1, <3>2 DEF Settled
    <3>4. ~Installing => Settled(run.man.before)'
      BY <1>1, <3>1, <3>2 DEF Settled
    <3> QED BY <3>3, <3>4
  <2>8. Progress' /\ Reported'
    BY <1>1, <2>4, <2>7 DEF Progress, Reported, Installing, RollingBack
  <2> QED BY <1>1, <1>7, <1>12, <2>1, <2>3, <2>5, <2>6, <2>8 DEF Control
<1> QED BY <1>13, <1>14

LEMMA KeepStep ==
  ASSUME NEW power \in BOOLEAN, BundleInv(power), power => NamesFlushed,
         NEW out \in Outcomes, Keep(out)
  PROVE  BundleInv(power)' /\ Bundle' = Bundle
<1> USE DEF BundleInv
<1>1. /\ run \in Runs /\ last \in Reports /\ run.pc = "keep" /\ Installing
      /\ vis \in Images /\ dur \in Images /\ uninstaller' = uninstaller /\ blobs' = blobs
      /\ run.man # NoManifest /\ run.man = vis.pending /\ run.man.after = All(run.gen)
      /\ Settled(All(run.gen))
  BY DEF Keep, Control, Course, Marked, Progress, Files
<1>2. run.man \in Manifests /\ run.man \in Markers
  BY <1>1 DEF Runs, Markers
<1>3. /\ vis' \in Images /\ dur' \in Images
      /\ vis'.t = vis.t /\ dur'.t = dur.t /\ vis'.pending = vis.pending
      /\ vis'.previous = IF out = "lost" THEN vis.previous ELSE run.man
      /\ dur'.previous = IF out = "ok" THEN run.man ELSE dur.previous
      /\ dur'.pending = IF out = "ok" THEN vis.pending ELSE dur.pending
  BY <1>1, <1>2, PreviousSet DEF Keep
<1>4. BundleIn(vis) = run.man.before /\ BundleIn(vis') = run.man.before
  BY <1>1, <1>3 DEF BundleIn
<1>5. PayloadsKept'
  BY <1>1, <1>3 DEF Files, PayloadsKept
<1>6. Within(run.man.before, run.man)
  BY <1>2, WithinEnds
<1>7. Undoable'
  BY <1>1, <1>3, <1>4, <1>6 DEF Files, Undoable, RollbackKnows
<1>8. ASSUME power, uninstaller = "none"
      PROVE  DiskUndoable'
  <2>1. dur.pending = run.man /\ dur'.pending = run.man
    BY <1>1, <1>3, <1>8 DEF NamesFlushed
  <2>2. BundleIn(dur) = run.man.before /\ BundleIn(dur') = run.man.before
    BY <1>1, <2>1 DEF BundleIn
  <2>3. /\ vis.previous # NoManifest => Within(run.man.before, vis.previous)
        /\ dur.previous # NoManifest => Within(run.man.before, dur.previous)
    BY <1>4, <1>8 DEF Files, DiskUndoable, RollbackKnows
  <2>4. /\ RollbackKnows(vis', vis'.previous) /\ RollbackKnows(vis', dur'.previous)
        /\ RollbackKnows(dur', vis'.previous) /\ RollbackKnows(dur', dur'.previous)
    BY <1>3, <1>4, <1>6, <2>2, <2>3 DEF RollbackKnows
  <2>5. Within(vis'.t, run.man) /\ Within(dur'.t, run.man)
    BY <1>1, <1>3, <1>8, <2>1 DEF Files, DiskUndoable
  <2> QED BY <1>1, <1>3, <2>1, <2>4, <2>5 DEF DiskUndoable
<1>9. Files(power)'
  BY <1>1, <1>3, <1>5, <1>7, <1>8 DEF Files, DiskUndoable
<1>10. Bundle' = Bundle
  BY <1>4 DEF Bundle
<1>11. CASE Failed(out)
  <2>1. Err
    BY <1>11 DEF Keep
  <2> QED BY <1>1, <1>9, <1>10, <2>1, ErrControl
<1>12. CASE ~Failed(out)
  <2>1. out = "ok" /\ run' = [run EXCEPT !.pc = "unmark", !.i = 1] /\ last' = last
    BY <1>12 DEF Keep, Failed, Goto
  <2>2. run' \in Runs
    BY <1>1, <2>1, LoopIndex DEF Runs, Controls
  <2>3. /\ run'.pc = "unmark" /\ run'.man = run.man /\ run'.op = run.op
        /\ run'.next = run.next /\ run'.gen = run.gen
    BY <1>1, <2>1 DEF Runs
  <2>4. Course' /\ Marked' /\ Reported'
    BY <1>1, <1>3, <2>1, <2>3 DEF Control, Course, Marked, Reported, Installing, RollingBack
  <2>5. Settled(All(run.gen))'
    BY <1>1, <1>3, <2>3, ZenonT(60) DEF Settled, Held, All
  <2>6. Progress'
    BY <1>1, <2>3, <2>5 DEF Progress, Installing
  <2> QED BY <1>1, <1>9, <1>10, <2>1, <2>2, <2>4, <2>6 DEF Control
<1> QED BY <1>11, <1>12

LEMMA DropStep ==
  ASSUME NEW power \in BOOLEAN, BundleInv(power), NEW out \in Outcomes, DropPrevious(out)
  PROVE  BundleInv(power)' /\ Bundle' = Bundle
<1> USE DEF BundleInv
<1>1. /\ run \in Runs /\ last \in Reports /\ run.pc = "drop" /\ RollingBack
      /\ vis \in Images /\ dur \in Images /\ uninstaller' = uninstaller /\ blobs' = blobs
      /\ vis.pending = NoManifest /\ dur.pending = NoManifest
      /\ run.man # NoManifest /\ Settled(run.man.before)
  BY DEF DropPrevious, Control, Course, Marked, Progress, Files
<1>2. NoManifest \in Markers
  BY DEF Markers
<1>3. /\ vis' \in Images /\ dur' \in Images
      /\ vis'.t = vis.t /\ dur'.t = dur.t /\ vis'.pending = NoManifest
      /\ vis'.previous \in {vis.previous, NoManifest}
      /\ dur'.previous \in {dur.previous, NoManifest}
      /\ dur'.pending = NoManifest
      /\ out = "ok" => vis'.previous = NoManifest /\ dur'.previous = NoManifest
  BY <1>1, <1>2, PreviousSet DEF DropPrevious
<1>4. BundleIn(vis') = BundleIn(vis) /\ BundleIn(dur') = BundleIn(dur)
  BY <1>1, <1>3 DEF BundleIn
<1>5. PayloadsKept'
  BY <1>1, <1>3, ManifestNamesTargets DEF Files, PayloadsKept
<1>6. Undoable'
  BY <1>1, <1>3, <1>4 DEF Files, Undoable, RollbackKnows
<1>7. power => DiskUndoable'
  BY <1>1, <1>3, <1>4 DEF Files, DiskUndoable, RollbackKnows
<1>8. Files(power)'
  BY <1>1, <1>3, <1>5, <1>6, <1>7 DEF Files
<1>9. Bundle' = Bundle
  BY <1>4 DEF Bundle
<1>10. CASE Failed(out)
  <2>1. Err
    BY <1>10 DEF DropPrevious
  <2> QED BY <1>1, <1>8, <1>9, <2>1, ErrControl
<1>11. CASE ~Failed(out)
  <2>1. out = "ok" /\ run' = [run EXCEPT !.pc = "gc", !.i = 1] /\ last' = last
    BY <1>11 DEF DropPrevious, Failed, Goto
  <2>2. run' \in Runs
    BY <1>1, <2>1, LoopIndex DEF Runs, Controls
  <2>3. /\ run'.pc = "gc" /\ run'.man = run.man /\ run'.op = run.op
        /\ run'.next = run.next /\ run'.gen = run.gen
    BY <1>1, <2>1 DEF Runs
  <2>4. Course' /\ Marked' /\ Reported'
    BY <1>1, <1>3, <2>1, <2>3 DEF Control, Course, Marked, Reported, Installing, RollingBack
  <2>5. Settled(run.man.before)'
    BY <1>1, <1>3, <2>3 DEF Settled, Held
  <2>6. Progress'
    BY <1>1, <2>3, <2>5 DEF Progress, Installing, RollingBack
  <2> QED BY <1>1, <1>8, <1>9, <2>1, <2>2, <2>4, <2>6 DEF Control
<1> QED BY <1>10, <1>11

-----------------------------------------------------------------------------
(* The payloads kept by hash. *)

LEMMA GcStep ==
  ASSUME NEW power \in BOOLEAN, BundleInv(power), NEW ok \in BOOLEAN, NEW kept \in SUBSET blobs,
         Gc(ok, kept)
  PROVE  BundleInv(power)' /\ Bundle' = Bundle
<1> USE DEF BundleInv
<1>1. /\ run.pc = "gc" /\ vis.pending = NoManifest /\ dur.pending = NoManifest
      /\ dur.previous = vis.previous /\ UNCHANGED <<uninstaller, vis, dur>>
  BY DEF Gc, Control, Marked
<1>2. Kept(vis.pending) \subseteq Retained /\ Kept(vis.previous) \subseteq Retained
  BY DEF Retained, Named
<1>3. Retained \cap blobs \subseteq blobs'
  BY DEF Gc
<1>4. PayloadsKept'
  BY <1>1, <1>2, <1>3 DEF Files, PayloadsKept
<1>5. Files(power)' /\ Bundle' = Bundle
  BY <1>1, <1>4 DEF Files, Undoable, DiskUndoable, Bundle
<1>6. CASE ok
  <2>1. Continue
    BY <1>6 DEF Gc
  <2> QED BY <1>1, <1>5, <2>1, ContinueControl
<1>7. CASE ~ok
  <2>1. Err
    BY <1>7 DEF Gc
  <2> QED BY <1>1, <1>5, <2>1, ErrControl
<1> QED BY <1>6, <1>7

LEMMA StageStep ==
  ASSUME NEW power \in BOOLEAN, BundleInv(power), NEW ok \in BOOLEAN, Stage(ok)
  PROVE  BundleInv(power)' /\ Bundle' = Bundle
<1> USE DEF BundleInv
<1>1. /\ run \in Runs /\ last \in Reports /\ run.pc = "stage" /\ Installing
      /\ vis \in Images /\ dur \in Images /\ UNCHANGED <<uninstaller, vis>>
      /\ vis.pending = NoManifest /\ Uniform(vis.t) /\ run.gen \in Gens
      /\ \A j \in Target : j < run.i => Staged(j)
  BY DEF Stage, Control, Course, Marked, Progress, Files, Installing
<1>2. vis.t \in Contents /\ vis.previous \in Markers /\ NoManifest \in Markers
  BY <1>1 DEF Images, Markers
<1>3. Bundle' = Bundle
  BY <1>1 DEF Bundle
<1>4. CASE Past(run.i)
  <2> DEFINE m == [before |-> vis.t, after |-> All(run.gen)]
  <2>1. /\ run' = [run EXCEPT !.pc = "mark", !.man = m] /\ last' = last /\ UNCHANGED <<blobs, dur>>
    BY <1>4 DEF Stage
  <2>2. m \in Manifests /\ m \in Markers
    BY <1>1, <1>2 DEF Manifests, Markers
  <2>3. m.before = vis.t /\ m.after = All(run.gen)
    OBVIOUS
  <2> HIDE DEF m
  <2>4. run' \in Runs
    BY <1>1, <2>1, <2>2 DEF Runs, Controls
  <2>5. /\ run'.pc = "mark" /\ run'.man = m /\ run'.op = run.op
        /\ run'.next = run.next /\ run'.gen = run.gen
    BY <1>1, <2>1 DEF Runs
  <2>6. \A j \in Target : Staged(j)
    BY <1>1, <1>4, LoopIndex
  <2>7. Kept(m) \subseteq blobs
    BY <1>2, <2>3, <2>6 DEF Kept, Staged, Contents
  <2>8. Course' /\ Reported' /\ Progress'
    BY <1>1, <2>5 DEF Control, Course, Reported, Progress, Installing, RollingBack
  <2>9. Marked'
    BY <1>1, <2>1, <2>2, <2>3, <2>5, <2>7 DEF Marked, Installing, RollingBack
  <2>10. Files(power)'
    BY <1>1, <2>1, FilesSame
  <2> QED BY <1>1, <1>3, <2>1, <2>4, <2>8, <2>9, <2>10 DEF Control
<1>5. CASE ~Past(run.i) /\ ok
  <2>1. /\ blobs' = blobs \cup {<<run.i, x>> : x \in {vis.t[run.i], run.gen} \ {Missing}}
        /\ dur' = [dur EXCEPT !.pending = vis.pending, !.previous = vis.previous]
        /\ run' = [run EXCEPT !.i = @ + 1] /\ last' = last
    BY <1>5 DEF Stage, Flushed
  <2>2. /\ dur' \in Images /\ dur'.t = dur.t /\ dur'.pending = NoManifest
        /\ dur'.previous = vis.previous
    BY <1>1, <1>2, <2>1 DEF Images
  <2>3. blobs \subseteq blobs'
    BY <2>1
  <2>4. PayloadsKept'
    BY <1>1, <2>2, <2>3, ManifestNamesTargets DEF Files, PayloadsKept
  <2>5. ASSUME power, uninstaller = "none"
        PROVE  DiskUndoable'
    <3>1. dur.t = vis.t
      BY <1>1, <2>5 DEF Files, DiskUndoable
    <3>2. BundleIn(dur') = BundleIn(vis)
      BY <1>1, <2>2, <3>1 DEF BundleIn
    <3> QED BY <1>1, <2>2, <2>5, <3>1, <3>2 DEF Files, DiskUndoable, Undoable, RollbackKnows
  <2>6. Files(power)'
    BY <1>1, <2>2, <2>4, <2>5 DEF Files, Undoable, DiskUndoable
  <2>7. /\ run' \in Runs /\ run'.i = run.i + 1 /\ run'.pc = run.pc /\ run'.op = run.op
        /\ run'.gen = run.gen /\ run'.man = run.man /\ run'.next = run.next
        /\ \A j \in Target : j < run.i + 1 => j < run.i \/ j = run.i
    BY <1>1, <1>5, <2>1, NextTarget
  <2>8. vis.t[run.i] # Missing => <<run.i, vis.t[run.i]>> \in blobs'
    BY <2>1
  <2>9. \A j \in Target : j < run.i + 1 => Staged(j)'
    BY <1>1, <2>3, <2>7, <2>8 DEF Staged
  <2>10. Course' /\ Marked' /\ Reported'
    BY <1>1, <2>2, <2>7 DEF Control, Course, Marked, Reported, Installing, RollingBack
  <2>11. Progress'
    BY <1>1, <2>7, <2>9 DEF Progress
  <2> QED BY <1>1, <1>3, <2>1, <2>6, <2>7, <2>10, <2>11 DEF Control
<1>6. CASE ~Past(run.i) /\ ~ok
  <2>1. Err /\ UNCHANGED <<blobs, dur>>
    BY <1>6 DEF Stage
  <2> QED BY <1>1, <1>3, <2>1, FilesSame, ErrControl
<1> QED BY <1>4, <1>5, <1>6

-----------------------------------------------------------------------------
(* The loss of power. *)

LEMMA PowerStep ==
  ASSUME BundleInv(TRUE), NamesFlushed, uninstaller = "none", PowerFailure
  PROVE  BundleInv(TRUE)' /\ SwitchesWhole
<1> USE DEF BundleInv
<1>1. PICK keep \in [1..N -> BOOLEAN], p \in BOOLEAN, q \in BOOLEAN :
        vis' = [t |-> [i \in 1..N |-> IF keep[i] THEN vis.t[i] ELSE dur.t[i]],
                pending |-> IF p THEN vis.pending ELSE dur.pending,
                previous |-> IF q THEN vis.previous ELSE dur.previous]
  BY DEF PowerFailure
<1>2. vis \in Images /\ dur \in Images /\ DiskUndoable /\ run \in Runs /\ last \in Reports
  BY DEF Files, Control
<1>3. /\ vis'.t = [i \in Target |-> IF keep[i] THEN vis.t[i] ELSE dur.t[i]]
      /\ vis'.pending \in {vis.pending, dur.pending}
      /\ vis'.previous \in {vis.previous, dur.previous}
  BY <1>1 DEF Target
<1>4. /\ vis'.t \in Contents
      /\ \A i \in Target : vis'.t[i] \in {vis.t[i], dur.t[i]}
  BY <1>2, <1>3 DEF Images, Contents
<1>5. /\ vis' \in Images
  BY <1>1, <1>2, <1>3, <1>4 DEF Images
<1>6. dur' = vis' /\ UNCHANGED <<uninstaller, blobs>> /\ run' = Idle
  BY DEF PowerFailure
<1>7. vis.pending = NoManifest => vis'.t = vis.t /\ dur.t = vis.t
  <2>1. vis.pending = NoManifest => dur.t = vis.t
    BY <1>2 DEF DiskUndoable
  <2>2. vis.pending = NoManifest => \A i \in Target : vis'.t[i] = vis.t[i]
    BY <1>4, <2>1
  <2> QED BY <1>2, <1>4, <2>1, <2>2 DEF Images, Contents
<1>8. vis.pending # NoManifest => vis'.pending = vis.pending /\ dur.pending = vis.pending
  BY <1>3 DEF NamesFlushed
<1>9. BundleIn(vis') \in {BundleIn(vis), BundleIn(dur)}
  BY <1>3, <1>7, <1>8 DEF BundleIn
<1>10. SwitchesWhole
  BY <1>9 DEF SwitchesWhole, Bundle
<1>11. vis'.pending = NoManifest => Uniform(vis'.t)
  BY <1>7, <1>8 DEF Files
<1>12. PayloadsKept'
  BY <1>3, <1>6 DEF Files, PayloadsKept
<1>13. vis'.pending # NoManifest => Within(vis'.t, vis'.pending)
  <2>1. vis'.pending # NoManifest => vis'.pending = dur.pending
    BY <1>3, <1>8
  <2> QED BY <1>2, <1>4, <2>1 DEF DiskUndoable, Within
<1>14. RollbackKnows(vis', vis'.previous)
  BY <1>2, <1>3, <1>9 DEF DiskUndoable, RollbackKnows
<1>15. Undoable' /\ DiskUndoable'
  BY <1>6, <1>13, <1>14 DEF Undoable, DiskUndoable
<1>16. Files(TRUE)'
  BY <1>5, <1>6, <1>11, <1>12, <1>15 DEF Files
<1>17. run' \in Runs
  BY <1>2, <1>6, LoopIndex DEF Runs, Idle, Controls, Commands, Payload, Markers
<1>18. run'.pc = "idle" /\ run'.next = "none" /\ run'.op = "none"
  BY <1>6 DEF Idle
<1>19. Course' /\ Marked' /\ Progress'
  BY <1>18 DEF Course, Marked, Progress, Installing, RollingBack
<1>20. CASE run.pc # "idle"
  <2>1. last' = [op |-> "none", gen |-> run.gen, man |-> run.man, ok |-> FALSE]
    BY <1>20 DEF PowerFailure, Said
  <2>2. last' \in Reports /\ ~last'.ok
    BY <1>2, <2>1 DEF Runs, Reports, Commands
  <2> QED BY <1>10, <1>16, <1>17, <1>19, <2>2 DEF Control, Reported
<1>21. CASE run.pc = "idle"
  <2>1. last' = last
    BY <1>21 DEF PowerFailure
  <2>2. ASSUME last.ok, last.op \in {"install", "rollback"}
        PROVE  /\ vis'.pending = NoManifest /\ dur'.pending = NoManifest
               /\ vis'.t = vis.t /\ dur'.t = vis.t
    BY <1>3, <1>6, <1>7, <1>21, <2>2 DEF Control, Reported
  <2>3. ASSUME last.ok, last.op \in {"install", "rollback"}, NEW x, Settled(x)
        PROVE  Settled(x)'
    BY <2>2, <2>3 DEF Settled, Held
  <2>4. ASSUME last.ok, last.op = "install"
        PROVE  last'.gen \in Gens /\ Settled(All(last.gen))'
    <3>1. last.gen \in Gens /\ Settled(All(last.gen))
      BY <1>21, <2>4 DEF Control, Reported
    <3> QED BY <2>1, <2>2, <2>4, <3>1 DEF Settled, Held, All
  <2>5. ASSUME last.ok, last.op = "rollback"
        PROVE  last'.man # NoManifest /\ Settled(last.man.before)'
    <3>1. last.man # NoManifest /\ Settled(last.man.before)
      BY <1>21, <2>5 DEF Control, Reported
    <3> QED BY <2>1, <2>2, <2>5, <3>1 DEF Settled, Held
  <2>6. Reported'
    BY <2>1, <2>2, <2>4, <2>5 DEF Reported
  <2> QED BY <1>2, <1>10, <1>16, <1>17, <1>19, <2>1, <2>6 DEF Control
<1> QED BY <1>20, <1>21

-----------------------------------------------------------------------------
(* The theorems. *)

LEMMA InitInv ==
  ASSUME NEW power \in BOOLEAN, BundleInit
  PROVE  BundleInv(power)
<1>0. 1 \in 1..(N + 1) /\ N \in Nat
  BY BundleAssumption
<1>1. PICK g \in Gens \cup {Missing} :
        /\ vis = [t |-> All(g), pending |-> NoManifest, previous |-> NoManifest]
        /\ dur = vis
        /\ run = Idle
        /\ last = [op |-> "none", gen |-> Missing, man |-> NoManifest, ok |-> TRUE]
  BY DEF BundleInit
<1>2. All(g) \in Contents /\ Uniform(All(g)) /\ NoManifest \in Markers
  BY AllUniform DEF Payload, Markers
<1>3. vis.t = All(g) /\ vis.pending = NoManifest /\ vis.previous = NoManifest
  BY <1>1
<1>4. vis \in Images /\ dur \in Images
  BY <1>1, <1>2 DEF Images
<1>5. PayloadsKept
  BY <1>1, <1>3, ManifestNamesTargets DEF PayloadsKept
<1>6. Undoable /\ DiskUndoable
  BY <1>1, <1>3 DEF Undoable, DiskUndoable, RollbackKnows
<1>7. run \in Runs /\ last \in Reports
  BY <1>0, <1>1, <1>2 DEF Runs, Reports, Idle, Controls, Commands, Payload
<1>8. Course /\ Marked /\ Progress /\ Reported
  BY <1>1 DEF Course, Marked, Progress, Reported, Installing, RollingBack, Idle
<1> QED BY <1>2, <1>3, <1>4, <1>5, <1>6, <1>7, <1>8 DEF BundleInv, Files, Control

\* A step of a command, or its interruption, keeps the invariant and changes the
\* bundle as a whole if at all.
LEMMA StepKeeps ==
  ASSUME NEW power \in BOOLEAN, BundleInv(power), power => NamesFlushed /\ NamesFlushed',
         Step \/ UNCHANGED bundleVars
  PROVE  BundleInv(power)' /\ SwitchesWhole
<1>1. CASE UNCHANGED bundleVars
  <2>1. UNCHANGED <<vis, dur, blobs, uninstaller, run, last>>
    BY <1>1 DEF bundleVars
  <2>2. Control'
    BY <2>1 DEF BundleInv, Control, Course, Marked, Progress, Reported, Installing, RollingBack,
                Staged, Held, Settled
  <2> QED BY <2>1, <2>2, FilesSame DEF BundleInv, SwitchesWhole
<1>2. CASE \E op \in {"install", "rollback", "recover", "uninstall"}, g \in Gens : Start(op, g)
  BY <1>2, StartStep DEF SwitchesWhole
<1>3. CASE Recover \/ RestoreChecks \/ Rollback \/ Killed
  BY <1>3, RecoverStep, RestoreChecksStep, RollbackStep, KilledStep DEF SwitchesWhole
<1>4. ASSUME NEW out \in Outcomes,
             Restore(out) \/ Unmark(out) \/ Mark(out) \/ Replace(out) \/ Keep(out) \/ DropPrevious(out)
      PROVE  BundleInv(power)' /\ SwitchesWhole
  <2>1. CASE Restore(out)
    BY <2>1, RestoreStep DEF SwitchesWhole
  <2>2. CASE Unmark(out)
    BY <2>2, UnmarkStep
  <2>3. CASE Mark(out)
    BY <2>3, MarkStep
  <2>4. CASE Replace(out)
    BY <2>4, ReplaceStep DEF SwitchesWhole
  <2>5. CASE Keep(out)
    BY <2>5, KeepStep DEF SwitchesWhole
  <2>6. CASE DropPrevious(out)
    BY <2>6, DropStep DEF SwitchesWhole
  <2> QED BY <1>4, <2>1, <2>2, <2>3, <2>4, <2>5, <2>6
<1>5. CASE (\E kept \in SUBSET blobs : Gc(FALSE, kept)) \/ Gc(TRUE, blobs)
  BY <1>5, GcStep DEF SwitchesWhole
<1>6. CASE \E ok \in BOOLEAN : Stage(ok) \/ UninstallOne(ok) \/ PurgeEnds(ok)
  BY <1>6, StageStep, UninstallStep, PurgeEndsStep DEF SwitchesWhole
<1>7. CASE PurgeOne
  BY <1>7, PurgeOneStep DEF SwitchesWhole
<1> QED BY <1>1, <1>2, <1>3, <1>4, <1>5, <1>6, <1>7 DEF Step

\* The invariant says what BundleSound does.
LEMMA InvSound ==
  ASSUME NEW power \in BOOLEAN, BundleInv(power)
  PROVE  BundleSound
<1> USE DEF BundleInv
<1>1. NoMixture
  BY DEF Files, NoMixture, Uniform, Target
<1>2. Recoverable
  <2>1. ASSUME uninstaller = "none", vis.pending # NoManifest
        PROVE  Restorable(vis.pending)
    <3>1. vis.pending \in Manifests
      BY <2>1 DEF Files, Images, Markers
    <3>2. DOMAIN vis.pending.before = Target
      BY <3>1, ManifestNamesTargets
    <3> QED BY <2>1, <3>2 DEF Files, Undoable, PayloadsKept, Restorable, Within
  <2> QED BY <2>1 DEF Recoverable, Files, PayloadsKept
<1>3. ReportedDurable
  <2> SUFFICES ASSUME run.pc = "idle", last.ok, last.op \in {"install", "rollback"}
               PROVE  LET done == IF last.op = "install" THEN All(last.gen) ELSE last.man.before
                      IN  /\ vis.pending = NoManifest /\ dur.pending = NoManifest
                          /\ vis.t = done
                          /\ \A i \in 1..N : dur.t[i] = done[i] \/ done[i] = Missing
    BY DEF ReportedDurable
  <2>1. vis \in Images /\ dur \in Images /\ last \in Reports
    BY DEF Files, Control
  <2>2. CASE last.op = "install"
    <3>1. last.gen \in Gens /\ Settled(All(last.gen)) /\ All(last.gen) \in Contents
      BY <2>2, AllUniform DEF Control, Reported, Payload
    <3> QED BY <2>1, <2>2, <3>1, SettledIs DEF Control, Reported, Settled, Held, Target
  <2>3. CASE last.op = "rollback"
    <3>1. last.man \in Manifests /\ Settled(last.man.before)
      BY <2>1, <2>3 DEF Control, Reported, Reports, Markers
    <3>2. last.man.before \in Contents
      BY <3>1, ManifestNamesTargets
    <3> QED BY <2>1, <2>3, <3>1, <3>2, SettledIs DEF Control, Reported, Settled, Held, Target
  <2> QED BY <2>2, <2>3
<1> QED BY <1>1, <1>2, <1>3 DEF BundleSound

\* Whatever fails, and wherever install, rollback, recovery and the uninstalls are
\* interrupted, no mixture passes for a bundle, a begun replacement can be undone,
\* and the bundle changes as a whole (bundle.rs:193-283).  Power is not lost here.
THEOREM BundleSafe ==
  BundleInit /\ [][Step]_bundleVars => []BundleSound /\ AtomicSwitch
<1>1. BundleInit => BundleInv(FALSE)
  BY InitInv
<1>2. BundleInv(FALSE) /\ [Step]_bundleVars => BundleInv(FALSE)' /\ SwitchesWhole
  BY StepKeeps
<1>3. BundleInv(FALSE) => BundleSound
  BY InvSound
<1> QED BY <1>1, <1>2, <1>3, PTL DEF AtomicSwitch

\* The same when power is lost at any moment, where nobody uninstalls and as long
\* as no flush of a new pending.json or of a removal fails (bundle.rs:177, 193).
THEOREM BundleSurvivesPowerLoss ==
  ASSUME Uninstallers = {"none"}
  PROVE  BundleSpec /\ []NamesFlushed => []BundleSound /\ AtomicSwitch
<1>1. BundleInit => BundleInv(TRUE) /\ uninstaller = "none"
  <2>1. BundleInit => uninstaller = "none"
    BY DEF BundleInit
  <2> QED BY <2>1, InitInv
<1>2. BundleInv(TRUE) /\ uninstaller = "none" /\ NamesFlushed /\ NamesFlushed' /\ [BundleNext]_bundleVars
      => BundleInv(TRUE)' /\ (uninstaller = "none")' /\ SwitchesWhole
  <2>1. SUFFICES ASSUME BundleInv(TRUE), uninstaller = "none", NamesFlushed, NamesFlushed',
                        [BundleNext]_bundleVars
                 PROVE  BundleInv(TRUE)' /\ (uninstaller = "none")' /\ SwitchesWhole
    OBVIOUS
  <2>2. CASE PowerFailure
    BY <2>1, <2>2, PowerStep DEF PowerFailure
  <2>3. CASE Step \/ UNCHANGED bundleVars
    <3>1. uninstaller' = uninstaller
      BY <2>3 DEF bundleVars, Step, Start, Recover, RestoreChecks, Rollback, Restore, Unmark, Mark,
                  Replace, Keep, DropPrevious, Gc, Stage, UninstallOne, PurgeOne, PurgeEnds, Killed
    <3> QED BY <2>1, <2>3, <3>1, StepKeeps
  <2> QED BY <2>1, <2>2, <2>3 DEF BundleNext
<1>3. BundleInv(TRUE) => BundleSound
  BY InvSound
<1> QED BY <1>1, <1>2, <1>3, PTL DEF BundleSpec, AtomicSwitch
=============================================================================

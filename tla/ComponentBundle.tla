--------------------------- MODULE ComponentBundle ---------------------------
(***************************************************************************)
(* Offline replacement of a bundle of files that belong together           *)
(* (bundle.rs): the headless manager, engine and unit (install.rs), or the *)
(* desktop's engine, helper and sudoers rule (helper main.rs).             *)
(*                                                                         *)
(* pending.json names, for every target, the payload before and after a    *)
(* replacement that has begun; previous.json the last one that completed;  *)
(* payloads are kept by hash beside them.  Every file operation is a step. *)
(* It succeeds, fails without effect, or fails with an effect that a loss  *)
(* of power may undo: vis is what the system sees, dur what is on the disk *)
(* for certain.  One process at a time holds .bundle.lock.                 *)
(***************************************************************************)
EXTENDS Naturals, Sequences, FiniteSets

CONSTANTS N,           \* targets, replaced in the order 1..N
          Gens,        \* generations of payloads
          Uninstallers,\* whose uninstalls are run: see Uninstaller
          Failures,    \* bound: file operations that fail
          Crashes      \* bound: interruptions of the process and losses of power

\* Nobody's, the desktop helper's, the headless manager's, or that and --purge.
Uninstaller == {"none", "helper", "headless", "purge"}

ASSUME BundleAssumption ==
  /\ N \in Nat \ {0} /\ Gens \subseteq Nat \ {0} /\ Gens # {}
  /\ Failures \in Nat /\ Crashes \in Nat
  /\ Uninstallers \subseteq Uninstaller

VARIABLES vis, dur,    \* targets, pending.json and previous.json
          blobs,       \* payloads kept by hash, as <<target, generation>>
          uninstaller, \* whose uninstall can run on this machine, if any
          run,         \* the process that holds the lock
          last,        \* what the last command reported
          failures, crashes

bundleVars == <<vis, dur, blobs, uninstaller, run, last, failures, crashes>>

Missing == 0
NoManifest == [before |-> <<>>, after |-> <<>>]
All(g) == [i \in 1..N |-> g]
Idle == [pc |-> "idle", op |-> "none", gen |-> Missing, man |-> NoManifest, i |-> 1, next |-> "none"]
Said(ok) == [op |-> run.op, gen |-> run.gen, man |-> run.man, ok |-> ok]

\* Before its first command the bundle's directory is empty; the targets are
\* missing, or a package that keeps no markers has put them there.
BundleInit ==
  /\ \E g \in Gens \cup {Missing} :
       vis = [t |-> All(g), pending |-> NoManifest, previous |-> NoManifest]
  /\ dur = vis /\ blobs = {}
  /\ uninstaller \in Uninstallers
  /\ run = Idle /\ last = [op |-> "none", gen |-> Missing, man |-> NoManifest, ok |-> TRUE]
  /\ failures = 0 /\ crashes = 0
-----------------------------------------------------------------------------
(* File operations (atomic_file.rs). *)

Outcomes == {"ok", "lost", "unsynced"}

Failed(out) == out # "ok"

Counted(out) == /\ out # "ok" => failures < Failures
                /\ failures' = IF out = "ok" THEN failures ELSE failures + 1

\* write_mode on a target, or its removal; its directory is its own.
SetTarget(i, g, out) ==
  /\ vis' = IF out = "lost" THEN vis ELSE [vis EXCEPT !.t[i] = g]
  /\ dur' = IF out = "ok" THEN [dur EXCEPT !.t[i] = g] ELSE dur

\* A flush of the bundle's directory covers both of its markers.
Flushed(v) == [dur EXCEPT !.pending = v.pending, !.previous = v.previous]

SetMarker(v, out) ==
  /\ vis' = IF out = "lost" THEN vis ELSE v
  /\ dur' = IF out = "ok" THEN Flushed(v) ELSE dur
-----------------------------------------------------------------------------
(* Control. *)

Goto(pc) == run' = [run EXCEPT !.pc = pc, !.i = 1] /\ UNCHANGED last
FinishRun(ok) == run' = Idle /\ last' = Said(ok)

\* install_inner recovers at once when its replacement fails; every other
\* failure is returned and leaves pending.json to the next command.
Committing == run.op = "install" /\ run.next = "done"
              /\ run.pc \in {"replace", "keep", "unmark", "gc"}

Err == IF Committing
       THEN run' = [run EXCEPT !.pc = "recover", !.next = "fail", !.i = 1] /\ UNCHANGED last
       ELSE FinishRun(FALSE)

\* What follows a recovery that had nothing, or nothing more, to do.
Continue ==
  IF run.next \in {"done", "fail"} THEN FinishRun(run.next = "done")
  ELSE run' = [run EXCEPT !.pc = run.next, !.next = "done", !.i = 1] /\ UNCHANGED last

\* The loops over the targets are over.
Past(i) == i > N
-----------------------------------------------------------------------------
(* The commands. *)

\* Mutant: an install does not look for an interrupted one first.
NoRecovery(op) == IF op = "install" THEN "stage" ELSE "recover"

\* install and rollback recover first, as do recover itself and the
\* helper's uninstall; the headless one does not.
EntryOf(op) == IF op = "uninstall" /\ uninstaller # "helper" THEN "uninstall" ELSE "recover"

Start(op, g) ==
  /\ run.pc = "idle"
  /\ op = "uninstall" => uninstaller # "none"
  /\ LET then == [install |-> "stage", rollback |-> "rollback", recover |-> "done",
                  uninstall |-> "uninstall"][op]
     IN  run' = [Idle EXCEPT !.pc = EntryOf(op), !.op = op, !.gen = IF op = "install" THEN g ELSE Missing,
                             !.next = IF EntryOf(op) = "recover" THEN then ELSE "done"]
  /\ UNCHANGED <<uninstaller, vis, dur, blobs, last, failures, crashes>>

\* recover: load pending.json.
Recover ==
  /\ run.pc = "recover"
  /\ IF vis.pending = NoManifest THEN Continue
     ELSE run' = [run EXCEPT !.pc = "check", !.man = vis.pending] /\ UNCHANGED last
  /\ UNCHANGED <<uninstaller, vis, dur, blobs, failures, crashes>>

Kept(m) == {<<i, m.before[i]>> : i \in {j \in DOMAIN m.before : m.before[j] # Missing}}

\* Every target holds what the manifest says and every payload is there.
Restorable(m) ==
  /\ \A i \in DOMAIN m.before : vis.t[i] \in {m.before[i], m.after[i]}
  /\ Kept(m) \subseteq blobs

\* restore looks at everything before its first write.
RestoreChecks ==
  /\ run.pc = "check"
  /\ IF Restorable(run.man) THEN Goto("restore") ELSE Err
  /\ UNCHANGED <<uninstaller, vis, dur, blobs, failures, crashes>>

\* A target that was not there before and is not there now is left alone: a
\* removal whose flush failed is not flushed again.
NothingToRemove == Missing = run.man.before[run.i] /\ Missing = vis.t[run.i]

Restore(out) ==
  /\ run.pc = "restore"
  /\ IF Past(run.i)
     THEN out = "ok" /\ Goto("unmark") /\ UNCHANGED <<vis, dur, failures>>
     ELSE /\ IF NothingToRemove THEN out = "ok" /\ UNCHANGED <<vis, dur, failures>>
             ELSE Counted(out) /\ SetTarget(run.i, run.man.before[run.i], out)
          /\ IF Failed(out) THEN Err
             ELSE run' = [run EXCEPT !.i = @ + 1] /\ UNCHANGED last
  /\ UNCHANGED <<uninstaller, blobs, crashes>>

\* remove_marker("pending.json"): the replacement is committed, or undone.
Unmark(out) ==
  /\ run.pc = "unmark"
  /\ Counted(out) /\ SetMarker([vis EXCEPT !.pending = NoManifest], out)
  /\ IF Failed(out) THEN Err
     ELSE Goto(IF run.op = "rollback" /\ run.next = "done" THEN "drop" ELSE "gc")
  /\ UNCHANGED <<uninstaller, blobs, crashes>>

\* Payloads of a manifest, before and after.
Named(m) == Kept(m) \cup {<<i, m.after[i]>> : i \in DOMAIN m.after}

\* Mutant: only an unfinished replacement keeps its payloads.
RetainedPending == Named(vis.pending)

Retained == Named(vis.pending) \cup Named(vis.previous)

\* gc; it may fail before any of the removals.
Gc(ok, kept) ==
  /\ run.pc = "gc"
  /\ Retained \cap blobs \subseteq kept
  /\ Counted(IF ok THEN "ok" ELSE "lost")
  /\ blobs' = IF ok THEN blobs \cap Retained ELSE kept
  /\ IF ok THEN Continue ELSE Err
  /\ UNCHANGED <<uninstaller, vis, dur, crashes>>

\* retain, for the present payload of a target and its new one.
Stage(ok) ==
  /\ run.pc = "stage"
  /\ IF Past(run.i)
     THEN /\ ok /\ run' = [run EXCEPT !.pc = "mark", !.man = [before |-> vis.t, after |-> All(run.gen)]]
          /\ UNCHANGED <<blobs, dur, failures, last>>
     ELSE /\ Counted(IF ok THEN "ok" ELSE "lost")
          /\ IF ok
             THEN /\ blobs' = blobs \cup {<<run.i, x>> : x \in {vis.t[run.i], run.gen} \ {Missing}}
                  /\ dur' = Flushed(vis)
                  /\ run' = [run EXCEPT !.i = @ + 1] /\ UNCHANGED last
             ELSE Err /\ UNCHANGED <<blobs, dur>>
  /\ UNCHANGED <<uninstaller, vis, crashes>>

\* save("pending.json"): nothing is replaced before it is durable.
Mark(out) ==
  /\ run.pc = "mark"
  /\ Counted(out) /\ SetMarker([vis EXCEPT !.pending = run.man], out)
  /\ IF Failed(out) THEN Err ELSE Goto(IF run.op = "install" THEN "replace" ELSE "check")
  /\ UNCHANGED <<uninstaller, blobs, crashes>>

Replace(out) ==
  /\ run.pc = "replace"
  /\ IF Past(run.i)
     THEN out = "ok" /\ Goto("keep") /\ UNCHANGED <<vis, dur, failures>>
     ELSE /\ Counted(out) /\ SetTarget(run.i, run.gen, out)
          /\ IF Failed(out) THEN Err
             ELSE run' = [run EXCEPT !.i = @ + 1] /\ UNCHANGED last
  /\ UNCHANGED <<uninstaller, blobs, crashes>>

\* save("previous.json")
Keep(out) ==
  /\ run.pc = "keep"
  /\ Counted(out) /\ SetMarker([vis EXCEPT !.previous = run.man], out)
  /\ IF Failed(out) THEN Err ELSE Goto("unmark")
  /\ UNCHANGED <<uninstaller, blobs, crashes>>

\* rollback: load previous.json.
Rollback ==
  /\ run.pc = "rollback"
  /\ IF vis.previous = NoManifest THEN Err
     ELSE run' = [run EXCEPT !.pc = "mark", !.man = vis.previous] /\ UNCHANGED last
  /\ UNCHANGED <<uninstaller, vis, dur, blobs, failures, crashes>>

\* remove_marker("previous.json")
DropPrevious(out) ==
  /\ run.pc = "drop"
  /\ Counted(out) /\ SetMarker([vis EXCEPT !.previous = NoManifest], out)
  /\ IF Failed(out) THEN Err ELSE Goto("gc")
  /\ UNCHANGED <<uninstaller, blobs, crashes>>

\* The helper ignores what becomes of every target but the last; that one must
\* be there.
MustExist == uninstaller = "helper" /\ run.i = N

\* The targets are unlinked one by one, without a flush.
UninstallOne(gone) ==
  /\ run.pc = "uninstall"
  /\ IF Past(run.i)
     THEN /\ gone /\ (FinishRun(TRUE) \/ (uninstaller = "purge" /\ Goto("purge")))
          /\ UNCHANGED <<vis, dur, failures>>
     ELSE /\ IF MustExist /\ vis.t[run.i] = Missing THEN ~gone /\ UNCHANGED failures
             ELSE Counted(IF gone THEN "ok" ELSE "lost")
          /\ SetTarget(run.i, Missing, IF gone THEN "unsynced" ELSE "lost")
          /\ IF gone \/ (uninstaller = "helper" /\ run.i < N)
             THEN run' = [run EXCEPT !.i = @ + 1] /\ UNCHANGED last
             ELSE Err
  /\ UNCHANGED <<uninstaller, blobs, crashes>>

\* --purge: remove_dir_all of the directory that holds the markers and the
\* payloads, in whatever order it lists them, without a flush.
PurgeOne ==
  /\ run.pc = "purge"
  /\ \/ vis' = [vis EXCEPT !.pending = NoManifest] /\ UNCHANGED blobs
     \/ vis' = [vis EXCEPT !.previous = NoManifest] /\ UNCHANGED blobs
     \/ \E b \in blobs : blobs' = blobs \ {b} /\ UNCHANGED vis
  /\ UNCHANGED <<uninstaller, dur, run, last, failures, crashes>>

PurgeEnds(ok) ==
  /\ run.pc = "purge"
  /\ ok => vis.pending = NoManifest /\ vis.previous = NoManifest /\ blobs = {}
  /\ Counted(IF ok THEN "ok" ELSE "lost")
  /\ FinishRun(ok)
  /\ UNCHANGED <<uninstaller, vis, dur, blobs, crashes>>
-----------------------------------------------------------------------------
\* The process is killed between any two of its file operations.
Killed ==
  /\ crashes < Crashes /\ run.pc # "idle"
  /\ crashes' = crashes + 1
  /\ run' = Idle /\ last' = [Said(FALSE) EXCEPT !.op = "none"]
  /\ UNCHANGED <<uninstaller, vis, dur, blobs, failures>>

\* What was not flushed is there or not, each entry for itself.
PowerFailure ==
  /\ crashes < Crashes
  /\ crashes' = crashes + 1
  /\ \E keep \in [1..N -> BOOLEAN], p \in BOOLEAN, q \in BOOLEAN :
       vis' = [t |-> [i \in 1..N |-> IF keep[i] THEN vis.t[i] ELSE dur.t[i]],
               pending |-> IF p THEN vis.pending ELSE dur.pending,
               previous |-> IF q THEN vis.previous ELSE dur.previous]
  /\ dur' = vis'
  /\ run' = Idle /\ last' = IF run.pc = "idle" THEN last ELSE [Said(FALSE) EXCEPT !.op = "none"]
  /\ UNCHANGED <<uninstaller, blobs, failures>>

Step ==
  \/ \E op \in {"install", "rollback", "recover", "uninstall"}, g \in Gens : Start(op, g)
  \/ Recover \/ RestoreChecks \/ Rollback
  \/ \E out \in Outcomes :
       Restore(out) \/ Unmark(out) \/ Mark(out) \/ Replace(out) \/ Keep(out) \/ DropPrevious(out)
  \/ \E kept \in SUBSET blobs : Gc(FALSE, kept)
  \/ Gc(TRUE, blobs)
  \/ \E ok \in BOOLEAN : Stage(ok) \/ UninstallOne(ok) \/ PurgeEnds(ok)
  \/ PurgeOne
  \/ Killed

BundleNext == Step \/ PowerFailure

\* The names that recovery relies on and does not flush: a visible
\* pending.json, and a target that is gone.  They are on the disk unless their
\* own flush has failed, or an uninstall has removed the target.
NamesFlushed ==
  /\ vis.pending # NoManifest => dur.pending = vis.pending
  /\ \A i \in 1..N : vis.t[i] = Missing => dur.t[i] = Missing

BundleSpec == BundleInit /\ [][BundleNext]_bundleVars
-----------------------------------------------------------------------------
\* The bundle that a command finds once it has recovered: pending.json, as
\* long as it is there, stands for the payloads before.
BundleIn(d) == IF d.pending = NoManifest THEN d.t ELSE d.pending.before
Bundle == BundleIn(vis)

\* Without pending.json no two targets are of different generations, whichever
\* operations failed and wherever a command was interrupted (bundle.rs:1-3); with
\* losses of power, only while NamesFlushed holds.
NoMixture ==
  vis.pending = NoManifest =>
    \A i, j \in 1..N : vis.t[i] = vis.t[j] \/ Missing \in {vis.t[i], vis.t[j]}

\* A replacement that has begun can be undone and a completed one rolled
\* back: every target holds its payload before or after, and no payload that
\* a marker names has been collected (bundle.rs:149-178, 259-283).  Where an
\* uninstall may have removed targets only the latter holds, and where a purge
\* may have stopped half way neither does.
Recoverable ==
  /\ uninstaller = "none" /\ vis.pending # NoManifest => Restorable(vis.pending)
  /\ uninstaller # "purge" => Kept(vis.previous) \subseteq blobs

\* The bundle changes as a whole, to the generation being installed or to the
\* one previous.json names; recovery, failures and crashes do not change it,
\* and a loss of power takes back at most a change that was not flushed.
SwitchesWhole ==
  \/ Bundle' = Bundle
  \/ run.op = "install" /\ Bundle' = All(run.gen)
  \/ run.op = "rollback" /\ Bundle' = vis.previous.before
  \/ run.op = "uninstall"
  \/ PowerFailure /\ Bundle' = BundleIn(dur)

AtomicSwitch == [][SwitchesWhole]_bundleVars

\* What a command reports as done survives a loss of power: the new
\* generation, or the one rolled back to, and no pending.json.  (Only a target
\* that a rollback removes may come back: its removal is not flushed twice.)
ReportedDurable ==
  LET done == IF last.op = "install" THEN All(last.gen) ELSE last.man.before
  IN  run.pc = "idle" /\ last.ok /\ last.op \in {"install", "rollback"} =>
        /\ vis.pending = NoManifest /\ dur.pending = NoManifest
        /\ vis.t = done /\ \A i \in 1..N : dur.t[i] = done[i] \/ done[i] = Missing

\* An install that failed and was undone leaves rollback where it was:
\* previous.json is not the manifest of the replacement that was undone
\* (bundle.rs:236-244).
PriorRetained ==
  [][run.op = "install" /\ run'.pc = "idle" /\ ~last'.ok
     /\ Bundle' = run.man.before /\ run.man.before # run.man.after
     => vis'.previous # run.man]_bundleVars

\* No mixture of generations passes for a bundle, an interrupted replacement can
\* be undone, and what was reported is on the disk.
BundleSound == NoMixture /\ Recoverable /\ ReportedDurable
=============================================================================

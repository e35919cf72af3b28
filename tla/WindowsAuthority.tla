-------------------------- MODULE WindowsAuthority --------------------------
(***************************************************************************)
(* The machine-wide network reservation on Windows                         *)
(* (windows_network_authority.rs) and the desktop's use of it.  There is   *)
(* no launch gate: the engine may change the network from its first        *)
(* instruction, before its identity is saved in the reservation.  A        *)
(* manager may die between any two steps, process ids are used again, and  *)
(* a power failure may bring back a reservation that had been removed.     *)
(***************************************************************************)
EXTENDS Naturals

CONSTANTS
  Attempt, Nobody,  \* attempt ids, each of a manager of its own
  Pid, NoPid,       \* process ids
  Exe,              \* the engine executable of each attempt
  Failures,         \* bound: failing calls, crashes and power failures
  PowerFails        \* whether the power may fail

ASSUME WindowsAssumption ==
  /\ Nobody \notin Attempt /\ NoPid \notin Pid
  /\ Failures \in Nat /\ PowerFails \in BOOLEAN

VARIABLES
  active,   \* active.json
  pending,  \* active.pending, the temporary of every save
  removed,  \* what was last removed: the power may bring it back
  lock,     \* the attempt whose call or lease has authority.lock
  at,       \* where the manager of each attempt is
  mem,      \* the identity in the owner its lease remembers: "none" without a lease
  record,   \* whether the desktop's local process record exists
  engine,   \* "none", "running" or "gone"
  changes,  \* whether changes of the network are left
  pid,      \* the process id an engine was given
  procs,    \* who has each process id: an attempt's engine, a stranger or nobody
  budget    \* failures left

files == <<active, pending, removed>>
world == <<engine, changes, pid, procs>>
winVars == <<active, pending, removed, lock, at, mem, record, engine, changes, pid, procs, budget>>

Stranger == "stranger"

\* bound: identity is Some.
NoOwner == [attempt |-> Nobody, bound |-> FALSE]
Owner == [attempt : Attempt, bound : BOOLEAN] \cup {NoOwner}

Saves == {"write", "move", "check"}
Locked == Saves \cup {"admit", "spawn", "capture", "run", "finish", "remove"}
WinPlaces == Locked \cup {"idle", "acquire", "undo", "unlink", "recovery", "dead", "done"}

WinTypeOK ==
  /\ active \in Owner /\ pending \in Owner /\ removed \in Owner
  /\ lock \in Attempt \cup {Nobody}
  /\ at \in [Attempt -> WinPlaces]
  /\ mem \in [Attempt -> {"none", "unbound", "bound"}]
  /\ record \in [Attempt -> BOOLEAN]
  /\ engine \in [Attempt -> {"none", "running", "gone"}]
  /\ changes \in [Attempt -> BOOLEAN]
  /\ pid \in [Attempt -> Pid \cup {NoPid}]
  /\ \A a \in Attempt : mem[a] = "bound" => pid[a] # NoPid
  /\ procs \in [Pid -> Attempt \cup {Stranger, Nobody}]
  /\ budget \in 0..Failures

WinInit ==
  /\ active = NoOwner /\ pending = NoOwner /\ removed = NoOwner /\ lock = Nobody
  /\ at = [a \in Attempt |-> "idle"] /\ mem = [a \in Attempt |-> "none"]
  /\ record = [a \in Attempt |-> FALSE] /\ engine = [a \in Attempt |-> "none"]
  /\ changes = [a \in Attempt |-> FALSE] /\ pid = [a \in Attempt |-> NoPid]
  /\ procs = [p \in Pid |-> Nobody] /\ budget = Failures

Goto(a, place) == at' = [at EXCEPT ![a] = place]

\* A call fails, for a reason outside this state.
Fails == budget > 0 /\ budget' = budget - 1
Works == budget' = budget

----------------------------------------------------------------------------
(* MachineAuthority *)

\* The owner a save of attempt a writes: acquire's, or bind_process's.
Saved(a) == [attempt |-> a, bound |-> mem[a] # "none"]

\* The owner in the lease's memory.
Remembered(a) == [attempt |-> a, bound |-> mem[a] = "bound"]

\* spawn_profile_process keeps a local record before the global write.
Begin(a) ==
  /\ at[a] = "idle" /\ Goto(a, "acquire")
  /\ record' = [record EXCEPT ![a] = TRUE]
  /\ UNCHANGED <<files, lock, mem, world>> /\ Works

\* lock() of acquire.
Lock(a) ==
  /\ at[a] = "acquire" /\ lock = Nobody /\ Goto(a, "admit") /\ lock' = a
  /\ UNCHANGED <<files, mem, record, world>> /\ Works

\* The lock is taken, or open_system, Owner::new or lock() failed.
LockFails(a) ==
  /\ at[a] = "acquire" /\ Goto(a, "undo")
  /\ \/ lock # Nobody /\ Works
     \/ Fails
  /\ UNCHANGED <<files, lock, mem, record, world>>

\* inspect() of acquire finds no reservation.
Admit(a) ==
  /\ at[a] = "admit" /\ active = NoOwner /\ Goto(a, "write")
  /\ UNCHANGED <<files, lock, mem, record, world>> /\ Works

AdmitFails(a) ==
  /\ at[a] = "admit" /\ Goto(a, "undo") /\ lock' = Nobody
  /\ \/ active # NoOwner /\ Works
     \/ Fails
  /\ UNCHANGED <<files, mem, record, world>>

\* save: the temporary, a leftover of an interrupted save removed, is written and synced ...
SaveWrites(a) ==
  /\ at[a] = "write" /\ Goto(a, "move") /\ pending' = Saved(a)
  /\ UNCHANGED <<active, removed, lock, mem, record, world>> /\ Works

\* ... moved into place ...
SaveMoves(a) ==
  /\ at[a] = "move" /\ Goto(a, "check")
  /\ active' = pending /\ pending' = NoOwner
  /\ UNCHANGED <<removed, lock, mem, record, world>> /\ Works

\* ... and read back.
SaveChecks(a) ==
  /\ at[a] = "check" /\ active = Saved(a)
  /\ Goto(a, IF mem[a] = "none" THEN "spawn" ELSE "run")
  /\ mem' = [mem EXCEPT ![a] = IF @ = "none" THEN "unbound" ELSE "bound"]
  /\ UNCHANGED <<files, lock, record, world>> /\ Works

\* acquire's save fails; what reached the disk stays there.
SaveFails(a) ==
  /\ at[a] \in Saves /\ mem[a] = "none" /\ Goto(a, "undo") /\ lock' = Nobody /\ Fails
  /\ pending' \in {pending, NoOwner}
  /\ UNCHANGED <<active, removed, mem, record, world>>

\* Mutant: the local record of a refused attempt is always removed.
UndoAlways(a) ==
  /\ at[a] = "undo" /\ Goto(a, "done") /\ record' = [record EXCEPT ![a] = FALSE]
  /\ UNCHANGED <<files, lock, mem, world>> /\ Works

\* After a failed acquire the desktop asks once more who owns the network.
Undo(a) ==
  /\ at[a] = "undo"
  /\ \/ active.attempt # a /\ Goto(a, "done") /\ record' = [record EXCEPT ![a] = FALSE] /\ Works
     \/ active.attempt = a /\ Goto(a, "recovery") /\ UNCHANGED record /\ Works
     \/ Goto(a, "recovery") /\ UNCHANGED record /\ Fails
  /\ UNCHANGED <<files, lock, mem, world>>

----------------------------------------------------------------------------
(* The engine *)

Spawn(a) ==
  /\ at[a] = "spawn" /\ Goto(a, "capture")
  /\ \E p \in Pid :
       /\ procs[p] = Nobody
       /\ procs' = [procs EXCEPT ![p] = a] /\ pid' = [pid EXCEPT ![a] = p]
  /\ engine' = [engine EXCEPT ![a] = "running"]
  /\ UNCHANGED <<files, lock, mem, record, changes>> /\ Works

\* finish_unstarted_process.
SpawnFails(a) ==
  /\ at[a] = "spawn" /\ Goto(a, "finish") /\ Fails
  /\ UNCHANGED <<files, lock, mem, record, world>>

\* The engine's identity is read, recorded, and bound: bind_process up to its save.
Capture(a) ==
  /\ at[a] = "capture" /\ engine[a] = "running" /\ active = Remembered(a) /\ Goto(a, "write")
  /\ UNCHANGED <<files, lock, mem, record, world>> /\ Works

Freed(a) == [p \in Pid |-> IF procs[p] = a THEN Nobody ELSE procs[p]]

\* Something on the way to a bound reservation failed: the child is killed, or could not be.
Abort(a) ==
  /\ \/ at[a] = "capture" /\ ((engine[a] # "running" /\ Works) \/ Fails)
     \/ at[a] \in Saves /\ mem[a] = "unbound" /\ Fails
  /\ Goto(a, "recovery") /\ lock' = Nobody /\ mem' = [mem EXCEPT ![a] = "none"]
  /\ \/ engine' = [engine EXCEPT ![a] = "gone"] /\ procs' = Freed(a)
     \/ at[a] = "capture" /\ UNCHANGED <<engine, procs>>
  /\ pending' \in {pending, NoOwner}
  /\ UNCHANGED <<active, removed, record, changes, pid>>

\* The engine changes the network ...
Change(a) ==
  /\ engine[a] = "running" /\ changes' = [changes EXCEPT ![a] = TRUE]
  /\ UNCHANGED <<files, lock, at, mem, record, engine, pid, procs>> /\ Works

\* ... and ends, with or without having restored it.
EngineEnds(a) ==
  /\ engine[a] = "running" /\ engine' = [engine EXCEPT ![a] = "gone"] /\ procs' = Freed(a)
  /\ changes' \in {changes, [changes EXCEPT ![a] = FALSE]}
  /\ UNCHANGED <<files, lock, at, mem, record, pid>> /\ Works

\* Somebody restores what an engine left.
Restore(a) ==
  /\ engine[a] = "gone" /\ changes[a] /\ changes' = [changes EXCEPT ![a] = FALSE]
  /\ UNCHANGED <<files, lock, at, mem, record, engine, pid, procs>> /\ Works

\* A process id is used again.
Reuse(p) ==
  /\ procs[p] = Nobody /\ procs' = [procs EXCEPT ![p] = Stranger] /\ Fails
  /\ UNCHANGED <<files, lock, at, mem, record, engine, changes, pid>>

StrangerEnds(p) ==
  /\ procs[p] = Stranger /\ procs' = [procs EXCEPT ![p] = Nobody] /\ Works
  /\ UNCHANGED <<files, lock, at, mem, record, engine, changes, pid>>

----------------------------------------------------------------------------
(* finish and acknowledge *)

\* Mutant: the cleanup report does not count.
ReapAnyhow(a) ==
  /\ at[a] = "run" /\ engine[a] = "gone" /\ Goto(a, "finish")
  /\ UNCHANGED <<files, lock, mem, record, world>> /\ Works

\* The monitor has reaped the engine and its events confirm the cleanup: they are complete, and
\* an engine announces a change before it makes it and reports a cleanup as it went ...
Reap(a) ==
  /\ at[a] = "run" /\ engine[a] = "gone" /\ ~changes[a] /\ Goto(a, "finish")
  /\ UNCHANGED <<files, lock, mem, record, world>> /\ Works

\* ... or they do not, whatever the network is like: output that was cut, an engine ended by
\* force, a report of a failure.  Then finish refuses, and the lease is dropped.
ReapFails(a) ==
  /\ at[a] = "run" /\ engine[a] = "gone"
  /\ Goto(a, "recovery") /\ lock' = Nobody /\ mem' = [mem EXCEPT ![a] = "none"]
  /\ UNCHANGED <<files, record, world>> /\ Works

\* windows_process::engine_is_running of the reservation's executable.
EngineIsRunning(a) == \E b \in Attempt : engine[b] = "running" /\ Exe[b] = Exe[a]

\* No process has the reservation's pid, no engine of its executable runs.
Quiescent(a) ==
  /\ mem[a] = "bound" => procs[pid[a]] = Nobody
  /\ ~EngineIsRunning(a)

FinishChecks(a) ==
  /\ at[a] = "finish" /\ Quiescent(a) /\ Goto(a, "remove")
  /\ UNCHANGED <<files, lock, mem, record, world>> /\ Works

FinishFails(a) ==
  /\ \/ at[a] = "finish" /\ ((~Quiescent(a) /\ Works) \/ Fails)
     \/ at[a] = "remove" /\ ((active # Remembered(a) /\ Works) \/ Fails)
  /\ Goto(a, "recovery") /\ lock' = Nobody /\ mem' = [mem EXCEPT ![a] = "none"]
  /\ UNCHANGED <<files, record, world>>

\* remove: its second inspect may fail after the file is gone.
Remove(a) ==
  /\ at[a] = "remove" /\ active = Remembered(a)
  /\ active' = NoOwner /\ removed' = active
  /\ \/ Goto(a, "unlink") /\ Works
     \/ Goto(a, "recovery") /\ Fails
  /\ lock' = Nobody /\ mem' = [mem EXCEPT ![a] = "none"]
  /\ UNCHANGED <<pending, record, world>>

\* The desktop removes its local record last.
Unlink(a) ==
  /\ at[a] = "unlink" /\ Goto(a, "done") /\ record' = [record EXCEPT ![a] = FALSE]
  /\ UNCHANGED <<files, lock, mem, world>> /\ Works

\* acknowledge_recovery: the operator confirms that the engine has stopped and the network is
\* restored, the local record's process is gone, and the lock is free.
Acknowledge(a) ==
  /\ at[a] \in {"recovery", "dead"} /\ record[a] /\ engine[a] # "running" /\ ~changes[a]
  /\ active.attempt = a /\ lock = Nobody /\ lock' = a /\ Goto(a, "finish")
  /\ mem' = [mem EXCEPT ![a] = IF active.bound THEN "bound" ELSE "unbound"]
  /\ UNCHANGED <<files, record, world>> /\ Works

\* The reservation is not this attempt's: only the local record is removed.
AcknowledgeLocal(a) ==
  /\ at[a] \in {"recovery", "dead"} /\ record[a] /\ engine[a] # "running" /\ ~changes[a]
  /\ active.attempt # a /\ Goto(a, "done") /\ record' = [record EXCEPT ![a] = FALSE]
  /\ UNCHANGED <<files, lock, mem, world>> /\ Works

----------------------------------------------------------------------------
(* Crashes *)

\* The manager dies: its lock goes, its files and its engine stay.
Crash(a) ==
  /\ at[a] \notin {"idle", "done", "dead"} /\ Fails
  /\ lock' = (IF lock = a THEN Nobody ELSE lock)
  /\ Goto(a, "dead") /\ mem' = [mem EXCEPT ![a] = "none"]
  /\ UNCHANGED <<files, record, world>>

PowerFailure ==
  /\ PowerFails /\ Fails
  /\ lock' = Nobody /\ mem' = [a \in Attempt |-> "none"]
  /\ at' = [a \in Attempt |-> IF at[a] \in {"idle", "done"} THEN at[a] ELSE "dead"]
  /\ engine' = [a \in Attempt |-> IF engine[a] = "running" THEN "gone" ELSE engine[a]]
  /\ changes' = [a \in Attempt |-> FALSE] /\ procs' = [p \in Pid |-> Nobody]
  /\ active' \in (IF active = NoOwner THEN {NoOwner, removed} ELSE {active})
  /\ UNCHANGED <<pending, removed, record, pid>>

\* What a manager does of itself.
Manager(a) ==
  \/ Begin(a) \/ Lock(a) \/ Admit(a) \/ SaveWrites(a) \/ SaveMoves(a) \/ SaveChecks(a)
  \/ Spawn(a) \/ Capture(a) \/ Undo(a) \/ Reap(a) \/ FinishChecks(a) \/ Remove(a) \/ Unlink(a)
  \/ LockFails(a) \/ AdmitFails(a) \/ SaveFails(a) \/ SpawnFails(a) \/ Abort(a) \/ ReapFails(a)
  \/ FinishFails(a)

Operator(a) == Acknowledge(a) \/ AcknowledgeLocal(a)

WinNext ==
  \/ \E a \in Attempt :
       Manager(a) \/ Operator(a) \/ Change(a) \/ EngineEnds(a) \/ Restore(a) \/ Crash(a)
  \/ \E p \in Pid : Reuse(p) \/ StrangerEnds(p)
  \/ PowerFailure

WinSpec == WinInit /\ [][WinNext]_winVars

\* Managers go on, processes end, somebody restores the network and acknowledges.
WinFairness ==
  /\ \A a \in Attempt : /\ WF_winVars(Manager(a)) /\ WF_winVars(Operator(a))
                        /\ WF_winVars(EngineEnds(a)) /\ WF_winVars(Restore(a))
  /\ \A p \in Pid : WF_winVars(StrangerEnds(p))

WinFairSpec == WinSpec /\ WinFairness

----------------------------------------------------------------------------
(* Properties *)

Lease == INSTANCE MachineLease WITH
  leaseholder <- active.attempt,
  busy <- {a \in Attempt : engine[a] = "running" \/ changes[a]}

\* The reservation keeps the promise of MachineLease without a launch gate: an engine runs, or
\* its changes are left, only while active.json names its attempt.
LeaseKept == Lease!Spec

\* A reservation has a local record from which it can be acknowledged, unless the power brought
\* it back (spawn_profile_process: the local recovery path precedes the global write).
Anchored == \A a \in Attempt : active.attempt = a => record[a] \/ active = removed

\* The temporary that a save moves into place is the one it wrote, whatever interrupted saves
\* left behind (save: "A fixed temporary name is protected by the machine lock").
OwnTemporary == \A a \in Attempt : at[a] = "move" => pending = Saved(a)

\* A reservation that a local record leads to does not stay for ever: it is finished or can be
\* acknowledged, also when the power brought it back.
Unblocked == \A a \in Attempt : (active.attempt = a /\ record[a]) ~> (active.attempt # a)

\* The reservation file is what its lock holder wrote, and a local record leads
\* to it (save, spawn_profile_process).
ReservationSound == WinTypeOK /\ Anchored /\ OwnTemporary
=============================================================================

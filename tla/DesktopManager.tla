--------------------------- MODULE DesktopManager ---------------------------
(***************************************************************************)
(* The desktop's connections: one command at a time per profile, a monitor *)
(* and stream readers per engine, reconnection timers, the quit thread and *)
(* the recovery of attempts whose cleanup is not confirmed.  They share    *)
(* the store, whose mutex makes each section below one step, a lifecycle   *)
(* mutex held by a spawn and by a quit, and one child lock per engine.     *)
(***************************************************************************)
EXTENDS Naturals, Sequences, FiniteSets

CONSTANTS
  Profile,
  MaxAttempt,  \* bound: starts asked for, by users and timers
  MaxAsk,      \* bound: user commands and quits
  MaxFault,    \* bound: failed writes, spawns, leases, signals and drains
  MaxCrash,    \* bound: deaths of the application
  Prompt,      \* does a stop pass its first sections within the backoff (>= 3 s)?
  Recreate     \* does a client save a deleted profile again, with its old id and no revision?

VARIABLES
  app,        \* "up", "down" (died) or "exited"
  exists,     \* store.profiles, all with auto_reconnect
  gen,        \* store.reconnect_generations (0: no entry)
  starting, mutating,
  inst,       \* store.instances: the one instance kept per profile
  stale,      \* store.stale_processes
  records,    \* <attempt>.process.json
  engine,     \* the process of each attempt
  clean,      \* is the attempt's network as it was found?
  up,         \* engines that reported tunnel_up
  held,       \* attempts whose child lock a stop holds
  mon,        \* process monitors
  timers,     \* schedule_auto_reconnect threads
  lifecycle,  \* holder of the lifecycle mutex
  th,         \* the command of each mailbox, and the quit thread
  queue,      \* the mailboxes
  shutting,   \* shutting_down
  stopped,    \* profiles whose last completed request was a stop (for the properties)
  used, asks, faults, crashes

store == <<exists, gen, starting, mutating, inst, stale>>
world == <<records, engine, clean, up, held>>
counts == <<used, asks, faults, crashes>>
vars == <<app, store, world, mon, timers, lifecycle, th, queue, shutting, stopped, counts>>

Attempt == 1 .. MaxAttempt
Quitter == "quit"
Thread == Profile \cup {Quitter}
Free == "free"
NoProfile == "none"

ASSUME DesktopAssumption ==
  /\ {MaxAttempt, MaxAsk, MaxFault, MaxCrash} \subseteq Nat
  /\ Prompt \in BOOLEAN /\ Recreate \in BOOLEAN
  /\ {Quitter, Free, NoProfile} \cap Profile = {}

Alive(a) == engine[a] \in {"gated", "run", "zombie"}

NoInst == [id |-> 0, running |-> FALSE, user |-> FALSE, blocked |-> FALSE, failed |-> FALSE,
           status |-> "none"]
NoMon == [pc |-> "none", retry |-> 0, complete |-> TRUE, p |-> NoProfile]
NoThread == [pc |-> "idle", op |-> "none", p |-> NoProfile, a |-> 0, next |-> 0,
             gen |-> 0, prev |-> "none", cancelled |-> FALSE, todo |-> {}, errors |-> FALSE]

Fault == faults < MaxFault /\ faults' = faults + 1
NoFault == UNCHANGED faults
Up == app = "up"

At(t, pc) == Up /\ th[t].pc = pc
Goto(t, pc) == th' = [th EXCEPT ![t].pc = pc]
Bumped(p) == [gen EXCEPT ![p] = @ + 1]
HasRunning(p) == inst[p].id # 0 /\ (inst[p].running \/ inst[p].failed)
InProgress(p) == p \in starting \/ HasRunning(p)
Unlocked(t) == IF lifecycle = t THEN Free ELSE lifecycle

\* Mutant: a command that ends keeps the lifecycle mutex.
EndKeepsLock(t, ok) ==
  /\ th' = [th EXCEPT ![t] = NoThread] /\ UNCHANGED lifecycle
  /\ starting' = starting \ {th[t].p}
  /\ stopped' = IF th[t].op \in {"stop", "disconnect"} /\ ok THEN stopped \cup {th[t].p} ELSE stopped

\* The command ends: starting_profiles and mutating_profiles are released, the
\* lifecycle guard is dropped; a failed automatic start may be retried.
End(t, ok) ==
  LET c == th[t]
      start == c.op \in {"start", "startup", "auto"} \/ (c.op = "reconnect" /\ c.gen # 0)
  IN  /\ th' = [th EXCEPT ![t] = NoThread]
      /\ lifecycle' = Unlocked(t)
      /\ starting' = IF start THEN starting \ {c.p} ELSE starting
      /\ stopped' = IF c.op \in {"stop", "disconnect"} /\ ok THEN stopped \cup {c.p} ELSE stopped

\* A failed automatic start is answered to the timer thread that asked for it.
Retried(t) ==
  timers' = IF th[t].op = "auto"
            THEN timers \cup {[p |-> th[t].p, gen |-> th[t].gen, id |-> inst[th[t].p].id, pc |-> "failed"]}
            ELSE timers

-----------------------------------------------------------------------------
\* Commands: run_profile_command queues them, one runs at a time per profile.

\* A request that may start an engine carries the number of its attempt.
Numbered(starts) ==
  IF starts THEN used < MaxAttempt /\ used' = used + 1 ELSE UNCHANGED used

\* stop_instance cancels at once what has not registered yet; disconnect_all,
\* the remote disconnect, delete and reconnect do not.
Ask(p, op) ==
  /\ Up /\ asks < MaxAsk /\ asks' = asks + 1
  /\ gen' = IF op = "stop" THEN Bumped(p) ELSE gen
  /\ Numbered(op \in {"start", "reconnect"})
  /\ queue' = [queue EXCEPT ![p] = Append(@, [op |-> op, gen |-> 0, a |-> used'])]
  /\ UNCHANGED <<app, exists, starting, mutating, inst, stale, world, mon, timers, lifecycle,
                 th, shutting, stopped, faults, crashes>>

\* attempt_auto_connect, for a profile that connects when the application starts.
AutoConnect(p) ==
  /\ Up /\ asks < MaxAsk /\ asks' = asks + 1
  /\ p \notin mutating /\ ~InProgress(p)
  /\ Numbered(TRUE)
  /\ queue' = [queue EXCEPT ![p] = Append(@, [op |-> "startup", gen |-> 0, a |-> used'])]
  /\ UNCHANGED <<app, store, world, mon, timers, lifecycle, th, shutting, stopped, faults, crashes>>

Take(p) ==
  /\ At(p, "idle") /\ queue[p] # <<>>
  /\ queue' = [queue EXCEPT ![p] = Tail(@)]
  /\ LET c == Head(queue[p])
     IN  th' = [th EXCEPT ![p] = [NoThread EXCEPT
           !.op = c.op, !.p = p, !.gen = c.gen, !.next = c.a,
           !.pc = CASE c.op \in {"start", "startup", "auto"} -> "admit"
                    [] c.op \in {"stop", "disconnect", "reconnect"} -> "find"
                    [] c.op = "delete" -> "check"
                    [] c.op = "save" -> "reserve"]]
  /\ UNCHANGED <<app, store, world, mon, timers, lifecycle, shutting, stopped, counts>>

-----------------------------------------------------------------------------
\* start_profile_impl

\* Mutant: attempts kept for recovery do not count.
AdmittedAlone(p) ==
  /\ ~shutting /\ p \notin mutating /\ p \in exists /\ starting = {}
  /\ \A q \in Profile : ~inst[q].running

\* connection_service::admit for a new reservation.
Admitted(p) ==
  /\ ~shutting /\ p \notin mutating /\ p \in exists /\ stale = {}
  /\ starting = {}
  /\ \A q \in Profile : ~HasRunning(q)

\* A user's start of a healthy connection reuses it.
Reuses(p) ==
  /\ inst[p].id # 0 /\ inst[p].running /\ ~inst[p].failed
  /\ ~inst[p].user /\ inst[p].status # "disconnecting"

\* Admission and the reservation, in one section; an automatic start needs the
\* generation it was scheduled with, any other start takes a new one.
Admit(t) ==
  LET p == th[t].p
      auto == th[t].op = "auto"
      ok == Admitted(p) /\ (auto => gen[p] = th[t].gen)
  IN /\ At(t, "admit")
     /\ IF ok
        THEN /\ starting' = starting \cup {p}
             /\ gen' = IF auto THEN gen ELSE Bumped(p)
             /\ stopped' = IF auto THEN stopped ELSE stopped \ {p}
             /\ th' = [th EXCEPT ![t].pc = "resolve", ![t].gen = gen'[p]]
             /\ UNCHANGED <<lifecycle, timers>>
        ELSE /\ th' = [th EXCEPT ![t] = NoThread] /\ Retried(t)
             /\ stopped' = IF th[t].op \in {"start", "reconnect"} /\ Reuses(p) THEN stopped \ {p} ELSE stopped
             /\ UNCHANGED <<lifecycle, starting, gen>>
     /\ UNCHANGED <<app, exists, mutating, inst, stale, world, mon, queue, shutting, counts>>

\* A start that fails before it has an engine.
StartFails(t) ==
  /\ End(t, FALSE) /\ Retried(t)
  /\ UNCHANGED <<app, exists, gen, mutating, inst, mon, queue, shutting>>

\* resolve_profile_password, from the vault.
Resolve(t) ==
  /\ At(t, "resolve")
  /\ \/ /\ Goto(t, "lifecycle")
        /\ UNCHANGED <<app, store, mon, timers, lifecycle, queue, shutting, stopped, faults>>
     \/ Fault /\ StartFails(t) /\ UNCHANGED stale
  /\ UNCHANGED <<world, used, asks, crashes>>

\* spawn_profile_process takes the lifecycle mutex and looks again.
SpawnChecks(t) ==
  /\ At(t, "lifecycle") /\ lifecycle = Free
  /\ IF shutting \/ gen[th[t].p] # th[t].gen
     THEN StartFails(t)
     ELSE /\ lifecycle' = t /\ Goto(t, "record")
          /\ UNCHANGED <<app, exists, gen, starting, mutating, inst, mon, timers, queue, shutting, stopped>>
  /\ UNCHANGED <<world, stale, counts>>

\* The configuration and the process record.
WriteRecord(t) ==
  /\ At(t, "record")
  /\ \/ /\ records' = records \cup {th[t].next}
        /\ th' = [th EXCEPT ![t].pc = "acquire", ![t].a = th[t].next]
        /\ UNCHANGED <<app, exists, gen, starting, mutating, inst, mon, timers, lifecycle, queue,
                       shutting, stopped, faults>>
     \/ Fault /\ StartFails(t) /\ UNCHANGED records
  /\ UNCHANGED <<stale, engine, clean, up, held, used, asks, crashes>>

\* ExclusiveLease::acquire: refused, or it fails with the owner perhaps written.
Acquire(t) ==
  LET a == th[t].a
  IN /\ At(t, "acquire")
     /\ \/ /\ Goto(t, "spawn")
           /\ UNCHANGED <<app, store, records, mon, timers, lifecycle, queue, shutting, stopped, faults>>
        \/ /\ Fault /\ StartFails(t)
           /\ \/ stale' = stale \cup {a} /\ UNCHANGED records
              \/ records' = records \ {a} /\ UNCHANGED stale
     /\ UNCHANGED <<engine, clean, up, held, used, asks, crashes>>

\* finish_unstarted_process: the lease is given back and the record removed, or
\* both are left to recovery.
Unstarted(a) ==
  \/ stale' = stale \cup {a} /\ UNCHANGED records
  \/ records' = records \ {a} /\ UNCHANGED stale

\* The engine, gated, or none.
Spawn(t) ==
  LET a == th[t].a
  IN /\ At(t, "spawn")
     /\ \/ /\ engine' = [engine EXCEPT ![a] = "gated"] /\ Goto(t, "bind")
           /\ UNCHANGED <<app, store, records, mon, timers, lifecycle, queue, shutting, stopped, faults>>
        \/ Fault /\ StartFails(t) /\ UNCHANGED engine /\ Unstarted(a)
     /\ UNCHANGED <<clean, up, held, used, asks, crashes>>

\* terminate_unregistered_process_group: surely, or not.
Terminated(a) ==
  /\ engine' \in {[engine EXCEPT ![a] = "gone"], [engine EXCEPT ![a] = "run"]}
  /\ clean' = [clean EXCEPT ![a] = engine'[a] = "gone"]

\* The process group is recorded and bound, and the gate opens; or the group
\* is terminated and the attempt left to recovery.
Bind(t) ==
  LET a == th[t].a
  IN /\ At(t, "bind")
     /\ \/ /\ engine' = [engine EXCEPT ![a] = "run"] /\ Goto(t, "register")
           /\ clean' = [clean EXCEPT ![a] = FALSE]
           /\ UNCHANGED <<app, store, mon, timers, lifecycle, queue, shutting, stopped, faults>>
        \/ /\ Fault /\ StartFails(t)
           /\ stale' = stale \cup {a} /\ Terminated(a)
     /\ UNCHANGED <<records, up, held, used, asks, crashes>>

\* The instance replaces the profile's older one and gets its readers and its
\* monitor; if it was cancelled meanwhile, the same thread stops it.
Register(t) ==
  LET p == th[t].p
      cancelled == shutting \/ gen[p] # th[t].gen
  IN /\ At(t, "register")
     /\ inst' = [inst EXCEPT ![p] = [NoInst EXCEPT !.id = th[t].a, !.running = TRUE, !.status = "starting"]]
     /\ mon' = [mon EXCEPT ![th[t].a] = [NoMon EXCEPT !.pc = "watch", !.p = p]]
     /\ IF cancelled
        THEN /\ th' = [th EXCEPT ![t].pc = "find", ![t].cancelled = TRUE]
             /\ UNCHANGED <<lifecycle, starting, stopped>>
        ELSE End(t, TRUE)
     /\ UNCHANGED <<app, exists, gen, mutating, stale, world, timers, queue, shutting, counts>>

-----------------------------------------------------------------------------
\* stop_instance_impl, called by commands, by a cancelled start and by a quit

\* Where the caller continues.
Return(t, ok) ==
  IF t = Quitter
  THEN /\ th' = [th EXCEPT ![t].pc = "next", ![t].errors = @ \/ ~ok]
       /\ UNCHANGED <<lifecycle, starting, stopped>>
  ELSE IF th[t].op \in {"reconnect", "delete"} /\ ~th[t].cancelled /\ ok
  THEN Goto(t, "waitstop") /\ UNCHANGED <<lifecycle, starting, stopped>>
  ELSE End(t, ok)

\* cancel_reconnect_for_stopped_instance
CancelReconnect(p) == gen' = Bumped(p) /\ inst' = [inst EXCEPT ![p].user = TRUE]

\* The instance, or an unregistered start; one that already stopped is only
\* marked, and its pending reconnection cancelled.
StopFinds(t) ==
  LET p == th[t].p
  IN /\ At(t, "find")
     /\ IF inst[p].id = 0
        THEN /\ gen' = IF p \in starting THEN Bumped(p) ELSE gen
             /\ Return(t, TRUE) /\ UNCHANGED inst
        ELSE IF ~inst[p].running
        THEN CancelReconnect(p) /\ Return(t, TRUE)
        ELSE /\ th' = [th EXCEPT ![t].pc = "previous", ![t].a = inst[p].id]
             /\ UNCHANGED <<gen, inst, lifecycle, starting, stopped>>
     /\ UNCHANGED <<app, exists, mutating, stale, world, mon, timers, queue, shutting, counts>>

StopReads(t) ==
  /\ At(t, "previous")
  /\ th' = [th EXCEPT ![t].pc = "flag", ![t].prev = inst[th[t].p].status]
  /\ UNCHANGED <<app, store, world, mon, timers, lifecycle, queue, shutting, stopped, counts>>

StopFlags(t) ==
  /\ At(t, "flag")
  /\ inst' = [inst EXCEPT ![th[t].p].user = TRUE]
  /\ Goto(t, "child")
  /\ UNCHANGED <<app, exists, gen, starting, mutating, stale, world, mon, timers, lifecycle, queue,
                 shutting, stopped, counts>>

\* Mutant: the stop does not take the child lock.
ChildUnlocked(t) ==
  /\ At(t, "child") /\ Goto(t, "mark")
  /\ UNCHANGED <<app, store, world, mon, timers, lifecycle, queue, shutting, stopped, counts>>

\* The child lock, and a last look: an engine that exited is not signalled.  Without the helper
\* that may signal it the stop fails, with nothing but the wish noted.
StopLocksChild(t) ==
  LET a == th[t].a
      exited == engine[a] \in {"zombie", "gone"}
  IN /\ At(t, "child") /\ a \notin held
     /\ \/ /\ exited /\ Return(t, TRUE) /\ NoFault
           /\ engine' = [engine EXCEPT ![a] = "gone"] /\ UNCHANGED held
        \/ /\ ~exited /\ Goto(t, "mark") /\ NoFault
           /\ held' = held \cup {a} /\ UNCHANGED <<engine, lifecycle, starting, stopped>>
        \/ /\ ~exited /\ Return(t, FALSE) /\ Fault
           /\ UNCHANGED <<engine, held>>
     /\ UNCHANGED <<app, exists, gen, mutating, inst, stale, records, clean, up, mon, timers, queue,
                    shutting, used, asks, crashes>>

\* The stop is published and every older timer loses its generation.
StopMarks(t) ==
  LET p == th[t].p
  IN /\ At(t, "mark")
     /\ gen' = Bumped(p)
     /\ inst' = [inst EXCEPT ![p].user = TRUE, ![p].status = "disconnecting"]
     /\ Goto(t, "signal")
     /\ UNCHANGED <<app, exists, starting, mutating, stale, world, mon, timers, lifecycle, queue,
                    shutting, stopped, counts>>

\* restore_instance_after_stop_failure: the wish to stop stays.
StopFailed(p, prev) ==
  inst' = IF inst[p].status = "disconnecting" THEN [inst EXCEPT ![p].status = prev, ![p].user = TRUE]
          ELSE inst

\* The signal, and the child lock is released.
StopSignals(t) ==
  LET a == th[t].a
  IN /\ At(t, "signal")
     /\ held' = held \ {a}
     /\ \/ /\ engine[a] # "gone" /\ NoFault /\ Goto(t, "gone")
           /\ UNCHANGED <<inst, lifecycle, starting, stopped>>
        \/ /\ Fault
           /\ IF inst[th[t].p].running
              THEN Return(t, FALSE) /\ StopFailed(th[t].p, th[t].prev)
              ELSE Return(t, TRUE) /\ UNCHANGED inst
     /\ UNCHANGED <<app, exists, gen, mutating, stale, records, engine, clean, up, mon, timers, queue,
                    shutting, used, asks, crashes>>

\* Up to 15 s for the process group to disappear.
StopWaits(t) ==
  /\ At(t, "gone")
  /\ \/ ~Alive(th[t].a) /\ Return(t, TRUE)
     \/ Alive(th[t].a) /\ Return(t, FALSE)
  /\ UNCHANGED <<app, exists, gen, mutating, inst, stale, world, mon, timers, queue, shutting, counts>>

-----------------------------------------------------------------------------
\* delete, reconnect and save

\* check_delete: the profile exists (a stale revision is refused).
DeleteChecks(t) ==
  /\ At(t, "check")
  /\ IF th[t].p \in exists THEN Goto(t, "find") /\ UNCHANGED <<lifecycle, starting, stopped>>
     ELSE End(t, FALSE)
  /\ UNCHANGED <<app, exists, gen, mutating, inst, stale, world, mon, timers, queue, shutting, counts>>

\* wait_for_profile_to_stop: 15 s.
WaitsForStop(t) ==
  /\ At(t, "waitstop")
  /\ \/ /\ ~InProgress(th[t].p)
        /\ th' = [th EXCEPT ![t].pc = IF th[t].op = "delete" THEN "reserve" ELSE "admit", ![t].a = 0]
        /\ UNCHANGED <<lifecycle, starting, stopped>>
     \/ InProgress(th[t].p) /\ End(t, FALSE)
  /\ UNCHANGED <<app, exists, gen, mutating, inst, stale, world, mon, timers, queue, shutting, counts>>

\* reserve_profile_mutation, for delete and save.
ReserveMutation(t) ==
  LET p == th[t].p
  IN /\ At(t, "reserve")
     /\ IF p \in mutating \/ InProgress(p)
        THEN End(t, FALSE) /\ UNCHANGED <<mutating, gen>>
        ELSE /\ mutating' = mutating \cup {p} /\ gen' = Bumped(p) /\ Goto(t, "mutate")
             /\ UNCHANGED <<lifecycle, starting, stopped>>
     /\ UNCHANGED <<app, exists, inst, stale, world, mon, timers, queue, shutting, counts>>

\* The repository's transaction (CredentialStore), then the store: a deleted
\* profile leaves nothing, its generation included.  Saving a profile that is
\* gone is refused, unless no revision is given: then it is created.
Mutate(t) ==
  LET p == th[t].p
  IN /\ At(t, "mutate")
     /\ mutating' = mutating \ {p} /\ End(t, TRUE)
     /\ \/ /\ th[t].op = "delete"
           /\ exists' = exists \ {p} /\ gen' = [gen EXCEPT ![p] = 0] /\ inst' = [inst EXCEPT ![p] = NoInst]
        \/ /\ th[t].op = "save"
           /\ exists' = IF Recreate THEN exists \cup {p} ELSE exists
           /\ UNCHANGED <<gen, inst>>
     /\ UNCHANGED <<app, stale, world, mon, timers, queue, shutting, counts>>

-----------------------------------------------------------------------------
\* The engine (its own modules say more), its readers and its monitor

EngineUp(a) ==
  /\ engine[a] = "run" /\ a \notin up /\ up' = up \cup {a}
  /\ UNCHANGED <<app, store, records, engine, clean, held, mon, timers, lifecycle, th, queue, shutting,
                 stopped, counts>>

\* It ends by itself or by the signal, its network restored or not.
EngineExits(a) ==
  /\ engine[a] = "run"
  /\ engine' = [engine EXCEPT ![a] = IF a \in stale \/ ~Up THEN "gone" ELSE "zombie"]
  /\ clean' \in {clean, [clean EXCEPT ![a] = TRUE]}
  /\ UNCHANGED <<app, store, records, up, held, mon, timers, lifecycle, th, queue, shutting, stopped, counts>>

Reading(a) == Up /\ mon[a].pc \in {"watch", "drain"}

\* can_transition_instance
Forward(from, to) ==
  \/ from = "starting" /\ to \in {"connected", "disconnecting"}
  \/ from = "connected" /\ to = "disconnecting"

\* tunnel_down or a closing state.
ReaderCloses(a) ==
  LET p == mon[a].p
  IN /\ Reading(a) /\ inst[p].id = a /\ inst[p].running /\ Forward(inst[p].status, "disconnecting")
     /\ inst' = [inst EXCEPT ![p].status = "disconnecting"]
     /\ UNCHANGED <<app, exists, gen, starting, mutating, stale, world, mon, timers, lifecycle, th, queue,
                    shutting, stopped, counts>>

\* update_instance: only a running instance, only forward.
ReaderConnected(a) ==
  LET p == mon[a].p
  IN /\ Reading(a) /\ a \in up /\ inst[p].id = a /\ inst[p].running
     /\ Forward(inst[p].status, "connected")
     /\ inst' = [inst EXCEPT ![p].status = "connected", ![p].blocked = FALSE]
     /\ UNCHANGED <<app, exists, gen, starting, mutating, stale, world, mon, timers, lifecycle, th, queue,
                    shutting, stopped, counts>>

\* A permanent error, a certificate error or a failed cleanup.
ReaderBlocks(a) ==
  LET p == mon[a].p
  IN /\ Reading(a) /\ inst[p].id = a /\ ~inst[p].blocked
     /\ inst' = [inst EXCEPT ![p].blocked = TRUE]
     /\ UNCHANGED <<app, exists, gen, starting, mutating, stale, world, mon, timers, lifecycle, th, queue,
                    shutting, stopped, counts>>

Reap(a) ==
  /\ Up /\ mon[a].pc = "watch" /\ a \notin held /\ engine[a] \in {"zombie", "gone"}
  /\ engine' = [engine EXCEPT ![a] = "gone"]
  /\ mon' = [mon EXCEPT ![a].pc = "drain"]
  /\ UNCHANGED <<app, store, records, clean, up, held, timers, lifecycle, th, queue, shutting, stopped, counts>>

\* drain_stream_readers: two seconds for the output to end.
Drain(a) ==
  /\ Up /\ mon[a].pc = "drain"
  /\ \/ NoFault /\ mon' = [mon EXCEPT ![a].pc = "settle"]
     \/ Fault /\ mon' = [mon EXCEPT ![a].pc = "settle", ![a].complete = FALSE]
  /\ UNCHANGED <<app, store, world, timers, lifecycle, th, queue, shutting, stopped, used, asks, crashes>>

\* The monitor's section: cleanup is judged, the lease finished, the instance
\* becomes terminal, and a retry is decided under the current generation.
\* EngineLifecycle::reaped judges by the events: a change it cannot rule out (a cut output, an
\* event it refused, a phase without its cleanup_result) counts as one.  It never misses one, since
\* an engine announces `configuring' before it changes the host and its cleanup_result is true.
Settle(a) ==
  LET p == mon[a].p
      known == inst[p].id = a
  IN /\ Up /\ mon[a].pc = "settle"
     /\ \E reaped, finished, permanent \in BOOLEAN :
          LET failed == ~reaped \/ ~finished
              blocked == inst[p].blocked \/ failed \/ permanent
              retry == ~inst[p].user /\ ~blocked /\ p \in exists
          IN /\ reaped => clean[a] /\ mon[a].complete
             /\ IF finished THEN NoFault ELSE Fault
             /\ inst' = IF ~known THEN inst
                        ELSE [inst EXCEPT ![p] = [@ EXCEPT !.running = FALSE, !.failed = failed,
                               !.blocked = blocked,
                               !.status = IF ~failed /\ (inst[p].user \/ ~permanent)
                                          THEN "disconnected" ELSE "failed"]]
             /\ mon' = [mon EXCEPT ![a].pc = IF known THEN "unlink" ELSE "done",
                                   ![a].retry = IF known /\ retry THEN gen[p] ELSE 0]
     /\ UNCHANGED <<app, exists, gen, starting, mutating, stale, world, timers, lifecycle, th, queue,
                    shutting, stopped, used, asks, crashes>>

\* Mutant: the record goes although the cleanup is not confirmed.
UnlinkAlways(a) ==
  /\ Up /\ mon[a].pc = "unlink"
  /\ records' = records \ {a} /\ mon' = [mon EXCEPT ![a].pc = "done"]
  /\ UNCHANGED <<app, store, engine, clean, up, held, timers, lifecycle, th, queue, shutting, stopped, counts>>

\* The process record goes unless recovery is owed; then the timer starts.
Unlink(a) ==
  LET p == mon[a].p
  IN /\ Up /\ mon[a].pc = "unlink"
     /\ records' = IF inst[p].id = a /\ ~inst[p].failed THEN records \ {a} ELSE records
     /\ timers' = IF mon[a].retry = 0 THEN timers
                  ELSE timers \cup {[p |-> p, gen |-> mon[a].retry, id |-> a, pc |-> "wait"]}
     /\ mon' = [mon EXCEPT ![a].pc = "done"]
     /\ UNCHANGED <<app, store, engine, clean, up, held, lifecycle, th, queue, shutting, stopped, counts>>

-----------------------------------------------------------------------------
\* schedule_auto_reconnect

\* Within 50 ms of a quit or of another generation.
TimerCancelled(r) ==
  /\ Up /\ r.pc = "wait" /\ (shutting \/ gen[r.p] # r.gen)
  /\ timers' = timers \ {r}
  /\ UNCHANGED <<app, store, world, mon, lifecycle, th, queue, shutting, stopped, counts>>

\* Mutant: a retry does not ask whether it is still wanted.
StillEnabledAlways(r) == TRUE

StillEnabled(r) ==
  /\ r.p \in exists /\ inst[r.p].id # 0 /\ ~inst[r.p].user /\ ~inst[r.p].blocked
  /\ gen[r.p] = r.gen /\ ~HasRunning(r.p)

\* The deadline passes; the start goes through the mailbox.
TimerDue(r) ==
  /\ Up /\ r.pc = "wait" /\ ~shutting
  /\ Prompt => ~\E t \in Thread : th[t].p = r.p /\ th[t].pc \in {"previous", "flag", "child"}
  /\ timers' = timers \ {r}
  /\ Numbered(StillEnabled(r))
  /\ queue' = IF StillEnabled(r)
              THEN [queue EXCEPT ![r.p] = Append(@, [op |-> "auto", gen |-> r.gen, a |-> used'])]
              ELSE queue
  /\ UNCHANGED <<app, store, world, mon, lifecycle, th, shutting, stopped, asks, faults, crashes>>

\* After a failed start: another delay, under the same generation.
TimerRetries(r) ==
  /\ Up /\ r.pc = "failed"
  /\ timers' = (timers \ {r}) \cup
       IF ~shutting /\ StillEnabled(r) THEN {[r EXCEPT !.pc = "wait"]} ELSE {}
  /\ UNCHANGED <<app, store, world, mon, lifecycle, th, queue, shutting, stopped, counts>>

-----------------------------------------------------------------------------
\* Quit: shutdown_connections under the lifecycle mutex

Quit ==
  /\ At(Quitter, "idle") /\ asks < MaxAsk /\ asks' = asks + 1
  /\ shutting' = TRUE /\ Goto(Quitter, "lock")
  /\ UNCHANGED <<app, store, world, mon, timers, lifecycle, queue, stopped, used, faults, crashes>>

\* Every generation changes, every reservation is dropped.
QuitLocks ==
  /\ At(Quitter, "lock") /\ lifecycle = Free /\ lifecycle' = Quitter
  /\ gen' = [p \in Profile |-> IF p \in exists THEN gen[p] + 1 ELSE gen[p]]
  /\ starting' = {}
  /\ th' = [th EXCEPT ![Quitter].pc = "next", ![Quitter].todo = {p \in Profile : inst[p].running}]
  /\ UNCHANGED <<app, exists, mutating, inst, stale, world, mon, timers, queue, shutting, stopped, counts>>

\* The application stays if a connection could not be stopped.  (When macOS ends the event loop
\* without asking, the same steps run and the process ends all the same: Crash, here.)
QuitBlocked ==
  /\ th' = [th EXCEPT ![Quitter] = NoThread] /\ shutting' = FALSE /\ lifecycle' = Free

QuitNext ==
  /\ At(Quitter, "next")
  /\ IF th[Quitter].todo # {}
     THEN /\ \E p \in th[Quitter].todo :
               th' = [th EXCEPT ![Quitter].pc = "find", ![Quitter].p = p, ![Quitter].todo = @ \ {p}]
          /\ UNCHANGED <<lifecycle, shutting>>
     ELSE IF th[Quitter].errors THEN QuitBlocked
     ELSE Goto(Quitter, "wait") /\ UNCHANGED <<lifecycle, shutting>>
  /\ UNCHANGED <<app, store, world, mon, timers, queue, stopped, counts>>

\* Mutant: the quit does not wait for the monitors.
QuitAtOnce ==
  /\ At(Quitter, "wait") /\ app' = "exited"
  /\ UNCHANGED <<store, world, mon, timers, queue, stopped, counts, th, lifecycle, shutting>>

\* 15 s for every instance to stop.
QuitWaits ==
  /\ At(Quitter, "wait")
  /\ IF \E p \in Profile : inst[p].running THEN QuitBlocked /\ UNCHANGED app
     ELSE app' = "exited" /\ UNCHANGED <<th, lifecycle, shutting>>
  /\ UNCHANGED <<store, world, mon, timers, queue, stopped, counts>>

-----------------------------------------------------------------------------
\* Recovery, and the death of the application

\* acknowledge_recovery: the operator restored the network, the engine is gone.
Acknowledge(a) ==
  /\ Up /\ lifecycle = Free /\ a \in records
  /\ ~\E p \in Profile : inst[p].id = a /\ inst[p].running
  /\ ~Alive(a)
  /\ records' = records \ {a} /\ stale' = stale \ {a} /\ clean' = [clean EXCEPT ![a] = TRUE]
  /\ inst' = [p \in Profile |-> IF inst[p].id = a
                THEN [inst[p] EXCEPT !.failed = FALSE, !.status = "disconnected"] ELSE inst[p]]
  /\ UNCHANGED <<app, exists, gen, starting, mutating, engine, up, held, mon, timers, lifecycle, th, queue,
                 shutting, stopped, counts>>

\* cleanup_stale_runtime_processes stops what a previous run left.
CleanupStale(a) ==
  /\ Up /\ a \in stale /\ engine[a] = "run"
  /\ engine' = [engine EXCEPT ![a] = "gone"]
  /\ clean' \in {clean, [clean EXCEPT ![a] = TRUE]}
  /\ UNCHANGED <<app, store, records, up, held, mon, timers, lifecycle, th, queue, shutting, stopped, counts>>

\* A gated engine sees its launcher end and does not start.
Crash ==
  /\ Up /\ crashes < MaxCrash /\ crashes' = crashes + 1 /\ app' = "down"
  /\ engine' = [a \in Attempt |-> IF engine[a] \in {"gated", "zombie"} THEN "gone" ELSE engine[a]]
  /\ gen' = [p \in Profile |-> 0] /\ starting' = {} /\ mutating' = {} /\ stale' = {}
  /\ inst' = [p \in Profile |-> NoInst] /\ held' = {}
  /\ mon' = [a \in Attempt |-> NoMon] /\ timers' = {} /\ lifecycle' = Free
  /\ th' = [t \in Thread |-> NoThread] /\ queue' = [p \in Profile |-> <<>>] /\ shutting' = FALSE
  /\ stopped' = {}
  /\ UNCHANGED <<exists, records, clean, up, used, asks, faults>>

\* load_stale_runtime_processes: a missing process proves nothing about the network.
Restart ==
  /\ app = "down" /\ app' = "up" /\ stale' = records
  /\ UNCHANGED <<exists, gen, starting, mutating, inst, world, mon, timers, lifecycle, th, queue, shutting,
                 stopped, counts>>

-----------------------------------------------------------------------------
Init ==
  /\ app = "up" /\ exists = Profile /\ gen = [p \in Profile |-> 0]
  /\ starting = {} /\ mutating = {} /\ inst = [p \in Profile |-> NoInst] /\ stale = {}
  /\ records = {} /\ engine = [a \in Attempt |-> "none"] /\ clean = [a \in Attempt |-> TRUE]
  /\ up = {} /\ held = {} /\ mon = [a \in Attempt |-> NoMon] /\ timers = {}
  /\ lifecycle = Free /\ th = [t \in Thread |-> NoThread] /\ queue = [p \in Profile |-> <<>>]
  /\ shutting = FALSE /\ stopped = {}
  /\ used = 0 /\ asks = 0 /\ faults = 0 /\ crashes = 0

Ops == {"start", "stop", "disconnect", "reconnect", "delete", "save"}

StopStep(t) ==
  \/ StopFinds(t) \/ StopReads(t) \/ StopFlags(t) \/ StopLocksChild(t) \/ StopMarks(t)
  \/ StopSignals(t) \/ StopWaits(t)

CommandStep(p) ==
  \/ Take(p) \/ Admit(p) \/ Resolve(p) \/ SpawnChecks(p) \/ WriteRecord(p) \/ Acquire(p)
  \/ Spawn(p) \/ Bind(p) \/ Register(p) \/ StopStep(p)
  \/ DeleteChecks(p) \/ WaitsForStop(p) \/ ReserveMutation(p) \/ Mutate(p)

QuitStep == QuitLocks \/ QuitNext \/ QuitWaits \/ StopStep(Quitter)

MonitorStep(a) == Reap(a) \/ Drain(a) \/ Settle(a) \/ Unlink(a)

TimerStep(r) == TimerCancelled(r) \/ TimerDue(r) \/ TimerRetries(r)

Next ==
  \/ \E p \in Profile : CommandStep(p) \/ AutoConnect(p) \/ \E op \in Ops : Ask(p, op)
  \/ \E a \in Attempt : MonitorStep(a) \/ EngineUp(a) \/ EngineExits(a) \/ ReaderConnected(a) \/ ReaderCloses(a)
       \/ ReaderBlocks(a) \/ Acknowledge(a) \/ CleanupStale(a)
  \/ \E r \in timers : TimerStep(r)
  \/ Quit \/ QuitStep \/ Crash \/ Restart

Spec == Init /\ [][Next]_vars

\* Threads run; an engine that was signalled ends; the user does nothing.
FairSpec ==
  /\ Spec
  /\ \A p \in Profile : WF_vars(CommandStep(p))
  /\ \A a \in Attempt : WF_vars(MonitorStep(a)) /\ WF_vars(Reap(a))
  /\ WF_vars(QuitStep)
  /\ WF_vars(\E r \in timers : TimerStep(r))

-----------------------------------------------------------------------------
\* Sets and numbers are in range, and a start holds the lifecycle mutex from its
\* second look to the end.
DesktopTypeOK ==
  /\ app \in {"up", "down", "exited"} /\ exists \subseteq Profile
  /\ starting \subseteq Profile /\ mutating \subseteq Profile
  /\ stale \subseteq Attempt /\ records \subseteq Attempt /\ held \subseteq Attempt
  /\ lifecycle \in Thread \cup {Free}
  /\ \A p \in Profile : inst[p].id \in 0 .. used
  /\ \A a \in Attempt : a > used => engine[a] = "none" /\ a \notin records
  /\ \A t \in Thread :
       /\ th[t].next \in 0 .. used
       /\ th[t].pc \in {"record", "acquire", "spawn", "bind", "register"} => lifecycle = t

\* An engine that may be alive, or whose network is not restored, has a record
\* that a restart finds: nothing is forgotten by a crash at any step.
NothingForgotten ==
  \A a \in Attempt : Alive(a) \/ ~clean[a] => a \in records

\* One engine owns the network: no other is started while one is alive or its
\* cleanup is not confirmed, also after a crash, a failed stop or a failed quit.
OneOwner == Cardinality({a \in Attempt : Alive(a) \/ ~clean[a]}) <= 1

\* Only the monitor declares an instance terminal: while it shows a running
\* state its engine is watched, and once terminal its engine is gone.
TerminalMeansReaped ==
  \A p \in Profile :
    /\ inst[p].id # 0 /\ inst[p].status \in {"disconnected", "failed"}
         => ~inst[p].running /\ engine[inst[p].id] = "gone"
    /\ inst[p].id # 0 /\ inst[p].running => inst[p].status \notin {"disconnected", "failed"}

\* A signal goes to a process that was not reaped: its number is still its own.
SignalsOwnChild ==
  \A t \in Thread : At(t, "signal") => engine[th[t].a] \in {"run", "zombie"}

\* No automatic reconnection revives a connection that a completed stop ended.
StopHonoured ==
  [][\A p \in Profile :
       inst'[p].id \notin {0, inst[p].id} /\ th[p].op = "auto" /\ ~th'[p].cancelled => p \notin stopped]_vars

\* A quit that completes leaves no engine but those kept for recovery, and no
\* attempt whose cleanup is still to be judged.
ExitLeavesNothing ==
  app = "exited" =>
    \A a \in Attempt : (Alive(a) => a \in stale) /\ mon[a].pc \notin {"watch", "drain", "settle"}

\* Every command ends: no two threads wait for one another.
CommandsEnd == \A p \in Profile : (th[p].pc # "idle") ~> (th[p].pc = "idle" \/ app # "up")

\* A quit ends the application or gives it back.
QuitEnds == shutting ~> (~shutting \/ app # "up")

\* An engine is watched until it is reaped, and signalled only until then
\* (spawn_process_monitor, stop_instance_impl, the child lock between them).
ChildrenWatched == DesktopTypeOK /\ TerminalMeansReaped /\ SignalsOwnChild

\* Commands and quits end.
DesktopEnds == CommandsEnd /\ QuitEnds

-----------------------------------------------------------------------------
\* The inductive strengthening of the invariants above.

StartPc == {"resolve", "lifecycle", "record", "acquire", "spawn", "bind", "register"}
LockedPc == {"record", "acquire", "spawn", "bind", "register"}
StopPc == {"find", "previous", "flag", "child", "mark", "signal", "gone"}
CommandPc == {"idle", "admit", "check", "waitstop", "reserve", "mutate"} \cup StartPc \cup StopPc
Starters == {"start", "startup", "auto", "reconnect"}
Watching == {"watch", "drain", "settle"}
Terminal == {"disconnected", "failed"}
Statuses == {"none", "starting", "connected", "disconnecting"} \cup Terminal
Commands == {"start", "startup", "auto", "stop", "disconnect", "reconnect", "delete", "save"}

Instance == [id : 0 .. MaxAttempt, running : BOOLEAN, user : BOOLEAN, blocked : BOOLEAN,
             failed : BOOLEAN, status : Statuses]
Monitor == [pc : {"none", "unlink", "done"} \cup Watching, retry : Nat, complete : BOOLEAN,
            p : Profile \cup {NoProfile}]
Timer == [p : Profile, gen : Nat, id : 0 .. MaxAttempt, pc : {"wait", "failed"}]
Command == [op : Commands, gen : Nat, a : 0 .. MaxAttempt]
ThreadState == [pc : CommandPc \cup {"lock", "next", "wait"}, op : Commands \cup {"none"},
                p : Profile \cup {NoProfile}, a : 0 .. MaxAttempt, next : 0 .. MaxAttempt,
                gen : Nat, prev : Statuses, cancelled : BOOLEAN, todo : SUBSET Profile,
                errors : BOOLEAN]

Typed ==
  /\ app \in {"up", "down", "exited"} /\ exists \subseteq Profile
  /\ gen \in [Profile -> Nat] /\ starting \subseteq Profile /\ mutating \subseteq Profile
  /\ inst \in [Profile -> Instance]
  /\ stale \subseteq Attempt /\ records \subseteq Attempt /\ held \subseteq Attempt /\ up \subseteq Attempt
  /\ engine \in [Attempt -> {"none", "gated", "run", "zombie", "gone"}]
  /\ clean \in [Attempt -> BOOLEAN]
  /\ mon \in [Attempt -> Monitor]
  /\ timers \subseteq Timer
  /\ lifecycle \in Thread \cup {Free}
  /\ th \in [Thread -> ThreadState]
  /\ queue \in [Profile -> Seq(Command)]
  /\ shutting \in BOOLEAN /\ stopped \subseteq Profile
  /\ used \in 0 .. MaxAttempt /\ asks \in Nat /\ faults \in Nat /\ crashes \in Nat

\* The command of a mailbox is of its profile; who is between a spawn's second
\* look and its end, or in a quit's stops, holds the lifecycle mutex.
Holds(p) ==
  LET c == th[p]
  IN  /\ c.pc \in CommandPc
      /\ IF c.pc = "idle" THEN c = NoThread ELSE c.p = p /\ c.op # "none"
      /\ c.pc \in LockedPc \/ c.cancelled => lifecycle = p
      /\ c.cancelled => c.pc \in StopPc
      /\ c.pc \in StartPc \cup {"admit"} \/ c.cancelled => c.op \in Starters
      /\ c.op = "reconnect" /\ (c.pc \in StartPc \/ c.cancelled) => c.gen # 0
      /\ c.pc = "waitstop" => c.op \in {"reconnect", "delete"}

QuitHolds ==
  LET c == th[Quitter]
  IN  /\ c.pc \in {"idle", "lock", "next", "wait"} \cup StopPc
      /\ c.pc \in StopPc => c.p \in Profile
      /\ c.pc \notin {"idle", "lock"} => lifecycle = Quitter
      /\ c.op = "none" /\ ~c.cancelled

ThreadsHold == (\A p \in Profile : Holds(p)) /\ QuitHolds

\* Nobody else is connected, connecting or waiting for recovery.
Alone(p) == p \in starting /\ stale = {} /\ \A q \in Profile : ~HasRunning(q)

\* A start is alone, or has lost its generation and will end; nothing that is
\* connected is edited.
Starts(p) ==
  /\ p \in exists /\ ~inst[p].running
  /\ th[p].pc \in LockedPc => Alone(p)
  /\ th[p].gen <= gen[p] /\ (Alone(p) \/ th[p].gen < gen[p])

StartsAlone ==
  /\ \A p \in starting : th[p].pc \in StartPc \/ th[p].cancelled
  /\ \A p, q \in starting : p = q
  /\ \A p \in Profile : th[p].pc \in StartPc => Starts(p)
  /\ \A p \in Profile : th[p].pc = "mutate" => ~HasRunning(p)

\* Nothing has happened under the number yet.
Fresh(a) ==
  /\ a \in 1 .. used /\ engine[a] = "none" /\ clean[a]
  /\ a \notin records /\ a \notin stale /\ mon[a].pc = "none"
  /\ \A p \in Profile : inst[p].id # a

\* The command has a number it has not used.
Waiting(p) ==
  /\ th[p].op \in Starters /\ ~th[p].cancelled
  /\ th[p].pc \notin {"idle", "acquire", "spawn", "bind", "register"}

\* Every start has a number of its own.
NumbersFresh ==
  /\ \A p \in Profile : \A i \in DOMAIN queue[p] :
       queue[p][i].op \in Starters => Fresh(queue[p][i].a)
  /\ \A p \in Profile : Waiting(p) => Fresh(th[p].next)
  /\ \A p, q \in Profile : \A i \in DOMAIN queue[p], j \in DOMAIN queue[q] :
       queue[p][i].op \in Starters /\ queue[q][j].op \in Starters
         /\ queue[p][i].a = queue[q][j].a => p = q /\ i = j
  /\ \A p, q \in Profile : \A i \in DOMAIN queue[p] :
       queue[p][i].op \in Starters /\ Waiting(q) => queue[p][i].a # th[q].next
  /\ \A p, q \in Profile :
       Waiting(p) /\ Waiting(q) /\ th[p].next = th[q].next => p = q

\* Where the attempt of a start that holds the lifecycle mutex is.
Built(p) ==
  LET a == th[p].a
  IN  /\ a \in 1 .. used /\ a \in records /\ a \notin stale /\ mon[a].pc = "none"
      /\ \A q \in Profile : inst[q].id # a
      /\ th[p].pc \in {"acquire", "spawn"} => engine[a] = "none"
      /\ th[p].pc = "bind" => engine[a] = "gated"
      /\ th[p].pc = "register" => engine[a] \in {"run", "zombie"}
      /\ th[p].pc # "register" => clean[a]

AttemptsBuilt == \A p \in Profile : th[p].pc \in LockedPc \ {"record"} => Built(p)

\* An instance runs exactly as long as its monitor watches; then its engine is
\* gone, and restored unless the instance says otherwise.
InstancesWatched ==
  /\ \A p \in Profile :
       LET i == inst[p]
       IN  /\ i.running => i.id # 0 /\ mon[i.id].pc \in Watching /\ i.status \notin Terminal
           /\ i.id # 0 => i.id \in 1 .. used /\ mon[i.id].pc # "none" /\ mon[i.id].p = p
           /\ i.id # 0 /\ ~i.running => mon[i.id].pc \in {"unlink", "done"}
           /\ i.id # 0 /\ ~i.running /\ ~i.failed => clean[i.id]
  /\ \A a \in Attempt :
       /\ mon[a].pc # "none" =>
            a \in 1 .. used /\ a \notin stale /\ engine[a] \in {"run", "zombie", "gone"} /\ mon[a].p \in Profile
       /\ mon[a].pc \in Watching => inst[mon[a].p].id = a /\ inst[mon[a].p].running
       /\ mon[a].pc \in {"drain", "settle", "unlink", "done"} => engine[a] = "gone"

\* The attempt has an engine, or a network to restore.
Owes(a) == Alive(a) \/ ~clean[a]

\* While the application is up somebody knows of every such attempt.
Known(a) ==
  \/ a \in stale
  \/ \E p \in Profile : inst[p].id = a /\ (inst[p].running \/ inst[p].failed)
  \/ \E p \in Profile : th[p].pc \in {"bind", "register"} /\ th[p].a = a

OwnersKnown ==
  /\ \A a \in Attempt : Owes(a) => a \in records /\ (Up => Known(a))
  /\ \A a, b \in Attempt : Owes(a) /\ Owes(b) => a = b
  /\ \A a \in Attempt : a > used => engine[a] = "none" /\ a \notin records /\ a \notin stale

\* The child lock keeps the engine a stop is about to signal from being reaped.
ChildrenHeld ==
  /\ \A t \in Thread : th[t].pc \in StopPc \ {"find"} =>
       th[t].a \in Attempt /\ mon[th[t].a].pc # "none"
  /\ \A t \in Thread : th[t].pc \in {"mark", "signal"} =>
       th[t].a \in held /\ engine[th[t].a] \in {"run", "zombie"}
  /\ \A t, u \in Thread :
       th[t].pc \in {"mark", "signal"} /\ th[u].pc \in {"mark", "signal"} /\ th[t].a = th[u].a => t = u
  /\ \A t \in Thread : th[t].pc \in {"flag", "child", "mark", "signal"} =>
       (inst[th[t].p].running => th[t].prev \notin Terminal)

\* An application that died keeps nothing but its files.
DownMeansFiles ==
  app = "down" => /\ \A t \in Thread : th[t].pc = "idle"
                  /\ \A a \in Attempt : mon[a].pc = "none"
                  /\ \A p \in Profile : inst[p] = NoInst /\ queue[p] = <<>>

\* Numbers in threads and mailboxes have been given out.
NumbersGiven ==
  /\ \A t \in Thread : th[t].next \in 0 .. used
  /\ \A p \in Profile : \A i \in DOMAIN queue[p] : queue[p][i].a \in 0 .. used

DesktopInv ==
  /\ Typed /\ ThreadsHold /\ StartsAlone /\ NumbersFresh /\ NumbersGiven /\ AttemptsBuilt
  /\ InstancesWatched /\ OwnersKnown /\ ChildrenHeld /\ DownMeansFiles /\ ExitLeavesNothing

\* The strengthening of StopHonoured, where a stop is prompt and no deleted
\* profile comes back.  Automatic starts of p that still have its generation:
\* decided by a monitor, waiting in a timer, queued, or being carried out.
Decided(p) ==
  {a \in Attempt : mon[a].pc = "unlink" /\ mon[a].p = p /\ mon[a].retry = gen[p] /\ gen[p] # 0}
Timed(p) == {r \in timers : r.p = p /\ r.gen = gen[p]}
Queued(p) == {i \in DOMAIN queue[p] : queue[p][i].op = "auto" /\ queue[p][i].gen = gen[p]}
Carried(p) == th[p].op = "auto" /\ th[p].gen = gen[p] /\ th[p].pc \in StartPc \cup {"admit"}

NonePending(p) == Decided(p) = {} /\ Timed(p) = {} /\ Queued(p) = {}

\* No automatic start is ahead of its profile's generation.
GensPast(p) ==
  /\ \A a \in Attempt : mon[a].pc = "unlink" /\ mon[a].p = p => mon[a].retry <= gen[p]
  /\ \A r \in timers : r.p = p => r.gen <= gen[p]
  /\ \A i \in DOMAIN queue[p] : queue[p][i].op = "auto" => queue[p][i].gen <= gen[p]
  /\ th[p].op = "auto" => th[p].gen <= gen[p]

\* At most one is pending, and none while p is connected or being started.
OnePending(p) ==
  /\ \A a, b \in Decided(p) : a = b
  /\ \A r, s \in Timed(p) : r = s
  /\ \A i, j \in Queued(p) : i = j
  /\ Decided(p) # {} => Timed(p) = {} /\ Queued(p) = {}
  /\ Timed(p) # {} => Queued(p) = {}
  /\ inst[p].running \/ inst[p].id = 0 \/ th[p].pc \in StartPc \/ Carried(p) => NonePending(p)
  /\ inst[p].running \/ inst[p].id = 0 => ~Carried(p)

\* A stop that found its instance has seen no start queued, and from the child
\* lock on the instance is marked.
StopsSeen(p) ==
  /\ th[p].pc \in StopPc \ {"find"} => Queued(p) = {}
  /\ th[p].pc \in {"child", "mark", "signal", "gone"} => inst[p].user

\* What was stopped is not being started, and is marked or has nothing pending.
StaysStopped(p) ==
  /\ th[p].pc \notin StartPc /\ ~th[p].cancelled /\ ~Carried(p) /\ Queued(p) = {}
  /\ inst[p].user \/ (NonePending(p) /\ ~inst[p].running)

RetriesSpent(p) ==
  GensPast(p) /\ OnePending(p) /\ StopsSeen(p) /\ (p \in stopped => StaysStopped(p))

RetryInv == \A p \in exists : RetriesSpent(p)

=============================================================================

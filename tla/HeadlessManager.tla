-------------------------- MODULE HeadlessManager --------------------------
(***************************************************************************)
(* The connection lifecycle of headless/src/manager.rs: user commands,     *)
(* one supervisor task per admitted connection, the engine processes they  *)
(* spawn behind a launch gate, the readers of the engines' event streams,  *)
(* and the three durable facts that outlive the manager: run records,      *)
(* the reservation of the network authority, and the engines themselves.   *)
(* The desktop's privileged helper competes for the same authority.        *)
(*                                                                         *)
(* A step is what a task does under one hold of the runtime lock, or one   *)
(* durable write.  retain_recovery is part of the failing step before it:  *)
(* until then the profile's control is active, so nobody reads the flag.   *)
(***************************************************************************)
EXTENDS NetworkAuthority, Naturals, Sequences, FiniteSets

CONSTANTS
  Profile,       \* profile ids
  Fresh,         \* attempt ids the manager draws (UUIDs)
  Helpers,       \* attempt ids of the desktop's helper, one per process
  Gates,         \* may the engine support the launch gate (TRUE), or lack it?
  MaxBoot        \* bound on reboots

ASSUME AttemptAssumption ==
  /\ Attempt = Fresh \cup Helpers /\ Fresh \cap Helpers = {} /\ Nobody \notin Profile

ASSUME GateAssumption == Gates \subseteq BOOLEAN /\ MaxBoot \in Nat

VARIABLES
  service,  \* the manager process: "down", "up" or "stopping" (shutting_down)
  ctl,      \* Runtime.controls
  view,     \* Runtime.instances
  sup,      \* supervisor tasks, named after the first attempt they run
  stop,     \* the disconnect command a profile's mailbox is executing
  quitting, \* profiles shutdown has still to disconnect
  used,     \* attempt ids already drawn
  run,      \* run records on disk
  engine,   \* engine processes
  pipe,     \* events an engine has written and nobody has read
  boot,     \* boot id
  gated,    \* does the installed engine support the launch gate?
  helper    \* helper processes

memory == <<ctl, view, sup, stop, quitting>>
engines == <<engine, pipe>>
host == <<boot, gated>>
mvars == <<service, memory, used, run, engines, host, helper, authority>>

-----------------------------------------------------------------------------

\* EngineLifecycle: protocol_v2, network_pending and cleanup_failed.
NewLife == [v2 |-> FALSE, pending |-> FALSE, failed |-> FALSE]
NeedsRecovery == [NewLife EXCEPT !.failed = TRUE]

\* EngineLifecycle::observe, of an engine that speaks protocol 2.
Observe(life, event) ==
  [v2 |-> life.v2 \/ event # "malformed",
   pending |-> IF event = "cleaned" THEN life.failed ELSE life.pending \/ event # "malformed",
   failed |-> life.failed \/ event \in {"uncleaned", "malformed"}]

\* Mutant: a clean end of the output is enough.
ReapedIfComplete(life, complete, forced) ==
  [life EXCEPT !.failed = @ \/ ~complete \/ forced]

\* EngineLifecycle::reaped.
Reaped(life, complete, forced) ==
  [life EXCEPT !.failed = @ \/ ~complete \/ forced \/ (life.v2 /\ life.pending)]

\* A control that was never made is the default one.
NewControl == [gen |-> 0, desired |-> FALSE, active |-> FALSE, blocked |-> FALSE,
               process |-> Nobody, life |-> NewLife]

NoView == [id |-> Nobody, status |-> "None", ended |-> FALSE]

NoSupervisor == [pc |-> "none", profile |-> Nobody, gen |-> 0, inst |-> Nobody]

Idle == [pc |-> "idle", process |-> Nobody]

NoRecord == [profile |-> Nobody, gen |-> 0, bound |-> FALSE, boot |-> 0]

\* An engine process: its state, whether it has changed the network, whether
\* it was asked to terminate, how it exited.
NoEngine == [st |-> "none", dirty |-> FALSE, term |-> FALSE, code |-> "none"]

\* A process that is gone; what it left behind stays.
Dead(dirty) == [NoEngine EXCEPT !.st = "gone", !.dirty = dirty]

NoHelper == [pc |-> "idle", life |-> NewLife]

Alive(a) == engine[a].st \in {"gated", "running"}

\* The control owns a connection or an open recovery: it keeps others from
\* being admitted and itself from being evicted.
Reserved(p) ==
  ctl[p].desired \/ ctl[p].active \/ ctl[p].process # Nobody \/ ctl[p].life.failed

IsCurrent(t) == ctl[sup[t].profile].desired /\ ctl[sup[t].profile].gen = sup[t].gen

\* retain_recovery, as a new value of ctl.
Retained(t) ==
  IF ctl[sup[t].profile].gen = sup[t].gen
  THEN [ctl EXCEPT ![sup[t].profile].life.failed = TRUE, ![sup[t].profile].blocked = TRUE]
  ELSE ctl

Goto(t, pc) == sup' = [sup EXCEPT ![t].pc = pc]

\* The task returns.
Done(t) == sup' = [sup EXCEPT ![t] = NoSupervisor]

\* signal_owned_process(.., SIGTERM), as a new value of engine.
Terminated(a) == IF a \in Attempt /\ Alive(a) THEN [engine EXCEPT ![a].term = TRUE] ELSE engine

-----------------------------------------------------------------------------
\* Commands

\* Mutant: only the profile itself is looked at.
AdmittedAlone(p) == ~Reserved(p)

\* connection_service::admit decides Reserve: nobody else owns the network,
\* no recovery is open, and the profile has no connection of its own.
Admitted(p) == \A q \in Profile : ~Reserved(q)

\* Uuid::new_v4 never repeats.
Drawn(a) == used \cup {a}

Connect(p, a) ==
  /\ service = "up" /\ stop[p] = Idle
  /\ Admitted(p)
  /\ a \in Fresh \ used
  /\ used' = Drawn(a)
  /\ ctl' = [ctl EXCEPT ![p] = [gen |-> @.gen + 1, desired |-> TRUE, active |-> TRUE,
                                blocked |-> FALSE, process |-> Nobody, life |-> NewLife]]
  /\ view' = [view EXCEPT ![p] = [id |-> a, status |-> "Live", ended |-> FALSE]]
  /\ sup' = [sup EXCEPT ![a] = [pc |-> "start", profile |-> p, gen |-> ctl[p].gen + 1, inst |-> a]]
  /\ UNCHANGED <<service, stop, quitting, run, engines, host, helper, authority>>

\* The first half of disconnect_inner; shutdown calls it for every profile.
Disconnect(p) ==
  /\ (service = "up" /\ Reserved(p)) \/ p \in quitting
  /\ stop[p] = Idle
  /\ ctl' = [ctl EXCEPT ![p].desired = FALSE]
  /\ view' = IF view[p].ended \/ view[p] = NoView THEN view
             ELSE [view EXCEPT ![p].status = "Disconnecting"]
  /\ stop' = [stop EXCEPT ![p] = [pc |-> IF ctl[p].process = Nobody THEN "wait" ELSE "term",
                                  process |-> ctl[p].process]]
  /\ quitting' = quitting \ {p}
  /\ UNCHANGED <<service, sup, used, run, engines, host, helper, authority>>

\* stop_owned_process: SIGTERM now, SIGKILL if the process outlives the timeout.
StopTerm(p) ==
  /\ stop[p].pc = "term"
  /\ engine' = Terminated(stop[p].process)
  /\ stop' = [stop EXCEPT ![p].pc = "kill"]
  /\ UNCHANGED <<service, ctl, view, sup, quitting, used, run, pipe, host, helper, authority>>

StopKill(p) ==
  /\ stop[p].pc = "kill"
  /\ engine' = IF Alive(stop[p].process)
               THEN [engine EXCEPT ![stop[p].process].st = "zombie", ![stop[p].process].code = "killed"]
               ELSE engine
  /\ stop' = [stop EXCEPT ![p].pc = "wait"]
  /\ UNCHANGED <<service, ctl, view, sup, quitting, used, run, pipe, host, helper, authority>>

\* The process is gone before the timeout.
StopSkip(p) ==
  /\ stop[p].pc = "kill" /\ ~Alive(stop[p].process)
  /\ stop' = [stop EXCEPT ![p].pc = "wait"]
  /\ UNCHANGED <<service, ctl, view, sup, quitting, used, run, engines, host, helper, authority>>

\* The command returns: no longer active, or its deadline has passed.
StopReturn(p) ==
  /\ stop[p].pc = "wait"
  /\ stop' = [stop EXCEPT ![p] = Idle]
  /\ UNCHANGED <<service, ctl, view, sup, quitting, used, run, engines, host, helper, authority>>

\* instances() evicts a finished view and its control; delete_profile removes them.
Evict(p) ==
  /\ service # "down"
  /\ ~Reserved(p) /\ view[p].ended
  /\ ctl' = [ctl EXCEPT ![p] = NewControl]
  /\ view' = [view EXCEPT ![p] = NoView]
  /\ UNCHANGED <<service, sup, stop, quitting, used, run, engines, host, helper, authority>>

Quitters == {p \in Profile : Reserved(p)}

\* shutdown() stops admission and every intent at once.
Shutdown ==
  /\ service = "up"
  /\ service' = "stopping"
  /\ ctl' = [p \in Profile |-> [ctl[p] EXCEPT !.desired = FALSE]]
  /\ quitting' = Quitters
  /\ UNCHANGED <<view, sup, stop, used, run, engines, host, helper, authority>>

\* The process ends: after it joined its supervisors, or by a crash.  Locks
\* and memory go; engines and files stay.
Gone ==
  /\ service' = "down"
  /\ ctl' = [p \in Profile |-> NewControl]
  /\ view' = [p \in Profile |-> NoView]
  /\ sup' = [t \in Fresh |-> NoSupervisor]
  /\ stop' = [p \in Profile |-> Idle] /\ quitting' = {}
  /\ pipe' = [a \in Attempt |-> IF a \in Fresh THEN <<>> ELSE pipe[a]]
  /\ holder' = IF holder \in Fresh THEN Nobody ELSE holder
  /\ UNCHANGED <<used, run, host, helper, owner>>

Exit ==
  /\ service = "stopping"
  /\ \A t \in Fresh : sup[t] = NoSupervisor
  /\ \A p \in Profile : stop[p] = Idle
  /\ quitting = {}
  /\ Gone
  /\ UNCHANGED engine

\* Children that had exited are reaped by init.
Crash ==
  /\ service # "down"
  /\ engine' = [a \in Attempt |-> IF a \in Fresh /\ engine[a].st \in {"zombie", "gone"}
                                  THEN Dead(engine[a].dirty) ELSE engine[a]]
  /\ Gone

\* restore_recovery: every run record found becomes a profile in recovery.
Start ==
  /\ service = "down"
  /\ \A a, b \in Fresh : run[a] # NoRecord /\ run[a].profile = run[b].profile => a = b
  /\ service' = "up"
  /\ ctl' = [p \in Profile |->
       IF \E a \in Fresh : run[a].profile = p
       THEN LET a == CHOOSE a \in Fresh : run[a].profile = p
            IN  [NewControl EXCEPT !.gen = run[a].gen, !.active = TRUE,
                                   !.blocked = TRUE, !.life = NeedsRecovery]
       ELSE NewControl]
  /\ view' = [p \in Profile |->
       IF \E a \in Fresh : run[a].profile = p
       THEN [id |-> CHOOSE a \in Fresh : run[a].profile = p, status |-> "Failed", ended |-> FALSE]
       ELSE NoView]
  /\ UNCHANGED <<sup, stop, quitting, used, run, engines, host, helper, authority>>

-----------------------------------------------------------------------------
\* supervise

\* The check at the head of the loop, for the first attempt and for a retry.
Begin(t) ==
  /\ sup[t].pc \in {"start", "again"}
  /\ Goto(t, IF ~IsCurrent(t) THEN "mark"
             ELSE IF sup[t].pc = "start" THEN "journal" ELSE "sleep")
  /\ UNCHANGED <<service, ctl, view, stop, quitting, used, run, engines, host, helper, authority>>

\* The retry delay has passed, or cancelled was notified.
Wake(t) ==
  /\ sup[t].pc = "sleep"
  /\ Goto(t, IF IsCurrent(t) THEN "rename" ELSE "mark")
  /\ UNCHANGED <<service, ctl, view, stop, quitting, used, run, engines, host, helper, authority>>

\* A retry is a new attempt of the same intent.
Rename(t, a) ==
  LET p == sup[t].profile
  IN  /\ sup[t].pc = "rename"
      /\ a \in Fresh \ used
      /\ IF view[p].id = sup[t].inst
         THEN /\ view' = [view EXCEPT ![p] = [id |-> a, status |-> "Live", ended |-> FALSE]]
              /\ sup' = [sup EXCEPT ![t].pc = "journal", ![t].inst = a]
              /\ used' = Drawn(a)
         ELSE Done(t) /\ UNCHANGED <<view, used>>
      /\ UNCHANGED <<service, ctl, stop, quitting, run, engines, host, helper, authority>>

\* After run_once: retry, fail, or disconnected.  (Bound: no retry when the
\* attempt ids of the model are used up.)
Decide(t, auto) ==
  /\ sup[t].pc = "decide"
  /\ Goto(t, IF ~IsCurrent(t) THEN "mark"
             ELSE IF ~auto \/ ctl[sup[t].profile].blocked \/ Fresh \subseteq used THEN "fail"
             ELSE "again")
  /\ UNCHANGED <<service, ctl, view, stop, quitting, used, run, engines, host, helper, authority>>

\* mark_disconnected.
MarkDisconnected(t) ==
  LET p == sup[t].profile
  IN  /\ sup[t].pc = "mark"
      /\ Done(t)
      /\ IF view[p].id # sup[t].inst \/ ctl[p].process # Nobody
         THEN UNCHANGED <<ctl, view>>
         ELSE IF ctl[p].life.failed
         THEN view' = [view EXCEPT ![p].status = "Failed"] /\ UNCHANGED ctl
         ELSE /\ ctl' = [ctl EXCEPT ![p].active = FALSE, ![p].desired = FALSE]
              /\ view' = [view EXCEPT ![p].status = "Disconnected", ![p].ended = TRUE]
      /\ UNCHANGED <<service, stop, quitting, used, run, engines, host, helper, authority>>

\* finish_failed.
FinishFailed(t) ==
  LET p == sup[t].profile
      active == ctl[p].process # Nobody \/ ctl[p].life.failed
  IN  /\ sup[t].pc = "fail"
      /\ Done(t)
      /\ IF view[p].id # sup[t].inst
         THEN UNCHANGED <<ctl, view>>
         ELSE /\ ctl' = [ctl EXCEPT ![p].desired = FALSE, ![p].active = active]
              /\ view' = [view EXCEPT ![p].status = "Failed", ![p].ended = @ \/ ~active]
      /\ UNCHANGED <<service, stop, quitting, used, run, engines, host, helper, authority>>

-----------------------------------------------------------------------------
\* run_once

RunRecord(t, bound) ==
  [profile |-> sup[t].profile, gen |-> sup[t].gen, bound |-> bound, boot |-> boot]

\* write_run_record, before anything of the attempt exists.
Journal(t, outcome) ==
  /\ sup[t].pc = "journal"
  /\ run' = IF outcome = "unwritten" THEN run ELSE [run EXCEPT ![sup[t].inst] = RunRecord(t, FALSE)]
  /\ Goto(t, IF outcome = "ok" THEN "acquire" ELSE "decide")
  /\ UNCHANGED <<service, ctl, view, stop, quitting, used, engines, host, helper, authority>>

AcquireLease(t) ==
  /\ sup[t].pc = "acquire"
  /\ Acquire(sup[t].inst, FALSE, "ok")
  /\ Goto(t, "spawn")
  /\ UNCHANGED <<service, ctl, view, stop, quitting, used, run, engines, host, helper>>

\* Mutant: a failed acquire never reserved anything.
NotReserved(a, readable) == FALSE

\* active.json may be this attempt's: it is, or it cannot be read.
MaybeReserved(a, readable) == ~readable \/ owner'.attempt = a

\* acquire fails, refused or at its write.  The run record goes unless the
\* reservation may be ours; its removal may fail as well.
AcquireFails(t, written, readable, removal) ==
  /\ sup[t].pc = "acquire"
  /\ IF written THEN Acquire(sup[t].inst, FALSE, "unsynced") ELSE UNCHANGED authority
  /\ IF MaybeReserved(sup[t].inst, readable)
     THEN ctl' = Retained(t) /\ UNCHANGED run
     ELSE /\ run' = IF removal = "kept" THEN run ELSE [run EXCEPT ![sup[t].inst] = NoRecord]
          /\ UNCHANGED ctl
  /\ Goto(t, "decide")
  /\ UNCHANGED <<service, view, stop, quitting, used, engines, host, helper>>

Spawn(t) ==
  /\ sup[t].pc = "spawn"
  /\ engine' = [engine EXCEPT ![sup[t].inst].st = IF gated THEN "gated" ELSE "running"]
  /\ Goto(t, "capture")
  /\ UNCHANGED <<service, ctl, view, stop, quitting, used, run, pipe, host, helper, authority>>

\* No gate or no process: finish_unstarted_attempt gives the lease back.
SpawnFails(t) ==
  /\ sup[t].pc = "spawn"
  /\ Goto(t, "return")
  /\ UNCHANGED <<service, ctl, view, stop, quitting, used, run, engines, host, helper, authority>>

\* An error after the spawn: the engine is killed and reaped, the run record
\* and the reservation stay, and the lease is dropped.
Abandon(t) ==
  /\ engine' = [engine EXCEPT ![sup[t].inst] = Dead(@.dirty)]
  /\ ctl' = Retained(t)
  /\ DropLease
  /\ Goto(t, "decide")

\* Mutant: the result of the write is not looked at.
PersistedAnyway(captured, outcome) == captured

Persisted(captured, outcome) == captured /\ outcome = "ok"

\* capture_engine_process, then write_run_record with the process.
Capture(t, captured, outcome) ==
  /\ sup[t].pc = "capture"
  /\ captured => engine[sup[t].inst].st # "zombie"
  /\ run' = IF captured /\ outcome # "unwritten"
            THEN [run EXCEPT ![sup[t].inst] = RunRecord(t, TRUE)] ELSE run
  /\ IF Persisted(captured, outcome)
     THEN Goto(t, "bind") /\ UNCHANGED <<ctl, engine, authority>>
     ELSE Abandon(t)
  /\ UNCHANGED <<service, view, stop, quitting, used, pipe, host, helper>>

\* bind_process_group.
Bind(t, outcome) ==
  /\ sup[t].pc = "bind"
  /\ IF outcome = "ok"
     THEN /\ BindProcessGroup(sup[t].inst, outcome) /\ UNCHANGED holder
          /\ Goto(t, "gate") /\ UNCHANGED <<ctl, engine>>
     ELSE /\ owner' = IF outcome = "unwritten" THEN owner ELSE [owner EXCEPT !.bound = TRUE]
          /\ holder' = Nobody
          /\ engine' = [engine EXCEPT ![sup[t].inst] = Dead(@.dirty)]
          /\ ctl' = Retained(t)
          /\ Goto(t, "decide")
  /\ UNCHANGED <<service, view, stop, quitting, used, run, pipe, host, helper>>

\* LaunchGate::release: the engine may start.
OpenGate(t, ok) ==
  /\ sup[t].pc = "gate"
  /\ IF ok
     THEN /\ engine' = IF engine[sup[t].inst].st = "gated"
                       THEN [engine EXCEPT ![sup[t].inst].st = "running"] ELSE engine
          /\ Goto(t, "publish") /\ UNCHANGED <<ctl, authority>>
     ELSE Abandon(t)
  /\ UNCHANGED <<service, view, stop, quitting, used, run, pipe, host, helper>>

\* Mutant: a disconnect that came before the process is forgotten.
NeverCancelled(t) == FALSE

Cancelled(t) == ~IsCurrent(t)

\* The control learns of the process; a disconnect that came first is
\* answered with SIGTERM now.
Publish(t) ==
  LET p == sup[t].profile
      cancelled == Cancelled(t)
  IN  /\ sup[t].pc = "publish"
      /\ ctl' = [ctl EXCEPT ![p].process = sup[t].inst, ![p].life = NewLife]
      /\ view' = IF view[p].id = sup[t].inst
                 THEN [view EXCEPT ![p].status = IF cancelled THEN "Disconnecting" ELSE "Live"]
                 ELSE view
      /\ engine' = IF cancelled THEN Terminated(sup[t].inst) ELSE engine
      /\ Goto(t, "wait")
      /\ UNCHANGED <<service, stop, quitting, used, run, pipe, host, helper, authority>>

\* child.wait.
Wait(t) ==
  /\ sup[t].pc = "wait" /\ engine[sup[t].inst].st = "zombie"
  /\ engine' = [engine EXCEPT ![sup[t].inst].st = "gone"]
  /\ Goto(t, "drain")
  /\ UNCHANGED <<service, ctl, view, stop, quitting, used, run, pipe, host, helper, authority>>

\* drain_tasks ends, with the output read or with what is left of it lost,
\* and the runtime learns that the engine has been reaped.
Drain(t, complete) ==
  LET p == sup[t].profile
      a == sup[t].inst
      life == Reaped(ctl[p].life, complete, engine[a].code = "killed")
  IN  /\ sup[t].pc = "drain"
      /\ complete => pipe[a] = <<>>
      /\ pipe' = [pipe EXCEPT ![a] = <<>>]
      /\ engine' = [engine EXCEPT ![a] = Dead(@.dirty)]
      /\ ctl' = IF ctl[p].gen # sup[t].gen THEN ctl
                ELSE [ctl EXCEPT ![p].process = Nobody, ![p].life = life,
                                 ![p].blocked = @ \/ life.failed \/ engine[a].code # "retryable"]
      /\ Goto(t, "confirm")
      /\ UNCHANGED <<service, view, stop, quitting, used, run, host, helper, authority>>

\* Only a confirmed cleanup gives the lease back.
Confirm(t) ==
  /\ sup[t].pc = "confirm"
  /\ IF ctl[sup[t].profile].gen = sup[t].gen /\ ~ctl[sup[t].profile].life.failed
     THEN Goto(t, "return") /\ UNCHANGED authority
     ELSE Goto(t, "decide") /\ DropLease
  /\ UNCHANGED <<service, ctl, view, stop, quitting, used, run, engines, host, helper>>

\* lease.finish: the reservation first.
Return(t, outcome) ==
  /\ sup[t].pc = "return"
  /\ IF outcome = "ok"
     THEN Finish(sup[t].inst, outcome) /\ Goto(t, "unrecord") /\ UNCHANGED ctl
     ELSE /\ Finish(sup[t].inst, outcome) \/ DropLease
          /\ ctl' = Retained(t) /\ Goto(t, "decide")
  /\ UNCHANGED <<service, view, stop, quitting, used, run, engines, host, helper>>

\* remove_run_record: the anchor of recovery last.
Unrecord(t, outcome) ==
  /\ sup[t].pc = "unrecord"
  /\ run' = IF outcome = "kept" THEN run ELSE [run EXCEPT ![sup[t].inst] = NoRecord]
  /\ ctl' = IF outcome = "ok" THEN ctl ELSE Retained(t)
  /\ Goto(t, "decide")
  /\ UNCHANGED <<service, view, stop, quitting, used, engines, host, helper, authority>>

-----------------------------------------------------------------------------
\* Engines and their output

\* A task waits for the process, so its exit status is kept for it.
Parented(a) ==
  \/ a \in Helpers /\ helper[a].pc = "wait"
  \/ \E t \in Fresh : sup[t].inst = a /\ sup[t].pc \in {"capture", "bind", "gate", "publish", "wait"}

Exited(a, dirty, code) ==
  engine' = [engine EXCEPT ![a] = IF Parented(a)
                                  THEN [@ EXCEPT !.st = "zombie", !.dirty = dirty, !.code = code]
                                  ELSE Dead(dirty)]

\* Nobody reads the pipe of an engine whose manager is gone.
Emit(a, event) == pipe' = IF Parented(a) THEN [pipe EXCEPT ![a] = Append(@, event)] ELSE pipe

\* The gate's other end is closed: launch_wait refuses to start.
EngineRefused(a) ==
  /\ engine[a].st = "gated" /\ ~Parented(a)
  /\ Exited(a, FALSE, "fatal")
  /\ UNCHANGED <<service, memory, used, run, pipe, host, helper, authority>>

\* run_tunnel announces configuring before it touches the network.
EngineConfigures(a) ==
  /\ engine[a].st = "running" /\ ~engine[a].dirty
  /\ engine' = [engine EXCEPT ![a].dirty = TRUE]
  /\ Emit(a, "configuring")
  /\ UNCHANGED <<service, memory, used, run, host, helper, authority>>

\* It ends by itself or because it was told to, and reports its cleanup; a
\* failed cleanup is not a reason to retry.
EngineExits(a, cleaned, code) ==
  /\ engine[a].st = "running"
  /\ ~cleaned => engine[a].dirty /\ code = "fatal"
  /\ Exited(a, ~cleaned, code)
  /\ Emit(a, IF cleaned THEN "cleaned" ELSE "uncleaned")
  /\ UNCHANGED <<service, memory, used, run, host, helper, authority>>

\* It is killed by a signal nobody here sent.
EngineDies(a) ==
  /\ engine[a].st = "running"
  /\ Exited(a, engine[a].dirty, "crashed")
  /\ UNCHANGED <<service, memory, used, run, pipe, host, helper, authority>>

\* An event of another attempt, or without the sequence number of protocol 2.
\* (Bound: only when nothing is unread.)
EngineMisreports(a) ==
  /\ engine[a].st = "running" /\ pipe[a] = <<>>
  /\ Emit(a, "malformed")
  /\ UNCHANGED <<service, memory, used, run, engine, host, helper, authority>>

\* read_stream and apply_engine_event: the lifecycle of the profile whose
\* published instance this is observes the event.
ReadEvent(a) ==
  LET event == Head(pipe[a])
      ps == {p \in Profile : view[p].id = a}
  IN  /\ \E t \in Fresh : sup[t].inst = a /\ sup[t].pc \in {"wait", "drain"}
      /\ pipe[a] # <<>>
      /\ pipe' = [pipe EXCEPT ![a] = Tail(@)]
      /\ ctl' = [p \in Profile |->
           IF p \notin ps THEN ctl[p]
           ELSE LET life == Observe(ctl[p].life, event)
                IN  [ctl[p] EXCEPT !.life = life, !.blocked = @ \/ life.failed,
                                   !.desired = @ /\ event # "malformed"]]
      /\ engine' = IF event = "malformed" /\ ps # {} THEN Terminated(ctl[CHOOSE p \in ps : TRUE].process)
                   ELSE engine
      /\ UNCHANGED <<service, view, sup, stop, quitting, used, run, host, helper, authority>>

-----------------------------------------------------------------------------
\* The operator, with the service stopped, and the machine

\* Restores the network by hand after an engine that did not.
OperatorRestores(a) ==
  /\ engine[a].st = "gone" /\ engine[a].dirty /\ ~Parented(a)
  /\ a \in Fresh => service = "down"
  /\ engine' = [engine EXCEPT ![a].dirty = FALSE]
  /\ UNCHANGED <<service, memory, used, run, pipe, host, helper, authority>>

\* The group of the reservation is provably absent: no member is left, or none
\* was ever let through the gate.
Quiescent(a) == IF owner.bound THEN ~Alive(a) ELSE gated

\* acknowledge_recovery_at; the documents ask to restore the network first.
Acknowledgeable(a) ==
  /\ service = "down" /\ run[a] # NoRecord
  /\ ~engine[a].dirty
  /\ run[a].bound /\ run[a].boot = boot => ~Alive(a)

\* Its first part: the reservation, when it belongs to the attempt.
AcknowledgeOwner(a, outcome) ==
  /\ Acknowledgeable(a)
  /\ run[a].boot = boot => Quiescent(a)
  /\ Acknowledge(a, outcome)
  /\ UNCHANGED <<service, memory, used, run, engines, host, helper>>

\* Its second part, once the reservation is not the attempt's.
AcknowledgeRecord(a, outcome) ==
  /\ Acknowledgeable(a) /\ owner.attempt # a
  /\ run' = IF outcome = "kept" THEN run ELSE [run EXCEPT ![a] = NoRecord]
  /\ UNCHANGED <<service, memory, used, engines, host, helper, authority>>

\* A reboot ends every process and forgets routes; files stay.
Reboot ==
  /\ boot < MaxBoot
  /\ boot' = boot + 1
  /\ service' = "down"
  /\ ctl' = [p \in Profile |-> NewControl]
  /\ view' = [p \in Profile |-> NoView]
  /\ sup' = [t \in Fresh |-> NoSupervisor]
  /\ stop' = [p \in Profile |-> Idle] /\ quitting' = {}
  /\ helper' = [h \in Helpers |-> NoHelper]
  /\ engine' = [a \in Attempt |-> IF engine[a].st = "none" THEN NoEngine ELSE Dead(FALSE)]
  /\ pipe' = [a \in Attempt |-> <<>>]
  /\ holder' = Nobody
  /\ UNCHANGED <<used, run, owner, gated>>

-----------------------------------------------------------------------------
\* The privileged helper (run_engine): it owns its attempt from the start,
\* with its own process group, which the engine joins.

HelperAcquires(h, outcome) ==
  /\ helper[h].pc = "idle" /\ engine[h] = NoEngine
  /\ Acquire(h, TRUE, outcome)
  /\ helper' = [helper EXCEPT ![h].pc = IF outcome = "ok" THEN "spawn" ELSE "idle"]
  /\ UNCHANGED <<service, memory, used, run, engines, host>>

HelperSpawns(h) ==
  /\ helper[h].pc = "spawn"
  /\ engine' = [engine EXCEPT ![h].st = "running"]
  /\ helper' = [helper EXCEPT ![h].pc = "wait"]
  /\ UNCHANGED <<service, memory, used, run, pipe, host, authority>>

\* No protected configuration or no process: the lease is given back.
HelperSpawnFails(h, outcome) ==
  /\ helper[h].pc = "spawn"
  /\ Finish(h, outcome)
  /\ helper' = [helper EXCEPT ![h] = NoHelper]
  /\ UNCHANGED <<service, memory, used, run, engines, host>>

\* Its streams, identities or registration fail: stop_unregistered_child, and
\* the reservation stays.
HelperAbandons(h) ==
  /\ helper[h].pc = "wait"
  /\ engine' = [engine EXCEPT ![h] = Dead(@.dirty)]
  /\ helper' = [helper EXCEPT ![h] = NoHelper]
  /\ pipe' = [pipe EXCEPT ![h] = <<>>]
  /\ DropLease
  /\ UNCHANGED <<service, memory, used, run, host>>

\* relay_engine_output.
HelperReads(h) ==
  /\ helper[h].pc \in {"wait", "drain"} /\ pipe[h] # <<>>
  /\ helper' = [helper EXCEPT ![h].life = Observe(@, Head(pipe[h]))]
  /\ pipe' = [pipe EXCEPT ![h] = Tail(@)]
  /\ UNCHANGED <<service, memory, used, run, engine, host, authority>>

\* supervise_engine.
HelperReaps(h) ==
  /\ helper[h].pc = "wait" /\ engine[h].st = "zombie"
  /\ engine' = [engine EXCEPT ![h].st = "gone"]
  /\ helper' = [helper EXCEPT ![h].pc = "drain"]
  /\ UNCHANGED <<service, memory, used, run, pipe, host, authority>>

\* drain_streams, then finish if the cleanup is confirmed; the helper exits.
HelperFinishes(h, complete, outcome) ==
  /\ helper[h].pc = "drain"
  /\ complete => pipe[h] = <<>>
  /\ IF Reaped(helper[h].life, complete, engine[h].code = "killed").failed
     THEN DropLease
     ELSE Finish(h, outcome)
  /\ helper' = [helper EXCEPT ![h] = NoHelper]
  /\ engine' = [engine EXCEPT ![h] = Dead(@.dirty)]
  /\ pipe' = [pipe EXCEPT ![h] = <<>>]
  /\ UNCHANGED <<service, memory, used, run, host>>

\* The helper dies; its engine lives on.
HelperCrashes(h) ==
  /\ helper[h].pc # "idle"
  /\ helper' = [helper EXCEPT ![h] = NoHelper]
  /\ DropLease
  /\ engine' = [engine EXCEPT ![h] = IF @.st = "zombie" THEN Dead(@.dirty) ELSE @]
  /\ pipe' = [pipe EXCEPT ![h] = <<>>]
  /\ UNCHANGED <<service, memory, used, run, host>>

\* acknowledge_network, once the group is absent and the network restored.
HelperRecovers(h, outcome) ==
  /\ helper[h].pc = "idle" /\ ~Alive(h) /\ ~engine[h].dirty
  /\ Acknowledge(h, outcome)
  /\ UNCHANGED <<service, memory, used, run, engines, host, helper>>

-----------------------------------------------------------------------------

Init ==
  /\ AuthorityInit
  /\ service = "down" /\ used = {} /\ boot = 0 /\ gated \in Gates /\ helper = [h \in Helpers |-> NoHelper]
  /\ ctl = [p \in Profile |-> NewControl] /\ view = [p \in Profile |-> NoView]
  /\ sup = [t \in Fresh |-> NoSupervisor]
  /\ stop = [p \in Profile |-> Idle] /\ quitting = {}
  /\ run = [a \in Fresh |-> NoRecord]
  /\ engine = [a \in Attempt |-> NoEngine] /\ pipe = [a \in Attempt |-> <<>>]

Command(p) ==
  \/ \E a \in Fresh : Connect(p, a)
  \/ Disconnect(p)
  \/ Evict(p)

Stop(p) == StopTerm(p) \/ StopKill(p) \/ StopSkip(p) \/ StopReturn(p)

Supervise(t) ==
  \/ Begin(t) \/ Wake(t) \/ (\E a \in Fresh : Rename(t, a))
  \/ \E auto \in BOOLEAN : Decide(t, auto)
  \/ MarkDisconnected(t) \/ FinishFailed(t)
  \/ AcquireLease(t)
  \/ \E written, readable \in BOOLEAN, o \in RemoveOutcome : AcquireFails(t, written, readable, o)
  \/ Spawn(t) \/ SpawnFails(t)
  \/ \E o \in WriteOutcome : Journal(t, o) \/ Bind(t, o) \/ (\E c \in BOOLEAN : Capture(t, c, o))
  \/ \E ok \in BOOLEAN : OpenGate(t, ok)
  \/ Publish(t) \/ Wait(t) \/ Confirm(t)
  \/ \E complete \in BOOLEAN : Drain(t, complete)
  \/ \E o \in RemoveOutcome : Return(t, o) \/ Unrecord(t, o)

EngineEnds(a) ==
  \/ \E cleaned \in BOOLEAN, code \in {"retryable", "fatal"} : EngineExits(a, cleaned, code)
  \/ EngineDies(a)

Engine(a) ==
  EngineRefused(a) \/ EngineConfigures(a) \/ EngineEnds(a) \/ EngineMisreports(a)

Operator ==
  \/ \E a \in Attempt : OperatorRestores(a)
  \/ \E a \in Fresh, o \in RemoveOutcome : AcknowledgeOwner(a, o) \/ AcknowledgeRecord(a, o)

Helper(h) ==
  \/ HelperSpawns(h) \/ HelperAbandons(h) \/ HelperReads(h) \/ HelperReaps(h) \/ HelperCrashes(h)
  \/ \E o \in WriteOutcome : HelperAcquires(h, o)
  \/ \E o \in RemoveOutcome : HelperSpawnFails(h, o) \/ HelperRecovers(h, o)
       \/ (\E c \in BOOLEAN : HelperFinishes(h, c, o))

Next ==
  \/ Start \/ Shutdown \/ Exit \/ Crash \/ Reboot
  \/ \E p \in Profile : Command(p) \/ Stop(p)
  \/ \E t \in Fresh : Supervise(t) \/ ReadEvent(t)
  \/ \E a \in Attempt : Engine(a)
  \/ Operator
  \/ \E h \in Helpers : Helper(h)

Spec == Init /\ [][Next]_mvars

\* Tasks of a live runtime run, shutdown goes through its profiles, and an
\* engine that was sent SIGTERM ends.  Users, crashes and retries are free.
Fairness ==
  /\ \A t \in Fresh : WF_mvars(Supervise(t))
  /\ \A p \in Profile : WF_mvars(Stop(p)) /\ WF_mvars(p \in quitting /\ Disconnect(p))
  /\ \A a \in Fresh : WF_mvars(engine[a].term /\ EngineEnds(a))
  /\ WF_mvars(Exit)

FairSpec == Spec /\ Fairness

-----------------------------------------------------------------------------
\* Properties

ManagerTypeOK ==
  /\ owner \in Owner /\ holder \in Attempt \cup {Nobody}
  /\ service \in {"down", "up", "stopping"}
  /\ used \subseteq Fresh
  /\ \A p \in Profile :
       /\ ctl[p].gen \in Nat /\ ctl[p].process \in used \cup {Nobody}
       /\ view[p].id \in used \cup {Nobody}
       /\ view[p].status \in {"None", "Live", "Disconnecting", "Disconnected", "Failed"}
       /\ stop[p].pc \in {"idle", "term", "kill", "wait"}
  /\ \A a \in Fresh : sup[a].inst \in used \cup {Nobody} /\ run[a].profile \in Profile \cup {Nobody}
  /\ \A a \in Attempt :
       /\ engine[a].st \in {"none", "gated", "running", "zombie", "gone"}
       /\ pipe[a] \in Seq({"configuring", "cleaned", "uncleaned", "malformed"})

\* The attempt has an engine past its gate, or has left the network changed.
Busy(a) == engine[a].st \in {"running", "zombie"} \/ engine[a].dirty

\* "Only actual reap, output drain and confirmed engine cleanup release it":
\* the reservation in active.json implements the machine-wide lease, for the
\* manager's retries, crashes and restarts, and against the helper.
Lease == INSTANCE MachineLease
           WITH leaseholder <- owner.attempt, busy <- {a \in Attempt : Busy(a)}
LeaseHonoured == Lease!Spec

\* An engine of the manager that is past its gate is named, with its process,
\* by a run record and by the reservation, so that after a crash the recovery
\* command can see it is alive (write_run_record and bind before the gate).
RunningRecorded ==
  \A a \in Fresh :
    engine[a].st = "running" /\ gated => run[a].bound /\ owner = [attempt |-> a, bound |-> TRUE]

\* A reservation of the manager can be given up by somebody: its attempt has a
\* run record, which recovery --acknowledge needs (record before acquire,
\* finish before unrecord, and the uncertain branch of a failed acquire).
OwnerRecoverable == owner.attempt \in Fresh => run[owner.attempt] # NoRecord

\* "Stopping or unresolved cleanup retains this ownership": as long as the
\* machine is reserved for one of the manager's attempts, a manager that is up
\* keeps the attempt's profile reserved too and admits no other connection.
ReservationHeld ==
  service # "down" /\ owner.attempt \in Fresh => Reserved(run[owner.attempt].profile)

\* "Only the process monitor may declare an instance terminal": a view with an
\* end time has no process, no network change and no reservation any more.
TerminalMeansGone ==
  \A p \in Profile : view[p].ended =>
    ~Busy(view[p].id) /\ ~Alive(view[p].id) /\ owner.attempt # view[p].id

\* "The manager currently permits one network-owning connection at a time":
\* two supervisors never run at once, of one profile or of two.
OneSupervisor ==
  \A t, u \in Fresh : sup[t] # NoSupervisor /\ sup[u] # NoSupervisor => t = u

\* "A profile may own at most one live attempt, including starting, stopping
\* and recovery": the journal has at most one run record of a profile.
OneRecord ==
  \A a, b \in Fresh : run[a] # NoRecord /\ run[a].profile = run[b].profile => a = b

\* A connection that is no longer wanted settles: it becomes inactive or is
\* declared in need of recovery, whichever moment of the start, the retry
\* delay or the run the disconnect, shutdown or contract failure hit.
Settles ==
  \A p \in Profile :
    ctl[p].active /\ ~ctl[p].desired ~>
      ~ctl[p].active \/ ctl[p].life.failed \/ ctl[p].desired

\* Shutdown ends: every supervisor is joined, whatever it was doing.
ShutdownEnds == service = "stopping" ~> service = "down"

\* One supervisor at a time, and every engine it lets past the gate is on record
\* (admit under the runtime lock, write_run_record and bind before the gate).
EnginesSupervised == ManagerTypeOK /\ OneSupervisor /\ RunningRecorded

\* A reservation is remembered on both sides: by a record that recovery can
\* acknowledge, and by the profile's control while the manager is up.
ReservationAccounted == OwnerRecoverable /\ ReservationHeld

\* What is not wanted any more ends, one connection or the whole service.
ManagerSettles == Settles /\ ShutdownEnds
=============================================================================

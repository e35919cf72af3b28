----------------------- MODULE HeadlessManagerProofs -----------------------
(***************************************************************************)
(* The safety properties of the headless manager for any profiles, attempt *)
(* ids and reboots, beside any number of helpers: EnginesSupervised,       *)
(* ReservationAccounted, TerminalMeansGone and the refinement of           *)
(* MachineLease.                                                           *)
(*                                                                         *)
(* The invariant behind them, ManagerInv, follows an attempt through the   *)
(* three places that know of it: the supervisor task and its control, the  *)
(* run record and the reservation on disk, and the engine with its pipe.   *)
(***************************************************************************)
EXTENDS HeadlessManager, SequenceTheorems, TLAPS

\* Where a supervisor is.
Waiting == {"capture", "bind", "gate", "publish", "wait"}
Owning == {"spawn", "drain", "confirm", "return"} \cup Waiting
Unlaunched == {"start", "journal", "acquire", "spawn"}
Recorded == {"acquire", "unrecord"} \cup Owning
Settled == {"confirm", "return", "unrecord", "decide", "mark", "fail", "again", "sleep", "rename"}
Trying == {"start", "journal", "acquire", "spawn", "capture", "bind", "gate", "publish", "return",
           "unrecord", "again", "sleep", "rename"}
Places == {"none", "start", "journal"} \cup Recorded \cup Settled

Events == {"configuring", "cleaned", "uncleaned", "malformed"}
Lives == [v2 : BOOLEAN, pending : BOOLEAN, failed : BOOLEAN]
Controls == [gen : Nat, desired : BOOLEAN, active : BOOLEAN, blocked : BOOLEAN,
             process : Fresh \cup {Nobody}, life : Lives]
Views == [id : Fresh \cup {Nobody}, ended : BOOLEAN,
          status : {"None", "Live", "Disconnecting", "Disconnected", "Failed"}]
Supervisors == [pc : Places, profile : Profile \cup {Nobody}, gen : Nat, inst : Fresh \cup {Nobody}]
Stops == [pc : {"idle", "term", "kill", "wait"}, process : Fresh \cup {Nobody}]
Records == [profile : Profile \cup {Nobody}, gen : Nat, bound : BOOLEAN, boot : Nat]
Processes == [st : {"none", "gated", "running", "zombie", "gone"}, dirty : BOOLEAN, term : BOOLEAN,
              code : {"none", "killed", "retryable", "fatal", "crashed"}]
HelperProcesses == [pc : {"idle", "spawn", "wait", "drain"}, life : Lives]

MemoryTypes ==
  /\ ctl \in [Profile -> Controls] /\ view \in [Profile -> Views]
  /\ sup \in [Fresh -> Supervisors] /\ stop \in [Profile -> Stops]

MachineTypes ==
  /\ service \in {"down", "up", "stopping"} /\ used \subseteq Fresh
  /\ run \in [Fresh -> Records] /\ engine \in [Attempt -> Processes]
  /\ pipe \in [Attempt -> Seq(Events)] /\ boot \in Nat /\ gated \in BOOLEAN
  /\ helper \in [Helpers -> HelperProcesses]
  /\ owner \in Owner /\ holder \in Attempt \cup {Nobody}

Tasked(t) == sup[t].pc # "none"

\* A supervisor and its profile know each other, and there is one at most.
Tasks ==
  /\ \A t \in Fresh : Tasked(t) =>
       /\ service # "down" /\ sup[t].profile \in Profile /\ sup[t].inst \in used
       /\ ctl[sup[t].profile].active /\ ctl[sup[t].profile].gen = sup[t].gen
       /\ view[sup[t].profile].id = sup[t].inst /\ ~view[sup[t].profile].ended
  /\ \A t \in Fresh : ~Tasked(t) => sup[t] = NoSupervisor
  /\ \A t, u \in Fresh : Tasked(t) /\ Tasked(u) => t = u
  /\ \A t \in Fresh, p \in Profile : Tasked(t) /\ view[p].id = sup[t].inst => p = sup[t].profile

Known ==
  /\ \A p \in Profile : view[p].id \in used \cup {Nobody}
  /\ \A p \in Profile : view[p].ended => view[p].id \in used

\* A published process has its supervisor, and a recovery stays blocked.
Published ==
  /\ \A p \in Profile : ctl[p].process # Nobody =>
       \E t \in Fresh : /\ sup[t].profile = p /\ sup[t].inst = ctl[p].process
                        /\ sup[t].pc \in {"wait", "drain"}
  /\ \A p \in Profile : ctl[p].life.failed => ctl[p].blocked
  /\ \A t \in Fresh : sup[t].pc \in Trying => ~ctl[sup[t].profile].life.failed

\* How far an attempt has come, on disk and as a process.
StageOf(t, a) ==
  /\ sup[t].pc \in Unlaunched => engine[a] = NoEngine /\ pipe[a] = <<>>
  /\ sup[t].pc \in {"start", "journal", "acquire", "unrecord"} => owner.attempt # a
  /\ run[a].profile \in {sup[t].profile, Nobody}
  /\ sup[t].pc \in Recorded => run[a].profile = sup[t].profile /\ run[a].boot = boot
  /\ sup[t].pc \in Owning => holder = a /\ owner.attempt = a
  /\ sup[t].pc \in {"bind", "gate", "publish", "wait"} => run[a].bound
  /\ sup[t].pc \in {"gate", "publish", "wait"} => owner.bound
  /\ sup[t].pc \in {"capture", "bind", "gate"} => engine[a].st \in {"gated", "running", "zombie"}
  /\ sup[t].pc \in {"capture", "bind", "gate"} /\ engine[a].st = "running" => ~gated
  /\ sup[t].pc \in {"publish", "wait"} => engine[a].st \in {"running", "zombie"}
  /\ sup[t].pc = "drain" => engine[a].st = "gone"
  /\ sup[t].pc \in Settled => engine[a].st \in {"none", "gone"}
  /\ sup[t].pc = "return" => ~engine[a].dirty
  /\ sup[t].pc = "confirm" /\ engine[a].dirty => ctl[sup[t].profile].life.failed

Stages == \A t \in Fresh : Tasked(t) => StageOf(t, sup[t].inst)

HelperStages ==
  \A h \in Helpers :
    /\ helper[h].pc # "idle" => holder = h /\ owner.attempt = h
    /\ helper[h].pc = "spawn" => engine[h] = NoEngine /\ pipe[h] = <<>>
    /\ helper[h].pc = "wait" => engine[h].st \in {"running", "zombie"}
    /\ helper[h].pc = "drain" => engine[h].st = "gone"
    /\ helper[h].pc = "idle" => pipe[h] = <<>>

\* An id that was not drawn yet is nowhere.
Undrawn ==
  \A a \in Fresh \ used :
    run[a] = NoRecord /\ engine[a] = NoEngine /\ pipe[a] = <<>> /\ owner.attempt # a

\* A process that has ended is waited for, and the one a disconnect stops too.
Awaited(a) == \E t \in Fresh : sup[t].inst = a /\ sup[t].pc \in Waiting

Waited ==
  /\ \A a \in Fresh : engine[a].st = "zombie" => Awaited(a)
  /\ \A h \in Helpers : engine[h].st = "zombie" => helper[h].pc = "wait"
  /\ \A p \in Profile : stop[p].pc \in {"term", "kill"} =>
       /\ stop[p].process \in Fresh
       /\ engine[stop[p].process].st = "gone" \/ Awaited(stop[p].process)

\* Whoever is past the gate, or has left the network changed, has the machine.
Held ==
  /\ \A a \in Attempt : Busy(a) => owner.attempt = a
  /\ \A a \in Fresh : engine[a].st = "running" =>
       run[a].boot = boot /\ (gated => run[a].bound /\ owner.bound)

Reservations ==
  /\ \A a \in Fresh : run[a].profile = Nobody => run[a] = NoRecord
  /\ owner.attempt \in Fresh => run[owner.attempt].profile \in Profile
  /\ owner.attempt \in Fresh /\ service # "down" =>
       \/ \E t \in Fresh : sup[t].inst = owner.attempt /\ sup[t].pc \in Owning
       \/ ctl[run[owner.attempt].profile].life.failed

Ended ==
  \A p \in Profile : view[p].ended =>
    ~Busy(view[p].id) /\ ~Alive(view[p].id) /\ owner.attempt # view[p].id

\* What an engine has announced of its network changes.
Announced(q) == \E i \in 1..Len(q) : q[i] \in {"configuring", "uncleaned", "malformed"}
NoCleaned(q) == \A i \in 1..Len(q) : q[i] # "cleaned"
Remembered(life) == life.failed \/ (life.v2 /\ life.pending)

Told ==
  /\ \A a \in Attempt : Alive(a) \/ engine[a].dirty => NoCleaned(pipe[a])
  /\ \A t \in Fresh : sup[t].pc \in Waiting \cup {"drain"} /\ engine[sup[t].inst].dirty =>
       \/ Announced(pipe[sup[t].inst])
       \/ sup[t].pc \in {"wait", "drain"} /\ Remembered(ctl[sup[t].profile].life)
  /\ \A h \in Helpers : helper[h].pc \in {"wait", "drain"} /\ engine[h].dirty =>
       Announced(pipe[h]) \/ Remembered(helper[h].life)

ManagerInv ==
  /\ MemoryTypes /\ MachineTypes
  /\ Tasks /\ Known /\ Published
  /\ Stages /\ HelperStages /\ Undrawn /\ Waited
  /\ Held /\ Reservations /\ Ended /\ Told

-----------------------------------------------------------------------------
(* A step of a supervisor concerns its own attempt and profile.  Frame is    *)
(* what such a step leaves alone, and Local what it must see to.             *)

\* Only the attempt a may have, get or lose the reservation and the lock.
OwnLease(a) ==
  /\ owner' = owner \/ (owner.attempt \in {Nobody, a} /\ owner'.attempt \in {Nobody, a})
  /\ holder' = holder \/ (holder \in {Nobody, a} /\ holder' \in {Nobody, a})

Frame(t, p, a, x) ==
  /\ x \in Places \ {"none"} /\ sup' = [sup EXCEPT ![t].pc = x]
  /\ UNCHANGED <<service, stop, used, boot, gated, helper>>
  /\ view' \in [Profile -> Views]
  /\ \A q \in Profile : view'[q].id = view[q].id /\ view'[q].ended = view[q].ended
  /\ ctl' \in [Profile -> Controls]
  /\ \A q \in Profile : q # p => ctl'[q] = ctl[q]
  /\ run' \in [Fresh -> Records] /\ \A b \in Fresh : b # a => run'[b] = run[b]
  /\ engine' \in [Attempt -> Processes]
  /\ \A b \in Attempt : b # a => engine'[b] = engine[b]
  /\ pipe' \in [Attempt -> Seq(Events)]
  /\ \A b \in Attempt : b # a => pipe'[b] = pipe[b]
  /\ owner' \in Owner /\ holder' \in Attempt \cup {Nobody} /\ OwnLease(a)

LocalControl(x, p, a) ==
  /\ ctl'[p].active /\ ctl'[p].gen = ctl[p].gen
  /\ ctl'[p].process # Nobody => ctl'[p].process = a /\ x \in {"wait", "drain"}
  /\ ctl'[p].life.failed => ctl'[p].blocked
  /\ x \in Trying => ~ctl'[p].life.failed
  /\ ctl[p].life.failed => ctl'[p].life.failed

LocalFiles(x, a) ==
  /\ engine'[a].st \in {"running", "zombie"} \/ engine'[a].dirty => owner'.attempt = a
  /\ engine'[a].st = "running" => run'[a].boot = boot /\ (gated => run'[a].bound /\ owner'.bound)
  /\ run'[a].profile = Nobody => run'[a] = NoRecord
  /\ owner'.attempt = a =>
       run'[a].profile \in Profile /\ (x \in Owning \/ ctl'[run'[a].profile].life.failed)

LocalEngine(t, x, p, a) ==
  /\ engine'[a].st = "zombie" => x \in Waiting
  /\ sup[t].pc \in Waiting \/ engine[a].st = "gone" => x \in Waiting \/ engine'[a].st = "gone"
  /\ engine'[a].st \in {"gated", "running"} \/ engine'[a].dirty => NoCleaned(pipe'[a])
  /\ x \in Waiting \cup {"drain"} /\ engine'[a].dirty =>
       Announced(pipe'[a]) \/ (x \in {"wait", "drain"} /\ Remembered(ctl'[p].life))

\* The supervisor t runs the attempt a of profile p.
At(t, p, a) == Tasked(t) /\ sup[t].profile = p /\ sup[t].inst = a

\* What the invariant says of one supervisor, and that the others are idle.
LEMMA TaskFacts ==
  ASSUME ManagerInv, NEW t \in Fresh, NEW p, NEW a, At(t, p, a)
  PROVE  /\ sup[t] \in Supervisors /\ p \in Profile /\ a \in used
         /\ a \in Fresh /\ a \in Attempt /\ a # Nobody /\ a \notin Helpers /\ p # Nobody
         /\ ctl[p] \in Controls /\ ctl[p].life \in Lives
         /\ ctl[p].active /\ ctl[p].gen = sup[t].gen
         /\ view[p].id = a /\ ~view[p].ended
         /\ service # "down" /\ StageOf(t, a)
         /\ engine[a] \in Processes /\ run[a] \in Records /\ pipe[a] \in Seq(Events)
<1>1. /\ sup[t] \in Supervisors /\ p \in Profile /\ a \in used
      /\ ctl[p].active /\ ctl[p].gen = sup[t].gen
      /\ view[p].id = a /\ ~view[p].ended
      /\ service # "down" /\ StageOf(t, a)
  BY DEF ManagerInv, MemoryTypes, Tasks, Stages, At
<1>2. used \subseteq Fresh
  BY DEF ManagerInv, MachineTypes
<1>3. a \in Fresh /\ a \in Attempt /\ a # Nobody /\ a \notin Helpers /\ p # Nobody
  BY <1>1, <1>2, AttemptAssumption, NobodyAssumption
<1>4. ctl[p] \in Controls
  BY <1>1 DEF ManagerInv, MemoryTypes
<1>5. ctl[p].life \in Lives
  BY <1>4 DEF Controls
<1>6. engine[a] \in Processes /\ run[a] \in Records /\ pipe[a] \in Seq(Events)
  BY <1>3 DEF ManagerInv, MachineTypes
<1> QED BY <1>1, <1>3, <1>4, <1>5, <1>6

LEMMA OtherTasksIdle ==
  ASSUME ManagerInv, NEW t \in Fresh, Tasked(t)
  PROVE  \A u \in Fresh : u # t => sup[u] = NoSupervisor /\ sup[u].pc = "none"
BY DEF ManagerInv, Tasks, NoSupervisor

LEMMA TaskStep ==
  ASSUME ManagerInv, NEW t \in Fresh, NEW x, NEW p, NEW a, At(t, p, a), Frame(t, p, a, x),
         StageOf(t, a)', LocalControl(x, p, a), LocalFiles(x, a), LocalEngine(t, x, p, a)
  PROVE  ManagerInv'
<1>0. Tasked(t) /\ sup[t].profile = p /\ sup[t].inst = a
  BY DEF At
<1>1. /\ p \in Profile /\ a \in used /\ a \in Fresh /\ a \in Attempt /\ a # Nobody
      /\ a \notin Helpers /\ ctl[p].active /\ ctl[p].gen = sup[t].gen
      /\ view[p].id = a /\ ~view[p].ended /\ service # "down"
  BY TaskFacts
<1>2. /\ sup'[t].pc = x /\ sup'[t].profile = p /\ sup'[t].inst = a /\ sup'[t].gen = sup[t].gen
      /\ x # "none" /\ \A u \in Fresh : u # t => sup'[u] = NoSupervisor /\ sup'[u].pc = "none"
  BY <1>0, OtherTasksIdle DEF Frame, ManagerInv, MemoryTypes, Supervisors
<1>3. sup' \in [Fresh -> Supervisors]
  BY ZenonT(60) DEF Frame, ManagerInv, MemoryTypes, Supervisors
<1>4. MemoryTypes'
  BY <1>3 DEF ManagerInv, MemoryTypes, Frame
<1>5. MachineTypes'
  BY DEF ManagerInv, MachineTypes, Frame
<1>6. Tasks'
  <2>1. /\ \A u \in Fresh : Tasked(u)' => u = t
        /\ \A u \in Fresh : ~Tasked(u)' => sup'[u] = NoSupervisor
    BY <1>2 DEF Tasked
  <2>2. ctl'[p].active /\ ctl'[p].gen = sup[t].gen
    BY <1>1 DEF LocalControl
  <2>3. view'[p].id = a /\ ~view'[p].ended /\ service' = service /\ used' = used
    BY <1>1 DEF Frame
  <2>4. \A q \in Profile : view'[q].id = a => q = p
    BY <1>0, <1>1 DEF Frame, ManagerInv, Tasks
  <2> QED BY <1>1, <1>2, <2>1, <2>2, <2>3, <2>4 DEF Tasks
<1>7. Known'
  BY DEF ManagerInv, Known, Frame
<1>8. Published'
  <2>1. ASSUME NEW q \in Profile, ctl'[q].process # Nobody
        PROVE  /\ sup'[t].profile = q /\ sup'[t].inst = ctl'[q].process
               /\ sup'[t].pc \in {"wait", "drain"}
    <3>1. CASE q = p
      BY <1>2, <2>1, <3>1 DEF LocalControl
    <3>2. CASE q # p
      <4>1. ctl[q].process # Nobody
        BY <2>1, <3>2 DEF Frame
      <4>2. PICK u \in Fresh : sup[u].profile = q /\ sup[u].pc \in {"wait", "drain"}
        BY <4>1 DEF ManagerInv, Published
      <4> QED BY <1>0, <3>2, <4>2, OtherTasksIdle
    <3> QED BY <3>1, <3>2
  <2>2. \A q \in Profile : ctl'[q].life.failed => ctl'[q].blocked
    BY DEF ManagerInv, Published, Frame, LocalControl
  <2>3. \A u \in Fresh : sup'[u].pc \in Trying => u = t
    BY <1>2 DEF Trying
  <2>4. x \in Trying => ~ctl'[p].life.failed
    BY DEF LocalControl
  <2> QED BY <1>2, <2>1, <2>2, <2>3, <2>4 DEF Published
<1>9. Stages'
  BY <1>2 DEF Stages, Tasked
<1>10. HelperStages'
  <2> SUFFICES ASSUME NEW h \in Helpers
               PROVE  (/\ helper[h].pc # "idle" => holder = h /\ owner.attempt = h
                       /\ helper[h].pc = "spawn" => engine[h] = NoEngine /\ pipe[h] = <<>>
                       /\ helper[h].pc = "wait" => engine[h].st \in {"running", "zombie"}
                       /\ helper[h].pc = "drain" => engine[h].st = "gone"
                       /\ helper[h].pc = "idle" => pipe[h] = <<>>)'
    BY DEF HelperStages
  <2>1. h \in Attempt /\ h # a /\ h # Nobody
    BY <1>1, AttemptAssumption, NobodyAssumption
  <2>2. engine'[h] = engine[h] /\ pipe'[h] = pipe[h] /\ helper' = helper
    BY <2>1 DEF Frame
  <2>3. helper[h].pc # "idle" => holder' = h /\ owner'.attempt = h
    BY <2>1 DEF Frame, OwnLease, ManagerInv, HelperStages
  <2> QED BY <2>2, <2>3 DEF ManagerInv, HelperStages
<1>11. Undrawn'
  <2> SUFFICES ASSUME NEW b \in Fresh \ used
               PROVE  run'[b] = NoRecord /\ engine'[b] = NoEngine /\ pipe'[b] = <<>> /\ owner'.attempt # b
    BY DEF Undrawn, Frame
  <2>1. b \in Attempt /\ b # a /\ b # Nobody
    BY <1>1, AttemptAssumption, NobodyAssumption
  <2>2. run'[b] = run[b] /\ engine'[b] = engine[b] /\ pipe'[b] = pipe[b]
    BY <2>1 DEF Frame
  <2> QED BY <2>1, <2>2 DEF ManagerInv, Undrawn, Frame, OwnLease
<1>12. Waited'
  <2>1. \A b \in Fresh : b # a => ~Awaited(b)
    BY <1>0, OtherTasksIdle DEF Awaited, Waiting
  <2>2. Awaited(a) => sup[t].pc \in Waiting
    BY <1>0, OtherTasksIdle DEF Awaited, Waiting
  <2>3. Awaited(a)' <=> x \in Waiting
    BY <1>2 DEF Awaited, Waiting
  <2>4. \A b \in Fresh : b # a => engine'[b] = engine[b]
    BY <1>1, AttemptAssumption DEF Frame
  <2>5. \A b \in Fresh : engine'[b].st = "zombie" => Awaited(b)'
    <3>1. \A b \in Fresh : b # a => engine'[b].st # "zombie"
      BY <2>1, <2>4 DEF ManagerInv, Waited
    <3> QED BY <2>3, <3>1 DEF LocalEngine
  <2>6. \A h \in Helpers : engine'[h].st = "zombie" => helper'[h].pc = "wait"
    BY <1>1, AttemptAssumption, ZenonT(60) DEF ManagerInv, Waited, Frame
  <2>7. ASSUME NEW q \in Profile, stop'[q].pc \in {"term", "kill"}
        PROVE  /\ stop'[q].process \in Fresh
               /\ engine'[stop'[q].process].st = "gone" \/ Awaited(stop[q].process)'
    <3>1. /\ stop' = stop /\ stop[q].process \in Fresh
          /\ engine[stop[q].process].st = "gone" \/ Awaited(stop[q].process)
      BY <2>7 DEF ManagerInv, Waited, Frame
    <3>2. CASE stop[q].process # a
      BY <2>1, <2>4, <3>1, <3>2
    <3>3. CASE stop[q].process = a
      <4>1. engine'[a].st = "gone" \/ x \in Waiting
        BY <2>2, <3>1, <3>3 DEF LocalEngine
      <4>2. stop'[q].process = a
        BY <3>1, <3>3
      <4> QED BY <1>1, <2>3, <4>1, <4>2
    <3> QED BY <3>2, <3>3
  <2> QED BY <2>5, <2>6, <2>7 DEF Waited
<1>13. Held'
  <2>1. \A b \in Attempt : b # a => engine'[b] = engine[b] /\ b # Nobody
    BY NobodyAssumption DEF Frame
  <2>2. \A b \in Attempt : b # a /\ Busy(b) => owner' = owner
    BY <2>1 DEF ManagerInv, Held, Frame, OwnLease
  <2>3. \A b \in Attempt : Busy(b)' => owner'.attempt = b
    BY <1>1, <2>1, <2>2 DEF ManagerInv, Held, LocalFiles, Busy
  <2>4. \A b \in Fresh : b # a => run'[b] = run[b] /\ b \in Attempt
    BY AttemptAssumption DEF Frame
  <2>5. ASSUME NEW b \in Fresh, engine'[b].st = "running"
        PROVE  run'[b].boot = boot' /\ (gated' => run'[b].bound /\ owner'.bound)
    <3>1. boot' = boot /\ gated' = gated
      BY DEF Frame
    <3>2. CASE b = a
      BY <2>5, <3>1, <3>2 DEF LocalFiles
    <3>3. CASE b # a
      <4>1. engine[b].st = "running" /\ Busy(b) /\ run'[b] = run[b] /\ owner' = owner
        BY <2>1, <2>2, <2>4, <2>5, <3>3 DEF Busy
      <4> QED BY <3>1, <4>1 DEF ManagerInv, Held
    <3> QED BY <3>2, <3>3
  <2> QED BY <2>3, <2>5 DEF Held
<1>14. Reservations'
  <2>1. \A b \in Fresh : run'[b].profile = Nobody => run'[b] = NoRecord
    BY DEF ManagerInv, Reservations, Frame, LocalFiles
  <2>2. CASE owner'.attempt = a
    <3>1. run'[a].profile \in Profile /\ (x \in Owning \/ ctl'[run'[a].profile].life.failed)
      BY <2>2 DEF LocalFiles
    <3>2. x \in Owning => sup'[t].inst = owner'.attempt /\ sup'[t].pc \in Owning
      BY <1>2, <2>2
    <3> QED BY <1>1, <2>1, <2>2, <3>1, <3>2 DEF Reservations
  <2>3. CASE owner'.attempt # a /\ owner'.attempt \in Fresh
    <3>1. owner' = owner /\ owner.attempt # a /\ owner.attempt \in Fresh
      BY <2>3, AttemptAssumption, NobodyAssumption DEF Frame, OwnLease
    <3>2. run'[owner.attempt] = run[owner.attempt]
      BY <3>1 DEF Frame
    <3>3. \A u \in Fresh : sup[u].inst = owner.attempt => sup[u].pc \notin Owning
      BY <1>0, <3>1, OtherTasksIdle DEF Owning, Waiting
    <3>4. run[owner.attempt].profile \in Profile /\ ctl[run[owner.attempt].profile].life.failed
      BY <1>1, <3>1, <3>3 DEF ManagerInv, Reservations
    <3>5. ctl'[run[owner.attempt].profile].life.failed
      BY <3>4 DEF Frame, LocalControl
    <3> QED BY <2>1, <3>1, <3>2, <3>4, <3>5 DEF Reservations
  <2>4. CASE owner'.attempt \notin Fresh
    BY <2>1, <2>4 DEF Reservations
  <2> QED BY <2>2, <2>3, <2>4
<1>15. Ended'
  <2> SUFFICES ASSUME NEW q \in Profile, view'[q].ended
               PROVE  ~Busy(view[q].id)' /\ ~Alive(view[q].id)' /\ owner'.attempt # view'[q].id
    BY DEF Ended
  <2>1. view[q].ended /\ view'[q].id = view[q].id
    BY DEF Frame
  <2>2. view[q].id \in used /\ view[q].id # a
    BY <1>0, <1>1, <2>1 DEF ManagerInv, Known, Tasks
  <2>3. view[q].id \in Attempt /\ view[q].id # Nobody
    BY <2>2, AttemptAssumption, NobodyAssumption DEF ManagerInv, MachineTypes
  <2>4. engine'[view'[q].id] = engine[view[q].id]
    BY <2>1, <2>2, <2>3 DEF Frame
  <2>5. ~Busy(view[q].id) /\ ~Alive(view[q].id) /\ owner.attempt # view[q].id
    BY <2>1 DEF ManagerInv, Ended
  <2>6. owner'.attempt # view[q].id
    BY <2>2, <2>3, <2>5 DEF Frame, OwnLease
  <2> QED BY <2>1, <2>4, <2>5, <2>6 DEF Busy, Alive
<1>16. Told'
  <2>1. ASSUME NEW b \in Attempt, Alive(b)' \/ engine'[b].dirty
        PROVE  NoCleaned(pipe'[b])
    <3>1. CASE b = a
      BY <2>1, <3>1 DEF LocalEngine, Alive
    <3>2. CASE b # a
      <4>1. engine'[b] = engine[b] /\ pipe'[b] = pipe[b]
        BY <3>2 DEF Frame
      <4> QED BY <2>1, <4>1 DEF ManagerInv, Told, Alive
    <3> QED BY <3>1, <3>2
  <2>2. ASSUME NEW u \in Fresh, sup'[u].pc \in Waiting \cup {"drain"}, engine'[sup'[u].inst].dirty
        PROVE  \/ Announced(pipe'[sup'[u].inst])
               \/ sup'[u].pc \in {"wait", "drain"} /\ Remembered(ctl'[sup'[u].profile].life)
    <3>1. u = t
      BY <1>2, <2>2 DEF Waiting
    <3> QED BY <1>2, <2>2, <3>1 DEF LocalEngine
  <2>3. ASSUME NEW h \in Helpers, helper'[h].pc \in {"wait", "drain"}, engine'[h].dirty
        PROVE  Announced(pipe'[h]) \/ Remembered(helper'[h].life)
    <3>1. h \in Attempt /\ h # a
      BY <1>1, AttemptAssumption
    <3>2. engine'[h] = engine[h] /\ pipe'[h] = pipe[h] /\ helper' = helper
      BY <3>1 DEF Frame
    <3> QED BY <2>3, <3>2 DEF ManagerInv, Told
  <2> QED BY <2>1, <2>2, <2>3 DEF Told
<1> QED BY <1>4, <1>5, <1>6, <1>7, <1>8, <1>9, <1>10, <1>11, <1>12, <1>13, <1>14, <1>15, <1>16
        DEF ManagerInv

\* The same of the state before the step.
LEMMA LocalFacts ==
  ASSUME ManagerInv, NEW t \in Fresh, NEW p, NEW a, At(t, p, a)
  PROVE  /\ ctl[p].process # Nobody => ctl[p].process = a /\ sup[t].pc \in {"wait", "drain"}
         /\ ctl[p].life.failed => ctl[p].blocked
         /\ sup[t].pc \in Trying => ~ctl[p].life.failed
         /\ engine[a].st \in {"running", "zombie"} \/ engine[a].dirty => owner.attempt = a
         /\ engine[a].st = "running" => run[a].boot = boot /\ (gated => run[a].bound /\ owner.bound)
         /\ run[a].profile = Nobody => run[a] = NoRecord
         /\ owner.attempt = a =>
              run[a].profile \in Profile /\ (sup[t].pc \in Owning \/ ctl[run[a].profile].life.failed)
         /\ engine[a].st = "zombie" => sup[t].pc \in Waiting
         /\ engine[a].st \in {"gated", "running"} \/ engine[a].dirty => NoCleaned(pipe[a])
         /\ sup[t].pc \in Waiting \cup {"drain"} /\ engine[a].dirty =>
              Announced(pipe[a]) \/ (sup[t].pc \in {"wait", "drain"} /\ Remembered(ctl[p].life))
<1>1. /\ p \in Profile /\ a \in Fresh /\ a \in Attempt /\ service # "down"
      /\ Tasked(t) /\ sup[t].profile = p /\ sup[t].inst = a
  BY TaskFacts DEF At
<1>2. \A u \in Fresh : u # t => sup[u].pc = "none"
  BY <1>1, OtherTasksIdle
<1>3. ctl[p].process # Nobody => ctl[p].process = a /\ sup[t].pc \in {"wait", "drain"}
  BY <1>1, <1>2 DEF ManagerInv, Published
<1>4. ctl[p].life.failed => ctl[p].blocked
  BY <1>1 DEF ManagerInv, Published
<1>5. sup[t].pc \in Trying => ~ctl[p].life.failed
  BY <1>1 DEF ManagerInv, Published
<1>6. /\ engine[a].st \in {"running", "zombie"} \/ engine[a].dirty => owner.attempt = a
      /\ engine[a].st = "running" => run[a].boot = boot /\ (gated => run[a].bound /\ owner.bound)
  BY <1>1 DEF ManagerInv, Held, Busy
<1>7. run[a].profile = Nobody => run[a] = NoRecord
  BY <1>1 DEF ManagerInv, Reservations
<1>8. owner.attempt = a =>
        run[a].profile \in Profile /\ (sup[t].pc \in Owning \/ ctl[run[a].profile].life.failed)
  BY <1>1, <1>2 DEF ManagerInv, Reservations, Owning, Waiting
<1>9. engine[a].st = "zombie" => sup[t].pc \in Waiting
  BY <1>1, <1>2 DEF ManagerInv, Waited, Awaited, Waiting
<1>10. engine[a].st \in {"gated", "running"} \/ engine[a].dirty => NoCleaned(pipe[a])
  BY <1>1 DEF ManagerInv, Told, Alive
<1>11. sup[t].pc \in Waiting \cup {"drain"} /\ engine[a].dirty =>
         Announced(pipe[a]) \/ (sup[t].pc \in {"wait", "drain"} /\ Remembered(ctl[p].life))
  BY <1>1 DEF ManagerInv, Told
<1> QED BY <1>3, <1>4, <1>5, <1>6, <1>7, <1>8, <1>9, <1>10, <1>11

-----------------------------------------------------------------------------
(* The steps of supervise and run_once.                                      *)

\* Everything but the supervisor's place stays.
StaysBut(t, p, a, x) ==
  /\ x \in Places \ {"none"} /\ sup' = [sup EXCEPT ![t].pc = x]
  /\ UNCHANGED <<service, ctl, view, stop, used, run, engines, host, helper, authority>>

LEMMA Moves ==
  ASSUME ManagerInv, NEW t \in Fresh, NEW x, NEW p, NEW a, At(t, p, a), StaysBut(t, p, a, x),
         StageOf(t, a)', sup[t].pc \notin {"wait", "drain"} \cup Waiting, x \notin Waiting \cup {"drain"},
         x \in Trying => ~ctl[p].life.failed, sup[t].pc \in Owning => x \in Owning
  PROVE  ManagerInv'
<1>1. Frame(t, p, a, x)
  <2>1. /\ view' \in [Profile -> Views] /\ ctl' \in [Profile -> Controls]
        /\ run' \in [Fresh -> Records] /\ engine' \in [Attempt -> Processes]
        /\ pipe' \in [Attempt -> Seq(Events)] /\ owner' \in Owner /\ holder' \in Attempt \cup {Nobody}
    BY DEF StaysBut, ManagerInv, MemoryTypes, MachineTypes, engines, authority
  <2> QED BY <2>1 DEF Frame, StaysBut, engines, authority, host, OwnLease
<1>2. ctl' = ctl /\ engine' = engine /\ pipe' = pipe /\ run' = run /\ owner' = owner
  BY DEF StaysBut, engines, authority
<1>3. LocalControl(x, p, a)
  BY <1>2, LocalFacts, TaskFacts DEF LocalControl
<1>4. LocalFiles(x, a)
  BY <1>2, LocalFacts DEF LocalFiles
<1>5. LocalEngine(t, x, p, a)
  BY <1>2, LocalFacts DEF LocalEngine
<1> QED BY <1>1, <1>3, <1>4, <1>5, TaskStep

LEMMA Moved ==
  ASSUME ManagerInv, NEW t \in Fresh, NEW x, NEW p, NEW a, At(t, p, a), Goto(t, x)
  PROVE  sup'[t].pc = x /\ sup'[t].profile = p /\ sup'[t].inst = a /\ sup'[t].gen = sup[t].gen
BY DEF ManagerInv, MemoryTypes, Supervisors, Goto, At

LEMMA BeginStep ==
  ASSUME ManagerInv, NEW t \in Fresh, NEW p, NEW a, At(t, p, a), Begin(t)
  PROVE  ManagerInv'
<1>1. sup[t].pc \in {"start", "again"} /\ StageOf(t, a)
      /\ UNCHANGED <<service, ctl, view, stop, used, run, engines, host, helper, authority>>
  BY TaskFacts DEF Begin
<1>2. PICK x \in {"mark", "journal", "sleep"} :
        Goto(t, x) /\ (x = "journal" => sup[t].pc = "start") /\ (x = "sleep" => sup[t].pc = "again")
  BY DEF Begin
<1>3. StaysBut(t, p, a, x)
  BY <1>1, <1>2 DEF StaysBut, Goto, Places, Recorded, Settled
<1>4. StageOf(t, a)'
  BY <1>1, <1>2, Moved DEF At, StageOf, engines, host, authority, NoEngine,
     Unlaunched, Recorded, Owning, Waiting, Settled
<1>5. ~ctl[p].life.failed
  BY <1>1, LocalFacts DEF Trying
<1> QED BY <1>1, <1>2, <1>3, <1>4, <1>5, Moves DEF Owning, Waiting

LEMMA WakeStep ==
  ASSUME ManagerInv, NEW t \in Fresh, NEW p, NEW a, At(t, p, a), Wake(t)
  PROVE  ManagerInv'
<1>1. sup[t].pc = "sleep" /\ StageOf(t, a)
      /\ UNCHANGED <<service, ctl, view, stop, used, run, engines, host, helper, authority>>
  BY TaskFacts DEF Wake
<1>2. PICK x \in {"mark", "rename"} : Goto(t, x)
  BY DEF Wake
<1>3. StaysBut(t, p, a, x)
  BY <1>1, <1>2 DEF StaysBut, Goto, Places, Settled
<1>4. StageOf(t, a)'
  BY <1>1, <1>2, Moved DEF At, StageOf, engines, host, authority,
     Unlaunched, Recorded, Owning, Waiting, Settled
<1>5. ~ctl[p].life.failed
  BY <1>1, LocalFacts DEF Trying
<1> QED BY <1>1, <1>2, <1>3, <1>4, <1>5, Moves DEF Owning, Waiting

\* A control in recovery is blocked, so it is never retried.
LEMMA DecideStep ==
  ASSUME ManagerInv, NEW t \in Fresh, NEW p, NEW a, At(t, p, a), NEW auto, Decide(t, auto)
  PROVE  ManagerInv'
<1>1. sup[t].pc = "decide" /\ StageOf(t, a)
      /\ UNCHANGED <<service, ctl, view, stop, used, run, engines, host, helper, authority>>
  BY TaskFacts DEF Decide
<1>2. PICK x \in {"mark", "fail", "again"} : Goto(t, x) /\ (x = "again" => ~ctl[p].blocked)
  BY DEF Decide, At
<1>3. StaysBut(t, p, a, x)
  BY <1>1, <1>2 DEF StaysBut, Goto, Places, Settled
<1>4. StageOf(t, a)'
  BY <1>1, <1>2, Moved DEF At, StageOf, engines, host, authority,
     Unlaunched, Recorded, Owning, Waiting, Settled
<1>5. x \in Trying => ~ctl[p].life.failed
  BY <1>2, LocalFacts DEF Trying
<1> QED BY <1>1, <1>2, <1>3, <1>4, <1>5, Moves DEF Owning, Waiting

LEMMA SpawnFailsStep ==
  ASSUME ManagerInv, NEW t \in Fresh, NEW p, NEW a, At(t, p, a), SpawnFails(t)
  PROVE  ManagerInv'
<1>1. sup[t].pc = "spawn" /\ StageOf(t, a) /\ Goto(t, "return")
      /\ UNCHANGED <<service, ctl, view, stop, used, run, engines, host, helper, authority>>
  BY TaskFacts DEF SpawnFails
<1>2. StaysBut(t, p, a, "return")
  BY <1>1 DEF StaysBut, Goto, Places, Settled
<1>3. StageOf(t, a)'
  BY <1>1, Moved DEF At, StageOf, engines, host, authority, NoEngine,
     Unlaunched, Recorded, Owning, Waiting, Settled
<1>4. ~ctl[p].life.failed
  BY <1>1, LocalFacts DEF Trying
<1> QED BY <1>1, <1>2, <1>3, <1>4, Moves DEF Owning, Waiting

\* Frame from the variables a step leaves alone, one by one.
LEMMA Framed ==
  ASSUME ManagerInv, NEW t \in Fresh, NEW x, NEW p, NEW a, At(t, p, a), Goto(t, x),
         x \in Places \ {"none"}, UNCHANGED <<service, stop, used, host, helper>>,
         ctl' = ctl \/ \E c \in Controls : ctl' = [ctl EXCEPT ![p] = c],
         view' = view \/ \E v \in Views : v.id = view[p].id /\ v.ended = view[p].ended
                                         /\ view' = [view EXCEPT ![p] = v],
         run' = run \/ \E r \in Records : run' = [run EXCEPT ![a] = r],
         engine' = engine \/ \E e \in Processes : engine' = [engine EXCEPT ![a] = e],
         pipe' = pipe \/ pipe' = [pipe EXCEPT ![a] = <<>>],
         owner' \in Owner, holder' \in Attempt \cup {Nobody}, OwnLease(a)
  PROVE  Frame(t, p, a, x)
<1>1. p \in Profile /\ a \in Attempt /\ a \in Fresh
  BY TaskFacts
<1>2. /\ ctl \in [Profile -> Controls] /\ view \in [Profile -> Views]
      /\ run \in [Fresh -> Records] /\ engine \in [Attempt -> Processes]
      /\ pipe \in [Attempt -> Seq(Events)] /\ <<>> \in Seq(Events)
  BY DEF ManagerInv, MemoryTypes, MachineTypes
<1>3. ctl' \in [Profile -> Controls] /\ \A q \in Profile : q # p => ctl'[q] = ctl[q]
  BY <1>1, <1>2
<1>4. /\ view' \in [Profile -> Views]
      /\ \A q \in Profile : view'[q].id = view[q].id /\ view'[q].ended = view[q].ended
  BY <1>1, <1>2
<1>5. run' \in [Fresh -> Records] /\ \A b \in Fresh : b # a => run'[b] = run[b]
  BY <1>1, <1>2
<1>6. engine' \in [Attempt -> Processes] /\ \A b \in Attempt : b # a => engine'[b] = engine[b]
  BY <1>1, <1>2
<1>7. pipe' \in [Attempt -> Seq(Events)] /\ \A b \in Attempt : b # a => pipe'[b] = pipe[b]
  BY <1>1, <1>2
<1> QED BY <1>3, <1>4, <1>5, <1>6, <1>7 DEF Frame, Goto, host

LEMMA RecordTyped ==
  ASSUME ManagerInv, NEW t \in Fresh, NEW p, NEW a, At(t, p, a), NEW bound \in BOOLEAN
  PROVE  /\ RunRecord(t, bound) \in Records /\ NoRecord \in Records
         /\ RunRecord(t, bound).profile = p /\ RunRecord(t, bound).bound = bound
         /\ RunRecord(t, bound).boot = boot
<1>1. sup[t] \in Supervisors /\ sup[t].profile = p /\ boot \in Nat
  BY TaskFacts DEF At, ManagerInv, MachineTypes
<1>2. sup[t].gen \in Nat /\ sup[t].profile \in Profile \cup {Nobody}
  BY <1>1 DEF Supervisors
<1> QED BY <1>1, <1>2 DEF RunRecord, NoRecord, Records

LEMMA JournalStep ==
  ASSUME ManagerInv, NEW t \in Fresh, NEW p, NEW a, At(t, p, a), NEW outcome, Journal(t, outcome)
  PROVE  ManagerInv'
<1>1. sup[t].pc = "journal" /\ StageOf(t, a) /\ p \in Profile /\ a \in Fresh /\ sup[t].inst = a
      /\ UNCHANGED <<service, ctl, view, stop, used, engines, host, helper, authority>>
  BY TaskFacts DEF Journal, At
<1>2. PICK x \in {"acquire", "decide"} : Goto(t, x) /\ (x = "acquire" <=> outcome = "ok")
  BY DEF Journal
<1>3. run' = run \/ run' = [run EXCEPT ![a] = RunRecord(t, FALSE)]
  BY <1>1 DEF Journal
<1>4. x = "acquire" => run' = [run EXCEPT ![a] = RunRecord(t, FALSE)]
  BY <1>1, <1>2 DEF Journal
<1>5. /\ RunRecord(t, FALSE) \in Records /\ RunRecord(t, FALSE).profile = p
      /\ RunRecord(t, FALSE).boot = boot
  BY RecordTyped
<1>6. /\ ctl' = ctl /\ view' = view /\ engine' = engine /\ pipe' = pipe /\ owner' = owner /\ holder' = holder
      /\ owner \in Owner /\ holder \in Attempt \cup {Nobody} /\ run \in [Fresh -> Records]
  BY <1>1 DEF engines, authority, ManagerInv, MachineTypes
<1>7. Frame(t, p, a, x)
  <2>1. x \in Places \ {"none"}
    BY DEF Places, Recorded, Settled
  <2>2. OwnLease(a)
    BY <1>6 DEF OwnLease
  <2> QED BY <1>1, <1>2, <1>3, <1>5, <1>6, <2>1, <2>2, Framed
<1>8. run'[a] = run[a] \/ (run'[a].profile = p /\ run'[a].boot = boot)
  BY <1>1, <1>3, <1>5, <1>6
<1>9. x = "acquire" => run'[a].profile = p /\ run'[a].boot = boot
  BY <1>1, <1>4, <1>5, <1>6
<1>10. engine[a] = NoEngine /\ pipe[a] = <<>> /\ owner.attempt # a
  BY <1>1 DEF StageOf, Unlaunched
<1>11. StageOf(t, a)'
  BY <1>1, <1>2, <1>6, <1>8, <1>9, <1>10, Moved DEF At, StageOf, host, NoEngine,
     Unlaunched, Recorded, Owning, Waiting, Settled
<1>12. LocalControl(x, p, a)
  BY <1>1, <1>6, LocalFacts, TaskFacts DEF LocalControl, Trying
<1>13. LocalFiles(x, a)
  BY <1>1, <1>6, <1>8, <1>10, LocalFacts, TaskFacts DEF LocalFiles, NoEngine
<1>14. LocalEngine(t, x, p, a)
  BY <1>1, <1>6, <1>10 DEF LocalEngine, NoEngine, Waiting
<1> QED BY <1>7, <1>11, <1>12, <1>13, <1>14, TaskStep

LEMMA RetainedFacts ==
  ASSUME ManagerInv, NEW t \in Fresh, NEW p, NEW a, At(t, p, a), ctl' = Retained(t)
  PROVE  /\ \E c \in Controls : ctl' = [ctl EXCEPT ![p] = c]
         /\ ctl'[p].life.failed /\ ctl'[p].blocked /\ ctl'[p].active
         /\ ctl'[p].gen = ctl[p].gen /\ ctl'[p].process = ctl[p].process
<1> DEFINE c == [ctl[p] EXCEPT !.life.failed = TRUE, !.blocked = TRUE]
<1>1. /\ p \in Profile /\ ctl[p] \in Controls /\ ctl[p].life \in Lives /\ ctl[p].active
      /\ ctl[p].gen = sup[t].gen /\ sup[t].profile = p /\ ctl \in [Profile -> Controls]
  BY TaskFacts DEF At, ManagerInv, MemoryTypes
<1>2. ctl' = [ctl EXCEPT ![p] = c]
  BY <1>1 DEF Retained, Controls
<1>3. [ctl[p].life EXCEPT !.failed = TRUE] \in Lives
  BY <1>1 DEF Lives
<1>4. /\ c.gen = ctl[p].gen /\ c.process = ctl[p].process /\ c.active = ctl[p].active
      /\ c.desired = ctl[p].desired /\ c.blocked = TRUE
      /\ c.life = [ctl[p].life EXCEPT !.failed = TRUE]
  BY <1>1 DEF Controls
<1>5. c.life.failed
  BY <1>1, <1>4 DEF Lives
<1>6. c \in Controls
  BY <1>1, <1>3 DEF Controls
<1> HIDE DEF c
<1>7. ctl'[p] = c
  BY <1>1, <1>2
<1> QED BY <1>1, <1>2, <1>4, <1>5, <1>6, <1>7

LEMMA AcquireLeaseStep ==
  ASSUME ManagerInv, NEW t \in Fresh, NEW p, NEW a, At(t, p, a), AcquireLease(t)
  PROVE  ManagerInv'
<1>1. sup[t].pc = "acquire" /\ StageOf(t, a) /\ p \in Profile /\ a \in Fresh /\ sup[t].inst = a
      /\ a \in Attempt /\ Goto(t, "spawn")
      /\ UNCHANGED <<service, ctl, view, stop, used, run, engines, host, helper>>
  BY TaskFacts DEF AcquireLease, At
<1>2. /\ holder = Nobody /\ owner.attempt = Nobody /\ holder' = a
      /\ owner' = [attempt |-> a, bound |-> FALSE]
  BY <1>1 DEF AcquireLease, Acquire, Free, NoOwner
<1>3. ctl' = ctl /\ view' = view /\ engine' = engine /\ pipe' = pipe /\ run' = run
  BY <1>1 DEF engines
<1>4. Frame(t, p, a, "spawn")
  <2>1. owner' \in Owner /\ holder' \in Attempt \cup {Nobody} /\ OwnLease(a)
    BY <1>1, <1>2 DEF Owner, OwnLease
  <2>2. "spawn" \in Places \ {"none"}
    BY DEF Places, Recorded, Owning
  <2> QED BY <1>1, <1>3, <2>1, <2>2, Framed
<1>5. engine[a] = NoEngine /\ pipe[a] = <<>> /\ run[a].profile = p /\ run[a].boot = boot
  BY <1>1 DEF StageOf, Unlaunched, Recorded, At
<1>6. StageOf(t, a)'
  BY <1>1, <1>2, <1>3, <1>5, Moved DEF StageOf, host, NoEngine,
     Unlaunched, Recorded, Owning, Waiting, Settled
<1>7. LocalControl("spawn", p, a)
  BY <1>1, <1>3, LocalFacts, TaskFacts DEF LocalControl, Trying
<1>8. LocalFiles("spawn", a)
  BY <1>1, <1>2, <1>3, <1>5, LocalFacts, TaskFacts DEF LocalFiles, NoEngine, Owning
<1>9. LocalEngine(t, "spawn", p, a)
  BY <1>1, <1>3, <1>5 DEF LocalEngine, NoEngine, Waiting
<1> QED BY <1>4, <1>6, <1>7, <1>8, <1>9, TaskStep

LEMMA AcquireFailsStep ==
  ASSUME ManagerInv, NEW t \in Fresh, NEW p, NEW a, At(t, p, a), NEW written, NEW readable, NEW removal,
         AcquireFails(t, written, readable, removal)
  PROVE  ManagerInv'
<1>1. sup[t].pc = "acquire" /\ StageOf(t, a) /\ p \in Profile /\ a \in Fresh /\ sup[t].inst = a
      /\ a \in Attempt /\ Goto(t, "decide")
      /\ UNCHANGED <<service, view, stop, used, engines, host, helper>>
  BY TaskFacts DEF AcquireFails, At
<1>2. \/ owner' = owner /\ holder' = holder
      \/ /\ holder = Nobody /\ owner.attempt = Nobody /\ holder' = Nobody
         /\ owner' = [attempt |-> a, bound |-> FALSE]
  BY <1>1 DEF AcquireFails, Acquire, Free, NoOwner, authority
<1>3. \/ ctl' = Retained(t) /\ run' = run
      \/ /\ ctl' = ctl /\ owner'.attempt # a
         /\ run' = run \/ run' = [run EXCEPT ![a] = NoRecord]
  BY <1>1 DEF AcquireFails, MaybeReserved
<1>4. view' = view /\ engine' = engine /\ pipe' = pipe /\ run \in [Fresh -> Records] /\ owner \in Owner
      /\ holder \in Attempt \cup {Nobody}
  BY <1>1 DEF engines, ManagerInv, MachineTypes
<1>5. NoRecord \in Records
  BY RecordTyped
<1>6. Frame(t, p, a, "decide")
  <2>1. owner' \in Owner /\ holder' \in Attempt \cup {Nobody} /\ OwnLease(a)
    <3>1. [attempt |-> a, bound |-> FALSE] \in Owner
      BY <1>1 DEF Owner
    <3>2. owner' \in Owner /\ holder' \in Attempt \cup {Nobody}
      BY <1>2, <1>4, <3>1
    <3> QED BY <1>2, <3>2 DEF OwnLease
  <2>2. "decide" \in Places \ {"none"}
    BY DEF Places, Settled
  <2>3. ctl' = ctl \/ \E c \in Controls : ctl' = [ctl EXCEPT ![p] = c]
    BY <1>3, RetainedFacts
  <2> QED BY <1>1, <1>3, <1>4, <1>5, <2>1, <2>2, <2>3, Framed
<1>7. engine[a] = NoEngine /\ pipe[a] = <<>> /\ run[a].profile = p /\ owner.attempt # a
  BY <1>1 DEF StageOf, Unlaunched, Recorded, At
<1>8. run'[a] = run[a] \/ run'[a] = NoRecord
  BY <1>1, <1>3, <1>4
<1>9. LocalControl("decide", p, a)
  BY <1>1, <1>3, LocalFacts, TaskFacts, RetainedFacts DEF LocalControl, Trying
<1>10. owner'.attempt = a => run'[a].profile = p /\ ctl'[p].life.failed
  BY <1>3, <1>7, RetainedFacts
<1>11. StageOf(t, a)'
  BY <1>1, <1>4, <1>7, <1>8, Moved
     DEF StageOf, NoEngine, NoRecord, Unlaunched, Recorded, Owning, Waiting, Settled
<1>12. LocalFiles("decide", a)
  BY <1>1, <1>4, <1>7, <1>8, <1>10, LocalFacts DEF LocalFiles, NoEngine
<1>13. LocalEngine(t, "decide", p, a)
  BY <1>1, <1>4, <1>7 DEF LocalEngine, NoEngine, Waiting
<1> QED BY <1>6, <1>9, <1>11, <1>12, <1>13, TaskStep

LEMMA SpawnStep ==
  ASSUME ManagerInv, NEW t \in Fresh, NEW p, NEW a, At(t, p, a), Spawn(t)
  PROVE  ManagerInv'
<1>1. sup[t].pc = "spawn" /\ StageOf(t, a) /\ p \in Profile /\ a \in Fresh /\ sup[t].inst = a
      /\ a \in Attempt /\ Goto(t, "capture") /\ engine[a] \in Processes
      /\ UNCHANGED <<service, ctl, view, stop, used, run, pipe, host, helper, authority>>
  BY TaskFacts DEF Spawn, At
<1>2. /\ engine[a] = NoEngine /\ pipe[a] = <<>> /\ run[a].profile = p /\ run[a].boot = boot
      /\ holder = a /\ owner.attempt = a
  BY <1>1 DEF StageOf, Unlaunched, Recorded, Owning, At
<1>3. /\ ctl' = ctl /\ view' = view /\ pipe' = pipe /\ run' = run /\ owner' = owner /\ holder' = holder
      /\ engine \in [Attempt -> Processes] /\ owner \in Owner /\ holder \in Attempt \cup {Nobody}
      /\ gated \in BOOLEAN /\ boot' = boot /\ gated' = gated
  BY <1>1 DEF authority, host, ManagerInv, MachineTypes
<1>4. PICK st \in {"gated", "running"} : st = (IF gated THEN "gated" ELSE "running")
  OBVIOUS
<1> DEFINE e == [engine[a] EXCEPT !.st = st]
<1>5. e \in Processes /\ engine' = [engine EXCEPT ![a] = e] /\ e.st = st /\ ~e.dirty
  <2>1. engine' = [engine EXCEPT ![a].st = st]
    BY <1>1, <1>4 DEF Spawn
  <2>2. e \in Processes /\ e.st = st /\ e.dirty = engine[a].dirty
    BY <1>1, <1>4 DEF Processes
  <2>3. ~engine[a].dirty
    BY <1>2 DEF NoEngine
  <2> QED BY <2>1, <2>2, <2>3
<1> HIDE DEF e
<1>6. engine'[a].st = st /\ ~engine'[a].dirty
  BY <1>1, <1>3, <1>5
<1>7. Frame(t, p, a, "capture")
  <2>1. OwnLease(a)
    BY <1>3 DEF OwnLease
  <2>2. "capture" \in Places \ {"none"}
    BY DEF Places, Recorded, Owning, Waiting
  <2> QED BY <1>1, <1>3, <1>5, <2>1, <2>2, Framed
<1>8. StageOf(t, a)'
  BY <1>1, <1>2, <1>3, <1>4, <1>6, Moved DEF StageOf, Unlaunched, Recorded, Owning, Waiting, Settled
<1>9. LocalControl("capture", p, a)
  BY <1>1, <1>3, LocalFacts, TaskFacts DEF LocalControl, Trying
<1>10. LocalFiles("capture", a)
  BY <1>1, <1>2, <1>3, <1>4, <1>6, LocalFacts DEF LocalFiles, Owning, Waiting
<1>11. NoCleaned(<<>>)
  BY DEF NoCleaned
<1>12. LocalEngine(t, "capture", p, a)
  BY <1>2, <1>3, <1>6, <1>11 DEF LocalEngine, Waiting
<1> QED BY <1>7, <1>8, <1>9, <1>10, <1>12, TaskStep

LEMMA DeadTyped ==
  ASSUME NEW dirty \in BOOLEAN
  PROVE  Dead(dirty) \in Processes /\ Dead(dirty).st = "gone" /\ Dead(dirty).dirty = dirty
         /\ Dead(dirty).code = "none"
BY DEF Dead, NoEngine, Processes

\* The engine is killed and reaped, and the reservation stays behind in recovery.
Abandons(t, a) ==
  /\ sup[t].pc \in {"capture", "bind", "gate"} /\ Goto(t, "decide")
  /\ engine' = [engine EXCEPT ![a] = Dead(@.dirty)] /\ ctl' = Retained(t)
  /\ holder' = Nobody /\ (owner' = owner \/ owner' = [owner EXCEPT !.bound = TRUE])
  /\ run' = run \/ run' = [run EXCEPT ![a] = RunRecord(t, TRUE)]
  /\ UNCHANGED <<service, view, stop, used, pipe, host, helper>>

LEMMA AbandonStep ==
  ASSUME ManagerInv, NEW t \in Fresh, NEW p, NEW a, At(t, p, a), Abandons(t, a)
  PROVE  ManagerInv'
<1>1. sup[t].pc \in {"capture", "bind", "gate"} /\ StageOf(t, a) /\ p \in Profile /\ a \in Fresh
      /\ a \in Attempt /\ Goto(t, "decide") /\ engine[a] \in Processes /\ ctl' = Retained(t)
      /\ engine' = [engine EXCEPT ![a] = Dead(engine[a].dirty)] /\ a # Nobody
      /\ UNCHANGED <<service, view, stop, used, pipe, host, helper>>
  BY TaskFacts DEF Abandons
<1>2. run[a].profile = p /\ holder = a /\ owner.attempt = a
  BY <1>1 DEF StageOf, Recorded, Owning, Waiting, At
<1>3. /\ engine \in [Attempt -> Processes] /\ owner \in Owner /\ run \in [Fresh -> Records]
      /\ view' = view /\ pipe' = pipe /\ holder' = Nobody
  BY <1>1 DEF Abandons, ManagerInv, MachineTypes
<1>4. engine[a].dirty \in BOOLEAN
  BY <1>1 DEF Processes
<1>5. Dead(engine[a].dirty) \in Processes /\ engine'[a].st = "gone" /\ engine'[a].dirty = engine[a].dirty
  BY <1>1, <1>3, <1>4, DeadTyped
<1>6. owner'.attempt = a /\ owner' \in Owner
  <2>1. owner \in [attempt : Attempt, bound : BOOLEAN]
    BY <1>1, <1>2, <1>3 DEF Owner, NoOwner
  <2>2. owner' \in [attempt : Attempt, bound : BOOLEAN] /\ owner'.attempt = a
    BY <1>2, <2>1 DEF Abandons
  <2> QED BY <2>2 DEF Owner
<1>7. /\ RunRecord(t, TRUE) \in Records /\ RunRecord(t, TRUE).profile = p
  BY RecordTyped
<1>8. run'[a].profile = p /\ (run' = run \/ \E r \in Records : run' = [run EXCEPT ![a] = r])
  BY <1>1, <1>2, <1>3, <1>7 DEF Abandons
<1>9. Frame(t, p, a, "decide")
  <2>1. OwnLease(a)
    BY <1>2, <1>3, <1>6 DEF OwnLease
  <2>2. "decide" \in Places \ {"none"}
    BY DEF Places, Settled
  <2>3. \E c \in Controls : ctl' = [ctl EXCEPT ![p] = c]
    BY <1>1, RetainedFacts
  <2> QED BY <1>1, <1>3, <1>5, <1>6, <1>8, <2>1, <2>2, <2>3, Framed
<1>10. StageOf(t, a)'
  BY <1>1, <1>5, <1>8, Moved DEF StageOf, Unlaunched, Recorded, Owning, Waiting, Settled
<1>11. LocalControl("decide", p, a)
  BY <1>1, LocalFacts, RetainedFacts DEF LocalControl, Trying
<1>12. LocalFiles("decide", a)
  BY <1>1, <1>5, <1>6, <1>8, RetainedFacts, TaskFacts DEF LocalFiles
<1>13. LocalEngine(t, "decide", p, a)
  BY <1>3, <1>5, LocalFacts DEF LocalEngine, Waiting
<1> QED BY <1>9, <1>10, <1>11, <1>12, <1>13, TaskStep

\* The engine is recorded with its process, and the reservation names it too.
LEMMA CaptureStep ==
  ASSUME ManagerInv, NEW t \in Fresh, NEW p, NEW a, At(t, p, a), NEW captured, NEW outcome,
         Capture(t, captured, outcome)
  PROVE  ManagerInv'
<1>1. sup[t].pc = "capture" /\ StageOf(t, a) /\ p \in Profile /\ a \in Fresh /\ a \in Attempt
      /\ sup[t].inst = a /\ UNCHANGED <<service, view, stop, used, pipe, host, helper>>
  BY TaskFacts DEF Capture, At
<1>2. CASE Persisted(captured, outcome)
  <2>1. /\ Goto(t, "bind") /\ ctl' = ctl /\ engine' = engine /\ owner' = owner /\ holder' = holder
        /\ run' = [run EXCEPT ![a] = RunRecord(t, TRUE)] /\ view' = view /\ pipe' = pipe
        /\ boot' = boot /\ gated' = gated
    BY <1>1, <1>2 DEF Capture, Persisted, authority, host
  <2>2. /\ RunRecord(t, TRUE) \in Records /\ RunRecord(t, TRUE).profile = p
        /\ RunRecord(t, TRUE).bound /\ RunRecord(t, TRUE).boot = boot
    BY RecordTyped
  <2>3. owner \in Owner /\ holder \in Attempt \cup {Nobody} /\ run \in [Fresh -> Records]
    BY DEF ManagerInv, MachineTypes
  <2>4. run'[a].profile = p /\ run'[a].bound /\ run'[a].boot = boot
    BY <1>1, <2>1, <2>2, <2>3
  <2>5. holder = a /\ owner.attempt = a /\ engine[a].st \in {"gated", "running", "zombie"}
        /\ (engine[a].st = "running" => ~gated)
    BY <1>1 DEF StageOf, Owning, Waiting
  <2>6. Frame(t, p, a, "bind")
    <3>1. OwnLease(a)
      BY <2>1 DEF OwnLease
    <3>2. "bind" \in Places \ {"none"}
      BY DEF Places, Recorded, Owning, Waiting
    <3> QED BY <1>1, <2>1, <2>2, <2>3, <3>1, <3>2, Framed
  <2>7. StageOf(t, a)'
    <3>1. /\ sup'[t].pc = "bind" /\ sup'[t].profile = p /\ engine' = engine /\ holder' = a
          /\ owner'.attempt = a /\ boot' = boot /\ gated' = gated
      BY <2>1, <2>5, Moved
    <3> QED BY <2>4, <2>5, <3>1 DEF StageOf, Unlaunched, Recorded, Owning, Waiting, Settled
  <2>8. LocalControl("bind", p, a)
    BY <1>1, <2>1, LocalFacts, TaskFacts DEF LocalControl, Trying
  <2>9. LocalFiles("bind", a)
    BY <1>1, <2>1, <2>4, <2>5, TaskFacts DEF LocalFiles, Owning, Waiting
  <2>10. LocalEngine(t, "bind", p, a)
    BY <1>1, <2>1, LocalFacts DEF LocalEngine, Waiting
  <2> QED BY <2>6, <2>7, <2>8, <2>9, <2>10, TaskStep
<1>3. CASE ~Persisted(captured, outcome)
  <2>1. Abandons(t, a)
    BY <1>1, <1>3 DEF Capture, Abandon, Abandons, DropLease
  <2> QED BY <2>1, AbandonStep
<1> QED BY <1>2, <1>3

LEMMA BindStep ==
  ASSUME ManagerInv, NEW t \in Fresh, NEW p, NEW a, At(t, p, a), NEW outcome, Bind(t, outcome)
  PROVE  ManagerInv'
<1>1. sup[t].pc = "bind" /\ StageOf(t, a) /\ p \in Profile /\ a \in Fresh /\ a \in Attempt
      /\ sup[t].inst = a /\ UNCHANGED <<service, view, stop, used, run, pipe, host, helper>>
  BY TaskFacts DEF Bind, At
<1>2. CASE outcome = "ok"
  <2>1. /\ Goto(t, "gate") /\ ctl' = ctl /\ engine' = engine /\ holder' = holder /\ run' = run
        /\ owner' = [attempt |-> a, bound |-> TRUE] /\ view' = view /\ pipe' = pipe
        /\ boot' = boot /\ gated' = gated
    BY <1>1, <1>2 DEF Bind, BindProcessGroup, host
  <2>2. owner' \in Owner /\ owner'.attempt = a /\ owner'.bound
    BY <1>1, <2>1 DEF Owner
  <2>3. /\ holder = a /\ owner.attempt = a /\ run[a].bound /\ run[a].profile = p /\ run[a].boot = boot
        /\ engine[a].st \in {"gated", "running", "zombie"} /\ (engine[a].st = "running" => ~gated)
    BY <1>1 DEF StageOf, Recorded, Owning, Waiting, At
  <2>4. Frame(t, p, a, "gate")
    <3>1. OwnLease(a)
      BY <2>1, <2>2, <2>3 DEF OwnLease
    <3>2. "gate" \in Places \ {"none"}
      BY DEF Places, Recorded, Owning, Waiting
    <3> QED BY <1>1, <2>1, <2>2, <2>3, <3>1, <3>2, Framed
  <2>5. StageOf(t, a)'
    BY <2>1, <2>2, <2>3, Moved DEF StageOf, Unlaunched, Recorded, Owning, Waiting, Settled
  <2>6. LocalControl("gate", p, a)
    BY <1>1, <2>1, LocalFacts, TaskFacts DEF LocalControl, Trying
  <2>7. LocalFiles("gate", a)
    BY <1>1, <2>1, <2>2, <2>3, LocalFacts DEF LocalFiles, Owning, Waiting
  <2>8. LocalEngine(t, "gate", p, a)
    BY <1>1, <2>1, LocalFacts DEF LocalEngine, Waiting
  <2> QED BY <2>4, <2>5, <2>6, <2>7, <2>8, TaskStep
<1>3. CASE outcome # "ok"
  <2>1. Abandons(t, a)
    BY <1>1, <1>3 DEF Bind, Abandons
  <2> QED BY <2>1, AbandonStep
<1> QED BY <1>2, <1>3

LEMMA OpenGateStep ==
  ASSUME ManagerInv, NEW t \in Fresh, NEW p, NEW a, At(t, p, a), NEW ok, OpenGate(t, ok)
  PROVE  ManagerInv'
<1>1. sup[t].pc = "gate" /\ StageOf(t, a) /\ p \in Profile /\ a \in Fresh /\ a \in Attempt
      /\ sup[t].inst = a /\ engine[a] \in Processes
      /\ UNCHANGED <<service, view, stop, used, run, pipe, host, helper>>
  BY TaskFacts DEF OpenGate, At
<1>2. CASE ok
  <2>1. /\ Goto(t, "publish") /\ ctl' = ctl /\ holder' = holder /\ run' = run /\ owner' = owner
        /\ view' = view /\ pipe' = pipe /\ boot' = boot /\ gated' = gated
        /\ \/ engine' = engine /\ engine[a].st # "gated"
           \/ engine' = [engine EXCEPT ![a].st = "running"] /\ engine[a].st = "gated"
    BY <1>1, <1>2 DEF OpenGate, authority, host
  <2>2. /\ owner \in Owner /\ holder \in Attempt \cup {Nobody} /\ engine \in [Attempt -> Processes]
    BY DEF ManagerInv, MachineTypes
  <2>3. /\ holder = a /\ owner.attempt = a /\ run[a].bound /\ run[a].profile = p /\ run[a].boot = boot
        /\ engine[a].st \in {"gated", "running", "zombie"} /\ owner.bound
    BY <1>1 DEF StageOf, Recorded, Owning, Waiting, At
  <2>4. engine' = engine \/ \E e \in Processes : engine' = [engine EXCEPT ![a] = e]
    <3>1. [engine[a] EXCEPT !.st = "running"] \in Processes
      BY <1>1 DEF Processes
    <3> QED BY <2>1, <2>2, <3>1
  <2>5. engine'[a].st \in {"running", "zombie"} /\ engine'[a].dirty = engine[a].dirty
        /\ (engine'[a].st = "running" => engine[a].st \in {"gated", "running"})
    BY <1>1, <2>1, <2>2, <2>3 DEF Processes
  <2>6. Frame(t, p, a, "publish")
    <3>1. OwnLease(a)
      BY <2>1 DEF OwnLease
    <3>2. "publish" \in Places \ {"none"}
      BY DEF Places, Recorded, Owning, Waiting
    <3> QED BY <1>1, <2>1, <2>2, <2>4, <3>1, <3>2, Framed
  <2>7. StageOf(t, a)'
    BY <2>1, <2>3, <2>5, Moved DEF StageOf, Unlaunched, Recorded, Owning, Waiting, Settled
  <2>8. LocalControl("publish", p, a)
    BY <1>1, <2>1, LocalFacts, TaskFacts DEF LocalControl, Trying
  <2>9. LocalFiles("publish", a)
    BY <1>1, <2>1, <2>3, LocalFacts DEF LocalFiles, Owning, Waiting
  <2>10. LocalEngine(t, "publish", p, a)
    BY <1>1, <2>1, <2>5, LocalFacts DEF LocalEngine, Waiting
  <2> QED BY <2>6, <2>7, <2>8, <2>9, <2>10, TaskStep
<1>3. CASE ~ok
  <2>1. Abandons(t, a)
    BY <1>1, <1>3 DEF OpenGate, Abandon, Abandons, DropLease
  <2> QED BY <2>1, AbandonStep
<1> QED BY <1>2, <1>3

\* SIGTERM changes nothing the invariant looks at.
LEMMA TerminatedFacts ==
  ASSUME engine \in [Attempt -> Processes], NEW b, engine' = Terminated(b)
  PROVE  /\ engine' \in [Attempt -> Processes]
         /\ \A a \in Attempt : engine'[a].st = engine[a].st /\ engine'[a].dirty = engine[a].dirty
         /\ \A a \in Attempt : engine'[a].code = engine[a].code /\ (a # b => engine'[a] = engine[a])
<1>1. CASE engine' = engine
  BY <1>1
<1>2. CASE b \in Attempt /\ engine' = [engine EXCEPT ![b].term = TRUE]
  <2>1. engine[b] \in Processes
    BY <1>2
  <2>2. /\ [engine[b] EXCEPT !.term = TRUE] \in Processes
        /\ [engine[b] EXCEPT !.term = TRUE].st = engine[b].st
        /\ [engine[b] EXCEPT !.term = TRUE].dirty = engine[b].dirty
        /\ [engine[b] EXCEPT !.term = TRUE].code = engine[b].code
    BY <2>1 DEF Processes
  <2> QED BY <1>2, <2>2
<1> QED BY <1>1, <1>2 DEF Terminated

LEMMA LifeTyped ==
  NewLife \in Lives /\ ~NewLife.failed /\ ~NewLife.pending /\ NeedsRecovery \in Lives /\ NeedsRecovery.failed
BY DEF NewLife, NeedsRecovery, Lives

\* The control learns of the process with its lifecycle new: what the engine has
\* announced by now is still unread.
LEMMA PublishStep ==
  ASSUME ManagerInv, NEW t \in Fresh, NEW p, NEW a, At(t, p, a), Publish(t)
  PROVE  ManagerInv'
<1> DEFINE c == [ctl[p] EXCEPT !.process = a, !.life = NewLife]
<1>1. /\ sup[t].pc = "publish" /\ StageOf(t, a) /\ p \in Profile /\ a \in Fresh /\ a \in Attempt
      /\ sup[t].inst = a /\ sup[t].profile = p /\ engine[a] \in Processes /\ a # Nobody
      /\ ctl[p] \in Controls /\ ctl[p].active /\ view[p].id = a /\ ctl \in [Profile -> Controls]
      /\ view \in [Profile -> Views] /\ engine \in [Attempt -> Processes] /\ Goto(t, "wait")
      /\ owner \in Owner /\ holder \in Attempt \cup {Nobody}
  BY TaskFacts DEF Publish, At, ManagerInv, MemoryTypes, MachineTypes
<1>2. /\ ctl' = [ctl EXCEPT ![p] = c]
      /\ engine' = engine \/ engine' = Terminated(a)
      /\ UNCHANGED <<service, stop, used, run, pipe, host, helper, authority>>
  BY <1>1 DEF Publish, Controls
<1>3. PICK st \in {"Disconnecting", "Live"} : view' = [view EXCEPT ![p].status = st]
  BY <1>1 DEF Publish
<1>4. /\ run' = run /\ pipe' = pipe /\ owner' = owner /\ holder' = holder /\ boot' = boot /\ gated' = gated
  BY <1>2 DEF authority, host
<1>5. /\ c \in Controls /\ c.process = a /\ ~c.life.failed /\ c.active /\ c.gen = ctl[p].gen
  BY <1>1, LifeTyped DEF Controls
<1> HIDE DEF c
<1>6. /\ engine' \in [Attempt -> Processes] /\ engine'[a].st = engine[a].st
      /\ engine'[a].dirty = engine[a].dirty /\ \A b \in Attempt : b # a => engine'[b] = engine[b]
  BY <1>1, <1>2, TerminatedFacts
<1>7. ctl'[p] = c
  BY <1>1, <1>2
<1>8. Frame(t, p, a, "wait")
  <2>1. OwnLease(a)
    BY <1>4 DEF OwnLease
  <2>2. "wait" \in Places \ {"none"}
    BY DEF Places, Recorded, Owning, Waiting
  <2>3. \E v \in Views : v.id = view[p].id /\ v.ended = view[p].ended /\ view' = [view EXCEPT ![p] = v]
    <3>1. view[p] \in Views
      BY <1>1
    <3>2. /\ [view[p] EXCEPT !.status = st] \in Views /\ [view[p] EXCEPT !.status = st].id = view[p].id
          /\ [view[p] EXCEPT !.status = st].ended = view[p].ended
      BY <3>1 DEF Views
    <3> QED BY <1>1, <1>3, <3>2
  <2>4. engine' = [engine EXCEPT ![a] = engine'[a]] /\ engine'[a] \in Processes
    BY <1>1, <1>6
  <2> QED BY <1>1, <1>2, <1>4, <1>5, <2>1, <2>2, <2>3, <2>4, Framed
<1>9. /\ holder = a /\ owner.attempt = a /\ run[a].bound /\ run[a].profile = p /\ run[a].boot = boot
      /\ engine[a].st \in {"running", "zombie"} /\ owner.bound
  BY <1>1 DEF StageOf, Recorded, Owning, Waiting
<1>10. StageOf(t, a)'
  BY <1>1, <1>4, <1>6, <1>9, Moved DEF StageOf, Unlaunched, Recorded, Owning, Waiting, Settled
<1>11. LocalControl("wait", p, a)
  BY <1>1, <1>5, <1>7, LocalFacts DEF LocalControl, Trying
<1>12. LocalFiles("wait", a)
  BY <1>1, <1>4, <1>6, <1>9, LocalFacts DEF LocalFiles, Owning, Waiting
<1>13. LocalEngine(t, "wait", p, a)
  BY <1>1, <1>4, <1>6, LocalFacts DEF LocalEngine, Waiting
<1> QED BY <1>8, <1>10, <1>11, <1>12, <1>13, TaskStep

LEMMA WaitStep ==
  ASSUME ManagerInv, NEW t \in Fresh, NEW p, NEW a, At(t, p, a), Wait(t)
  PROVE  ManagerInv'
<1> DEFINE e == [engine[a] EXCEPT !.st = "gone"]
<1>1. /\ sup[t].pc = "wait" /\ StageOf(t, a) /\ p \in Profile /\ a \in Fresh /\ a \in Attempt
      /\ sup[t].profile = p /\ engine[a] \in Processes /\ engine \in [Attempt -> Processes]
      /\ engine' = [engine EXCEPT ![a] = e] /\ Goto(t, "drain")
      /\ owner \in Owner /\ holder \in Attempt \cup {Nobody}
      /\ UNCHANGED <<service, ctl, view, stop, used, run, pipe, host, helper, authority>>
  BY TaskFacts DEF Wait, At, ManagerInv, MachineTypes
<1>2. /\ run' = run /\ pipe' = pipe /\ owner' = owner /\ holder' = holder /\ boot' = boot
      /\ gated' = gated /\ ctl' = ctl /\ view' = view
  BY <1>1 DEF authority, host
<1>3. e \in Processes /\ e.st = "gone" /\ e.dirty = engine[a].dirty
  BY <1>1 DEF Processes
<1> HIDE DEF e
<1>4. engine'[a].st = "gone" /\ engine'[a].dirty = engine[a].dirty
  BY <1>1, <1>3
<1>5. Frame(t, p, a, "drain")
  <2>1. OwnLease(a)
    BY <1>2 DEF OwnLease
  <2>2. "drain" \in Places \ {"none"}
    BY DEF Places, Recorded, Owning
  <2> QED BY <1>1, <1>2, <1>3, <2>1, <2>2, Framed
<1>6. holder = a /\ owner.attempt = a /\ run[a].profile = p /\ run[a].boot = boot
  BY <1>1 DEF StageOf, Recorded, Owning, Waiting
<1>7. StageOf(t, a)'
  BY <1>1, <1>2, <1>4, <1>6, Moved DEF StageOf, Unlaunched, Recorded, Owning, Waiting, Settled
<1>8. LocalControl("drain", p, a)
  BY <1>1, <1>2, LocalFacts, TaskFacts DEF LocalControl, Trying
<1>9. LocalFiles("drain", a)
  BY <1>1, <1>2, <1>4, <1>6, LocalFacts DEF LocalFiles, Owning
<1>10. LocalEngine(t, "drain", p, a)
  BY <1>1, <1>2, <1>4, LocalFacts DEF LocalEngine, Waiting
<1> QED BY <1>5, <1>7, <1>8, <1>9, <1>10, TaskStep

\* Reaped remembers every doubt about the network, so the lease of an engine that
\* has left it changed is never given back.
LEMMA ReapedFacts ==
  ASSUME NEW life \in Lives, NEW complete \in BOOLEAN, NEW forced \in BOOLEAN
  PROVE  /\ Reaped(life, complete, forced) \in Lives
         /\ ~complete \/ Remembered(life) => Reaped(life, complete, forced).failed
         /\ life.failed => Reaped(life, complete, forced).failed
BY DEF Reaped, Lives, Remembered

LEMMA EmptyPipe == NoCleaned(<<>>) /\ ~Announced(<<>>)
BY DEF NoCleaned, Announced

LEMMA DrainStep ==
  ASSUME ManagerInv, NEW t \in Fresh, NEW p, NEW a, At(t, p, a), NEW complete \in BOOLEAN, Drain(t, complete)
  PROVE  ManagerInv'
<1> DEFINE life == Reaped(ctl[p].life, complete, engine[a].code = "killed")
           c == [ctl[p] EXCEPT !.process = Nobody, !.life = life,
                               !.blocked = @ \/ life.failed \/ engine[a].code # "retryable"]
<1>1. /\ sup[t].pc = "drain" /\ StageOf(t, a) /\ p \in Profile /\ a \in Fresh /\ a \in Attempt
      /\ sup[t].profile = p /\ sup[t].inst = a /\ engine[a] \in Processes
      /\ ctl[p] \in Controls /\ ctl[p].life \in Lives /\ ctl[p].active /\ ctl[p].gen = sup[t].gen
      /\ pipe[a] \in Seq(Events)
  BY TaskFacts DEF Drain, At
<1>2. /\ engine \in [Attempt -> Processes] /\ ctl \in [Profile -> Controls]
      /\ pipe \in [Attempt -> Seq(Events)] /\ owner \in Owner /\ holder \in Attempt \cup {Nobody}
  BY DEF ManagerInv, MemoryTypes, MachineTypes
<1>3. /\ Goto(t, "confirm") /\ (complete => pipe[a] = <<>>)
      /\ pipe' = [pipe EXCEPT ![a] = <<>>]
      /\ engine' = [engine EXCEPT ![a] = Dead(engine[a].dirty)]
      /\ UNCHANGED <<service, view, stop, used, run, host, helper, authority>>
  BY <1>1 DEF Drain
<1>4. ctl' = [ctl EXCEPT ![p] = c]
  BY <1>1 DEF Drain, Controls
<1>5. engine[a].dirty \in BOOLEAN
  BY <1>1 DEF Processes
<1>6. /\ Dead(engine[a].dirty) \in Processes /\ engine'[a].st = "gone"
      /\ engine'[a].dirty = engine[a].dirty /\ pipe'[a] = <<>>
  BY <1>1, <1>2, <1>3, <1>5, DeadTyped
<1>7. /\ life \in Lives /\ (~complete \/ Remembered(ctl[p].life) => life.failed)
      /\ (ctl[p].life.failed => life.failed)
  BY <1>1, ReapedFacts
<1>8. engine[a].dirty => life.failed
  <2>1. engine[a].dirty => Announced(pipe[a]) \/ Remembered(ctl[p].life)
    BY <1>1, LocalFacts
  <2>2. complete => ~Announced(pipe[a])
    BY <1>3, EmptyPipe
  <2> QED BY <1>7, <2>1, <2>2
<1> HIDE DEF life
<1>9. /\ c.process = Nobody /\ c.life = life /\ c.active /\ c.gen = ctl[p].gen
      /\ (life.failed => c.blocked)
  BY <1>1 DEF Controls
<1>10. c \in Controls
  <2>1. life.failed \in BOOLEAN
    BY <1>7 DEF Lives
  <2>2. (ctl[p].blocked \/ life.failed \/ engine[a].code # "retryable") \in BOOLEAN
    OBVIOUS
  <2> QED BY <1>1, <1>7, <2>2 DEF Controls
<1> HIDE DEF c
<1>11. ctl'[p] = c
  BY <1>1, <1>2, <1>4
<1>12. /\ run' = run /\ owner' = owner /\ holder' = holder /\ boot' = boot
       /\ gated' = gated /\ view' = view
  BY <1>3 DEF authority, host
<1>13. Frame(t, p, a, "confirm")
  <2>1. OwnLease(a)
    BY <1>12 DEF OwnLease
  <2>2. "confirm" \in Places \ {"none"}
    BY DEF Places, Settled
  <2> QED BY <1>2, <1>3, <1>4, <1>6, <1>10, <1>12, <2>1, <2>2, Framed
<1>14. holder = a /\ owner.attempt = a /\ run[a].profile = p /\ run[a].boot = boot
  BY <1>1 DEF StageOf, Recorded, Owning
<1>15. StageOf(t, a)'
  <2>1. engine'[a].dirty => ctl'[p].life.failed
    BY <1>6, <1>8, <1>9, <1>11
  <2> QED BY <1>3, <1>6, <1>12, <1>14, <2>1, Moved
          DEF StageOf, Unlaunched, Recorded, Owning, Waiting, Settled
<1>16. LocalControl("confirm", p, a)
  BY <1>7, <1>9, <1>11 DEF LocalControl, Trying
<1>17. LocalFiles("confirm", a)
  BY <1>1, <1>6, <1>12, <1>14, LocalFacts DEF LocalFiles, Owning
<1>18. LocalEngine(t, "confirm", p, a)
  BY <1>6, EmptyPipe DEF LocalEngine, Waiting
<1> QED BY <1>13, <1>15, <1>16, <1>17, <1>18, TaskStep

\* Only a cleanup that is confirmed leads to the return of the lease.
LEMMA ConfirmStep ==
  ASSUME ManagerInv, NEW t \in Fresh, NEW p, NEW a, At(t, p, a), Confirm(t)
  PROVE  ManagerInv'
<1>1. /\ sup[t].pc = "confirm" /\ StageOf(t, a) /\ p \in Profile /\ a \in Fresh /\ a \in Attempt
      /\ sup[t].profile = p /\ ctl[p].gen = sup[t].gen /\ a # Nobody
      /\ owner \in Owner /\ holder \in Attempt \cup {Nobody}
      /\ UNCHANGED <<service, ctl, view, stop, used, run, engines, host, helper>>
  BY TaskFacts DEF Confirm, At, ManagerInv, MachineTypes
<1>2. /\ engine[a].st \in {"none", "gone"} /\ holder = a /\ owner.attempt = a
      /\ run[a].profile = p /\ run[a].boot = boot /\ (engine[a].dirty => ctl[p].life.failed)
  BY <1>1 DEF StageOf, Recorded, Owning, Settled
<1>3. CASE ~ctl[p].life.failed
  <2>1. Goto(t, "return") /\ UNCHANGED authority
    BY <1>1, <1>3 DEF Confirm
  <2>2. StaysBut(t, p, a, "return")
    BY <1>1, <2>1 DEF StaysBut, Goto, Places, Settled
  <2>3. StageOf(t, a)'
    BY <1>1, <1>2, <1>3, <2>1, Moved DEF StageOf, engines, host, authority,
       Unlaunched, Recorded, Owning, Waiting, Settled
  <2> QED BY <1>1, <1>3, <2>2, <2>3, Moves DEF Owning, Waiting
<1>4. CASE ctl[p].life.failed
  <2>1. /\ Goto(t, "decide") /\ holder' = Nobody /\ owner' = owner /\ ctl' = ctl /\ view' = view
        /\ run' = run /\ engine' = engine /\ pipe' = pipe
    BY <1>1, <1>4 DEF Confirm, DropLease, engines
  <2>2. Frame(t, p, a, "decide")
    <3>1. OwnLease(a)
      BY <1>2, <2>1 DEF OwnLease
    <3>2. "decide" \in Places \ {"none"}
      BY DEF Places, Settled
    <3> QED BY <1>1, <2>1, <3>1, <3>2, Framed
  <2>3. StageOf(t, a)'
    BY <1>2, <2>1, Moved DEF StageOf, Unlaunched, Recorded, Owning, Waiting, Settled
  <2>4. LocalControl("decide", p, a)
    BY <1>1, <1>4, <2>1, LocalFacts, TaskFacts DEF LocalControl, Trying
  <2>5. LocalFiles("decide", a)
    BY <1>1, <1>2, <1>4, <2>1, LocalFacts DEF LocalFiles
  <2>6. LocalEngine(t, "decide", p, a)
    BY <1>1, <1>2, <2>1, LocalFacts DEF LocalEngine, Waiting
  <2> QED BY <2>2, <2>3, <2>4, <2>5, <2>6, TaskStep
<1> QED BY <1>3, <1>4

LEMMA ReturnStep ==
  ASSUME ManagerInv, NEW t \in Fresh, NEW p, NEW a, At(t, p, a), NEW outcome, Return(t, outcome)
  PROVE  ManagerInv'
<1>1. /\ sup[t].pc = "return" /\ StageOf(t, a) /\ p \in Profile /\ a \in Fresh /\ a \in Attempt
      /\ sup[t].profile = p /\ sup[t].inst = a /\ a # Nobody
      /\ owner \in Owner /\ holder \in Attempt \cup {Nobody}
      /\ UNCHANGED <<service, view, stop, used, run, engines, host, helper>>
  BY TaskFacts DEF Return, At, ManagerInv, MachineTypes
<1>2. /\ engine[a].st \in {"none", "gone"} /\ ~engine[a].dirty /\ holder = a /\ owner.attempt = a
      /\ run[a].profile = p /\ run[a].boot = boot
  BY <1>1 DEF StageOf, Recorded, Owning, Settled
<1>3. view' = view /\ run' = run /\ engine' = engine /\ pipe' = pipe /\ boot' = boot
  BY <1>1 DEF engines, host
<1>4. PICK x \in {"unrecord", "decide"} :
        /\ Goto(t, x) /\ holder' = Nobody /\ (owner' = owner \/ owner' = NoOwner)
        /\ \/ x = "unrecord" /\ owner' = NoOwner /\ ctl' = ctl
           \/ x = "decide" /\ ctl' = Retained(t)
  BY <1>1 DEF Return, Finish, DropLease
<1>5. Frame(t, p, a, x)
  <2>1. NoOwner \in Owner /\ NoOwner.attempt = Nobody
    BY DEF Owner, NoOwner
  <2>2. owner' \in Owner /\ holder' \in Attempt \cup {Nobody}
    BY <1>1, <1>4, <2>1
  <2>3. OwnLease(a)
    BY <1>2, <1>4, <2>1 DEF OwnLease
  <2>4. x \in Places \ {"none"}
    BY DEF Places, Settled
  <2>5. ctl' = ctl \/ \E c \in Controls : ctl' = [ctl EXCEPT ![p] = c]
    BY <1>4, RetainedFacts
  <2> QED BY <1>1, <1>3, <1>4, <2>2, <2>3, <2>4, <2>5, Framed
<1>6. x = "unrecord" => owner'.attempt # a
  BY <1>1, <1>4 DEF NoOwner
<1>7. StageOf(t, a)'
  BY <1>2, <1>3, <1>4, <1>6, Moved DEF StageOf, Unlaunched, Recorded, Owning, Waiting, Settled
<1>8. LocalControl(x, p, a)
  BY <1>1, <1>4, LocalFacts, TaskFacts, RetainedFacts DEF LocalControl, Trying
<1>9. LocalFiles(x, a)
  BY <1>1, <1>2, <1>3, <1>4, <1>6, LocalFacts, RetainedFacts DEF LocalFiles
<1>10. LocalEngine(t, x, p, a)
  BY <1>1, <1>2, <1>3, <1>4 DEF LocalEngine, Waiting
<1> QED BY <1>5, <1>7, <1>8, <1>9, <1>10, TaskStep

LEMMA UnrecordStep ==
  ASSUME ManagerInv, NEW t \in Fresh, NEW p, NEW a, At(t, p, a), NEW outcome, Unrecord(t, outcome)
  PROVE  ManagerInv'
<1>1. /\ sup[t].pc = "unrecord" /\ StageOf(t, a) /\ p \in Profile /\ a \in Fresh /\ a \in Attempt
      /\ sup[t].profile = p /\ sup[t].inst = a /\ Goto(t, "decide") /\ run \in [Fresh -> Records]
      /\ owner \in Owner /\ holder \in Attempt \cup {Nobody}
      /\ ctl' = ctl \/ ctl' = Retained(t)
      /\ UNCHANGED <<service, view, stop, used, engines, host, helper, authority>>
  BY TaskFacts DEF Unrecord, At, ManagerInv, MachineTypes
<1>2. run' = run \/ run' = [run EXCEPT ![a] = NoRecord]
  BY <1>1 DEF Unrecord
<1>3. engine[a].st \in {"none", "gone"} /\ owner.attempt # a
  BY <1>1 DEF StageOf, Settled
<1>4. view' = view /\ engine' = engine /\ pipe' = pipe /\ owner' = owner /\ holder' = holder
  BY <1>1 DEF engines, authority
<1>5. Frame(t, p, a, "decide")
  <2>1. OwnLease(a)
    BY <1>4 DEF OwnLease
  <2>2. "decide" \in Places \ {"none"}
    BY DEF Places, Settled
  <2>3. ctl' = ctl \/ \E c \in Controls : ctl' = [ctl EXCEPT ![p] = c]
    BY <1>1, RetainedFacts
  <2>4. NoRecord \in Records
    BY RecordTyped
  <2> QED BY <1>1, <1>2, <1>4, <2>1, <2>2, <2>3, <2>4, Framed
<1>6. run'[a] = run[a] \/ run'[a] = NoRecord
  BY <1>1, <1>2
<1>7. LocalControl("decide", p, a)
  BY <1>1, LocalFacts, TaskFacts, RetainedFacts DEF LocalControl, Trying
<1>8. StageOf(t, a)'
  BY <1>1, <1>3, <1>4, <1>6, Moved
     DEF StageOf, NoRecord, Unlaunched, Recorded, Owning, Waiting, Settled
<1>9. LocalFiles("decide", a)
  BY <1>3, <1>4, <1>6, LocalFacts DEF LocalFiles
<1>10. LocalEngine(t, "decide", p, a)
  BY <1>1, <1>3, <1>4, LocalFacts DEF LocalEngine, Waiting
<1> QED BY <1>5, <1>7, <1>8, <1>9, <1>10, TaskStep

\* The supervisor returns, with its profile inactive or in recovery.
Leaves(t, p) ==
  /\ sup[t].pc \in {"mark", "fail"} /\ Done(t)
  /\ UNCHANGED <<service, stop, used, run, engines, host, helper, authority>>
  /\ ctl' \in [Profile -> Controls] /\ view' \in [Profile -> Views]
  /\ \A q \in Profile : ctl'[q].process = ctl[q].process /\ ctl'[q].life = ctl[q].life
                        /\ ctl'[q].blocked = ctl[q].blocked
  /\ \A q \in Profile : q # p => view'[q] = view[q]
  /\ view'[p].id = view[p].id /\ (view'[p].ended => ~ctl[p].life.failed)

LEMMA LeaveStep ==
  ASSUME ManagerInv, NEW t \in Fresh, NEW p, NEW a, At(t, p, a), Leaves(t, p)
  PROVE  ManagerInv'
<1>1. /\ p \in Profile /\ a \in Fresh /\ a \in used /\ a \in Attempt /\ view[p].id = a /\ service # "down"
      /\ StageOf(t, a) /\ sup[t].pc \in {"mark", "fail"} /\ Tasked(t) /\ a # Nobody
  BY TaskFacts DEF At, Leaves
<1>2. \A u \in Fresh : u # t => sup[u] = NoSupervisor /\ sup[u].pc = "none"
  BY <1>1, OtherTasksIdle
<1>3. sup' \in [Fresh -> Supervisors] /\ \A u \in Fresh : sup'[u] = NoSupervisor /\ sup'[u].pc = "none"
  <2>1. NoSupervisor \in Supervisors /\ NoSupervisor.pc = "none"
    BY DEF NoSupervisor, Supervisors, Places
  <2> QED BY <1>2, <2>1 DEF Leaves, Done, ManagerInv, MemoryTypes
<1>4. /\ service' = service /\ stop' = stop /\ used' = used /\ run' = run /\ engine' = engine
      /\ pipe' = pipe /\ boot' = boot /\ gated' = gated /\ helper' = helper /\ owner' = owner
      /\ holder' = holder
  BY DEF Leaves, engines, host, authority
<1>5. MemoryTypes'
  BY <1>3, <1>4 DEF Leaves, ManagerInv, MemoryTypes
<1>6. MachineTypes'
  BY <1>4 DEF ManagerInv, MachineTypes
<1>7. Tasks'
  BY <1>3 DEF Tasks, Tasked
<1>8. Known'
  <2>1. \A q \in Profile : view'[q].id = view[q].id /\ (q # p => view'[q].ended = view[q].ended)
    BY DEF Leaves
  <2> QED BY <1>1, <1>4, <2>1 DEF ManagerInv, Known
<1>9. Published'
  <2>1. \A q \in Profile : ctl[q].process = Nobody
    BY <1>1, <1>2 DEF ManagerInv, Published
  <2>2. \A u \in Fresh : sup'[u].pc \notin Trying
    BY <1>3 DEF Trying
  <2>3. \A q \in Profile : ctl[q].life.failed => ctl[q].blocked
    BY DEF ManagerInv, Published
  <2> QED BY <2>1, <2>2, <2>3 DEF Published, Leaves
<1>10. Stages'
  BY <1>3 DEF Stages, Tasked
<1>11. HelperStages' /\ Undrawn'
  BY <1>4 DEF ManagerInv, HelperStages, Undrawn
<1>12. Waited'
  <2>1. \A b \in Fresh : ~Awaited(b)
    BY <1>1, <1>2 DEF Awaited, Waiting
  <2> QED BY <1>4, <2>1 DEF ManagerInv, Waited
<1>13. Held'
  BY <1>4 DEF ManagerInv, Held, Busy
<1>14. Reservations'
  <2>1. \A u \in Fresh : sup[u].pc \notin Owning
    BY <1>1, <1>2 DEF Owning, Waiting
  <2>2. owner.attempt \in Fresh =>
          run[owner.attempt].profile \in Profile /\ ctl[run[owner.attempt].profile].life.failed
    BY <1>1, <2>1 DEF ManagerInv, Reservations
  <2> QED BY <1>4, <2>2 DEF ManagerInv, Reservations, Leaves
<1>15. Ended'
  <2>1. ~ctl[p].life.failed => ~Busy(a) /\ ~Alive(a) /\ owner.attempt # a
    <3>1. engine[a].st \in {"none", "gone"} /\ run[a].profile \in {p, Nobody}
      BY <1>1 DEF StageOf, Settled, At
    <3>2. owner.attempt = a => ctl[p].life.failed
      BY <1>1, <3>1, LocalFacts, AttemptAssumption DEF Owning, Waiting
    <3> QED BY <3>1, <3>2, LocalFacts DEF Busy, Alive
  <2>2. \A q \in Profile : view'[q].id = view[q].id /\ (q # p => view'[q].ended = view[q].ended)
    BY DEF Leaves
  <2> QED BY <1>1, <1>4, <2>1, <2>2 DEF ManagerInv, Ended, Busy, Alive, Leaves
<1>16. Told'
  BY <1>3, <1>4 DEF ManagerInv, Told, Alive, Waiting
<1> QED BY <1>5, <1>6, <1>7, <1>8, <1>9, <1>10, <1>11, <1>12, <1>13, <1>14, <1>15, <1>16
        DEF ManagerInv

LEMMA MarkDisconnectedStep ==
  ASSUME ManagerInv, NEW t \in Fresh, NEW p, NEW a, At(t, p, a), MarkDisconnected(t)
  PROVE  ManagerInv'
<1>1. /\ sup[t].pc = "mark" /\ sup[t].profile = p /\ sup[t].inst = a /\ p \in Profile
      /\ view[p].id = a /\ ~view[p].ended /\ ctl[p] \in Controls /\ ctl[p].process = Nobody
  BY TaskFacts, LocalFacts DEF At, MarkDisconnected
<1>2. ctl \in [Profile -> Controls] /\ view \in [Profile -> Views] /\ view[p] \in Views
  BY <1>1 DEF ManagerInv, MemoryTypes
<1>3. CASE ctl[p].life.failed
  <2>1. ctl' = ctl /\ view' = [view EXCEPT ![p].status = "Failed"]
    BY <1>1, <1>3 DEF MarkDisconnected
  <2>2. /\ [view[p] EXCEPT !.status = "Failed"] \in Views
        /\ [view[p] EXCEPT !.status = "Failed"].id = view[p].id
        /\ [view[p] EXCEPT !.status = "Failed"].ended = view[p].ended
    BY <1>2 DEF Views
  <2>3. Leaves(t, p)
    BY <1>1, <1>2, <2>1, <2>2 DEF Leaves, MarkDisconnected
  <2> QED BY <2>3, LeaveStep
<1>4. CASE ~ctl[p].life.failed
  <2> DEFINE c == [ctl[p] EXCEPT !.active = FALSE, !.desired = FALSE]
             v == [view[p] EXCEPT !.status = "Disconnected", !.ended = TRUE]
  <2>1. ctl' = [ctl EXCEPT ![p] = c] /\ view' = [view EXCEPT ![p] = v]
    BY <1>1, <1>2, <1>4 DEF MarkDisconnected, Controls, Views
  <2>2. /\ c \in Controls /\ c.process = ctl[p].process /\ c.life = ctl[p].life
        /\ c.blocked = ctl[p].blocked /\ v \in Views /\ v.id = view[p].id
    BY <1>1, <1>2 DEF Controls, Views
  <2> HIDE DEF c, v
  <2>3. Leaves(t, p)
    BY <1>1, <1>2, <1>4, <2>1, <2>2 DEF Leaves, MarkDisconnected
  <2> QED BY <2>3, LeaveStep
<1> QED BY <1>3, <1>4

LEMMA FinishFailedStep ==
  ASSUME ManagerInv, NEW t \in Fresh, NEW p, NEW a, At(t, p, a), FinishFailed(t)
  PROVE  ManagerInv'
<1> DEFINE active == ctl[p].life.failed
           c == [ctl[p] EXCEPT !.desired = FALSE, !.active = active]
           v == [view[p] EXCEPT !.status = "Failed", !.ended = @ \/ ~active]
<1>1. /\ sup[t].pc = "fail" /\ sup[t].profile = p /\ sup[t].inst = a /\ p \in Profile
      /\ view[p].id = a /\ ~view[p].ended /\ ctl[p] \in Controls /\ ctl[p].process = Nobody
      /\ ctl[p].life \in Lives
  BY TaskFacts, LocalFacts DEF At, FinishFailed
<1>2. ctl \in [Profile -> Controls] /\ view \in [Profile -> Views] /\ view[p] \in Views
  BY <1>1 DEF ManagerInv, MemoryTypes
<1>3. active \in BOOLEAN /\ (view[p].ended \/ ~active) \in BOOLEAN
  BY <1>1 DEF Lives
<1>4. (ctl[p].process # Nobody \/ ctl[p].life.failed) = active
  BY <1>1, <1>3
<1>5. ctl' = [ctl EXCEPT ![p].desired = FALSE, ![p].active = active]
      /\ view' = [view EXCEPT ![p].status = "Failed", ![p].ended = @ \/ ~active]
  BY <1>1, <1>4 DEF FinishFailed
<1> HIDE DEF active
<1>6. ctl' = [ctl EXCEPT ![p] = c] /\ view' = [view EXCEPT ![p] = v]
  BY <1>1, <1>2, <1>5 DEF Controls, Views
<1>7. /\ c \in Controls /\ c.process = ctl[p].process /\ c.life = ctl[p].life
      /\ c.blocked = ctl[p].blocked /\ v \in Views /\ v.id = view[p].id /\ v.ended = ~active
  BY <1>1, <1>2, <1>3 DEF Controls, Views
<1> HIDE DEF c, v
<1>8. Leaves(t, p)
  BY <1>1, <1>2, <1>6, <1>7 DEF Leaves, FinishFailed, active
<1> QED BY <1>8, LeaveStep

\* A new attempt b of profile p begins under the supervisor t, the only one.
Draws(t, p, b, s) ==
  /\ b \in Fresh \ used /\ used' = used \cup {b} /\ p \in Profile
  /\ \A u \in Fresh : u # t => sup[u] = NoSupervisor
  /\ sup[t].pc \in {"none", "rename"}
  /\ s \in Supervisors /\ s.pc \in {"start", "journal"} /\ s.profile = p /\ s.inst = b
  /\ sup' = [sup EXCEPT ![t] = s]
  /\ view' = [view EXCEPT ![p] = [id |-> b, status |-> "Live", ended |-> FALSE]]
  /\ ctl' \in [Profile -> Controls] /\ \A q \in Profile : q # p => ctl'[q] = ctl[q]
  /\ ctl'[p].active /\ ctl'[p].gen = s.gen /\ ~ctl'[p].life.failed /\ ctl'[p].process = Nobody
  /\ ~ctl[p].life.failed /\ service # "down"
  /\ UNCHANGED <<service, stop, run, engines, host, helper, authority>>

LEMMA DrawStep ==
  ASSUME ManagerInv, NEW t \in Fresh, NEW p, NEW b, NEW s, Draws(t, p, b, s)
  PROVE  ManagerInv'
<1>1. /\ b \in Fresh /\ b \notin used /\ b \in Attempt /\ b # Nobody /\ p \in Profile /\ b \notin Helpers
      /\ used' = used \cup {b} /\ service # "down" /\ ~ctl[p].life.failed
  BY AttemptAssumption, NobodyAssumption DEF Draws
<1>2. /\ service' = service /\ stop' = stop /\ run' = run /\ engine' = engine
      /\ pipe' = pipe /\ boot' = boot /\ gated' = gated /\ helper' = helper /\ owner' = owner
      /\ holder' = holder
  BY DEF Draws, engines, host, authority
<1>3. \A u \in Fresh : u # t => sup[u].pc = "none" /\ sup'[u] = NoSupervisor /\ sup'[u].pc = "none"
  BY DEF Draws, ManagerInv, MemoryTypes, NoSupervisor
<1>4. /\ sup' \in [Fresh -> Supervisors] /\ sup'[t] = s /\ s.pc \in {"start", "journal"}
      /\ s.profile = p /\ s.inst = b /\ sup[t].pc \in {"none", "rename"}
  BY DEF Draws, ManagerInv, MemoryTypes
<1>5. /\ view' \in [Profile -> Views] /\ view'[p].id = b /\ ~view'[p].ended
      /\ \A q \in Profile : q # p => view'[q] = view[q]
  <2>1. [id |-> b, status |-> "Live", ended |-> FALSE] \in Views
    BY <1>1 DEF Views
  <2>2. view \in [Profile -> Views]
    BY DEF ManagerInv, MemoryTypes
  <2> QED BY <1>1, <2>1, <2>2 DEF Draws
<1>6. /\ ctl' \in [Profile -> Controls] /\ \A q \in Profile : q # p => ctl'[q] = ctl[q]
      /\ ctl'[p].active /\ ctl'[p].gen = s.gen /\ ~ctl'[p].life.failed /\ ctl'[p].process = Nobody
  BY DEF Draws
<1>7. MemoryTypes'
  BY <1>2, <1>4, <1>5, <1>6 DEF ManagerInv, MemoryTypes
<1>8. MachineTypes'
  BY <1>1, <1>2 DEF ManagerInv, MachineTypes
<1>9. Tasks'
  <2>1. \A q \in Profile : view'[q].id = b => q = p
    BY <1>1, <1>5 DEF ManagerInv, Known
  <2> QED BY <1>1, <1>2, <1>3, <1>4, <1>5, <1>6, <2>1 DEF Tasks, Tasked
<1>10. Known'
  BY <1>1, <1>5 DEF ManagerInv, Known
<1>11. Published'
  <2>1. \A q \in Profile : ctl[q].process = Nobody
    BY <1>3, <1>4 DEF ManagerInv, Published
  <2>2. \A q \in Profile : ctl'[q].process = Nobody /\ (ctl'[q].life.failed => ctl'[q].blocked)
    BY <1>6, <2>1 DEF ManagerInv, Published
  <2>3. \A u \in Fresh : sup'[u].pc \in Trying => u = t
    BY <1>3 DEF Trying
  <2> QED BY <1>4, <1>6, <2>2, <2>3 DEF Published
<1>12. Stages'
  <2>1. run[b].profile = Nobody /\ engine[b] = NoEngine /\ pipe[b] = <<>> /\ owner.attempt # b
    BY <1>1 DEF ManagerInv, Undrawn, NoRecord
  <2>2. StageOf(t, b)'
    BY <1>2, <1>4, <2>1 DEF StageOf, NoEngine, Unlaunched, Recorded, Owning, Waiting, Settled
  <2> QED BY <1>3, <1>4, <2>2 DEF Stages, Tasked
<1>13. HelperStages' /\ Undrawn'
  BY <1>1, <1>2 DEF ManagerInv, HelperStages, Undrawn
<1>14. Waited'
  <2>1. \A c \in Fresh : ~Awaited(c)
    BY <1>3, <1>4 DEF Awaited, Waiting
  <2> QED BY <1>2, <2>1 DEF ManagerInv, Waited
<1>15. Held'
  BY <1>2 DEF ManagerInv, Held, Busy
<1>16. Reservations'
  <2>1. \A u \in Fresh : sup[u].pc \notin Owning
    BY <1>3, <1>4 DEF Owning, Waiting
  <2>2. owner.attempt \in Fresh =>
          run[owner.attempt].profile \in Profile /\ ctl[run[owner.attempt].profile].life.failed
    BY <1>1, <2>1 DEF ManagerInv, Reservations
  <2>3. owner.attempt \in Fresh => ctl'[run[owner.attempt].profile].life.failed
    BY <1>1, <1>6, <2>2
  <2> QED BY <1>2, <2>2, <2>3 DEF ManagerInv, Reservations
<1>17. Ended'
  BY <1>2, <1>5 DEF ManagerInv, Ended, Busy, Alive
<1>18. Told'
  <2>1. \A u \in Fresh : sup'[u].pc \notin Waiting \cup {"drain"}
    BY <1>3, <1>4 DEF Waiting
  <2> QED BY <1>2, <2>1 DEF ManagerInv, Told, Alive
<1> QED BY <1>7, <1>8, <1>9, <1>10, <1>11, <1>12, <1>13, <1>14, <1>15, <1>16, <1>17, <1>18
        DEF ManagerInv

LEMMA RenameStep ==
  ASSUME ManagerInv, NEW t \in Fresh, NEW p, NEW a, At(t, p, a), NEW b, Rename(t, b)
  PROVE  ManagerInv'
<1> DEFINE s == [sup[t] EXCEPT !.pc = "journal", !.inst = b]
<1>1. /\ sup[t].pc = "rename" /\ sup[t].profile = p /\ sup[t].inst = a /\ p \in Profile /\ Tasked(t)
      /\ view[p].id = a /\ ctl[p].active /\ ctl[p].gen = sup[t].gen /\ service # "down"
      /\ sup[t] \in Supervisors /\ b \in Fresh \ used /\ ctl[p].process = Nobody
      /\ ~ctl[p].life.failed
  BY TaskFacts, LocalFacts DEF At, Rename, Trying
<1>2. /\ used' = used \cup {b} /\ view' = [view EXCEPT ![p] = [id |-> b, status |-> "Live", ended |-> FALSE]]
      /\ sup' = [sup EXCEPT ![t].pc = "journal", ![t].inst = b] /\ ctl' = ctl
      /\ UNCHANGED <<service, stop, run, engines, host, helper, authority>>
  BY <1>1 DEF Rename, Drawn
<1>3. ctl' \in [Profile -> Controls] /\ sup \in [Fresh -> Supervisors]
  BY <1>2 DEF ManagerInv, MemoryTypes
<1>4. /\ s \in Supervisors /\ s.pc = "journal" /\ s.profile = p /\ s.inst = b /\ s.gen = sup[t].gen
  BY <1>1 DEF Supervisors, Places
<1>5. sup' = [sup EXCEPT ![t] = s]
  BY <1>1, <1>2, <1>3 DEF Supervisors
<1> HIDE DEF s
<1>6. \A u \in Fresh : u # t => sup[u] = NoSupervisor
  BY <1>1, OtherTasksIdle
<1>7. Draws(t, p, b, s)
  BY <1>1, <1>2, <1>3, <1>4, <1>5, <1>6 DEF Draws
<1> QED BY <1>7, DrawStep

\* Admission is free only when no control has a task or an open recovery.
LEMMA ConnectStep ==
  ASSUME ManagerInv, NEW p \in Profile, NEW b, Connect(p, b)
  PROVE  ManagerInv'
<1> DEFINE s == [pc |-> "start", profile |-> p, gen |-> ctl[p].gen + 1, inst |-> b]
           c == [gen |-> ctl[p].gen + 1, desired |-> TRUE, active |-> TRUE,
                 blocked |-> FALSE, process |-> Nobody, life |-> NewLife]
<1>1. /\ service = "up" /\ b \in Fresh \ used /\ used' = used \cup {b}
      /\ ctl' = [ctl EXCEPT ![p] = c] /\ sup' = [sup EXCEPT ![b] = s]
      /\ view' = [view EXCEPT ![p] = [id |-> b, status |-> "Live", ended |-> FALSE]]
      /\ UNCHANGED <<service, stop, run, engines, host, helper, authority>>
  BY DEF Connect, Drawn
<1>2. \A q \in Profile : ~ctl[q].active /\ ~ctl[q].life.failed
  BY DEF Connect, Admitted, Reserved
<1>3. \A u \in Fresh : sup[u] = NoSupervisor /\ sup[u].pc = "none"
  BY <1>2 DEF ManagerInv, Tasks, Tasked, NoSupervisor
<1>4. ctl \in [Profile -> Controls] /\ ctl[p].gen + 1 \in Nat
  <2>1. ctl \in [Profile -> Controls]
    BY DEF ManagerInv, MemoryTypes
  <2>2. ctl[p].gen \in Nat
    BY <2>1 DEF Controls
  <2> QED BY <2>1, <2>2
<1>5. /\ s \in Supervisors /\ s.pc = "start" /\ s.profile = p /\ s.inst = b
      /\ s.gen = c.gen
  BY <1>1, <1>4 DEF Supervisors, Places
<1>6. c \in Controls /\ c.active /\ ~c.life.failed /\ c.process = Nobody
  BY <1>4, LifeTyped DEF Controls
<1> HIDE DEF s, c
<1>7. ctl' \in [Profile -> Controls] /\ ctl'[p] = c /\ \A q \in Profile : q # p => ctl'[q] = ctl[q]
  BY <1>1, <1>4, <1>6
<1>8. Draws(b, p, b, s)
  BY <1>1, <1>2, <1>3, <1>5, <1>6, <1>7 DEF Draws
<1> QED BY <1>1, <1>8, DrawStep

-----------------------------------------------------------------------------
(* Events in the pipes.                                                      *)

LEMMA Appended ==
  ASSUME NEW q \in Seq(Events), NEW e \in Events
  PROVE  /\ Append(q, e) \in Seq(Events)
         /\ NoCleaned(q) /\ e # "cleaned" => NoCleaned(Append(q, e))
         /\ Announced(q) \/ e # "cleaned" => Announced(Append(q, e))
<1>1. /\ Append(q, e) \in Seq(Events) /\ Len(Append(q, e)) = Len(q) + 1 /\ Len(q) \in Nat
      /\ Append(q, e)[Len(q) + 1] = e /\ \A i \in 1..Len(q) : Append(q, e)[i] = q[i]
  OBVIOUS
<1>2. \A i \in 1..(Len(q) + 1) : i \in 1..Len(q) \/ i = Len(q) + 1
  BY <1>1
<1>3. NoCleaned(q) /\ e # "cleaned" => NoCleaned(Append(q, e))
  BY <1>1, <1>2 DEF NoCleaned
<1>4. ASSUME Announced(q)
      PROVE  Announced(Append(q, e))
  <2>1. PICK i \in 1..Len(q) : q[i] \in {"configuring", "uncleaned", "malformed"}
    BY <1>4 DEF Announced
  <2>2. i \in 1..Len(Append(q, e)) /\ Append(q, e)[i] = q[i]
    BY <1>1, <2>1
  <2> QED BY <2>1, <2>2 DEF Announced
<1>5. ASSUME e # "cleaned"
      PROVE  Announced(Append(q, e))
  <2>1. Len(q) + 1 \in 1..Len(Append(q, e)) /\ e \in {"configuring", "uncleaned", "malformed"}
    BY <1>1, <1>5 DEF Events
  <2> QED BY <1>1, <2>1 DEF Announced
<1> QED BY <1>1, <1>3, <1>4, <1>5

LEMMA Consumed ==
  ASSUME NEW q \in Seq(Events), q # <<>>
  PROVE  /\ Tail(q) \in Seq(Events) /\ Head(q) \in Events
         /\ NoCleaned(q) => NoCleaned(Tail(q)) /\ Head(q) # "cleaned"
         /\ Announced(q) => Head(q) # "cleaned" \/ Announced(Tail(q))
<1>1. /\ Tail(q) \in Seq(Events) /\ Head(q) \in Events /\ Len(q) \in Nat /\ Len(q) # 0
      /\ Len(Tail(q)) = Len(q) - 1 /\ Head(q) = q[1]
      /\ \A i \in 1..(Len(q) - 1) : Tail(q)[i] = q[i + 1]
  OBVIOUS
<1>2. 1 \in 1..Len(q) /\ \A i \in 1..(Len(q) - 1) : i + 1 \in 1..Len(q)
  BY <1>1
<1>3. NoCleaned(q) => NoCleaned(Tail(q)) /\ Head(q) # "cleaned"
  BY <1>1, <1>2 DEF NoCleaned
<1>4. ASSUME Announced(q), Head(q) = "cleaned"
      PROVE  Announced(Tail(q))
  <2>1. PICK i \in 1..Len(q) : q[i] \in {"configuring", "uncleaned", "malformed"}
    BY <1>4 DEF Announced
  <2>2. i # 1
    BY <1>1, <1>4, <2>1
  <2>3. i - 1 \in 1..(Len(q) - 1) /\ (i - 1) + 1 = i
    BY <1>1, <2>1, <2>2
  <2>4. Tail(q)[i - 1] = q[i] /\ i - 1 \in 1..Len(Tail(q))
    BY <1>1, <2>3
  <2> QED BY <2>1, <2>4 DEF Announced
<1> QED BY <1>1, <1>3, <1>4

LEMMA ObserveFacts ==
  ASSUME NEW life \in Lives, NEW e \in Events
  PROVE  /\ Observe(life, e) \in Lives
         /\ life.failed => Observe(life, e).failed
         /\ e # "cleaned" => Remembered(Observe(life, e))
<1>1. /\ Observe(life, e).v2 = (life.v2 \/ e # "malformed")
      /\ Observe(life, e).failed = (life.failed \/ e \in {"uncleaned", "malformed"})
      /\ Observe(life, e).pending
           = (IF e = "cleaned" THEN life.failed ELSE life.pending \/ e # "malformed")
  BY DEF Observe
<1>2. Observe(life, e) \in Lives
  <2>1. /\ (life.v2 \/ e # "malformed") \in BOOLEAN
        /\ (life.failed \/ e \in {"uncleaned", "malformed"}) \in BOOLEAN
    OBVIOUS
  <2>2. (IF e = "cleaned" THEN life.failed ELSE life.pending \/ e # "malformed") \in BOOLEAN
    BY DEF Lives
  <2> QED BY <2>1, <2>2 DEF Observe, Lives
<1>3. e # "cleaned" => Remembered(Observe(life, e))
  BY <1>1 DEF Remembered, Events
<1> QED BY <1>1, <1>2, <1>3

\* The reader keeps in the lifecycle what it takes out of the pipe.
LEMMA ReadEventStep ==
  ASSUME ManagerInv, NEW a \in Fresh, ReadEvent(a)
  PROVE  ManagerInv'
<1>1. PICK t \in Fresh : sup[t].inst = a /\ sup[t].pc \in {"wait", "drain"}
  BY DEF ReadEvent
<1>2. PICK p : p = sup[t].profile
  OBVIOUS
<1> DEFINE event == Head(pipe[a])
           life == Observe(ctl[p].life, event)
           c == [ctl[p] EXCEPT !.life = life, !.blocked = @ \/ life.failed,
                               !.desired = @ /\ event # "malformed"]
<1>3. At(t, p, a)
  BY <1>1, <1>2 DEF At, Tasked
<1>4. /\ p \in Profile /\ a \in Attempt /\ ctl[p] \in Controls /\ ctl[p].life \in Lives
      /\ view[p].id = a /\ pipe[a] \in Seq(Events) /\ StageOf(t, a) /\ engine[a] \in Processes
      /\ ctl[p].active /\ ctl[p].gen = sup[t].gen /\ sup[t] \in Supervisors /\ a # Nobody
  BY <1>3, TaskFacts
<1>5. /\ ctl \in [Profile -> Controls] /\ pipe \in [Attempt -> Seq(Events)]
      /\ engine \in [Attempt -> Processes] /\ owner \in Owner /\ holder \in Attempt \cup {Nobody}
      /\ sup \in [Fresh -> Supervisors]
  BY DEF ManagerInv, MemoryTypes, MachineTypes
<1>6. {q \in Profile : view[q].id = a} = {p}
  BY <1>1, <1>2, <1>3, <1>4 DEF ManagerInv, Tasks, At
<1>7. /\ pipe[a] # <<>> /\ pipe' = [pipe EXCEPT ![a] = Tail(pipe[a])]
      /\ UNCHANGED <<service, view, sup, stop, used, run, host, helper, authority>>
  BY DEF ReadEvent
<1>8. Tail(pipe[a]) \in Seq(Events) /\ event \in Events
  BY <1>4, <1>7, Consumed
<1>9. life \in Lives /\ (ctl[p].life.failed => life.failed)
  BY <1>4, <1>8, ObserveFacts
<1>10. \A q \in Profile : ctl'[q] = IF q = p THEN c ELSE ctl[q]
  <2>1. ctl' = [q \in Profile |-> IF q \notin {p} THEN ctl[q]
                ELSE LET l == Observe(ctl[q].life, event)
                     IN  [ctl[q] EXCEPT !.life = l, !.blocked = @ \/ l.failed,
                                        !.desired = @ /\ event # "malformed"]]
    BY <1>6 DEF ReadEvent
  <2> QED BY <2>1
<1>11. /\ c.life = life /\ c.active /\ c.gen = ctl[p].gen /\ c.process = ctl[p].process
       /\ (life.failed => c.blocked)
  BY <1>4 DEF Controls
<1>12. c \in Controls
  <2>1. (ctl[p].blocked \/ life.failed) \in BOOLEAN /\ (ctl[p].desired /\ event # "malformed") \in BOOLEAN
    OBVIOUS
  <2> QED BY <1>4, <1>9, <2>1 DEF Controls
<1> HIDE DEF c
<1>13. /\ ctl' \in [Profile -> Controls] /\ ctl'[p] = c /\ \A q \in Profile : q # p => ctl'[q] = ctl[q]
  <2>1. ctl' = [q \in Profile |-> ctl'[q]]
    BY DEF ReadEvent
  <2> QED BY <1>4, <1>5, <1>10, <1>12, <2>1
<1>14. engine' = engine \/ engine' = Terminated(ctl[p].process)
  <2>1. (CHOOSE q \in {p} : TRUE) = p
    OBVIOUS
  <2> QED BY <1>6, <2>1 DEF ReadEvent
<1>15. /\ engine' \in [Attempt -> Processes] /\ engine'[a].st = engine[a].st
       /\ engine'[a].dirty = engine[a].dirty /\ \A b \in Attempt : b # a => engine'[b] = engine[b]
  <2>1. ctl[p].process = a \/ ctl[p].process = Nobody
    BY <1>3, LocalFacts
  <2>2. Terminated(Nobody) = engine
    BY NobodyAssumption DEF Terminated
  <2>3. engine' = engine \/ engine' = Terminated(a)
    BY <1>14, <2>1, <2>2
  <2> QED BY <1>4, <1>5, <2>3, TerminatedFacts
<1>16. /\ pipe' \in [Attempt -> Seq(Events)] /\ pipe'[a] = Tail(pipe[a])
       /\ \A b \in Attempt : b # a => pipe'[b] = pipe[b]
  BY <1>4, <1>5, <1>7, <1>8
<1>17. /\ run' = run /\ owner' = owner /\ holder' = holder /\ boot' = boot /\ gated' = gated /\ sup' = sup
       /\ view' = view
  BY <1>7 DEF host, authority
<1>18. PICK y : y = sup[t].pc
  OBVIOUS
<1>19. Frame(t, p, a, y)
  <2>1. OwnLease(a)
    BY <1>17 DEF OwnLease
  <2>2. y \in Places \ {"none"} /\ sup' = [sup EXCEPT ![t].pc = y]
    BY <1>1, <1>4, <1>5, <1>17, <1>18 DEF Supervisors
  <2>3. view' \in [Profile -> Views] /\ run' \in [Fresh -> Records]
    BY <1>17 DEF ManagerInv, MemoryTypes, MachineTypes
  <2> QED BY <1>5, <1>7, <1>13, <1>15, <1>16, <1>17, <2>1, <2>2, <2>3 DEF Frame, host
<1>20. StageOf(t, a)'
  BY <1>1, <1>4, <1>15, <1>17 DEF StageOf, Unlaunched, Recorded, Owning, Waiting, Settled
<1>21. LocalControl(y, p, a)
  BY <1>1, <1>3, <1>9, <1>11, <1>13, <1>18, LocalFacts, TaskFacts DEF LocalControl, Trying
<1>22. \A q \in Profile : ctl[q].life.failed => ctl'[q].life.failed
  BY <1>9, <1>11, <1>13
<1>23. LocalFiles(y, a)
  BY <1>3, <1>15, <1>17, <1>18, <1>22, LocalFacts DEF LocalFiles
<1>24. LocalEngine(t, y, p, a)
  <2>1. engine[a].st \in {"gated", "running"} \/ engine[a].dirty =>
          NoCleaned(Tail(pipe[a])) /\ event # "cleaned"
    BY <1>3, <1>4, <1>7, LocalFacts, Consumed
  <2>2. event # "cleaned" => Remembered(life)
    BY <1>4, <1>8, ObserveFacts
  <2>3. engine'[a].st \in {"gated", "running"} \/ engine'[a].dirty => NoCleaned(pipe'[a])
    BY <1>15, <1>16, <2>1
  <2>4. engine'[a].dirty => Remembered(ctl'[p].life)
    BY <1>11, <1>13, <1>15, <2>1, <2>2
  <2> HIDE DEF event, life
  <2> QED BY <1>1, <1>3, <1>15, <1>18, <2>3, <2>4, LocalFacts DEF LocalEngine, Waiting
<1> QED BY <1>3, <1>19, <1>20, <1>21, <1>23, <1>24, TaskStep

-----------------------------------------------------------------------------
(* Commands and signals.                                                     *)

\* A step that changes no more than wishes, statuses, commands and marks on
\* processes, and by which the network can only get cleaner.
Soft ==
  /\ service' \in {"down", "up", "stopping"} /\ (service' = "down" <=> service = "down")
  /\ ctl' \in [Profile -> Controls]
  /\ \A q \in Profile : /\ ctl'[q].gen = ctl[q].gen /\ ctl'[q].active = ctl[q].active
                        /\ ctl'[q].blocked = ctl[q].blocked /\ ctl'[q].process = ctl[q].process
                        /\ ctl'[q].life = ctl[q].life
  /\ view' \in [Profile -> Views]
  /\ \A q \in Profile : view'[q].id = view[q].id /\ view'[q].ended = view[q].ended
  /\ stop' \in [Profile -> Stops]
  /\ \A q \in Profile : stop'[q].pc \in {"term", "kill"} =>
       /\ stop'[q].process \in Fresh
       /\ engine[stop'[q].process].st = "gone" \/ Awaited(stop'[q].process)
  /\ engine' \in [Attempt -> Processes]
  /\ \A a \in Attempt : /\ engine'[a].st = engine[a].st /\ (engine'[a].dirty => engine[a].dirty)
                        /\ (engine[a] = NoEngine => engine'[a] = NoEngine)
  /\ UNCHANGED <<sup, used, run, pipe, host, helper, authority>>

LEMMA SoftStep ==
  ASSUME ManagerInv, Soft
  PROVE  ManagerInv'
<1>1. /\ sup' = sup /\ used' = used /\ run' = run /\ pipe' = pipe /\ boot' = boot /\ gated' = gated
      /\ helper' = helper /\ owner' = owner /\ holder' = holder
  BY DEF Soft, host, authority
<1>2. MemoryTypes' /\ MachineTypes'
  BY <1>1 DEF ManagerInv, MemoryTypes, MachineTypes, Soft
<1>3. Tasks'
  BY <1>1 DEF ManagerInv, Tasks, Tasked, Soft
<1>4. Known'
  BY <1>1 DEF ManagerInv, Known, Soft
<1>5. Published'
  <2>1. \A t \in Fresh : sup[t].pc \in Trying => sup[t].profile \in Profile
    BY DEF ManagerInv, Tasks, Tasked, Trying
  <2> QED BY <1>1, <2>1 DEF ManagerInv, Published, Soft
<1>6. Stages'
  <2> SUFFICES ASSUME NEW t \in Fresh, Tasked(t)
               PROVE  StageOf(t, sup[t].inst)'
    BY <1>1 DEF Stages, Tasked
  <2>1. PICK a, p : a = sup[t].inst /\ p = sup[t].profile
    OBVIOUS
  <2>2. At(t, p, a)
    BY <2>1 DEF At
  <2>3. StageOf(t, a) /\ a \in Attempt /\ p \in Profile
    BY <2>2, TaskFacts
  <2>4. /\ engine'[a].st = engine[a].st /\ (engine'[a].dirty => engine[a].dirty)
        /\ (engine[a] = NoEngine => engine'[a] = NoEngine) /\ ctl'[p].life = ctl[p].life
    BY <2>3 DEF Soft
  <2>5. StageOf(t, a)'
    BY <1>1, <2>1, <2>3, <2>4 DEF StageOf
  <2> QED BY <1>1, <2>1, <2>5
<1>7. HelperStages' /\ Undrawn'
  BY <1>1, AttemptAssumption DEF ManagerInv, HelperStages, Undrawn, Soft
<1>8. Waited'
  <2>1. \A a \in Attempt : Awaited(a)' <=> Awaited(a)
    BY <1>1 DEF Awaited
  <2> QED BY <1>1, <2>1, AttemptAssumption DEF ManagerInv, Waited, Soft
<1>9. Held'
  BY <1>1, AttemptAssumption DEF ManagerInv, Held, Busy, Soft
<1>10. Reservations'
  BY <1>1 DEF ManagerInv, Reservations, Soft
<1>11. Ended'
  <2>1. \A q \in Profile : view[q].ended => view[q].id \in Attempt
    BY AttemptAssumption DEF ManagerInv, Known, MachineTypes
  <2> QED BY <1>1, <2>1 DEF ManagerInv, Ended, Busy, Alive, Soft
<1>12. Told'
  <2>1. \A t \in Fresh : sup[t].pc \in Waiting \cup {"drain"} =>
          sup[t].inst \in Attempt /\ sup[t].profile \in Profile
    BY AttemptAssumption DEF ManagerInv, Tasks, Tasked, Waiting, MachineTypes
  <2>2. \A a \in Attempt : (Alive(a) \/ engine[a].dirty)' => Alive(a) \/ engine[a].dirty
    BY DEF Alive, Soft
  <2>3. (\A a \in Attempt : Alive(a) \/ engine[a].dirty => NoCleaned(pipe[a]))'
    BY <1>1, <2>2 DEF ManagerInv, Told
  <2>4. (\A t \in Fresh : sup[t].pc \in Waiting \cup {"drain"} /\ engine[sup[t].inst].dirty =>
          \/ Announced(pipe[sup[t].inst])
          \/ sup[t].pc \in {"wait", "drain"} /\ Remembered(ctl[sup[t].profile].life))'
    BY <1>1, <2>1 DEF ManagerInv, Told, Soft
  <2>5. (\A h \in Helpers : helper[h].pc \in {"wait", "drain"} /\ engine[h].dirty =>
          Announced(pipe[h]) \/ Remembered(helper[h].life))'
    BY <1>1, AttemptAssumption DEF ManagerInv, Told, Soft
  <2> QED BY <2>3, <2>4, <2>5 DEF Told
<1> QED BY <1>2, <1>3, <1>4, <1>5, <1>6, <1>7, <1>8, <1>9, <1>10, <1>11, <1>12 DEF ManagerInv

\* What Soft asks of the parts a step leaves alone.
LEMMA SoftFacts ==
  ASSUME ManagerInv
  PROVE  /\ service \in {"down", "up", "stopping"} /\ ctl \in [Profile -> Controls]
         /\ view \in [Profile -> Views] /\ stop \in [Profile -> Stops]
         /\ engine \in [Attempt -> Processes]
         /\ \A q \in Profile : stop[q].pc \in {"term", "kill"} =>
              /\ stop[q].process \in Fresh
              /\ engine[stop[q].process].st = "gone" \/ Awaited(stop[q].process)
BY DEF ManagerInv, MemoryTypes, MachineTypes, Waited

LEMMA DisconnectStep ==
  ASSUME ManagerInv, NEW p \in Profile, Disconnect(p)
  PROVE  ManagerInv'
<1> DEFINE c == [ctl[p] EXCEPT !.desired = FALSE]
           s == [pc |-> IF ctl[p].process = Nobody THEN "wait" ELSE "term", process |-> ctl[p].process]
<1>1. /\ ctl \in [Profile -> Controls] /\ view \in [Profile -> Views] /\ stop \in [Profile -> Stops]
      /\ engine \in [Attempt -> Processes] /\ service \in {"down", "up", "stopping"}
      /\ ctl[p] \in Controls /\ view[p] \in Views
  BY SoftFacts
<1>2. /\ ctl' = [ctl EXCEPT ![p] = c] /\ stop' = [stop EXCEPT ![p] = s]
      /\ view' = view \/ view' = [view EXCEPT ![p].status = "Disconnecting"]
      /\ UNCHANGED <<service, sup, used, run, engines, host, helper, authority>>
  BY DEF Disconnect
<1>3. /\ c \in Controls /\ c.gen = ctl[p].gen /\ c.active = ctl[p].active /\ c.process = ctl[p].process
      /\ c.life = ctl[p].life /\ c.blocked = ctl[p].blocked
  BY <1>1 DEF Controls
<1>4. s \in Stops /\ s.process = ctl[p].process /\ (s.pc = "term" => ctl[p].process # Nobody)
  BY <1>1 DEF Controls, Stops
<1>5. ctl[p].process # Nobody => /\ ctl[p].process \in Fresh
                                 /\ engine[ctl[p].process].st = "gone" \/ Awaited(ctl[p].process)
  <2> SUFFICES ASSUME ctl[p].process # Nobody
               PROVE  /\ ctl[p].process \in Fresh
                      /\ engine[ctl[p].process].st = "gone" \/ Awaited(ctl[p].process)
    OBVIOUS
  <2>1. PICK t \in Fresh : sup[t].profile = p /\ sup[t].inst = ctl[p].process
                           /\ sup[t].pc \in {"wait", "drain"}
    BY DEF ManagerInv, Published
  <2>2. PICK a : a = sup[t].inst
    OBVIOUS
  <2>3. At(t, p, a)
    BY <2>1, <2>2 DEF At, Tasked
  <2>4. a \in Fresh /\ StageOf(t, a)
    BY <2>3, TaskFacts
  <2> QED BY <2>1, <2>2, <2>4 DEF StageOf, Awaited, Waiting
<1>6. /\ view' \in [Profile -> Views]
      /\ \A q \in Profile : view'[q].id = view[q].id /\ view'[q].ended = view[q].ended
  <2>1. /\ [view[p] EXCEPT !.status = "Disconnecting"] \in Views
        /\ [view[p] EXCEPT !.status = "Disconnecting"].id = view[p].id
        /\ [view[p] EXCEPT !.status = "Disconnecting"].ended = view[p].ended
    BY <1>1 DEF Views
  <2> QED BY <1>1, <1>2, <2>1
<1> HIDE DEF c
<1>7. /\ stop' \in [Profile -> Stops] /\ \A q \in Profile : stop'[q] = IF q = p THEN s ELSE stop[q]
  BY <1>1, <1>2, <1>4
<1>8. \A q \in Profile : stop'[q].pc \in {"term", "kill"} =>
        /\ stop'[q].process \in Fresh
        /\ engine[stop'[q].process].st = "gone" \/ Awaited(stop'[q].process)
  <2>1. s.pc \in {"term", "kill"} => s.pc = "term"
    OBVIOUS
  <2> HIDE DEF s
  <2> QED BY <1>4, <1>5, <1>7, <2>1, SoftFacts
<1>9. Soft
  <2>1. engine' = engine /\ pipe' = pipe
    BY <1>2 DEF engines
  <2> HIDE DEF s
  <2> QED BY <1>1, <1>2, <1>3, <1>6, <1>7, <1>8, <2>1 DEF Soft
<1> QED BY <1>9, SoftStep

LEMMA ShutdownStep ==
  ASSUME ManagerInv, Shutdown
  PROVE  ManagerInv'
<1>1. /\ ctl \in [Profile -> Controls] /\ view \in [Profile -> Views] /\ stop \in [Profile -> Stops]
      /\ engine \in [Attempt -> Processes]
  BY SoftFacts
<1>2. \A q \in Profile : LET c == [ctl[q] EXCEPT !.desired = FALSE]
                         IN  /\ c \in Controls /\ c.gen = ctl[q].gen /\ c.active = ctl[q].active
                             /\ c.blocked = ctl[q].blocked /\ c.process = ctl[q].process
                             /\ c.life = ctl[q].life
  BY <1>1 DEF Controls
<1>3. /\ ctl' = [q \in Profile |-> [ctl[q] EXCEPT !.desired = FALSE]] /\ service = "up"
      /\ service' = "stopping" /\ view' = view /\ stop' = stop /\ engine' = engine /\ pipe' = pipe
      /\ UNCHANGED <<sup, used, run, host, helper, authority>>
  BY DEF Shutdown, engines
<1>4. /\ ctl' \in [Profile -> Controls]
      /\ \A q \in Profile : /\ ctl'[q].gen = ctl[q].gen /\ ctl'[q].active = ctl[q].active
                            /\ ctl'[q].blocked = ctl[q].blocked /\ ctl'[q].process = ctl[q].process
                            /\ ctl'[q].life = ctl[q].life
  BY <1>2, <1>3
<1>5. Soft
  BY <1>1, <1>3, <1>4, SoftFacts DEF Soft
<1> QED BY <1>5, SoftStep

LEMMA StopSoftStep ==
  ASSUME ManagerInv, NEW p \in Profile, StopTerm(p) \/ StopSkip(p) \/ StopReturn(p)
  PROVE  ManagerInv'
<1>1. /\ ctl \in [Profile -> Controls] /\ view \in [Profile -> Views] /\ stop \in [Profile -> Stops]
      /\ engine \in [Attempt -> Processes] /\ stop[p] \in Stops
      /\ service \in {"down", "up", "stopping"}
  BY SoftFacts
<1>2. PICK s \in Stops : stop' = [stop EXCEPT ![p] = s]
                         /\ (s.pc \in {"term", "kill"} => stop[p].pc = "term" /\ s.process = stop[p].process)
  <2>1. CASE StopTerm(p)
    <3>1. /\ [stop[p] EXCEPT !.pc = "kill"] \in Stops
          /\ [stop[p] EXCEPT !.pc = "kill"].process = stop[p].process
      BY <1>1 DEF Stops
    <3> QED BY <2>1, <3>1 DEF StopTerm
  <2>2. CASE StopSkip(p)
    <3>1. [stop[p] EXCEPT !.pc = "wait"] \in Stops /\ [stop[p] EXCEPT !.pc = "wait"].pc = "wait"
      BY <1>1 DEF Stops
    <3> QED BY <2>2, <3>1 DEF StopSkip
  <2>3. CASE StopReturn(p)
    <3>1. Idle \in Stops /\ Idle.pc = "idle"
      BY DEF Idle, Stops
    <3> QED BY <2>3, <3>1 DEF StopReturn
  <2> QED BY <2>1, <2>2, <2>3
<1>3. /\ UNCHANGED <<service, ctl, view, sup, used, run, pipe, host, helper, authority>>
      /\ engine' = engine \/ engine' = Terminated(stop[p].process)
  BY DEF StopTerm, StopSkip, StopReturn, engines
<1>4. /\ engine' \in [Attempt -> Processes]
      /\ \A a \in Attempt : /\ engine'[a].st = engine[a].st /\ (engine'[a].dirty => engine[a].dirty)
                            /\ (engine[a] = NoEngine => engine'[a] = NoEngine)
  <2>1. CASE engine' = engine
    BY <1>1, <2>1
  <2>2. CASE engine' = Terminated(stop[p].process)
    <3>1. \A a \in Attempt : engine[a] = NoEngine => engine'[a] = NoEngine
      <4> SUFFICES ASSUME NEW a \in Attempt, engine[a] = NoEngine
                   PROVE  engine'[a] = NoEngine
        OBVIOUS
      <4>1. ~Alive(a)
        BY DEF Alive, NoEngine
      <4>2. CASE a = stop[p].process
        BY <2>2, <4>1, <4>2 DEF Terminated
      <4>3. CASE a # stop[p].process
        BY <1>1, <2>2, <4>3, TerminatedFacts
      <4> QED BY <4>2, <4>3
    <3> QED BY <1>1, <2>2, <3>1, TerminatedFacts
  <2> QED BY <1>3, <2>1, <2>2
<1>5. /\ stop' \in [Profile -> Stops] /\ \A q \in Profile : stop'[q] = IF q = p THEN s ELSE stop[q]
  BY <1>1, <1>2
<1>6. \A q \in Profile : stop'[q].pc \in {"term", "kill"} =>
        /\ stop'[q].process \in Fresh
        /\ engine[stop'[q].process].st = "gone" \/ Awaited(stop'[q].process)
  BY <1>2, <1>5, SoftFacts
<1>7. Soft
  BY <1>1, <1>3, <1>4, <1>5, <1>6 DEF Soft
<1> QED BY <1>7, SoftStep

LEMMA OperatorRestoresStep ==
  ASSUME ManagerInv, NEW a \in Attempt, OperatorRestores(a)
  PROVE  ManagerInv'
<1>1. /\ ctl \in [Profile -> Controls] /\ view \in [Profile -> Views] /\ stop \in [Profile -> Stops]
      /\ engine \in [Attempt -> Processes] /\ service \in {"down", "up", "stopping"}
      /\ engine[a] \in Processes
  BY SoftFacts
<1>2. /\ engine[a].st = "gone" /\ engine' = [engine EXCEPT ![a].dirty = FALSE]
      /\ ctl' = ctl /\ view' = view /\ stop' = stop /\ service' = service
      /\ UNCHANGED <<sup, used, run, pipe, host, helper, authority>>
  BY DEF OperatorRestores, memory
<1>3. /\ [engine[a] EXCEPT !.dirty = FALSE] \in Processes
      /\ [engine[a] EXCEPT !.dirty = FALSE].st = engine[a].st
      /\ ~[engine[a] EXCEPT !.dirty = FALSE].dirty
  BY <1>1 DEF Processes
<1>4. engine[a] # NoEngine
  BY <1>2 DEF NoEngine
<1>5. /\ engine' \in [Attempt -> Processes]
      /\ \A b \in Attempt : /\ engine'[b].st = engine[b].st /\ (engine'[b].dirty => engine[b].dirty)
                            /\ (engine[b] = NoEngine => engine'[b] = NoEngine)
  BY <1>1, <1>2, <1>3, <1>4
<1>6. Soft
  BY <1>1, <1>2, <1>5, SoftFacts DEF Soft
<1> QED BY <1>6, SoftStep

-----------------------------------------------------------------------------
(* Steps of an engine, and the kill of a disconnect.                         *)

\* The live engine a works, reports or ends; a process with a parent becomes a
\* zombie of it.
EngineMoves(a) ==
  /\ a \in Attempt /\ engine[a].st \in {"gated", "running"}
  /\ UNCHANGED <<service, ctl, view, sup, used, run, host, helper, authority>>
  /\ stop' \in [Profile -> Stops]
  /\ \A q \in Profile : stop'[q].pc \in {"term", "kill"} =>
       stop'[q].process = stop[q].process /\ stop[q].pc \in {"term", "kill"}
  /\ engine' \in [Attempt -> Processes] /\ \A b \in Attempt : b # a => engine'[b] = engine[b]
  /\ pipe' \in [Attempt -> Seq(Events)] /\ \A b \in Attempt : b # a => pipe'[b] = pipe[b]
  /\ engine'[a].st \in {engine[a].st, "zombie", "gone"}
  /\ engine'[a].st = "zombie" => Parented(a)
  /\ engine'[a].st = "gone" => ~Parented(a)
  /\ engine'[a].dirty => engine[a].dirty \/ engine[a].st = "running"
  /\ engine'[a].st \in {"gated", "running"} \/ engine'[a].dirty => NoCleaned(pipe'[a])
  /\ Announced(pipe[a]) => Announced(pipe'[a])
  /\ Parented(a) /\ engine'[a].dirty => engine[a].dirty \/ Announced(pipe'[a])
  /\ ~Parented(a) => pipe' = pipe

LEMMA ParentedIs ==
  ASSUME ManagerInv
  PROVE  /\ \A a \in Fresh : Parented(a) <=> Awaited(a)
         /\ \A h \in Helpers : Parented(h) <=> helper[h].pc = "wait"
<1>1. \A a \in Fresh : Parented(a) <=> Awaited(a)
  BY AttemptAssumption DEF Parented, Awaited, Waiting
<1>2. \A t \in Fresh : sup[t].pc \in Waiting => sup[t].inst \in Fresh
  BY DEF ManagerInv, Tasks, Tasked, Waiting, MachineTypes
<1>3. \A h \in Helpers : Parented(h) <=> helper[h].pc = "wait"
  BY <1>2, AttemptAssumption DEF Parented, Waiting
<1> QED BY <1>1, <1>3

LEMMA EngineStep ==
  ASSUME ManagerInv, NEW a, EngineMoves(a)
  PROVE  ManagerInv'
<1>1. /\ service' = service /\ ctl' = ctl /\ view' = view /\ sup' = sup /\ used' = used /\ run' = run
      /\ boot' = boot /\ gated' = gated /\ helper' = helper /\ owner' = owner /\ holder' = holder
  BY DEF EngineMoves, host, authority
<1>2. /\ a \in Attempt /\ engine[a].st \in {"gated", "running"} /\ engine[a] # NoEngine
      /\ \A b \in Attempt : b # a => engine'[b] = engine[b] /\ pipe'[b] = pipe[b]
      /\ engine'[a].st \in {engine[a].st, "zombie", "gone"}
  BY DEF EngineMoves, NoEngine
<1>3. MemoryTypes' /\ MachineTypes'
  BY <1>1 DEF ManagerInv, MemoryTypes, MachineTypes, EngineMoves
<1>4. Tasks' /\ Known' /\ Published' /\ Reservations'
  BY <1>1 DEF ManagerInv, Tasks, Tasked, Known, Published, Reservations
<1>5. \A t \in Fresh : Tasked(t) /\ sup[t].inst = a => sup[t].pc \in Waiting /\ a \in Fresh
  <2> SUFFICES ASSUME NEW t \in Fresh, Tasked(t), sup[t].inst = a
               PROVE  sup[t].pc \in Waiting /\ a \in Fresh
    OBVIOUS
  <2>1. PICK p : At(t, p, a)
    BY DEF At
  <2>2. StageOf(t, a) /\ sup[t] \in Supervisors /\ a \in Fresh
    BY <2>1, TaskFacts
  <2>3. sup[t].pc \in Places \ {"none"}
    BY <2>2 DEF Supervisors, Tasked
  <2>4. sup[t].pc \notin Unlaunched /\ sup[t].pc # "drain" /\ sup[t].pc \notin Settled
    BY <1>2, <2>2 DEF StageOf
  <2> QED BY <2>2, <2>3, <2>4 DEF Places, Recorded, Owning, Waiting, Unlaunched, Settled
<1>6. Stages'
  <2> SUFFICES ASSUME NEW t \in Fresh, Tasked(t)
               PROVE  StageOf(t, sup[t].inst)'
    BY <1>1 DEF Stages, Tasked
  <2>1. PICK b, p : b = sup[t].inst /\ p = sup[t].profile
    OBVIOUS
  <2>2. At(t, p, b)
    BY <2>1 DEF At
  <2>3. StageOf(t, b) /\ b \in Attempt
    BY <2>2, TaskFacts
  <2>4. CASE b # a
    <3>1. StageOf(t, b)'
      BY <1>1, <1>2, <2>3, <2>4 DEF StageOf
    <3> QED BY <1>1, <2>1, <3>1
  <2>5. CASE b = a
    <3>1. sup[t].pc \in Waiting /\ a \in Fresh
      BY <1>5, <2>1, <2>5
    <3>2. Parented(a)
      BY <2>1, <2>5, <3>1 DEF Parented, Waiting
    <3>3. engine'[a].st \in {engine[a].st, "zombie"}
      BY <1>2, <3>2 DEF EngineMoves
    <3>4. StageOf(t, a)'
      BY <1>1, <1>2, <2>3, <2>5, <3>1, <3>3
         DEF StageOf, Unlaunched, Recorded, Owning, Waiting, Settled
    <3> QED BY <1>1, <2>1, <2>5, <3>4
  <2> QED BY <2>4, <2>5
<1>7. HelperStages'
  <2> SUFFICES ASSUME NEW h \in Helpers
               PROVE  (/\ helper[h].pc # "idle" => holder = h /\ owner.attempt = h
                       /\ helper[h].pc = "spawn" => engine[h] = NoEngine /\ pipe[h] = <<>>
                       /\ helper[h].pc = "wait" => engine[h].st \in {"running", "zombie"}
                       /\ helper[h].pc = "drain" => engine[h].st = "gone"
                       /\ helper[h].pc = "idle" => pipe[h] = <<>>)'
    BY DEF HelperStages
  <2>1. h \in Attempt
    BY AttemptAssumption
  <2>2. CASE h # a
    BY <1>1, <1>2, <2>1, <2>2 DEF ManagerInv, HelperStages
  <2>3. CASE h = a
    <3>1. helper[h].pc \in {"wait", "idle"} /\ (helper[h].pc = "wait" => engine[h].st = "running")
      BY <1>2, <2>3 DEF ManagerInv, HelperStages, MachineTypes, HelperProcesses
    <3>2. helper[h].pc = "wait" => engine'[h].st \in {"running", "zombie"}
      BY <1>2, <2>3, <3>1, ParentedIs DEF EngineMoves
    <3>3. helper[h].pc = "idle" => pipe'[h] = pipe[h]
      BY <2>3, ParentedIs DEF EngineMoves
    <3> QED BY <1>1, <3>1, <3>2, <3>3 DEF ManagerInv, HelperStages
  <2> QED BY <2>2, <2>3
<1>8. Undrawn'
  BY <1>1, <1>2, AttemptAssumption DEF ManagerInv, Undrawn
<1>9. Waited'
  <2>1. \A b \in Attempt : Awaited(b)' <=> Awaited(b)
    BY <1>1 DEF Awaited
  <2>2. a \in Fresh \/ a \in Helpers
    BY <1>2, AttemptAssumption
  <2>3. \A b \in Fresh : engine'[b].st = "zombie" => Awaited(b)
    BY <1>2, ParentedIs, AttemptAssumption DEF ManagerInv, Waited, EngineMoves
  <2>4. \A h \in Helpers : engine'[h].st = "zombie" => helper'[h].pc = "wait"
    BY <1>1, <1>2, ParentedIs, AttemptAssumption DEF ManagerInv, Waited, EngineMoves
  <2>5. \A q \in Profile : stop'[q].pc \in {"term", "kill"} =>
          /\ stop'[q].process \in Fresh
          /\ engine'[stop'[q].process].st = "gone" \/ Awaited(stop'[q].process)
    BY <1>2, AttemptAssumption DEF ManagerInv, Waited, EngineMoves
  <2> QED BY <2>1, <2>3, <2>4, <2>5, AttemptAssumption DEF Waited
<1>10. Held'
  <2>1. \A b \in Attempt : b # a => (Busy(b)' <=> Busy(b))
    BY <1>2 DEF Busy
  <2>2. ASSUME Busy(a)'
        PROVE  owner.attempt = a
    <3>1. CASE engine'[a].st = "zombie"
      <4>1. Parented(a)
        BY <3>1 DEF EngineMoves
      <4>2. CASE a \in Helpers
        BY <4>1, <4>2, ParentedIs DEF ManagerInv, HelperStages
      <4>3. CASE a \in Fresh
        <5>1. PICK t \in Fresh : sup[t].inst = a /\ sup[t].pc \in Waiting
          BY <4>1, <4>3, ParentedIs DEF Awaited
        <5>2. PICK p : At(t, p, a)
          BY <5>1 DEF At, Tasked, Waiting
        <5>3. StageOf(t, a)
          BY <5>2, TaskFacts
        <5> QED BY <5>1, <5>3 DEF StageOf, Owning
      <4> QED BY <1>2, <4>2, <4>3, AttemptAssumption
    <3>2. CASE engine'[a].st # "zombie"
      <4>1. Busy(a)
        BY <1>2, <2>2, <3>2 DEF Busy, EngineMoves
      <4> QED BY <1>2, <4>1 DEF ManagerInv, Held
    <3> QED BY <3>1, <3>2
  <2>3. \A b \in Attempt : Busy(b)' => owner'.attempt = b
    BY <1>1, <2>1, <2>2 DEF ManagerInv, Held
  <2>4. \A b \in Fresh : engine'[b].st = "running" => engine[b].st = "running"
    BY <1>2, AttemptAssumption
  <2> QED BY <1>1, <2>3, <2>4 DEF ManagerInv, Held
<1>11. Ended'
  <2>1. \A q \in Profile : view[q].ended => view[q].id \in Attempt /\ view[q].id # a
    BY <1>2, AttemptAssumption DEF ManagerInv, Known, MachineTypes, Ended, Alive
  <2> QED BY <1>1, <1>2, <2>1 DEF ManagerInv, Ended, Busy, Alive
<1>12. Told'
  <2>1. \A b \in Attempt : (Alive(b) \/ engine[b].dirty)' => NoCleaned(pipe'[b])
    <3>1. \A b \in Attempt : b # a => ((Alive(b) \/ engine[b].dirty)' => NoCleaned(pipe'[b]))
      BY <1>2 DEF ManagerInv, Told, Alive
    <3>2. (Alive(a) \/ engine[a].dirty)' => NoCleaned(pipe'[a])
      BY DEF EngineMoves, Alive
    <3> QED BY <3>1, <3>2
  <2>2. ASSUME NEW t \in Fresh, sup[t].pc \in Waiting \cup {"drain"}, engine'[sup[t].inst].dirty
        PROVE  \/ Announced(pipe'[sup[t].inst])
               \/ sup[t].pc \in {"wait", "drain"} /\ Remembered(ctl[sup[t].profile].life)
    <3>1. Tasked(t) /\ sup[t].inst \in Attempt
      BY <2>2, AttemptAssumption DEF Tasked, Waiting, ManagerInv, Tasks, MachineTypes
    <3>2. CASE sup[t].inst # a
      BY <1>2, <2>2, <3>1, <3>2 DEF ManagerInv, Told
    <3>3. CASE sup[t].inst = a
      <4>1. Parented(a)
        BY <1>5, <3>1, <3>3 DEF Parented, Waiting
      <4> QED BY <2>2, <3>3, <4>1 DEF ManagerInv, Told, EngineMoves
    <3> QED BY <3>2, <3>3
  <2>3. ASSUME NEW h \in Helpers, helper[h].pc \in {"wait", "drain"}, engine'[h].dirty
        PROVE  Announced(pipe'[h]) \/ Remembered(helper[h].life)
    <3>1. h \in Attempt
      BY AttemptAssumption
    <3>2. CASE h # a
      BY <1>2, <2>3, <3>1, <3>2 DEF ManagerInv, Told
    <3>3. CASE h = a
      <4>1. helper[h].pc = "wait"
        BY <1>2, <2>3, <3>3 DEF ManagerInv, HelperStages
      <4>2. Parented(a)
        BY <3>3, <4>1, ParentedIs
      <4> QED BY <2>3, <3>3, <4>2 DEF ManagerInv, Told, EngineMoves
    <3> QED BY <3>2, <3>3
  <2> QED BY <1>1, <2>1, <2>2, <2>3 DEF Told
<1> QED BY <1>3, <1>4, <1>6, <1>7, <1>8, <1>9, <1>10, <1>11, <1>12 DEF ManagerInv

LEMMA AliveFacts ==
  ASSUME ManagerInv, NEW a \in Attempt, engine[a].st \in {"gated", "running"}
  PROVE  /\ engine \in [Attempt -> Processes] /\ engine[a] \in Processes /\ engine[a].dirty \in BOOLEAN
         /\ pipe \in [Attempt -> Seq(Events)] /\ pipe[a] \in Seq(Events)
         /\ stop \in [Profile -> Stops] /\ NoCleaned(pipe[a])
BY DEF ManagerInv, MemoryTypes, MachineTypes, Told, Alive, Processes

\* The engine ends, and says so in its pipe if somebody reads it.
LEMMA ExitedFacts ==
  ASSUME ManagerInv, NEW a \in Attempt, NEW dirty \in BOOLEAN, NEW code \in {"fatal", "crashed", "retryable"},
         Exited(a, dirty, code)
  PROVE  /\ engine' \in [Attempt -> Processes] /\ \A b \in Attempt : b # a => engine'[b] = engine[b]
         /\ engine'[a].dirty = dirty /\ engine'[a].st \in {"zombie", "gone"}
         /\ engine'[a].st = "zombie" <=> Parented(a)
<1> DEFINE e == IF Parented(a) THEN [engine[a] EXCEPT !.st = "zombie", !.dirty = dirty, !.code = code]
                ELSE Dead(dirty)
<1>1. engine \in [Attempt -> Processes] /\ engine[a] \in Processes
  BY DEF ManagerInv, MachineTypes
<1>2. engine' = [engine EXCEPT ![a] = e]
  BY DEF Exited
<1>3. e \in Processes /\ e.dirty = dirty /\ e.st = IF Parented(a) THEN "zombie" ELSE "gone"
  <2>1. CASE Parented(a)
    BY <1>1, <2>1 DEF Processes
  <2>2. CASE ~Parented(a)
    BY <2>2, DeadTyped
  <2> QED BY <2>1, <2>2
<1> HIDE DEF e
<1>4. engine'[a] = e /\ engine' \in [Attempt -> Processes] /\ \A b \in Attempt : b # a => engine'[b] = engine[b]
  BY <1>1, <1>2, <1>3
<1> QED BY <1>3, <1>4

LEMMA EmitFacts ==
  ASSUME ManagerInv, NEW a \in Attempt, NEW e \in Events, Emit(a, e)
  PROVE  /\ pipe' \in [Attempt -> Seq(Events)] /\ \A b \in Attempt : b # a => pipe'[b] = pipe[b]
         /\ NoCleaned(pipe[a]) /\ e # "cleaned" => NoCleaned(pipe'[a])
         /\ Announced(pipe[a]) => Announced(pipe'[a])
         /\ Parented(a) /\ e # "cleaned" => Announced(pipe'[a])
         /\ ~Parented(a) => pipe' = pipe
<1>1. pipe \in [Attempt -> Seq(Events)] /\ pipe[a] \in Seq(Events)
  BY DEF ManagerInv, MachineTypes
<1>2. CASE Parented(a)
  <2>1. pipe' = [pipe EXCEPT ![a] = Append(pipe[a], e)]
    BY <1>2 DEF Emit
  <2>2. Append(pipe[a], e) \in Seq(Events)
    BY <1>1, Appended
  <2>3. /\ pipe'[a] = Append(pipe[a], e) /\ pipe' \in [Attempt -> Seq(Events)]
        /\ \A b \in Attempt : b # a => pipe'[b] = pipe[b]
    BY <1>1, <2>1, <2>2
  <2> QED BY <1>1, <1>2, <2>3, Appended
<1>3. CASE ~Parented(a)
  BY <1>1, <1>3 DEF Emit
<1> QED BY <1>2, <1>3

LEMMA EngineRefusedStep ==
  ASSUME ManagerInv, NEW a \in Attempt, EngineRefused(a)
  PROVE  ManagerInv'
<1>1. /\ engine[a].st = "gated" /\ ~Parented(a) /\ Exited(a, FALSE, "fatal") /\ pipe' = pipe /\ stop' = stop
      /\ UNCHANGED <<service, ctl, view, sup, used, run, host, helper, authority>>
  BY DEF EngineRefused, memory
<1>2. EngineMoves(a)
  BY <1>1, AliveFacts, ExitedFacts DEF EngineMoves
<1> QED BY <1>2, EngineStep

\* The engine announces the change before it makes it.
LEMMA EngineConfiguresStep ==
  ASSUME ManagerInv, NEW a \in Attempt, EngineConfigures(a)
  PROVE  ManagerInv'
<1>1. /\ engine[a].st = "running" /\ engine' = [engine EXCEPT ![a].dirty = TRUE]
      /\ Emit(a, "configuring") /\ stop' = stop
      /\ UNCHANGED <<service, ctl, view, sup, used, run, host, helper, authority>>
  BY DEF EngineConfigures, memory
<1>2. engine \in [Attempt -> Processes] /\ engine[a] \in Processes /\ "configuring" \in Events
  BY <1>1, AliveFacts DEF Events
<1>3. /\ [engine[a] EXCEPT !.dirty = TRUE] \in Processes
      /\ [engine[a] EXCEPT !.dirty = TRUE].st = engine[a].st
  BY <1>2 DEF Processes
<1>4. /\ engine' \in [Attempt -> Processes] /\ engine'[a].st = engine[a].st
      /\ \A b \in Attempt : b # a => engine'[b] = engine[b]
  BY <1>1, <1>2, <1>3
<1>5. EngineMoves(a)
  BY <1>1, <1>2, <1>4, AliveFacts, EmitFacts DEF EngineMoves
<1> QED BY <1>5, EngineStep

LEMMA EngineExitsStep ==
  ASSUME ManagerInv, NEW a \in Attempt, NEW cleaned \in BOOLEAN, NEW code \in {"retryable", "fatal"},
         EngineExits(a, cleaned, code)
  PROVE  ManagerInv'
<1>1. /\ engine[a].st = "running" /\ Exited(a, ~cleaned, code) /\ (~cleaned => engine[a].dirty)
      /\ stop' = stop
      /\ UNCHANGED <<service, ctl, view, sup, used, run, host, helper, authority>>
  BY DEF EngineExits, memory
<1>2. PICK e \in Events : Emit(a, e) /\ (e = "cleaned" <=> cleaned)
  BY DEF EngineExits, Events
<1>3. /\ engine' \in [Attempt -> Processes] /\ \A b \in Attempt : b # a => engine'[b] = engine[b]
      /\ engine'[a].dirty = ~cleaned /\ engine'[a].st \in {"zombie", "gone"}
      /\ engine'[a].st = "zombie" <=> Parented(a)
  BY <1>1, ExitedFacts
<1>4. EngineMoves(a)
  BY <1>1, <1>2, <1>3, AliveFacts, EmitFacts DEF EngineMoves
<1> QED BY <1>4, EngineStep

LEMMA EngineDiesStep ==
  ASSUME ManagerInv, NEW a \in Attempt, EngineDies(a)
  PROVE  ManagerInv'
<1>1. /\ engine[a].st = "running" /\ Exited(a, engine[a].dirty, "crashed") /\ pipe' = pipe /\ stop' = stop
      /\ UNCHANGED <<service, ctl, view, sup, used, run, host, helper, authority>>
  BY DEF EngineDies, memory
<1>2. PICK d : d = engine[a].dirty
  OBVIOUS
<1>3. d \in BOOLEAN /\ Exited(a, d, "crashed")
  BY <1>1, <1>2, AliveFacts
<1>4. /\ engine' \in [Attempt -> Processes] /\ \A b \in Attempt : b # a => engine'[b] = engine[b]
      /\ engine'[a].dirty = engine[a].dirty /\ engine'[a].st \in {"zombie", "gone"}
      /\ engine'[a].st = "zombie" <=> Parented(a)
  BY <1>2, <1>3, ExitedFacts
<1>5. EngineMoves(a)
  BY <1>1, <1>4, AliveFacts DEF EngineMoves
<1> QED BY <1>5, EngineStep

LEMMA EngineMisreportsStep ==
  ASSUME ManagerInv, NEW a \in Attempt, EngineMisreports(a)
  PROVE  ManagerInv'
<1>1. /\ engine[a].st = "running" /\ Emit(a, "malformed") /\ engine' = engine /\ stop' = stop
      /\ UNCHANGED <<service, ctl, view, sup, used, run, host, helper, authority>>
  BY DEF EngineMisreports, memory
<1>2. "malformed" \in Events
  BY DEF Events
<1>3. EngineMoves(a)
  BY <1>1, <1>2, AliveFacts, EmitFacts DEF EngineMoves
<1> QED BY <1>3, EngineStep

\* The process a disconnect kills has its supervisor waiting for it.
LEMMA StopKillStep ==
  ASSUME ManagerInv, NEW p \in Profile, StopKill(p)
  PROVE  ManagerInv'
<1>1. PICK a : a = stop[p].process
  OBVIOUS
<1>2. /\ stop[p].pc = "kill" /\ stop' = [stop EXCEPT ![p].pc = "wait"]
      /\ UNCHANGED <<service, ctl, view, sup, used, run, pipe, host, helper, authority>>
  BY DEF StopKill
<1>3. /\ a \in Fresh /\ a \in Attempt /\ (engine[a].st = "gone" \/ Awaited(a))
      /\ stop \in [Profile -> Stops] /\ engine \in [Attempt -> Processes] /\ stop[p] \in Stops
  BY <1>1, <1>2, SoftFacts, AttemptAssumption
<1>4. /\ stop' \in [Profile -> Stops]
      /\ \A q \in Profile : stop'[q].pc \in {"term", "kill"} =>
           stop'[q].process = stop[q].process /\ stop[q].pc \in {"term", "kill"}
  <2>1. [stop[p] EXCEPT !.pc = "wait"] \in Stops /\ [stop[p] EXCEPT !.pc = "wait"].pc = "wait"
    BY <1>3 DEF Stops
  <2> QED BY <1>2, <1>3, <2>1
<1>5. CASE Alive(a)
  <2> DEFINE e == [engine[a] EXCEPT !.st = "zombie", !.code = "killed"]
  <2>1. engine[a].st \in {"gated", "running"} /\ engine[a] \in Processes
    BY <1>3, <1>5 DEF Alive
  <2>2. engine' = [engine EXCEPT ![a] = e]
    BY <1>1, <1>3, <1>5, <2>1 DEF StopKill, Processes
  <2>3. e \in Processes /\ e.st = "zombie" /\ e.dirty = engine[a].dirty
    BY <2>1 DEF Processes
  <2> HIDE DEF e
  <2>4. /\ engine' \in [Attempt -> Processes] /\ engine'[a].st = "zombie"
        /\ engine'[a].dirty = engine[a].dirty /\ \A b \in Attempt : b # a => engine'[b] = engine[b]
    BY <1>3, <2>2, <2>3
  <2>5. Parented(a)
    BY <1>3, <2>1, ParentedIs
  <2>6. EngineMoves(a)
    BY <1>2, <1>3, <1>4, <2>1, <2>4, <2>5, AliveFacts DEF EngineMoves
  <2> QED BY <2>6, EngineStep
<1>6. CASE ~Alive(a)
  <2>1. engine' = engine
    BY <1>1, <1>6 DEF StopKill
  <2>2. Soft
    BY <1>2, <1>4, <2>1, SoftFacts DEF Soft
  <2> QED BY <2>2, SoftStep
<1> QED BY <1>5, <1>6

-----------------------------------------------------------------------------
(* Eviction, and the ends and starts of the manager and the machine.         *)

LEMMA EvictStep ==
  ASSUME ManagerInv, NEW p \in Profile, Evict(p)
  PROVE  ManagerInv'
<1>1. /\ ctl' = [ctl EXCEPT ![p] = NewControl] /\ view' = [view EXCEPT ![p] = NoView]
      /\ ~ctl[p].active /\ ~ctl[p].life.failed
      /\ UNCHANGED <<service, sup, stop, used, run, engines, host, helper, authority>>
  BY DEF Evict, Reserved
<1>2. /\ service' = service /\ sup' = sup /\ stop' = stop /\ used' = used /\ run' = run /\ engine' = engine
      /\ pipe' = pipe /\ boot' = boot /\ gated' = gated /\ helper' = helper /\ owner' = owner
      /\ holder' = holder
  BY <1>1 DEF engines, host, authority
<1>3. /\ NewControl \in Controls /\ NewControl.process = Nobody /\ ~NewControl.life.failed
      /\ NoView \in Views /\ NoView.id = Nobody /\ ~NoView.ended
  BY LifeTyped DEF NewControl, Controls, NoView, Views
<1>4. /\ ctl' \in [Profile -> Controls] /\ view' \in [Profile -> Views]
      /\ ctl'[p] = NewControl /\ view'[p] = NoView
      /\ \A q \in Profile : q # p => ctl'[q] = ctl[q] /\ view'[q] = view[q]
  BY <1>1, <1>3 DEF ManagerInv, MemoryTypes
<1>5. \A t \in Fresh : Tasked(t) => sup[t].profile # p /\ sup[t].profile \in Profile /\ sup[t].inst \in Fresh
  BY <1>1 DEF ManagerInv, Tasks, MachineTypes
<1>6. MemoryTypes' /\ MachineTypes'
  BY <1>2, <1>4 DEF ManagerInv, MemoryTypes, MachineTypes
<1>7. Tasks'
  <2>1. \A t \in Fresh : Tasked(t)' <=> Tasked(t)
    BY <1>2 DEF Tasked
  <2>2. \A t \in Fresh : Tasked(t) => sup[t].inst # Nobody
    BY <1>5, AttemptAssumption, NobodyAssumption
  <2> QED BY <1>2, <1>3, <1>4, <1>5, <2>1, <2>2 DEF ManagerInv, Tasks
<1>8. Known'
  BY <1>2, <1>3, <1>4 DEF ManagerInv, Known
<1>9. Published'
  <2>1. \A t \in Fresh : sup[t].pc \in Trying => Tasked(t)
    BY DEF Trying, Tasked
  <2> QED BY <1>2, <1>3, <1>4, <1>5, <2>1 DEF ManagerInv, Published
<1>10. Stages'
  <2> SUFFICES ASSUME NEW t \in Fresh, Tasked(t)
               PROVE  StageOf(t, sup[t].inst)'
    BY <1>2 DEF Stages, Tasked
  <2>1. StageOf(t, sup[t].inst)
    BY DEF ManagerInv, Stages
  <2> QED BY <1>2, <1>4, <1>5, <2>1 DEF StageOf
<1>11. HelperStages' /\ Undrawn'
  BY <1>2 DEF ManagerInv, HelperStages, Undrawn
<1>12. Waited'
  <2>1. \A a \in Fresh : Awaited(a)' <=> Awaited(a)
    BY <1>2 DEF Awaited
  <2> QED BY <1>2, <2>1 DEF ManagerInv, Waited
<1>13. Held'
  BY <1>2 DEF ManagerInv, Held, Busy
<1>14. Reservations'
  BY <1>1, <1>2, <1>4 DEF ManagerInv, Reservations
<1>15. Ended'
  BY <1>2, <1>3, <1>4 DEF ManagerInv, Ended, Busy, Alive
<1>16. Told'
  <2>1. \A t \in Fresh : sup[t].pc \in Waiting \cup {"drain"} => Tasked(t)
    BY DEF Waiting, Tasked
  <2> QED BY <1>2, <1>4, <1>5, <2>1 DEF ManagerInv, Told, Alive
<1> QED BY <1>6, <1>7, <1>8, <1>9, <1>10, <1>11, <1>12, <1>13, <1>14, <1>15, <1>16 DEF ManagerInv

\* The memory of a manager that is down.
Forgotten ==
  /\ service = "down" /\ ctl = [p \in Profile |-> NewControl] /\ view = [p \in Profile |-> NoView]
  /\ sup = [t \in Fresh |-> NoSupervisor] /\ stop = [p \in Profile |-> Idle]

LEMMA ForgottenFacts ==
  ASSUME Forgotten
  PROVE  /\ MemoryTypes /\ Tasks /\ Known /\ Published /\ Stages /\ Ended
         /\ \A t \in Fresh : sup[t].pc = "none"
         /\ \A p \in Profile : stop[p].pc = "idle"
<1>1. /\ NewControl \in Controls /\ NewControl.process = Nobody /\ ~NewControl.life.failed
      /\ NoView \in Views /\ NoView.id = Nobody /\ ~NoView.ended
  BY LifeTyped DEF NewControl, Controls, NoView, Views
<1>2. NoSupervisor \in Supervisors /\ NoSupervisor.pc = "none" /\ Idle \in Stops /\ Idle.pc = "idle"
  BY DEF NoSupervisor, Supervisors, Places, Idle, Stops
<1>3. MemoryTypes
  BY <1>1, <1>2 DEF Forgotten, MemoryTypes
<1>4. /\ \A t \in Fresh : sup[t] = NoSupervisor /\ sup[t].pc = "none"
      /\ \A p \in Profile : stop[p].pc = "idle" /\ ctl[p] = NewControl /\ view[p] = NoView
  BY <1>2 DEF Forgotten
<1>5. Tasks
  BY <1>4 DEF Tasks, Tasked
<1>6. Known /\ Ended
  BY <1>1, <1>4 DEF Known, Ended
<1>7. Published
  BY <1>1, <1>4 DEF Published, Trying
<1>8. Stages
  BY <1>4 DEF Stages, Tasked
<1> QED BY <1>3, <1>4, <1>5, <1>6, <1>7, <1>8

\* The process is gone: the engines live on, and init has reaped the dead.
LEMMA GoneStep ==
  ASSUME ManagerInv, Gone, engine' \in [Attempt -> Processes],
         \A a \in Fresh : /\ engine'[a].dirty = engine[a].dirty /\ engine'[a].st # "zombie"
                          /\ engine[a].st # "zombie" => engine'[a].st = engine[a].st
                          /\ engine[a].st = "zombie" => engine'[a].st = "gone"
                          /\ engine[a] = NoEngine => engine'[a] = NoEngine,
         \A h \in Helpers : engine'[h] = engine[h]
  PROVE  ManagerInv'
<1>1. /\ used' = used /\ run' = run /\ boot' = boot /\ gated' = gated /\ helper' = helper /\ owner' = owner
      /\ service' = "down"
  BY DEF Gone, host
<1>2. /\ \A a \in Fresh : pipe'[a] = <<>> /\ a \in Attempt /\ a # Nobody
      /\ \A h \in Helpers : pipe'[h] = pipe[h] /\ h \in Attempt /\ h \notin Fresh
      /\ pipe' \in [Attempt -> Seq(Events)]
  <2>1. <<>> \in Seq(Events) /\ pipe \in [Attempt -> Seq(Events)]
    BY DEF ManagerInv, MachineTypes
  <2> QED BY <2>1, AttemptAssumption, NobodyAssumption DEF Gone
<1>3. holder' \in Attempt \cup {Nobody} /\ \A h \in Helpers : holder = h => holder' = h
  BY <1>2 DEF Gone, ManagerInv, MachineTypes
<1>4. Forgotten'
  BY DEF Forgotten, Gone
<1>5. /\ MemoryTypes' /\ Tasks' /\ Known' /\ Published' /\ Stages' /\ Ended'
      /\ (\A t \in Fresh : sup[t].pc = "none")' /\ (\A p \in Profile : stop[p].pc = "idle")'
  BY <1>4, ForgottenFacts, PTL
<1>6. MachineTypes'
  BY <1>1, <1>2, <1>3 DEF ManagerInv, MachineTypes
<1>7. HelperStages'
  BY <1>1, <1>2, <1>3 DEF ManagerInv, HelperStages
<1>8. Undrawn'
  BY <1>1, <1>2 DEF ManagerInv, Undrawn
<1>9. Waited'
  BY <1>1, <1>5 DEF ManagerInv, Waited
<1>10. Held'
  <2>1. \A a \in Attempt : Busy(a)' => Busy(a)
    BY <1>2, AttemptAssumption DEF Busy
  <2> QED BY <1>1, <2>1 DEF ManagerInv, Held
<1>11. Reservations'
  BY <1>1 DEF ManagerInv, Reservations
<1>12. Told'
  BY <1>1, <1>2, <1>5, EmptyPipe, AttemptAssumption DEF ManagerInv, Told, Alive, Waiting
<1> QED BY <1>5, <1>6, <1>7, <1>8, <1>9, <1>10, <1>11, <1>12 DEF ManagerInv

LEMMA ExitStep ==
  ASSUME ManagerInv, Exit
  PROVE  ManagerInv'
<1>1. Gone /\ engine' = engine /\ \A t \in Fresh : sup[t].pc = "none"
  BY DEF Exit, NoSupervisor
<1>2. \A a \in Fresh : engine[a].st # "zombie"
  BY <1>1 DEF ManagerInv, Waited, Awaited, Waiting
<1>3. engine \in [Attempt -> Processes]
  BY DEF ManagerInv, MachineTypes
<1> QED BY <1>1, <1>2, <1>3, GoneStep

LEMMA CrashStep ==
  ASSUME ManagerInv, Crash
  PROVE  ManagerInv'
<1>1. /\ Gone
      /\ engine' = [a \in Attempt |-> IF a \in Fresh /\ engine[a].st \in {"zombie", "gone"}
                                      THEN Dead(engine[a].dirty) ELSE engine[a]]
  BY DEF Crash
<1>2. engine \in [Attempt -> Processes] /\ \A a \in Attempt : engine[a].dirty \in BOOLEAN
  <2>1. engine \in [Attempt -> Processes]
    BY DEF ManagerInv, MachineTypes
  <2> QED BY <2>1 DEF Processes
<1>3. \A a \in Attempt : /\ Dead(engine[a].dirty) \in Processes /\ Dead(engine[a].dirty).st = "gone"
                         /\ Dead(engine[a].dirty).dirty = engine[a].dirty
  BY <1>2, DeadTyped
<1>4. engine' \in [Attempt -> Processes]
  BY <1>1, <1>2, <1>3
<1>5. \A a \in Fresh : /\ engine'[a].dirty = engine[a].dirty /\ engine'[a].st # "zombie"
                       /\ engine[a].st # "zombie" => engine'[a].st = engine[a].st
                       /\ engine[a].st = "zombie" => engine'[a].st = "gone"
                       /\ engine[a] = NoEngine => engine'[a] = NoEngine
  <2> SUFFICES ASSUME NEW a \in Fresh
               PROVE  /\ engine'[a].dirty = engine[a].dirty /\ engine'[a].st # "zombie"
                      /\ engine[a].st # "zombie" => engine'[a].st = engine[a].st
                      /\ engine[a].st = "zombie" => engine'[a].st = "gone"
                      /\ engine[a] = NoEngine => engine'[a] = NoEngine
    OBVIOUS
  <2>1. a \in Attempt
    BY AttemptAssumption
  <2>2. CASE engine[a].st \in {"zombie", "gone"}
    <3>1. engine'[a] = Dead(engine[a].dirty) /\ engine[a] # NoEngine
      BY <1>1, <2>1, <2>2 DEF NoEngine
    <3> QED BY <1>3, <2>1, <2>2, <3>1
  <2>3. CASE engine[a].st \notin {"zombie", "gone"}
    BY <1>1, <2>1, <2>3
  <2> QED BY <2>2, <2>3
<1>6. \A h \in Helpers : engine'[h] = engine[h]
  BY <1>1, AttemptAssumption
<1> QED BY <1>1, <1>4, <1>5, <1>6, GoneStep

LEMMA RebootStep ==
  ASSUME ManagerInv, Reboot
  PROVE  ManagerInv'
<1>1. Forgotten'
  BY DEF Forgotten, Reboot
<1>2. /\ MemoryTypes' /\ Tasks' /\ Known' /\ Published' /\ Stages' /\ Ended'
      /\ (\A t \in Fresh : sup[t].pc = "none")' /\ (\A p \in Profile : stop[p].pc = "idle")'
  BY <1>1, ForgottenFacts, PTL
<1>3. /\ used' = used /\ run' = run /\ owner' = owner /\ gated' = gated /\ holder' = Nobody
      /\ service' = "down" /\ boot' = boot + 1 /\ pipe' = [a \in Attempt |-> <<>>]
      /\ helper' = [h \in Helpers |-> NoHelper]
      /\ engine' = [a \in Attempt |-> IF engine[a].st = "none" THEN NoEngine ELSE Dead(FALSE)]
  BY DEF Reboot
<1>4. /\ NoEngine \in Processes /\ NoEngine.st = "none" /\ ~NoEngine.dirty
      /\ Dead(FALSE) \in Processes /\ Dead(FALSE).st = "gone" /\ ~Dead(FALSE).dirty
  BY DeadTyped DEF NoEngine, Processes
<1>5. /\ engine' \in [Attempt -> Processes]
      /\ \A a \in Attempt : /\ engine'[a].st \in {"none", "gone"} /\ ~engine'[a].dirty
                            /\ engine[a] = NoEngine => engine'[a] = NoEngine
  BY <1>3, <1>4
<1>6. NoHelper \in HelperProcesses /\ NoHelper.pc = "idle"
  BY LifeTyped DEF NoHelper, HelperProcesses
<1>7. <<>> \in Seq(Events) /\ boot + 1 \in Nat
  BY DEF ManagerInv, MachineTypes
<1>8. MachineTypes'
  BY <1>3, <1>5, <1>6, <1>7 DEF ManagerInv, MachineTypes
<1>9. HelperStages'
  BY <1>3, <1>6, AttemptAssumption DEF HelperStages
<1>10. Undrawn'
  BY <1>3, <1>5, AttemptAssumption DEF ManagerInv, Undrawn
<1>11. Waited'
  BY <1>2, <1>5, AttemptAssumption DEF Waited
<1>12. Held'
  BY <1>5, AttemptAssumption DEF Held, Busy
<1>13. Reservations'
  BY <1>3 DEF ManagerInv, Reservations
<1>14. Told'
  BY <1>2, <1>5, AttemptAssumption DEF Told, Alive, Waiting
<1> QED BY <1>2, <1>8, <1>9, <1>10, <1>11, <1>12, <1>13, <1>14 DEF ManagerInv

LEMMA NobodyRuns ==
  ASSUME ManagerInv, service = "down"
  PROVE  /\ \A t \in Fresh : sup[t].pc = "none"
         /\ \A p \in Profile : ctl[p].process = Nobody
         /\ \A a \in Fresh : engine[a].st # "zombie"
<1>1. \A t \in Fresh : sup[t].pc = "none"
  BY DEF ManagerInv, Tasks, Tasked
<1> QED BY <1>1 DEF ManagerInv, Published, Waited, Awaited, Waiting

\* Every record on disk puts its profile in recovery, the reservation's too.
LEMMA StartStep ==
  ASSUME ManagerInv, Start
  PROVE  ManagerInv'
<1> DEFINE Found(p) == \E a \in Fresh : run[a].profile = p
           Of(p) == CHOOSE a \in Fresh : run[a].profile = p
           c(p) == [NewControl EXCEPT !.gen = run[Of(p)].gen, !.active = TRUE,
                                      !.blocked = TRUE, !.life = NeedsRecovery]
           v(p) == [id |-> Of(p), status |-> "Failed", ended |-> FALSE]
<1>1. /\ service = "down" /\ service' = "up"
      /\ ctl' = [p \in Profile |-> IF Found(p) THEN c(p) ELSE NewControl]
      /\ view' = [p \in Profile |-> IF Found(p) THEN v(p) ELSE NoView]
      /\ UNCHANGED <<sup, stop, used, run, engines, host, helper, authority>>
  BY DEF Start
<1>2. /\ sup' = sup /\ stop' = stop /\ used' = used /\ run' = run /\ engine' = engine
      /\ pipe' = pipe /\ boot' = boot /\ gated' = gated /\ helper' = helper /\ owner' = owner
      /\ holder' = holder
  BY <1>1 DEF engines, host, authority
<1>3. \A t \in Fresh : sup[t].pc = "none" /\ sup'[t].pc = "none" /\ sup[t] = NoSupervisor
  BY <1>1, <1>2, NobodyRuns DEF ManagerInv, Tasks, Tasked
<1>4. /\ NewControl \in Controls /\ NewControl.process = Nobody /\ ~NewControl.life.failed
      /\ NoView \in Views /\ NoView.id = Nobody /\ ~NoView.ended
  BY LifeTyped DEF NewControl, Controls, NoView, Views
<1>5. \A p \in Profile : Found(p) => Of(p) \in Fresh /\ Of(p) \in used /\ run[Of(p)].gen \in Nat
  <2> SUFFICES ASSUME NEW p \in Profile, Found(p)
               PROVE  Of(p) \in Fresh /\ Of(p) \in used /\ run[Of(p)].gen \in Nat
    OBVIOUS
  <2>1. Of(p) \in Fresh /\ run[Of(p)].profile = p
    OBVIOUS
  <2>2. run[Of(p)].profile # Nobody
    BY <2>1, AttemptAssumption
  <2>3. run[Of(p)] # NoRecord
    BY <2>2 DEF NoRecord
  <2>4. run[Of(p)] \in Records
    BY <2>1 DEF ManagerInv, MachineTypes
  <2>5. Of(p) \in used
    BY <2>1, <2>3 DEF ManagerInv, Undrawn
  <2> QED BY <2>1, <2>4, <2>5 DEF Records
<1>6. \A p \in Profile : Found(p) => /\ c(p) \in Controls /\ c(p).process = Nobody /\ c(p).life.failed
                                     /\ c(p).blocked
  <2> SUFFICES ASSUME NEW p \in Profile, Found(p)
               PROVE  c(p) \in Controls /\ c(p).process = Nobody /\ c(p).life.failed /\ c(p).blocked
    OBVIOUS
  <2>1. run[Of(p)].gen \in Nat
    BY <1>5
  <2> HIDE DEF Of
  <2> QED BY <1>4, <2>1, LifeTyped DEF NewControl, Controls
<1>7. \A p \in Profile : Found(p) => v(p) \in Views /\ v(p).id \in used /\ ~v(p).ended
  <2> HIDE DEF Of, Found
  <2> QED BY <1>5 DEF Views
<1>8. \A p \in Profile : (\E a \in Fresh : run[a].profile = p) => Found(p)
  OBVIOUS
<1> HIDE DEF Found, c, v
<1>9. /\ ctl' \in [Profile -> Controls]
      /\ \A p \in Profile : /\ ctl'[p].process = Nobody /\ (Found(p) => ctl'[p].life.failed)
                            /\ (ctl'[p].life.failed => ctl'[p].blocked)
  BY <1>1, <1>4, <1>6
<1>10. /\ view' \in [Profile -> Views]
       /\ \A p \in Profile : view'[p].id \in used \cup {Nobody} /\ ~view'[p].ended
  BY <1>1, <1>4, <1>7
<1>11. MemoryTypes' /\ MachineTypes'
  BY <1>1, <1>2, <1>9, <1>10 DEF ManagerInv, MemoryTypes, MachineTypes
<1>12. Tasks' /\ Known' /\ Stages' /\ Ended'
  BY <1>2, <1>3, <1>10 DEF Tasks, Tasked, Known, Stages, Ended
<1>13. Published'
  BY <1>3, <1>9 DEF Published, Trying
<1>14. HelperStages' /\ Undrawn'
  BY <1>2 DEF ManagerInv, HelperStages, Undrawn
<1>15. Waited'
  <2>1. \A a \in Fresh : Awaited(a)' <=> Awaited(a)
    BY <1>2 DEF Awaited
  <2> QED BY <1>2, <2>1 DEF ManagerInv, Waited
<1>16. Held'
  BY <1>2 DEF ManagerInv, Held, Busy
<1>17. Reservations'
  <2>1. owner.attempt \in Fresh => run[owner.attempt].profile \in Profile
    BY DEF ManagerInv, Reservations
  <2>2. owner.attempt \in Fresh => Found(run[owner.attempt].profile)
    BY <1>8, <2>1
  <2> QED BY <1>2, <1>9, <2>1, <2>2 DEF ManagerInv, Reservations
<1>18. Told'
  BY <1>2, <1>3 DEF ManagerInv, Told, Alive, Waiting
<1> QED BY <1>11, <1>12, <1>13, <1>14, <1>15, <1>16, <1>17, <1>18 DEF ManagerInv

-----------------------------------------------------------------------------
(* Recovery by the operator.                                                 *)

\* The proof of quiescence is good: the attempt has no engine past its gate.
LEMMA AcknowledgeOwnerStep ==
  ASSUME ManagerInv, NEW a \in Fresh, NEW outcome, AcknowledgeOwner(a, outcome)
  PROVE  ManagerInv'
<1>1. /\ service = "down" /\ ~engine[a].dirty /\ holder = Nobody /\ owner.attempt = a /\ holder' = Nobody
      /\ owner' = owner \/ owner' = NoOwner
      /\ run[a].boot = boot => Quiescent(a)
      /\ UNCHANGED <<service, memory, used, run, engines, host, helper>>
  BY DEF AcknowledgeOwner, Acknowledgeable, Acknowledge
<1>2. /\ service' = service /\ ctl' = ctl /\ view' = view /\ sup' = sup /\ stop' = stop /\ used' = used
      /\ run' = run /\ engine' = engine /\ pipe' = pipe /\ boot' = boot /\ gated' = gated
      /\ helper' = helper
  BY <1>1 DEF memory, engines, host
<1>3. \A t \in Fresh : sup[t].pc = "none"
  BY <1>1, NobodyRuns
<1>4. ~Busy(a)
  <2>1. engine[a].st # "zombie"
    BY <1>1, NobodyRuns
  <2>2. engine[a].st # "running"
    BY <1>1 DEF ManagerInv, Held, Quiescent, Alive
  <2> QED BY <1>1, <2>1, <2>2 DEF Busy
<1>5. NoOwner \in Owner /\ NoOwner.attempt = Nobody
  BY DEF NoOwner, Owner
<1>6. MemoryTypes' /\ MachineTypes'
  BY <1>1, <1>2, <1>5 DEF ManagerInv, MemoryTypes, MachineTypes
<1>7. Tasks' /\ Known' /\ Published'
  BY <1>2 DEF ManagerInv, Tasks, Tasked, Known, Published
<1>8. Stages'
  BY <1>2, <1>3 DEF Stages, Tasked
<1>9. HelperStages'
  <2>1. \A h \in Helpers : helper[h].pc = "idle"
    BY <1>1, AttemptAssumption, NobodyAssumption DEF ManagerInv, HelperStages
  <2> QED BY <1>2, <2>1 DEF ManagerInv, HelperStages
<1>10. Undrawn'
  BY <1>1, <1>2, <1>5, AttemptAssumption, NobodyAssumption DEF ManagerInv, Undrawn
<1>11. Waited'
  <2>1. \A b \in Fresh : Awaited(b)' <=> Awaited(b)
    BY <1>2 DEF Awaited
  <2> QED BY <1>2, <2>1 DEF ManagerInv, Waited
<1>12. Held'
  <2>1. \A b \in Attempt : ~Busy(b) \/ owner' = owner
    BY <1>1, <1>4 DEF ManagerInv, Held
  <2>2. \A b \in Fresh : engine[b].st = "running" => Busy(b) /\ b \in Attempt
    BY AttemptAssumption DEF Busy
  <2>3. \A b \in Attempt : Busy(b)' <=> Busy(b)
    BY <1>2 DEF Busy
  <2> QED BY <1>2, <2>1, <2>2, <2>3 DEF ManagerInv, Held
<1>13. Reservations'
  BY <1>1, <1>2, <1>5, AttemptAssumption, NobodyAssumption DEF ManagerInv, Reservations
<1>14. Ended'
  <2>1. \A q \in Profile : view[q].ended => view[q].id # Nobody
    BY AttemptAssumption, NobodyAssumption DEF ManagerInv, Known, MachineTypes
  <2> QED BY <1>1, <1>2, <1>5, <2>1 DEF ManagerInv, Ended, Busy, Alive
<1>15. Told'
  BY <1>2, <1>3 DEF ManagerInv, Told, Alive, Waiting
<1> QED BY <1>6, <1>7, <1>8, <1>9, <1>10, <1>11, <1>12, <1>13, <1>14, <1>15 DEF ManagerInv

LEMMA AcknowledgeRecordStep ==
  ASSUME ManagerInv, NEW a \in Fresh, NEW outcome, AcknowledgeRecord(a, outcome)
  PROVE  ManagerInv'
<1>1. /\ service = "down" /\ owner.attempt # a /\ (run' = run \/ run' = [run EXCEPT ![a] = NoRecord])
      /\ UNCHANGED <<service, memory, used, engines, host, helper, authority>>
  BY DEF AcknowledgeRecord, Acknowledgeable
<1>2. /\ service' = service /\ ctl' = ctl /\ view' = view /\ sup' = sup /\ stop' = stop /\ used' = used
      /\ engine' = engine /\ pipe' = pipe /\ boot' = boot /\ gated' = gated
      /\ helper' = helper /\ owner' = owner /\ holder' = holder
  BY <1>1 DEF memory, engines, host, authority
<1>3. \A t \in Fresh : sup[t].pc = "none"
  BY <1>1, NobodyRuns
<1>4. /\ run' \in [Fresh -> Records] /\ (run'[a] = run[a] \/ run'[a] = NoRecord)
      /\ \A b \in Fresh : b # a => run'[b] = run[b]
  <2>1. NoRecord \in Records
    BY DEF NoRecord, Records
  <2> QED BY <1>1, <2>1 DEF ManagerInv, MachineTypes
<1>5. MemoryTypes' /\ MachineTypes'
  BY <1>2, <1>4 DEF ManagerInv, MemoryTypes, MachineTypes
<1>6. Tasks' /\ Known' /\ Published'
  BY <1>2 DEF ManagerInv, Tasks, Tasked, Known, Published
<1>7. Stages'
  BY <1>2, <1>3 DEF Stages, Tasked
<1>8. HelperStages'
  BY <1>2 DEF ManagerInv, HelperStages
<1>9. Undrawn'
  BY <1>2, <1>4 DEF ManagerInv, Undrawn
<1>10. Waited'
  <2>1. \A b \in Fresh : Awaited(b)' <=> Awaited(b)
    BY <1>2 DEF Awaited
  <2> QED BY <1>2, <2>1 DEF ManagerInv, Waited
<1>11. Held'
  <2>1. engine[a].st # "running"
    BY <1>1, AttemptAssumption DEF ManagerInv, Held, Busy
  <2>2. \A b \in Attempt : Busy(b)' <=> Busy(b)
    BY <1>2 DEF Busy
  <2> QED BY <1>2, <1>4, <2>1, <2>2 DEF ManagerInv, Held
<1>12. Reservations'
  BY <1>1, <1>2, <1>4 DEF ManagerInv, Reservations
<1>13. Ended'
  BY <1>2 DEF ManagerInv, Ended, Busy, Alive
<1>14. Told'
  BY <1>2, <1>3 DEF ManagerInv, Told, Alive, Waiting
<1> QED BY <1>5, <1>6, <1>7, <1>8, <1>9, <1>10, <1>11, <1>12, <1>13, <1>14 DEF ManagerInv

-----------------------------------------------------------------------------
(* The helpers: a step of one concerns its own attempt.                      *)

HelperMoves(h) ==
  /\ UNCHANGED <<service, memory, used, run, host>>
  /\ helper' \in [Helpers -> HelperProcesses] /\ \A g \in Helpers : g # h => helper'[g] = helper[g]
  /\ engine' \in [Attempt -> Processes] /\ \A b \in Attempt : b # h => engine'[b] = engine[b]
  /\ pipe' \in [Attempt -> Seq(Events)] /\ \A b \in Attempt : b # h => pipe'[b] = pipe[b]
  /\ owner' \in Owner /\ holder' \in Attempt \cup {Nobody} /\ OwnLease(h)

HelperLocal(h) ==
  /\ helper'[h].pc # "idle" => holder' = h /\ owner'.attempt = h
  /\ helper'[h].pc = "spawn" => engine'[h] = NoEngine /\ pipe'[h] = <<>>
  /\ helper'[h].pc = "wait" => engine'[h].st \in {"running", "zombie"}
  /\ helper'[h].pc = "drain" => engine'[h].st = "gone"
  /\ helper'[h].pc = "idle" => pipe'[h] = <<>>
  /\ engine'[h].st = "zombie" => helper'[h].pc = "wait"
  /\ engine'[h].st \in {"running", "zombie"} \/ engine'[h].dirty => owner'.attempt = h
  /\ engine'[h].st \in {"gated", "running"} \/ engine'[h].dirty => NoCleaned(pipe'[h])
  /\ helper'[h].pc \in {"wait", "drain"} /\ engine'[h].dirty =>
       Announced(pipe'[h]) \/ Remembered(helper'[h].life)

\* The same of the state before the step.
LEMMA HelperFacts ==
  ASSUME ManagerInv, NEW h \in Helpers
  PROVE  /\ h \in Attempt /\ h \notin Fresh /\ h # Nobody
         /\ helper[h] \in HelperProcesses /\ helper[h].life \in Lives
         /\ engine[h] \in Processes /\ engine[h].dirty \in BOOLEAN /\ pipe[h] \in Seq(Events)
         /\ helper \in [Helpers -> HelperProcesses] /\ engine \in [Attempt -> Processes]
         /\ pipe \in [Attempt -> Seq(Events)] /\ owner \in Owner /\ holder \in Attempt \cup {Nobody}
         /\ helper[h].pc # "idle" => holder = h /\ owner.attempt = h
         /\ helper[h].pc = "spawn" => engine[h] = NoEngine /\ pipe[h] = <<>>
         /\ helper[h].pc = "wait" => engine[h].st \in {"running", "zombie"}
         /\ helper[h].pc = "drain" => engine[h].st = "gone"
         /\ helper[h].pc = "idle" => pipe[h] = <<>>
         /\ engine[h].st = "zombie" => helper[h].pc = "wait"
         /\ engine[h].st \in {"running", "zombie"} \/ engine[h].dirty => owner.attempt = h
         /\ engine[h].st \in {"gated", "running"} \/ engine[h].dirty => NoCleaned(pipe[h])
         /\ helper[h].pc \in {"wait", "drain"} /\ engine[h].dirty =>
              Announced(pipe[h]) \/ Remembered(helper[h].life)
<1>1. h \in Attempt /\ h \notin Fresh /\ h # Nobody
  BY AttemptAssumption, NobodyAssumption
<1>2. /\ helper \in [Helpers -> HelperProcesses] /\ engine \in [Attempt -> Processes]
      /\ pipe \in [Attempt -> Seq(Events)] /\ owner \in Owner /\ holder \in Attempt \cup {Nobody}
  BY DEF ManagerInv, MachineTypes
<1>3. /\ helper[h] \in HelperProcesses /\ engine[h] \in Processes /\ pipe[h] \in Seq(Events)
  BY <1>1, <1>2
<1>4. helper[h].life \in Lives /\ engine[h].dirty \in BOOLEAN
  BY <1>3 DEF HelperProcesses, Processes
<1>5. /\ helper[h].pc # "idle" => holder = h /\ owner.attempt = h
      /\ helper[h].pc = "spawn" => engine[h] = NoEngine /\ pipe[h] = <<>>
      /\ helper[h].pc = "wait" => engine[h].st \in {"running", "zombie"}
      /\ helper[h].pc = "drain" => engine[h].st = "gone"
      /\ helper[h].pc = "idle" => pipe[h] = <<>>
  BY DEF ManagerInv, HelperStages
<1>6. engine[h].st = "zombie" => helper[h].pc = "wait"
  BY DEF ManagerInv, Waited
<1>7. engine[h].st \in {"running", "zombie"} \/ engine[h].dirty => owner.attempt = h
  BY <1>1 DEF ManagerInv, Held, Busy
<1>8. /\ engine[h].st \in {"gated", "running"} \/ engine[h].dirty => NoCleaned(pipe[h])
      /\ helper[h].pc \in {"wait", "drain"} /\ engine[h].dirty =>
           Announced(pipe[h]) \/ Remembered(helper[h].life)
  BY <1>1 DEF ManagerInv, Told, Alive
<1> QED BY <1>1, <1>2, <1>3, <1>4, <1>5, <1>6, <1>7, <1>8

LEMMA HelperStep ==
  ASSUME ManagerInv, NEW h \in Helpers, HelperMoves(h), HelperLocal(h)
  PROVE  ManagerInv'
<1>1. /\ service' = service /\ ctl' = ctl /\ view' = view /\ sup' = sup /\ stop' = stop /\ used' = used
      /\ run' = run /\ boot' = boot /\ gated' = gated
  BY DEF HelperMoves, memory, host
<1>2. h \in Attempt /\ h \notin Fresh /\ h # Nobody
  BY AttemptAssumption, NobodyAssumption
<1>3. \A b \in Fresh : engine'[b] = engine[b] /\ pipe'[b] = pipe[b] /\ b \in Attempt /\ b # h /\ b # Nobody
  BY <1>2, AttemptAssumption, NobodyAssumption DEF HelperMoves
<1>4. \A g \in Helpers : g # h =>
        helper'[g] = helper[g] /\ engine'[g] = engine[g] /\ pipe'[g] = pipe[g] /\ g \in Attempt /\ g # Nobody
  BY AttemptAssumption, NobodyAssumption DEF HelperMoves
<1>5. \A b \in Attempt : b # h /\ b # Nobody =>
        /\ owner.attempt = b => owner' = owner
        /\ holder = b => holder' = b
        /\ owner.attempt # b => owner'.attempt # b
  BY DEF HelperMoves, OwnLease
<1>6. MemoryTypes' /\ MachineTypes'
  BY <1>1 DEF ManagerInv, MemoryTypes, MachineTypes, HelperMoves
<1>7. Tasks' /\ Known' /\ Published'
  BY <1>1 DEF ManagerInv, Tasks, Tasked, Known, Published
<1>8. Stages'
  <2> SUFFICES ASSUME NEW t \in Fresh, Tasked(t)
               PROVE  StageOf(t, sup[t].inst)'
    BY <1>1 DEF Stages, Tasked
  <2>1. PICK a, p : a = sup[t].inst /\ p = sup[t].profile
    OBVIOUS
  <2>2. At(t, p, a)
    BY <2>1 DEF At
  <2>3. StageOf(t, a) /\ a \in Fresh
    BY <2>2, TaskFacts
  <2>4. /\ engine'[a] = engine[a] /\ pipe'[a] = pipe[a]
        /\ owner.attempt = a => owner' = owner
        /\ holder = a => holder' = a
        /\ owner.attempt # a => owner'.attempt # a
    BY <1>3, <1>5, <2>3
  <2>5. sup[t].pc \in {"gate", "publish", "wait"} => sup[t].pc \in Owning
    BY DEF Owning, Waiting
  <2>6. StageOf(t, a)'
    BY <1>1, <2>3, <2>4, <2>5 DEF StageOf
  <2> QED BY <1>1, <2>1, <2>6
<1>9. HelperStages'
  <2> SUFFICES ASSUME NEW g \in Helpers
               PROVE  (/\ helper[g].pc # "idle" => holder = g /\ owner.attempt = g
                       /\ helper[g].pc = "spawn" => engine[g] = NoEngine /\ pipe[g] = <<>>
                       /\ helper[g].pc = "wait" => engine[g].st \in {"running", "zombie"}
                       /\ helper[g].pc = "drain" => engine[g].st = "gone"
                       /\ helper[g].pc = "idle" => pipe[g] = <<>>)'
    BY DEF HelperStages
  <2>1. CASE g = h
    BY <2>1 DEF HelperLocal
  <2>2. CASE g # h
    BY <1>4, <1>5, <2>2 DEF ManagerInv, HelperStages
  <2> QED BY <2>1, <2>2
<1>10. Undrawn'
  BY <1>1, <1>3, <1>5 DEF ManagerInv, Undrawn
<1>11. Waited'
  <2>1. \A b \in Fresh : Awaited(b)' <=> Awaited(b)
    BY <1>1 DEF Awaited
  <2>2. \A g \in Helpers : engine'[g].st = "zombie" => helper'[g].pc = "wait"
    BY <1>4 DEF ManagerInv, Waited, HelperLocal
  <2> QED BY <1>1, <1>3, <2>1, <2>2 DEF ManagerInv, Waited
<1>12. Held'
  <2>1. ASSUME NEW b \in Attempt, Busy(b)'
        PROVE  owner'.attempt = b
    <3>1. CASE b = h
      BY <2>1, <3>1 DEF Busy, HelperLocal
    <3>2. CASE b # h
      <4>1. engine'[b] = engine[b] /\ b # Nobody
        BY <3>2, NobodyAssumption DEF HelperMoves
      <4>2. owner.attempt = b
        BY <2>1, <4>1 DEF ManagerInv, Held, Busy
      <4> QED BY <1>5, <3>2, <4>1, <4>2
    <3> QED BY <3>1, <3>2
  <2>2. \A b \in Fresh : engine[b].st = "running" => owner' = owner
    BY <1>3, <1>5 DEF ManagerInv, Held, Busy
  <2> QED BY <1>1, <1>3, <2>1, <2>2 DEF ManagerInv, Held
<1>13. Reservations'
  <2>1. owner'.attempt \in Fresh => owner' = owner
    BY <1>3, <1>5
  <2> QED BY <1>1, <2>1 DEF ManagerInv, Reservations
<1>14. Ended'
  <2>1. \A q \in Profile : view[q].ended => view[q].id \in Fresh
    BY DEF ManagerInv, Known, MachineTypes
  <2> QED BY <1>1, <1>3, <1>5, <2>1 DEF ManagerInv, Ended, Busy, Alive
<1>15. Told'
  <2>1. ASSUME NEW b \in Attempt, (Alive(b) \/ engine[b].dirty)'
        PROVE  NoCleaned(pipe'[b])
    <3>1. CASE b = h
      BY <2>1, <3>1 DEF Alive, HelperLocal
    <3>2. CASE b # h
      <4>1. engine'[b] = engine[b] /\ pipe'[b] = pipe[b]
        BY <3>2 DEF HelperMoves
      <4> QED BY <2>1, <4>1 DEF ManagerInv, Told, Alive
    <3> QED BY <3>1, <3>2
  <2>2. \A t \in Fresh : sup[t].pc \in Waiting \cup {"drain"} => sup[t].inst \in Fresh
    BY DEF Waiting, ManagerInv, Tasks, Tasked, MachineTypes
  <2>3. (\A t \in Fresh : sup[t].pc \in Waiting \cup {"drain"} /\ engine[sup[t].inst].dirty =>
          \/ Announced(pipe[sup[t].inst])
          \/ sup[t].pc \in {"wait", "drain"} /\ Remembered(ctl[sup[t].profile].life))'
    BY <1>1, <1>3, <2>2 DEF ManagerInv, Told
  <2>4. \A g \in Helpers : helper'[g].pc \in {"wait", "drain"} /\ engine'[g].dirty =>
          Announced(pipe'[g]) \/ Remembered(helper'[g].life)
    BY <1>4 DEF ManagerInv, Told, HelperLocal
  <2> QED BY <2>1, <2>3, <2>4 DEF Told
<1> QED BY <1>6, <1>7, <1>8, <1>9, <1>10, <1>11, <1>12, <1>13, <1>14, <1>15 DEF ManagerInv

LEMMA HelperFramed ==
  ASSUME ManagerInv, NEW h \in Helpers, NEW k \in HelperProcesses, NEW e \in Processes, NEW q \in Seq(Events),
         UNCHANGED <<service, memory, used, run, host>>,
         helper' = [helper EXCEPT ![h] = k], engine' = [engine EXCEPT ![h] = e],
         pipe' = [pipe EXCEPT ![h] = q],
         owner' = owner \/ owner' = NoOwner \/ (\E b \in BOOLEAN : owner' = [attempt |-> h, bound |-> b]),
         holder' = holder \/ holder' = Nobody \/ holder' = h, OwnLease(h)
  PROVE  HelperMoves(h) /\ helper'[h] = k /\ engine'[h] = e /\ pipe'[h] = q
<1>1. h \in Attempt /\ helper \in [Helpers -> HelperProcesses] /\ engine \in [Attempt -> Processes]
      /\ pipe \in [Attempt -> Seq(Events)] /\ owner \in Owner /\ holder \in Attempt \cup {Nobody}
  BY HelperFacts
<1>2. /\ helper' \in [Helpers -> HelperProcesses] /\ helper'[h] = k
      /\ \A g \in Helpers : g # h => helper'[g] = helper[g]
  BY <1>1
<1>3. engine' \in [Attempt -> Processes] /\ engine'[h] = e /\ \A b \in Attempt : b # h => engine'[b] = engine[b]
  BY <1>1
<1>4. pipe' \in [Attempt -> Seq(Events)] /\ pipe'[h] = q /\ \A b \in Attempt : b # h => pipe'[b] = pipe[b]
  BY <1>1
<1>5. owner' \in Owner /\ holder' \in Attempt \cup {Nobody}
  <2>1. NoOwner \in Owner /\ \A b \in BOOLEAN : [attempt |-> h, bound |-> b] \in Owner
    BY <1>1 DEF Owner
  <2> QED BY <1>1, <2>1
<1> QED BY <1>2, <1>3, <1>4, <1>5 DEF HelperMoves

\* Nothing but the attempt's own entry is rewritten by writing it as it is.
LEMMA HelperSame ==
  ASSUME ManagerInv, NEW h \in Helpers
  PROVE  /\ helper = [helper EXCEPT ![h] = helper[h]] /\ engine = [engine EXCEPT ![h] = engine[h]]
         /\ pipe = [pipe EXCEPT ![h] = pipe[h]] /\ <<>> \in Seq(Events)
         /\ NoHelper \in HelperProcesses /\ NoHelper.pc = "idle"
<1>1. NoHelper \in HelperProcesses /\ NoHelper.pc = "idle"
  BY LifeTyped DEF NoHelper, HelperProcesses
<1> QED BY <1>1, HelperFacts

LEMMA HelperAcquiresStep ==
  ASSUME ManagerInv, NEW h \in Helpers, NEW outcome \in WriteOutcome, HelperAcquires(h, outcome)
  PROVE  ManagerInv'
<1> DEFINE k == [helper[h] EXCEPT !.pc = IF outcome = "ok" THEN "spawn" ELSE "idle"]
<1>1. /\ helper[h].pc = "idle" /\ engine[h] = NoEngine /\ holder = Nobody /\ owner.attempt = Nobody
      /\ helper' = [helper EXCEPT ![h] = k] /\ engine' = engine /\ pipe' = pipe
      /\ \/ owner' = owner /\ outcome # "ok"
         \/ owner' = [attempt |-> h, bound |-> TRUE]
      /\ holder' = IF outcome = "ok" THEN h ELSE Nobody
      /\ UNCHANGED <<service, memory, used, run, host>>
  BY DEF HelperAcquires, Acquire, Free, NoOwner, engines
<1>2. /\ helper[h] \in HelperProcesses /\ pipe[h] = <<>> /\ h # Nobody
      /\ engine[h] \in Processes /\ pipe[h] \in Seq(Events)
  BY <1>1, HelperFacts
<1>3. k \in HelperProcesses /\ k.pc = IF outcome = "ok" THEN "spawn" ELSE "idle"
  BY <1>2 DEF HelperProcesses
<1> HIDE DEF k
<1>4. OwnLease(h)
  BY <1>1 DEF OwnLease
<1>5. HelperMoves(h) /\ helper'[h] = k /\ engine'[h] = NoEngine /\ pipe'[h] = <<>>
  BY <1>1, <1>2, <1>3, <1>4, HelperSame, HelperFramed
<1>6. HelperLocal(h)
  BY <1>1, <1>3, <1>5 DEF HelperLocal, NoEngine
<1> QED BY <1>5, <1>6, HelperStep

LEMMA HelperSpawnsStep ==
  ASSUME ManagerInv, NEW h \in Helpers, HelperSpawns(h)
  PROVE  ManagerInv'
<1> DEFINE k == [helper[h] EXCEPT !.pc = "wait"]
           e == [engine[h] EXCEPT !.st = "running"]
<1>1. /\ helper[h].pc = "spawn" /\ helper' = [helper EXCEPT ![h] = k] /\ engine' = [engine EXCEPT ![h] = e]
      /\ pipe' = pipe /\ owner' = owner /\ holder' = holder
      /\ UNCHANGED <<service, memory, used, run, host>>
  BY DEF HelperSpawns, authority
<1>2. /\ helper[h] \in HelperProcesses /\ engine[h] \in Processes /\ pipe[h] \in Seq(Events)
      /\ engine[h] = NoEngine /\ pipe[h] = <<>> /\ holder = h /\ owner.attempt = h
  BY <1>1, HelperFacts
<1>3. /\ k \in HelperProcesses /\ k.pc = "wait" /\ e \in Processes /\ e.st = "running"
      /\ e.dirty = engine[h].dirty
  BY <1>2 DEF HelperProcesses, Processes
<1>4. ~engine[h].dirty
  BY <1>2 DEF NoEngine
<1> HIDE DEF k, e
<1>5. HelperMoves(h) /\ helper'[h] = k /\ engine'[h] = e /\ pipe'[h] = <<>>
  <2>1. OwnLease(h)
    BY <1>1 DEF OwnLease
  <2> QED BY <1>1, <1>2, <1>3, <2>1, HelperSame, HelperFramed, ZenonT(60)
<1>6. HelperLocal(h)
  BY <1>1, <1>2, <1>3, <1>4, <1>5, EmptyPipe DEF HelperLocal
<1> QED BY <1>5, <1>6, HelperStep

\* The helper is gone, its engine reaped or living on, the reservation as it was
\* or given back by an attempt that has left nothing.
LEMMA HelperEnds ==
  ASSUME ManagerInv, NEW h \in Helpers, helper[h].pc # "idle", NEW e \in Processes,
         UNCHANGED <<service, memory, used, run, host>>,
         helper' = [helper EXCEPT ![h] = NoHelper], engine' = [engine EXCEPT ![h] = e],
         pipe' = [pipe EXCEPT ![h] = <<>>], holder' = Nobody,
         e.st # "zombie", e.dirty => engine[h].dirty,
         owner' = owner \/ (owner' = NoOwner /\ e.st \in {"none", "gone"} /\ ~e.dirty)
  PROVE  ManagerInv'
<1>1. h # Nobody /\ owner.attempt = h /\ holder = h
  BY HelperFacts
<1>2. OwnLease(h)
  BY <1>1 DEF OwnLease, NoOwner
<1>3. HelperMoves(h) /\ helper'[h] = NoHelper /\ engine'[h] = e /\ pipe'[h] = <<>>
  BY <1>2, HelperSame, HelperFramed
<1>4. HelperLocal(h)
  BY <1>1, <1>3, HelperSame, EmptyPipe DEF HelperLocal
<1> QED BY <1>3, <1>4, HelperStep

LEMMA HelperSpawnFailsStep ==
  ASSUME ManagerInv, NEW h \in Helpers, NEW outcome, HelperSpawnFails(h, outcome)
  PROVE  ManagerInv'
<1>1. /\ helper[h].pc = "spawn" /\ holder' = Nobody /\ (owner' = owner \/ owner' = NoOwner)
      /\ helper' = [helper EXCEPT ![h] = NoHelper] /\ engine' = engine /\ pipe' = pipe
      /\ UNCHANGED <<service, memory, used, run, host>>
  BY DEF HelperSpawnFails, Finish, engines
<1>2. engine[h] = NoEngine /\ pipe[h] = <<>> /\ engine[h] \in Processes
  BY <1>1, HelperFacts
<1>3. NoEngine \in Processes /\ NoEngine.st = "none" /\ ~NoEngine.dirty
  BY <1>2 DEF NoEngine
<1>4. engine' = [engine EXCEPT ![h] = NoEngine] /\ pipe' = [pipe EXCEPT ![h] = <<>>]
  BY <1>1, <1>2, HelperSame
<1> QED BY <1>1, <1>3, <1>4, HelperEnds

LEMMA HelperAbandonsStep ==
  ASSUME ManagerInv, NEW h \in Helpers, HelperAbandons(h)
  PROVE  ManagerInv'
<1>1. /\ helper[h].pc = "wait" /\ holder' = Nobody /\ owner' = owner
      /\ helper' = [helper EXCEPT ![h] = NoHelper] /\ engine' = [engine EXCEPT ![h] = Dead(engine[h].dirty)]
      /\ pipe' = [pipe EXCEPT ![h] = <<>>]
      /\ UNCHANGED <<service, memory, used, run, host>>
  BY DEF HelperAbandons, DropLease
<1>2. /\ Dead(engine[h].dirty) \in Processes /\ Dead(engine[h].dirty).st = "gone"
      /\ Dead(engine[h].dirty).dirty = engine[h].dirty
  BY HelperFacts, DeadTyped
<1>3. PICK e \in Processes : e = Dead(engine[h].dirty)
  BY <1>2
<1> QED BY <1>1, <1>2, <1>3, HelperEnds

LEMMA HelperCrashesStep ==
  ASSUME ManagerInv, NEW h \in Helpers, HelperCrashes(h)
  PROVE  ManagerInv'
<1>1. /\ helper[h].pc # "idle" /\ holder' = Nobody /\ owner' = owner
      /\ helper' = [helper EXCEPT ![h] = NoHelper]
      /\ engine' = [engine EXCEPT ![h] = IF engine[h].st = "zombie" THEN Dead(engine[h].dirty) ELSE engine[h]]
      /\ pipe' = [pipe EXCEPT ![h] = <<>>]
      /\ UNCHANGED <<service, memory, used, run, host>>
  BY DEF HelperCrashes, DropLease
<1>2. /\ Dead(engine[h].dirty) \in Processes /\ Dead(engine[h].dirty).st = "gone"
      /\ Dead(engine[h].dirty).dirty = engine[h].dirty /\ engine[h] \in Processes
  BY HelperFacts, DeadTyped
<1>3. PICK e \in Processes : /\ e = IF engine[h].st = "zombie" THEN Dead(engine[h].dirty) ELSE engine[h]
                             /\ e.st # "zombie" /\ e.dirty = engine[h].dirty
  BY <1>2
<1> QED BY <1>1, <1>3, HelperEnds

LEMMA HelperReadsStep ==
  ASSUME ManagerInv, NEW h \in Helpers, HelperReads(h)
  PROVE  ManagerInv'
<1> DEFINE life == Observe(helper[h].life, Head(pipe[h]))
           k == [helper[h] EXCEPT !.life = life]
<1>1. /\ helper[h].pc \in {"wait", "drain"} /\ pipe[h] # <<>> /\ helper' = [helper EXCEPT ![h] = k]
      /\ pipe' = [pipe EXCEPT ![h] = Tail(pipe[h])] /\ engine' = engine /\ owner' = owner /\ holder' = holder
      /\ UNCHANGED <<service, memory, used, run, host>>
  BY DEF HelperReads, authority
<1>2. /\ helper[h] \in HelperProcesses /\ helper[h].life \in Lives /\ engine[h] \in Processes
      /\ pipe[h] \in Seq(Events) /\ holder = h /\ owner.attempt = h
      /\ (helper[h].pc = "wait" => engine[h].st \in {"running", "zombie"})
      /\ (helper[h].pc = "drain" => engine[h].st = "gone")
  BY <1>1, HelperFacts
<1>3. /\ Tail(pipe[h]) \in Seq(Events) /\ Head(pipe[h]) \in Events
      /\ NoCleaned(pipe[h]) => NoCleaned(Tail(pipe[h])) /\ Head(pipe[h]) # "cleaned"
  BY <1>1, <1>2, Consumed
<1>4. life \in Lives /\ (Head(pipe[h]) # "cleaned" => Remembered(life))
  BY <1>2, <1>3, ObserveFacts
<1> HIDE DEF life
<1>5. k \in HelperProcesses /\ k.pc = helper[h].pc /\ k.life = life
  BY <1>2, <1>4 DEF HelperProcesses
<1> HIDE DEF k
<1>6. HelperMoves(h) /\ helper'[h] = k /\ engine'[h] = engine[h] /\ pipe'[h] = Tail(pipe[h])
  <2>1. OwnLease(h)
    BY <1>1 DEF OwnLease
  <2>2. PICK q \in Seq(Events) : q = Tail(pipe[h])
    BY <1>3
  <2>3. PICK n \in HelperProcesses : n = k
    BY <1>5
  <2>4. PICK e \in Processes : e = engine[h]
    BY <1>2
  <2> QED BY <1>1, <2>1, <2>2, <2>3, <2>4, HelperSame, HelperFramed
<1>7. HelperLocal(h)
  BY <1>1, <1>2, <1>3, <1>4, <1>5, <1>6, HelperFacts DEF HelperLocal
<1> QED BY <1>6, <1>7, HelperStep

LEMMA HelperReapsStep ==
  ASSUME ManagerInv, NEW h \in Helpers, HelperReaps(h)
  PROVE  ManagerInv'
<1> DEFINE k == [helper[h] EXCEPT !.pc = "drain"]
           e == [engine[h] EXCEPT !.st = "gone"]
<1>1. /\ helper[h].pc = "wait" /\ helper' = [helper EXCEPT ![h] = k] /\ engine' = [engine EXCEPT ![h] = e]
      /\ pipe' = pipe /\ owner' = owner /\ holder' = holder
      /\ UNCHANGED <<service, memory, used, run, host>>
  BY DEF HelperReaps, authority
<1>2. /\ helper[h] \in HelperProcesses /\ engine[h] \in Processes /\ pipe[h] \in Seq(Events)
      /\ holder = h /\ owner.attempt = h
  BY <1>1, HelperFacts
<1>3. /\ k \in HelperProcesses /\ k.pc = "drain" /\ k.life = helper[h].life
      /\ e \in Processes /\ e.st = "gone" /\ e.dirty = engine[h].dirty
  BY <1>2 DEF HelperProcesses, Processes
<1> HIDE DEF k, e
<1>4. HelperMoves(h) /\ helper'[h] = k /\ engine'[h] = e /\ pipe'[h] = pipe[h]
  <2>1. OwnLease(h)
    BY <1>1 DEF OwnLease
  <2>2. PICK q \in Seq(Events) : q = pipe[h]
    BY <1>2
  <2>3. PICK n \in HelperProcesses : n = k
    BY <1>3
  <2>4. PICK d \in Processes : d = e
    BY <1>3
  <2> QED BY <1>1, <2>1, <2>2, <2>3, <2>4, HelperSame, HelperFramed
<1>5. HelperLocal(h)
  BY <1>1, <1>2, <1>3, <1>4, HelperFacts DEF HelperLocal
<1> QED BY <1>4, <1>5, HelperStep

LEMMA HelperFinishesStep ==
  ASSUME ManagerInv, NEW h \in Helpers, NEW complete \in BOOLEAN, NEW outcome,
         HelperFinishes(h, complete, outcome)
  PROVE  ManagerInv'
<1> DEFINE life == Reaped(helper[h].life, complete, engine[h].code = "killed")
<1>1. /\ helper[h].pc = "drain" /\ (complete => pipe[h] = <<>>)
      /\ helper' = [helper EXCEPT ![h] = NoHelper] /\ engine' = [engine EXCEPT ![h] = Dead(engine[h].dirty)]
      /\ pipe' = [pipe EXCEPT ![h] = <<>>] /\ holder' = Nobody
      /\ owner' = owner \/ (owner' = NoOwner /\ ~life.failed)
      /\ UNCHANGED <<service, memory, used, run, host>>
  BY DEF HelperFinishes, DropLease, Finish
<1>2. /\ Dead(engine[h].dirty) \in Processes /\ Dead(engine[h].dirty).st = "gone"
      /\ Dead(engine[h].dirty).dirty = engine[h].dirty /\ helper[h].life \in Lives
  BY HelperFacts, DeadTyped
<1>3. engine[h].dirty => life.failed
  <2>1. engine[h].dirty => Announced(pipe[h]) \/ Remembered(helper[h].life)
    BY <1>1, HelperFacts
  <2>2. ~complete \/ Remembered(helper[h].life) => life.failed
    BY <1>2, ReapedFacts
  <2> QED BY <1>1, <2>1, <2>2, EmptyPipe
<1> HIDE DEF life
<1>4. PICK e \in Processes : e = Dead(engine[h].dirty)
  BY <1>2
<1> QED BY <1>1, <1>2, <1>3, <1>4, HelperEnds

LEMMA HelperRecoversStep ==
  ASSUME ManagerInv, NEW h \in Helpers, NEW outcome, HelperRecovers(h, outcome)
  PROVE  ManagerInv'
<1>1. /\ helper[h].pc = "idle" /\ ~Alive(h) /\ ~engine[h].dirty /\ holder = Nobody /\ owner.attempt = h
      /\ holder' = Nobody /\ (owner' = owner \/ owner' = NoOwner)
      /\ helper' = helper /\ engine' = engine /\ pipe' = pipe
      /\ UNCHANGED <<service, memory, used, run, host>>
  BY DEF HelperRecovers, Acknowledge, engines
<1>2. /\ helper[h] \in HelperProcesses /\ engine[h] \in Processes /\ pipe[h] \in Seq(Events)
      /\ pipe[h] = <<>> /\ engine[h].st # "zombie" /\ engine[h].st \notin {"gated", "running"}
  BY <1>1, HelperFacts DEF Alive
<1>3. HelperMoves(h) /\ helper'[h] = helper[h] /\ engine'[h] = engine[h] /\ pipe'[h] = <<>>
  <2>1. OwnLease(h)
    BY <1>1 DEF OwnLease, NoOwner
  <2>2. PICK n \in HelperProcesses : n = helper[h]
    BY <1>2
  <2>3. PICK d \in Processes : d = engine[h]
    BY <1>2
  <2>4. PICK q \in Seq(Events) : q = pipe[h]
    BY <1>2
  <2>5. /\ helper' = [helper EXCEPT ![h] = n] /\ engine' = [engine EXCEPT ![h] = d]
        /\ pipe' = [pipe EXCEPT ![h] = q]
    BY <1>1, <2>2, <2>3, <2>4, HelperSame
  <2>6. HelperMoves(h) /\ helper'[h] = n /\ engine'[h] = d /\ pipe'[h] = q
    <3>1. UNCHANGED <<service, memory, used, run, host>> /\ holder' = Nobody
      BY <1>1
    <3>2. \/ owner' = owner \/ owner' = NoOwner
          \/ \E b \in BOOLEAN : owner' = [attempt |-> h, bound |-> b]
      BY <1>1
    <3> QED BY <2>1, <2>5, <3>1, <3>2, HelperFramed
  <2> QED BY <1>2, <2>2, <2>3, <2>4, <2>6
<1>4. HelperLocal(h)
  BY <1>1, <1>2, <1>3 DEF HelperLocal
<1> QED BY <1>3, <1>4, HelperStep

-----------------------------------------------------------------------------
(* The inductive invariant.                                                  *)

LEMMA ManagerStarts ==
  ASSUME Init
  PROVE  ManagerInv
<1>1. Forgotten
  BY DEF Init, Forgotten
<1>2. /\ MemoryTypes /\ Tasks /\ Known /\ Published /\ Stages /\ Ended
      /\ (\A t \in Fresh : sup[t].pc = "none") /\ (\A p \in Profile : stop[p].pc = "idle")
  BY <1>1, ForgottenFacts
<1>3. /\ NoEngine \in Processes /\ NoEngine.st = "none" /\ ~NoEngine.dirty
      /\ NoHelper \in HelperProcesses /\ NoHelper.pc = "idle"
      /\ NoRecord \in Records /\ NoRecord.profile = Nobody
      /\ NoOwner \in Owner /\ NoOwner.attempt = Nobody /\ <<>> \in Seq(Events)
  BY LifeTyped DEF NoEngine, Processes, NoHelper, HelperProcesses, NoRecord, Records, NoOwner, Owner
<1>4. /\ \A a \in Attempt : engine[a] = NoEngine /\ pipe[a] = <<>>
      /\ \A h \in Helpers : helper[h] = NoHelper /\ h \in Attempt
      /\ \A a \in Fresh : run[a] = NoRecord /\ a \in Attempt /\ a # Nobody
      /\ owner = NoOwner /\ holder = Nobody /\ used = {} /\ service = "down"
  BY AttemptAssumption, NobodyAssumption DEF Init, AuthorityInit
<1>5. MachineTypes
  BY <1>3, GateAssumption DEF Init, AuthorityInit, MachineTypes
<1>6. HelperStages /\ Undrawn
  BY <1>3, <1>4 DEF HelperStages, Undrawn
<1>7. Waited /\ Held
  BY <1>2, <1>3, <1>4 DEF Waited, Held, Busy
<1>8. Reservations
  BY <1>3, <1>4 DEF Reservations
<1>9. Told
  BY <1>2, <1>3, <1>4, EmptyPipe DEF Told, Alive, Waiting
<1> QED BY <1>2, <1>5, <1>6, <1>7, <1>8, <1>9 DEF ManagerInv

LEMMA SuperviseSteps ==
  ASSUME ManagerInv, NEW t \in Fresh, Supervise(t)
  PROVE  ManagerInv'
<1>1. PICK p, a : p = sup[t].profile /\ a = sup[t].inst
  OBVIOUS
<1>2. sup[t].pc # "none" => At(t, p, a)
  BY <1>1 DEF At, Tasked
<1>3. CASE Begin(t) \/ Wake(t) \/ (\E b \in Fresh : Rename(t, b))
  <2>1. At(t, p, a)
    BY <1>2, <1>3 DEF Begin, Wake, Rename
  <2> QED BY <1>3, <2>1, BeginStep, WakeStep, RenameStep
<1>4. CASE \E auto \in BOOLEAN : Decide(t, auto)
  <2>1. At(t, p, a)
    BY <1>2, <1>4 DEF Decide
  <2> QED BY <1>4, <2>1, DecideStep
<1>5. CASE MarkDisconnected(t) \/ FinishFailed(t)
  <2>1. At(t, p, a)
    BY <1>2, <1>5 DEF MarkDisconnected, FinishFailed
  <2> QED BY <1>5, <2>1, MarkDisconnectedStep, FinishFailedStep
<1>6. CASE AcquireLease(t)
  <2>1. At(t, p, a)
    BY <1>2, <1>6 DEF AcquireLease
  <2> QED BY <1>6, <2>1, AcquireLeaseStep
<1>7. CASE \E written, readable \in BOOLEAN, o \in RemoveOutcome : AcquireFails(t, written, readable, o)
  <2>1. At(t, p, a)
    BY <1>2, <1>7 DEF AcquireFails
  <2> QED BY <1>7, <2>1, AcquireFailsStep
<1>8. CASE Spawn(t) \/ SpawnFails(t)
  <2>1. At(t, p, a)
    BY <1>2, <1>8 DEF Spawn, SpawnFails
  <2> QED BY <1>8, <2>1, SpawnStep, SpawnFailsStep
<1>9. CASE \E o \in WriteOutcome : Journal(t, o) \/ Bind(t, o) \/ (\E c \in BOOLEAN : Capture(t, c, o))
  <2>1. At(t, p, a)
    BY <1>2, <1>9 DEF Journal, Bind, Capture
  <2> QED BY <1>9, <2>1, JournalStep, BindStep, CaptureStep
<1>10. CASE \E ok \in BOOLEAN : OpenGate(t, ok)
  <2>1. At(t, p, a)
    BY <1>2, <1>10 DEF OpenGate
  <2> QED BY <1>10, <2>1, OpenGateStep
<1>11. CASE Publish(t) \/ Wait(t) \/ Confirm(t)
  <2>1. At(t, p, a)
    BY <1>2, <1>11 DEF Publish, Wait, Confirm
  <2> QED BY <1>11, <2>1, PublishStep, WaitStep, ConfirmStep
<1>12. CASE \E complete \in BOOLEAN : Drain(t, complete)
  <2>1. At(t, p, a)
    BY <1>2, <1>12 DEF Drain
  <2> QED BY <1>12, <2>1, DrainStep
<1>13. CASE \E o \in RemoveOutcome : Return(t, o) \/ Unrecord(t, o)
  <2>1. At(t, p, a)
    BY <1>2, <1>13 DEF Return, Unrecord
  <2> QED BY <1>13, <2>1, ReturnStep, UnrecordStep
<1> QED BY <1>3, <1>4, <1>5, <1>6, <1>7, <1>8, <1>9, <1>10, <1>11, <1>12, <1>13 DEF Supervise

LEMMA ManagerSteps ==
  ASSUME ManagerInv, Next
  PROVE  ManagerInv'
<1>1. CASE Start \/ Shutdown \/ Exit \/ Crash \/ Reboot
  BY <1>1, StartStep, ShutdownStep, ExitStep, CrashStep, RebootStep
<1>2. CASE \E p \in Profile : Command(p) \/ Stop(p)
  BY <1>2, ConnectStep, DisconnectStep, EvictStep, StopSoftStep, StopKillStep DEF Command, Stop
<1>3. CASE \E t \in Fresh : Supervise(t) \/ ReadEvent(t)
  BY <1>3, SuperviseSteps, ReadEventStep
<1>4. CASE \E a \in Attempt : Engine(a)
  BY <1>4, EngineRefusedStep, EngineConfiguresStep, EngineExitsStep, EngineDiesStep, EngineMisreportsStep
     DEF Engine, EngineEnds
<1>5. CASE Operator
  BY <1>5, OperatorRestoresStep, AcknowledgeOwnerStep, AcknowledgeRecordStep DEF Operator
<1>6. CASE \E h \in Helpers : Helper(h)
  BY <1>6, HelperSpawnsStep, HelperAbandonsStep, HelperReadsStep, HelperReapsStep, HelperCrashesStep,
     HelperAcquiresStep, HelperSpawnFailsStep, HelperRecoversStep, HelperFinishesStep DEF Helper
<1> QED BY <1>1, <1>2, <1>3, <1>4, <1>5, <1>6 DEF Next

LEMMA ManagerStutters ==
  ASSUME ManagerInv, UNCHANGED mvars
  PROVE  ManagerInv'
<1>1. /\ service' = service /\ ctl' = ctl /\ view' = view /\ stop' = stop /\ engine' = engine
      /\ UNCHANGED <<sup, used, run, pipe, host, helper, authority>>
  BY DEF mvars, memory, engines
<1>2. Soft
  BY <1>1, SoftFacts DEF Soft
<1> QED BY <1>2, SoftStep

\* Whatever users, supervisors, engines, helpers, crashes and reboots do, what
\* the manager remembers, what it wrote and what runs on the machine fit together
\* (headless/src/manager.rs, supervise and run_once, and restore_recovery).
THEOREM ManagerInductive == Spec => []ManagerInv
<1>1. Init => ManagerInv
  BY ManagerStarts
<1>2. ManagerInv /\ [Next]_mvars => ManagerInv'
  BY ManagerSteps, ManagerStutters
<1> QED BY <1>1, <1>2, PTL DEF Spec

\* One supervisor at a time, and every engine it has let past the gate is named,
\* with its process, by the run record and by active.json.
THEOREM ManagerSupervises == Spec => []EnginesSupervised
<1>1. ManagerInv => EnginesSupervised
  <2> SUFFICES ASSUME ManagerInv
               PROVE  EnginesSupervised
    OBVIOUS
  <2>1. ManagerTypeOK
    <3>1. /\ owner \in Owner /\ holder \in Attempt \cup {Nobody}
          /\ service \in {"down", "up", "stopping"} /\ used \subseteq Fresh
      BY DEF ManagerInv, MachineTypes
    <3>2. ASSUME NEW t \in Fresh, Tasked(t)
          PROVE  sup[t].inst \in used
      BY <3>2 DEF ManagerInv, Tasks
    <3>3. ASSUME NEW p \in Profile
          PROVE  /\ ctl[p].gen \in Nat /\ ctl[p].process \in used \cup {Nobody}
                 /\ view[p].id \in used \cup {Nobody}
                 /\ view[p].status \in {"None", "Live", "Disconnecting", "Disconnected", "Failed"}
                 /\ stop[p].pc \in {"idle", "term", "kill", "wait"}
      <4>1. ctl[p] \in Controls /\ view[p] \in Views /\ stop[p] \in Stops
        BY DEF ManagerInv, MemoryTypes
      <4>2. ctl[p].process \in used \cup {Nobody}
        BY <3>2 DEF ManagerInv, Published, Tasked
      <4>3. view[p].id \in used \cup {Nobody}
        BY DEF ManagerInv, Known
      <4> QED BY <4>1, <4>2, <4>3 DEF Controls, Views, Stops
    <3>4. ASSUME NEW a \in Fresh
          PROVE  sup[a].inst \in used \cup {Nobody} /\ run[a].profile \in Profile \cup {Nobody}
      <4>1. sup[a].inst \in used \cup {Nobody}
        BY <3>2 DEF ManagerInv, Tasks, NoSupervisor
      <4>2. run[a] \in Records
        BY DEF ManagerInv, MachineTypes
      <4> QED BY <4>1, <4>2 DEF Records
    <3>5. ASSUME NEW a \in Attempt
          PROVE  /\ engine[a].st \in {"none", "gated", "running", "zombie", "gone"}
                 /\ pipe[a] \in Seq({"configuring", "cleaned", "uncleaned", "malformed"})
      BY DEF ManagerInv, MachineTypes, Processes, Events
    <3> QED BY <3>1, <3>3, <3>4, <3>5 DEF ManagerTypeOK
  <2>2. OneSupervisor
    BY DEF ManagerInv, Tasks, OneSupervisor
  <2>3. RunningRecorded
    <3> SUFFICES ASSUME NEW a \in Fresh, engine[a].st = "running", gated
                 PROVE  run[a].bound /\ owner = [attempt |-> a, bound |-> TRUE]
      BY DEF RunningRecorded
    <3>1. a \in Attempt /\ a # Nobody
      BY AttemptAssumption, NobodyAssumption
    <3>2. owner.attempt = a /\ run[a].bound /\ owner.bound
      BY <3>1 DEF ManagerInv, Held, Busy
    <3>3. owner \in [attempt : Attempt, bound : BOOLEAN]
      BY <3>1, <3>2 DEF ManagerInv, MachineTypes, Owner, NoOwner
    <3> QED BY <3>2, <3>3
  <2> QED BY <2>1, <2>2, <2>3 DEF EnginesSupervised
<1> QED BY <1>1, ManagerInductive, PTL

\* A reservation of the manager has the run record that recovery needs, and holds
\* its profile while the manager is up.
THEOREM ManagerAccounts == Spec => []ReservationAccounted
<1>1. ManagerInv => ReservationAccounted
  <2> SUFFICES ASSUME ManagerInv, owner.attempt \in Fresh
               PROVE  /\ run[owner.attempt] # NoRecord
                      /\ service # "down" => Reserved(run[owner.attempt].profile)
    BY DEF ReservationAccounted, OwnerRecoverable, ReservationHeld
  <2>1. run[owner.attempt].profile \in Profile
    BY DEF ManagerInv, Reservations
  <2>2. run[owner.attempt] # NoRecord
    BY <2>1, AttemptAssumption DEF NoRecord
  <2>3. ASSUME service # "down", NEW t \in Fresh, sup[t].inst = owner.attempt, sup[t].pc \in Owning
        PROVE  Reserved(run[owner.attempt].profile)
    <3>1. PICK p, a : p = sup[t].profile /\ a = sup[t].inst
      OBVIOUS
    <3>2. At(t, p, a)
      BY <2>3, <3>1 DEF At, Tasked, Owning, Waiting
    <3>3. StageOf(t, a) /\ ctl[p].active
      BY <3>2, TaskFacts
    <3>4. run[a].profile = p
      BY <2>3, <3>1, <3>3 DEF StageOf, Recorded
    <3> QED BY <2>3, <3>1, <3>3, <3>4 DEF Reserved
  <2>4. service # "down" => Reserved(run[owner.attempt].profile)
    BY <2>3 DEF ManagerInv, Reservations, Reserved
  <2> QED BY <2>2, <2>4
<1> QED BY <1>1, ManagerInductive, PTL

\* A connection that is declared over has no engine, no network change and no
\* reservation left.
THEOREM ManagerTerminal == Spec => []TerminalMeansGone
<1>1. ManagerInv => TerminalMeansGone
  BY DEF ManagerInv, Ended, TerminalMeansGone
<1> QED BY <1>1, ManagerInductive, PTL

-----------------------------------------------------------------------------
(* The reservation implements the machine-wide lease.                        *)

\* The attempt of the reservation stays, or nobody has it before or after the
\* step and the step leaves every network change as it is.
Passes ==
  \/ owner'.attempt = owner.attempt
  \/ /\ owner.attempt = Nobody \/ owner'.attempt = Nobody
     /\ \A a \in Attempt : Busy(a)' <=> Busy(a)

LEMMA LeaseStep ==
  ASSUME ManagerInv, ManagerInv', Passes
  PROVE  [Lease!Next]_(Lease!vars)
<1> DEFINE B == {a \in Attempt : Busy(a)}
           o == owner.attempt
<1>1. /\ \A a \in B : a = o /\ a \in Attempt /\ a # Nobody
      /\ \A a \in B' : a = o' /\ a \in Attempt /\ a # Nobody
  BY NobodyAssumption DEF ManagerInv, Held
<1>2. CASE o' = o
  <2>1. CASE B' = B
    BY <1>2, <2>1 DEF Lease!vars
  <2>2. CASE B = {} /\ B' # {}
    <3>1. o # Nobody /\ B' = B \cup {o}
      BY <1>1, <1>2, <2>2
    <3>2. Lease!Work
      BY <1>2, <3>1 DEF Lease!Work
    <3> QED BY <3>2 DEF Lease!Next
  <2>3. CASE B # {} /\ B' = {}
    <3>1. o \in Attempt /\ B' = B \ {o}
      BY <1>1, <2>3
    <3>2. Lease!Rest(o)
      BY <1>2, <3>1 DEF Lease!Rest
    <3> QED BY <3>1, <3>2 DEF Lease!Next
  <2>4. CASE B # {} /\ B' # {}
    BY <1>1, <1>2, <2>1, <2>4
  <2> QED BY <2>1, <2>2, <2>3, <2>4
<1>3. CASE o' # o
  <2>1. B' = B /\ (o = Nobody \/ o' = Nobody)
    BY <1>3 DEF Passes
  <2>2. B = {}
    BY <1>1, <2>1
  <2>3. CASE o = Nobody
    <3>1. o' \in Attempt
      BY <1>3, <2>3 DEF ManagerInv, MachineTypes, Owner, NoOwner
    <3>2. PICK a \in Attempt : a = o'
      BY <3>1
    <3>3. Lease!Claim(a)
      BY <2>1, <2>3, <3>2 DEF Lease!Claim
    <3> QED BY <3>3 DEF Lease!Next
  <2>4. CASE o' = Nobody
    <3>1. Lease!Yield
      BY <2>1, <2>2, <2>4 DEF Lease!Yield
    <3> QED BY <3>1 DEF Lease!Next
  <2> QED BY <2>1, <2>3, <2>4
<1> QED BY <1>2, <1>3

LEMMA SamePasses ==
  ASSUME owner' = owner \/ (engine' = engine /\ (owner.attempt = Nobody \/ owner'.attempt = Nobody))
  PROVE  Passes
BY DEF Passes, Busy

LEMMA SupervisePasses ==
  ASSUME ManagerInv, NEW t \in Fresh, Supervise(t)
  PROVE  Passes
<1>1. CASE AcquireLease(t)
  BY <1>1, SamePasses DEF AcquireLease, Acquire, Free, NoOwner, engines
<1>2. CASE \E written, readable \in BOOLEAN, o \in RemoveOutcome : AcquireFails(t, written, readable, o)
  BY <1>2, SamePasses DEF AcquireFails, Acquire, Free, NoOwner, engines, authority
<1>3. ASSUME NEW o \in WriteOutcome, Bind(t, o)
      PROVE  Passes
  <2>1. PICK p, a : p = sup[t].profile /\ a = sup[t].inst
    OBVIOUS
  <2>2. At(t, p, a) /\ sup[t].pc = "bind"
    BY <1>3, <2>1 DEF At, Tasked, Bind
  <2>3. StageOf(t, a) /\ a \in Attempt /\ a # Nobody
    BY <2>2, TaskFacts
  <2>4. owner.attempt = a
    BY <2>2, <2>3 DEF StageOf, Owning, Waiting
  <2>5. owner \in [attempt : Attempt, bound : BOOLEAN]
    BY <2>3, <2>4 DEF ManagerInv, MachineTypes, Owner, NoOwner
  <2>6. owner'.attempt = a
    BY <1>3, <2>1, <2>4, <2>5 DEF Bind, BindProcessGroup
  <2> QED BY <2>4, <2>6 DEF Passes
<1>4. ASSUME NEW o \in RemoveOutcome, Return(t, o)
      PROVE  Passes
  BY <1>4, SamePasses DEF Return, Finish, DropLease, NoOwner, engines
<1>5. CASE \E o \in WriteOutcome : Journal(t, o) \/ (\E c \in BOOLEAN : Capture(t, c, o))
  BY <1>5, SamePasses DEF Journal, Capture, Abandon, DropLease, authority
<1>6. CASE \/ Begin(t) \/ Wake(t) \/ (\E a \in Fresh : Rename(t, a))
           \/ \E auto \in BOOLEAN : Decide(t, auto)
           \/ MarkDisconnected(t) \/ FinishFailed(t) \/ Spawn(t) \/ SpawnFails(t)
  BY <1>6, SamePasses DEF Begin, Wake, Rename, Decide, MarkDisconnected, FinishFailed, Spawn, SpawnFails,
     authority
<1>7. CASE \/ \E ok \in BOOLEAN : OpenGate(t, ok)
           \/ Publish(t) \/ Wait(t) \/ Confirm(t)
           \/ \E complete \in BOOLEAN : Drain(t, complete)
           \/ \E o \in RemoveOutcome : Unrecord(t, o)
  BY <1>7, SamePasses DEF OpenGate, Abandon, DropLease, Publish, Wait, Confirm, Drain, Unrecord, authority
<1> QED BY <1>1, <1>2, <1>3, <1>4, <1>5, <1>6, <1>7 DEF Supervise

LEMMA HelperPasses ==
  ASSUME ManagerInv, NEW h \in Helpers, Helper(h)
  PROVE  Passes
<1>1. CASE HelperSpawns(h) \/ HelperAbandons(h) \/ HelperReads(h) \/ HelperReaps(h) \/ HelperCrashes(h)
  BY <1>1, SamePasses DEF HelperSpawns, HelperAbandons, HelperReads, HelperReaps, HelperCrashes,
     DropLease, authority
<1>2. CASE \E o \in WriteOutcome : HelperAcquires(h, o)
  BY <1>2, SamePasses DEF HelperAcquires, Acquire, Free, NoOwner, engines
<1>3. CASE \E o \in RemoveOutcome : HelperSpawnFails(h, o) \/ HelperRecovers(h, o)
  BY <1>3, SamePasses DEF HelperSpawnFails, HelperRecovers, Finish, Acknowledge, NoOwner, engines
<1>4. ASSUME NEW o \in RemoveOutcome, NEW c \in BOOLEAN, HelperFinishes(h, c, o)
      PROVE  Passes
  <2>1. /\ helper[h].pc = "drain" /\ (owner' = owner \/ owner' = NoOwner)
        /\ engine' = [engine EXCEPT ![h] = Dead(engine[h].dirty)]
    BY <1>4 DEF HelperFinishes, DropLease, Finish
  <2>2. /\ engine[h].st = "gone" /\ Dead(engine[h].dirty).st = "gone" /\ h \in Attempt
        /\ Dead(engine[h].dirty).dirty = engine[h].dirty /\ engine \in [Attempt -> Processes]
    BY <2>1, HelperFacts, DeadTyped
  <2>3. \A a \in Attempt : Busy(a)' <=> Busy(a)
    BY <2>1, <2>2 DEF Busy
  <2>4. owner' = owner \/ owner'.attempt = Nobody
    BY <2>1 DEF NoOwner
  <2> QED BY <2>3, <2>4 DEF Passes
<1> QED BY <1>1, <1>2, <1>3, <1>4 DEF Helper

LEMMA EveryStepPasses ==
  ASSUME ManagerInv, [Next]_mvars
  PROVE  Passes
<1>1. CASE Start \/ Shutdown \/ Exit \/ Crash \/ Reboot
  BY <1>1, SamePasses DEF Start, Shutdown, Exit, Crash, Gone, Reboot, authority
<1>2. CASE \E p \in Profile : Command(p) \/ Stop(p)
  BY <1>2, SamePasses DEF Command, Connect, Disconnect, Evict, Stop, StopTerm, StopKill, StopSkip, StopReturn,
     authority
<1>3. CASE \E t \in Fresh : Supervise(t) \/ ReadEvent(t)
  BY <1>3, SupervisePasses, SamePasses DEF ReadEvent, authority
<1>4. CASE \E a \in Attempt : Engine(a)
  BY <1>4, SamePasses DEF Engine, EngineEnds, EngineRefused, EngineConfigures, EngineExits, EngineDies,
     EngineMisreports, authority
<1>5. CASE Operator
  BY <1>5, SamePasses DEF Operator, OperatorRestores, AcknowledgeOwner, AcknowledgeRecord, Acknowledge,
     NoOwner, engines, authority
<1>6. CASE \E h \in Helpers : Helper(h)
  BY <1>6, HelperPasses
<1>7. CASE UNCHANGED mvars
  BY <1>7, SamePasses DEF mvars, authority
<1> QED BY <1>1, <1>2, <1>3, <1>4, <1>5, <1>6, <1>7 DEF Next

\* The machine is claimed while it is free, worked on by its owner only, and
\* given up only when the owner has stopped and cleaned up, through retries,
\* crashes, restarts and reboots and against any number of helpers.
THEOREM ManagerHonoursLease == Spec => LeaseHonoured
<1>1. Init => Lease!Init
  <2> SUFFICES ASSUME Init
               PROVE  owner.attempt = Nobody /\ {a \in Attempt : Busy(a)} = {}
    BY DEF Lease!Init
  <2>1. NoEngine.st = "none" /\ ~NoEngine.dirty /\ NoOwner.attempt = Nobody
    BY DEF NoEngine, NoOwner
  <2>2. \A a \in Attempt : ~Busy(a)
    BY <2>1 DEF Init, Busy
  <2> QED BY <2>1, <2>2 DEF Init, AuthorityInit
<1>2. ManagerInv /\ ManagerInv' /\ [Next]_mvars => [Lease!Next]_(Lease!vars)
  BY EveryStepPasses, LeaseStep
<1> QED BY <1>1, <1>2, ManagerInductive, PTL DEF Spec, LeaseHonoured, Lease!Spec
=============================================================================

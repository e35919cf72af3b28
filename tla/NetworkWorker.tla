---------------------------- MODULE NetworkWorker ----------------------------
(***************************************************************************)
(* The Linux transactions of crates/manager-core/src/network_linux_worker  *)
(* on top of NetworkTxn.  A worker thread opens the locked store for one   *)
(* job, an apply or a release of one attempt.  Around the transaction it   *)
(* keeps a second durable record, binding-<attempt>.json: written before   *)
(* the journal is touched, unlinked only when the journal on disk no       *)
(* longer has the attempt.                                                 *)
(*                                                                         *)
(* A binding record is a plan and the identity of the PPP link it was made *)
(* for; links differ only as plans do, so the record is the plan here.     *)
(* The check that the link is still the same one fails whenever it likes.  *)
(***************************************************************************)
EXTENDS NetworkTxn

CONSTANTS
  Submission,  \* requests the native control channel hands over
  Transport    \* address of the VPN gateway, never routed into the tunnel

VARIABLES
  bindings,  \* plan in binding-<attempt>.json, or NoPlan
  job,       \* the job of the worker that holds the lock
  step,      \* where the worker is
  answer     \* what the last job returned

worker == <<bindings, job, step, answer>>
wvars == <<vars, worker>>

NoPlan == [file |-> "missing"]
NoJob == [kind |-> "none"]

\* The stable sort of apply_with: DNS after the routes it needs.
DnsLast(request) ==
  [request EXCEPT !.resources = SelectSeq(@, LAMBDA r : r.kind = "route")
                             \o SelectSeq(@, LAMBDA r : r.kind = "dns")]

ASSUME SubmissionAssumption == \A q \in Submission : DnsLast(q) \in Request /\ q \in Request

\* What sort_by_key does to a submission: no scope comes before a route.
ASSUME SortAssumption ==
  \A q \in Submission : \A i, j \in DOMAIN DnsLast(q).resources :
    DnsLast(q).resources[i].kind = "route" /\ DnsLast(q).resources[j].kind = "dns" => i < j

Job ==
  {[kind |-> "apply", attempt |-> q.attempt, plan |-> [request |-> DnsLast(q), epoch |-> e]] :
     q \in Submission, e \in 0..MaxEpoch}
  \cup [kind : {"release"}, attempt : Attempt]

\* contains(): does the route apply to the address?
Routed(route, address) == Masked(address, route.bits) = route.address

\* validate_plan: split routes over the link and one DNS scope behind them.
\* The servers of a scope are its field "via".
ValidLinux(plan) ==
  LET resources == plan.request.resources
  IN  /\ ValidResources(resources)
      /\ \A i \in DOMAIN resources :
           LET r == resources[i]
           IN  \/ /\ r.kind = "route"
                  /\ ~r.gateway_exception /\ r.bits # 0
                  /\ ~Routed(r, Transport)
               \/ /\ r.kind = "dns"
                  /\ r.domains # {}
                  /\ \A server \in r.via : \E j \in DOMAIN resources :
                       resources[j].kind = "route" /\ Routed(resources[j], server)
      /\ \A i, j \in DOMAIN resources :
           resources[i].kind = "dns" /\ resources[j].kind = "dns" => i = j

WorkerInit ==
  /\ Init
  /\ bindings = [a \in Attempt |-> NoPlan]
  /\ job = NoJob /\ step = "idle" /\ answer = "none"

\* LockedStore::open at the start of LinuxTransactions::apply and release.
Begin(j) ==
  /\ step = "idle"
  /\ Open
  /\ job' = j /\ step' = "opened" /\ answer' = "none"
  /\ UNCHANGED bindings

\* The job returns and drops the store.
Quit(res) ==
  /\ Close
  /\ job' = NoJob /\ step' = "idle" /\ answer' = res

-----------------------------------------------------------------------------
\* apply_with

Acceptable(plan) ==
  /\ ValidLinux(plan) /\ Preview(mem, plan)
  /\ bindings[job.attempt] \in {NoPlan, plan}

\* Refused before anything is written.
ApplyRejected(verified) ==
  /\ step = "opened" /\ job.kind = "apply"
  /\ ~(verified /\ Acceptable(job.plan))
  /\ Quit("err")
  /\ UNCHANGED bindings

\* Mutant: the transaction goes ahead although the binding was not written.
BindProceeds(outcome) == TRUE

\* files.save(..)? returns on an error.
BindSucceeds(outcome) == outcome = "ok"

\* Files::save, unless the same record is there already.
ApplyBind(outcome) ==
  /\ step = "opened" /\ job.kind = "apply" /\ Acceptable(job.plan)
  /\ bindings[job.attempt] = job.plan => outcome = "ok"
  /\ bindings' = IF outcome = "unwritten" THEN bindings
                 ELSE [bindings EXCEPT ![job.attempt] = job.plan]
  /\ IF BindSucceeds(outcome)
     THEN step' = "bound" /\ UNCHANGED <<vars, job, answer>>
     ELSE Quit("err")

\* No backend (systemd-resolved cannot be reached): nothing is prepared.
ApplyNoBackend ==
  /\ step = "bound"
  /\ step' = "called"
  /\ UNCHANGED <<vars, bindings, job, answer>>

ApplyPrepare ==
  /\ step = "bound"
  /\ \/ PrepareRefused(job.plan)
     \/ PrepareRepeated(job.plan)
     \/ \E o \in SaveOutcome : Prepare(job.plan, o)
  /\ step' = IF result' = "ok" THEN "prepared" ELSE "called"
  /\ UNCHANGED <<bindings, job, answer>>

ApplyCall ==
  /\ step = "prepared"
  /\ \/ ApplyNothing(job.attempt)
     \/ ApplyRefused(job.attempt)
     \/ \E o \in SaveOutcome : ApplyBegin(job.attempt, o)
  /\ step' = "called"
  /\ UNCHANGED <<bindings, job, answer>>

-----------------------------------------------------------------------------
\* release_with

\* Without a binding there must be nothing, in memory and on disk.
ReleaseUnbound(readable) ==
  /\ step = "opened" /\ job.kind = "release" /\ bindings[job.attempt] = NoPlan
  /\ Quit(IF readable /\ job.attempt \notin Present(mem) \cup Present(disk)
          THEN "ok" ELSE "err")
  /\ UNCHANGED bindings

SamePlan ==
  job.attempt \in Present(mem) => mem.records[job.attempt].plan = bindings[job.attempt]

\* Another plan, another link, or no backend.
ReleaseRejected(verified) ==
  /\ step = "opened" /\ job.kind = "release" /\ bindings[job.attempt] # NoPlan
  /\ ~(verified /\ SamePlan)
  /\ Quit("err")
  /\ UNCHANGED bindings

\* store.release, or the shortcut for an attempt that has no record.
ReleaseCall ==
  /\ step = "opened" /\ job.kind = "release" /\ bindings[job.attempt] # NoPlan
  /\ SamePlan
  /\ \/ ReleaseNothing(job.attempt)
     \/ \E o \in SaveOutcome : ReleaseBegin(job.attempt, o)
  /\ step' = "called"
  /\ UNCHANGED <<bindings, job, answer>>

-----------------------------------------------------------------------------
\* The transaction runs, then finish_if_absent.

Transaction ==
  /\ step = "called"
  /\ \/ ApplyInspectFails \/ ApplyBorrowed \/ ApplyShared \/ ReleaseSkip
     \/ \E o \in SaveOutcome :
          \/ ApplySave(o) \/ ApplyFailed(o) \/ ApplyCommit(o)
          \/ pc = "rollback" /\ ReleaseBegin(job.attempt, o)
          \/ ReleaseSave(o) \/ ReleaseFailed(o) \/ ReleaseCommit(o)
     \/ \E ok, done \in BOOLEAN : ApplyCreate(ok, done) \/ ReleaseRemove(ok, done)
     \/ \E ok \in BOOLEAN : ReleaseUncertain(ok)
  /\ UNCHANGED worker

\* Mutant: the coordinator in memory is believed.
MemoryAbsent(a) == mem.records[a] = NoRecord

\* durable_absent: the journal on disk decides, after a reload.
DurableAbsent(a) == disk.records[a] = NoRecord

\* Files::remove: done, refused before the unlink (or undone by saving the
\* record again), or unlinked without a directory sync.
RemoveOutcome == {"ok", "kept", "unsynced"}

Finish(outcome) ==
  /\ step = "called" /\ pc = "open"
  /\ IF DurableAbsent(job.attempt)
     THEN /\ bindings' = IF outcome = "kept" THEN bindings
                         ELSE [bindings EXCEPT ![job.attempt] = NoPlan]
          /\ Quit(IF outcome = "ok" /\ result = "ok" THEN "ok" ELSE "err")
     ELSE /\ Quit(IF outcome = "ok" /\ result = "ok" /\ job.kind = "apply" THEN "ok" ELSE "err")
          /\ UNCHANGED bindings

WorkerCrash ==
  /\ step # "idle"
  /\ Close \/ Crash
  /\ job' = NoJob /\ step' = "idle" /\ answer' = "none"
  /\ UNCHANGED bindings

Outside ==
  /\ \E r \in Resource, id \in Foreign \cup {Absent} : External(r, id)
  /\ UNCHANGED worker

WorkerNext ==
  \/ \E j \in Job : Begin(j)
  \/ \E verified \in BOOLEAN : ApplyRejected(verified) \/ ReleaseRejected(verified)
  \/ \E readable \in BOOLEAN : ReleaseUnbound(readable)
  \/ \E o \in SaveOutcome : ApplyBind(o)
  \/ ApplyNoBackend \/ ApplyPrepare \/ ApplyCall
  \/ ReleaseCall
  \/ Transaction
  \/ \E o \in RemoveOutcome : Finish(o)
  \/ WorkerCrash
  \/ Outside

WorkerSpec == WorkerInit /\ [][WorkerNext]_wvars

-----------------------------------------------------------------------------
\* Properties

WorkerTypeOK ==
  /\ TypeOK
  /\ bindings \in [Attempt -> Plan \cup {NoPlan}]
  /\ job \in Job \cup {NoJob}
  /\ step \in {"idle", "opened", "bound", "prepared", "called"}
  /\ answer \in {"none", "ok", "err"}

\* Every record in the journal has its binding, with the same plan: after any
\* crash, failed write or failed unlink, recovery finds which link the routes
\* were made for (apply_with's order, finish_if_absent's reload).
BindingAnchors ==
  \A a \in Present(disk) : bindings[a] = disk.records[a].plan

\* The answer of a job is the truth: a release that returns Ok left neither a
\* record on disk (so, with NoOrphan, nothing the attempt created) nor a
\* binding; an apply that returns Ok left an active record of the plan, its
\* binding, and every resource in place unless somebody else changed it.
AnswersKept ==
  [][step # "idle" /\ answer' = "ok" =>
       LET a == job.attempt
       IN  IF job.kind = "release"
           THEN disk'.records[a] = NoRecord /\ bindings'[a] = NoPlan
           ELSE /\ disk'.records[a].phase = "Active"
                /\ disk'.records[a].plan = job.plan /\ bindings'[a] = job.plan
                /\ \A i \in DOMAIN job.plan.request.resources :
                     LET r == job.plan.request.resources[i]
                     IN  r \in touched' \/ os'[r] # Absent]_wvars

\* "DNS traffic must have its VPN routes before link DNS is installed": a scope
\* is created only when every route of its plan is in place, whatever order the
\* plan was submitted in, unless somebody else removed one.
RoutesBeforeDns ==
  [][\A d \in Resource :
       d.kind = "dns" /\ os[d] # Own /\ os'[d] = Own =>
         \A i \in DOMAIN job.plan.request.resources :
           LET r == job.plan.request.resources[i]
           IN  r.kind = "route" => r \in touched \/ os[r] # Absent]_wvars

\* Journal, binding files and machine account for one another at every step.
JournalAnchored == WorkerTypeOK /\ NoOrphan /\ BindingAnchors

-----------------------------------------------------------------------------
\* The inductive strengthening of JournalAnchored and JobsHonest.

\* The records of s are of the plans that are bound.
Anchored(s) == \A a \in Present(s) : bindings[a] = s.records[a].plan

\* A binding is of its attempt and was accepted (validate_plan).
BindingsValid ==
  \A a \in Attempt : bindings[a] # NoPlan =>
    ValidLinux(bindings[a]) /\ bindings[a].request.attempt = a

\* Where the worker is and where its transaction is.
Places ==
  /\ step = "idle" <=> pc = "closed"
  /\ step \in {"opened", "bound", "prepared"} => pc = "open"
  /\ step \in {"opened", "bound"} => result = "none"
  /\ step = "idle" <=> job = NoJob
  /\ step # "idle" => answer = "none"
  /\ step = "opened" => Present(mem) = Present(disk)
  /\ step \in {"bound", "prepared"} => job.kind = "apply"
  /\ step \in {"bound", "prepared", "called"} => bindings[job.attempt] # NoPlan
  /\ step \in {"bound", "prepared", "called"} /\ job.kind = "apply" =>
       bindings[job.attempt] = job.plan
  /\ InCall => cur = job.attempt /\ call = job.kind
  /\ pc \in {"applyEntry", "applySave"} => job.kind = "apply"
  /\ step = "called" /\ pc = "open" /\ result = "ok" /\ job.kind = "apply" =>
       disk.records[job.attempt].phase = "Active"

\* What lets a worker believe its two records: whatever is in the journal or in
\* memory is bound, and where its transaction stands says what its answer will be.
WorkerInv ==
  /\ WorkerTypeOK /\ IInv /\ LeaseInv
  /\ Anchored(mem) /\ Anchored(disk) /\ BindingsValid
  /\ Places

\* A job does what it answers, routes before the scopes that need them.
JobsHonest == AnswersKept /\ RoutesBeforeDns
=============================================================================

----------------------------- MODULE NetworkTxn -----------------------------
(***************************************************************************)
(* The durable network transactions of crates/manager-core/src/network.rs: *)
(* a Coordinator, loaded from the journal network.json under the lock file *)
(* .network.lock (LockedStore), prepares, applies and releases the routes  *)
(* and DNS scopes of connection attempts.  Every backend call and every    *)
(* journal write may fail, the process may die between any two of them,    *)
(* and the rest of the machine changes routes and DNS whenever it likes.   *)
(*                                                                         *)
(* The lock makes the holder the only writer of the journal, so one        *)
(* in-memory snapshot, mem, is enough.  A change of mem and the save that  *)
(* follows it are one step, because a crash between them loses only mem;   *)
(* a backend call and the save that records it are two.                    *)
(***************************************************************************)
EXTENDS NetworkResources, FiniteSets

CONSTANTS
  Attempt,     \* attempt ids
  Profile,     \* profile ids
  Resource,    \* resources a plan may name
  Request,     \* plans managers submit, without their epoch
  Own,         \* identity a backend reports for a resource it created
  Foreign,     \* identities of resources somebody else created
  MaxEpoch,    \* u64::MAX, where network_epoch saturates
  MaxRecords,  \* 512 in the code
  Hostile      \* may others alter a shareable resource we created?

\* Option::None of a fingerprint; the identity of a missing resource.
Absent == "absent"

ASSUME IdentityAssumption ==
  Own \notin Foreign /\ Own # Absent /\ Absent \notin Foreign

ASSUME RequestAssumption ==
  Request \subseteq [attempt : Attempt, profile : Profile, resources : Seq(Resource)]

\* What parse of a plan yields: a destination with its prefix length, or a scope
\* whose domains are sequences of labels.
ASSUME ResourceAssumption ==
  \A r \in Resource :
    \/ r.kind = "route" /\ r.bits \in Nat /\ r.gateway_exception \in BOOLEAN
    \/ r.kind = "dns" /\ \A d \in r.domains : d \in Seq(STRING)

ASSUME BoundAssumption ==
  MaxEpoch \in Nat /\ MaxRecords \in Nat /\ Hostile \in BOOLEAN

Identity == Foreign \cup {Own, Absent}

Plan == [request : Request, epoch : 0..MaxEpoch]

Phase == {"Prepared", "Applying", "Active", "Releasing", "RecoveryRequired"}

Entry == [fingerprint : Identity, borrowed : BOOLEAN]

\* entries[i] belongs to plan.request.resources[i].
Record == [plan : Plan, phase : Phase, uncertain : BOOLEAN, entries : Seq(Entry)]

\* No apply or release is under way.
NoAttempt == "no attempt"

\* The attempt has no record in the snapshot.
NoRecord == [phase |-> "None", uncertain |-> FALSE, entries |-> <<>>]

EmptySnapshot == [epoch |-> 0, records |-> [a \in Attempt |-> NoRecord]]

VARIABLES
  disk,    \* the snapshot in network.json
  mem,     \* Coordinator.snapshot of the process that holds the lock
  os,      \* identity of each resource in the operating system
  touched, \* history: resources others have changed at some time
  pc,      \* where the lock holder is
  cur,     \* attempt whose apply or release is under way
  call,    \* the LockedStore call under way
  idx,     \* entry the loop of apply or release is at
  failed,  \* release's local flag
  result   \* what the last call returned

store == <<disk, mem>>
local == <<cur, call, idx, failed, result>>
vars == <<disk, mem, os, touched, pc, cur, call, idx, failed, result>>

-----------------------------------------------------------------------------

Present(s) == {a \in Attempt : s.records[a] # NoRecord}

ResourceOf(rec, i) == rec.plan.request.resources[i]

SetRecord(s, a, rec) == [s EXCEPT !.records[a] = rec]

SetPhase(s, a, phase, uncertain) ==
  [s EXCEPT !.records[a].phase = phase, !.records[a].uncertain = uncertain]

SetFingerprint(s, a, i, id) == [s EXCEPT !.records[a].entries[i].fingerprint = id]

\* Coordinator::from_snapshot: an interrupted apply is recovered, not resumed.
FromSnapshot(s) ==
  [s EXCEPT !.records = [a \in Attempt |->
     IF @[a].phase = "Applying"
     THEN [@[a] EXCEPT !.phase = "RecoveryRequired", !.uncertain = TRUE]
     ELSE @[a]]]

\* Mutant: the epoch moves on, the records stay as they are.
InvalidatedEpochOnly(s) ==
  [s EXCEPT !.epoch = IF @ = MaxEpoch THEN MaxEpoch ELSE @ + 1]

\* network_changed: a new epoch, and every record waits for recovery.
Invalidated(s) ==
  [epoch |-> IF s.epoch = MaxEpoch THEN MaxEpoch ELSE s.epoch + 1,
   records |-> [a \in Attempt |->
     IF s.records[a] = NoRecord THEN NoRecord
     ELSE [s.records[a] EXCEPT !.phase = "RecoveryRequired", !.uncertain = TRUE]]]

\* FileJournal::save over atomic_file::write_private: the rename may not have
\* happened when an error is reported, or only the directory sync after it.
SaveOutcome == {"ok", "unwritten", "unsynced"}

Save(snapshot, outcome) ==
  disk' = IF outcome = "unwritten" THEN disk ELSE snapshot

\* A call returns to the client, which still holds the lock.
Return(res) ==
  /\ pc' = "open" /\ result' = res
  /\ cur' = NoAttempt /\ call' = "none" /\ idx' = 0 /\ failed' = FALSE

\* May the record of another attempt stand beside plan?
Compatible(rec, plan) ==
  /\ rec.plan.request.profile # plan.request.profile
  /\ \A i \in DOMAIN plan.request.resources, j \in DOMAIN rec.entries :
       LET r == plan.request.resources[i]
           q == ResourceOf(rec, j)
       IN  Conflicts(r, q) => Shareable(r, q)

\* Coordinator::preview: may plan be added to (or repeated in) snapshot s?
Preview(s, plan) ==
  /\ ValidResources(plan.request.resources)
  /\ plan.epoch = s.epoch
  /\ \A a \in Present(s) :
       LET rec == s.records[a]
       IN  IF a = plan.request.attempt
           THEN rec.phase \in {"Prepared", "Active"} /\ rec.plan = plan
           ELSE Compatible(rec, plan)

\* Mutant: a borrowed entry counts as a creation.
CreatedOrBorrowed(rec, r, id) ==
  \E i \in DOMAIN rec.entries :
    /\ id # Absent /\ rec.entries[i].fingerprint = id
    /\ Shareable(r, ResourceOf(rec, i))

\* Does record rec own resource r, created by us, with identity id?
Created(rec, r, id) ==
  \E i \in DOMAIN rec.entries :
    /\ ~rec.entries[i].borrowed
    /\ id # Absent /\ rec.entries[i].fingerprint = id
    /\ Shareable(r, ResourceOf(rec, i))

\* What prepare records of the resources it inspected: an existing one is
\* borrowed unless a record says that this program created it.
PreparedRecord(s, o, plan) ==
  [plan |-> plan, phase |-> "Prepared", uncertain |-> FALSE,
   entries |-> [i \in 1..Len(plan.request.resources) |->
     LET r == plan.request.resources[i]
     IN  [fingerprint |-> o[r],
          borrowed |-> /\ o[r] # Absent
                       /\ ~\E a \in Attempt : Created(s.records[a], r, o[r])]]]

-----------------------------------------------------------------------------
\* The client: lock and load, then any calls, then drop the store.

Init ==
  /\ disk = EmptySnapshot
  /\ mem = EmptySnapshot
  /\ os \in [Resource -> Foreign \cup {Absent}]
  /\ touched = {}
  /\ pc = "closed" /\ cur = NoAttempt /\ call = "none"
  /\ idx = 0 /\ failed = FALSE /\ result = "none"

\* LockedStore::open_locked.
Open ==
  /\ pc = "closed"
  /\ mem' = FromSnapshot(disk)
  /\ pc' = "open" /\ result' = "none"
  /\ UNCHANGED <<disk, os, touched, cur, call, idx, failed>>

Leave ==
  /\ mem' = EmptySnapshot
  /\ pc' = "closed" /\ result' = "none"
  /\ cur' = NoAttempt /\ call' = "none" /\ idx' = 0 /\ failed' = FALSE
  /\ UNCHANGED <<disk, os, touched>>

\* Drop of the LockedStore.
Close == pc = "open" /\ Leave

\* The process dies inside a call; the kernel drops its lock.
Crash == pc \notin {"closed", "open"} /\ Leave

\* LockedStore::network_changed.
NetworkChanged(outcome) ==
  /\ pc = "open"
  /\ mem' = Invalidated(mem)
  /\ Save(mem', outcome)
  /\ Return(IF outcome = "ok" THEN "ok" ELSE "err")
  /\ UNCHANGED <<os, touched>>

-----------------------------------------------------------------------------
\* prepare

\* Rejected by preview or the capacity, or an inspection failed.
PrepareRefused(plan) ==
  /\ pc = "open"
  /\ \/ ~Preview(mem, plan)
     \/ /\ plan.request.attempt \notin Present(mem)
        /\ \/ Cardinality(Present(mem)) = MaxRecords
           \/ plan.request.resources # <<>>
  /\ Return("err")
  /\ UNCHANGED <<store, os, touched>>

PrepareRepeated(plan) ==
  /\ pc = "open"
  /\ Preview(mem, plan)
  /\ plan.request.attempt \in Present(mem)
  /\ Return("ok")
  /\ UNCHANGED <<store, os, touched>>

Prepare(plan, outcome) ==
  LET a == plan.request.attempt
      added == SetRecord(mem, a, PreparedRecord(mem, os, plan))
  IN  /\ pc = "open"
      /\ Preview(mem, plan)
      /\ a \notin Present(mem)
      /\ Cardinality(Present(mem)) # MaxRecords
      /\ Save(added, outcome)
      /\ mem' = IF outcome = "ok" THEN added ELSE mem
      /\ Return(IF outcome = "ok" THEN "ok" ELSE "err")
      /\ UNCHANGED <<os, touched>>

-----------------------------------------------------------------------------
\* apply_or_rollback

\* apply returns at once: already active, or no such record (nothing to roll back).
ApplyNothing(a) ==
  /\ pc = "open"
  /\ mem.records[a].phase \in {"None", "Active"}
  /\ Return(IF mem.records[a].phase = "Active" THEN "ok" ELSE "err")
  /\ UNCHANGED <<store, os, touched>>

\* apply refuses a record that is not Prepared; apply_or_rollback releases it.
ApplyRefused(a) ==
  /\ pc = "open"
  /\ mem.records[a].phase \in {"Applying", "Releasing", "RecoveryRequired"}
  /\ call' = "apply" /\ cur' = a /\ pc' = "rollback" /\ result' = "none"
  /\ UNCHANGED <<store, os, touched, idx, failed>>

ApplyBegin(a, outcome) ==
  /\ pc = "open"
  /\ mem.records[a].phase = "Prepared"
  /\ mem' = SetPhase(mem, a, "Applying", TRUE)
  /\ Save(mem', outcome)
  /\ call' = "apply" /\ cur' = a /\ result' = "none"
  /\ IF outcome = "ok" THEN pc' = "applyEntry" /\ idx' = 1
                       ELSE pc' = "rollback" /\ idx' = 0
  /\ UNCHANGED <<os, touched, failed>>

CurRecord == mem.records[cur]
CurEntry == CurRecord.entries[idx]
CurResource == ResourceOf(CurRecord, idx)

InApplyLoop == pc = "applyEntry" /\ idx <= Len(CurRecord.entries)

\* backend.inspect(..)? fails: apply returns, its record still Applying.
ApplyInspectFails ==
  /\ InApplyLoop
  /\ pc' = "rollback" /\ idx' = 0
  /\ UNCHANGED <<store, os, touched, cur, call, failed, result>>

ApplyBorrowed ==
  /\ InApplyLoop /\ CurEntry.borrowed
  /\ IF os[CurResource] = CurEntry.fingerprint
     THEN pc' = pc /\ idx' = idx + 1
     ELSE pc' = "applyFailed" /\ UNCHANGED idx
  /\ UNCHANGED <<store, os, touched, cur, call, failed, result>>

\* Entry j of attempt b created the resource the loop is at and is active.
Sharer(b, j) ==
  LET rec == mem.records[b]
  IN  /\ b # cur /\ rec.phase = "Active"
      /\ ~rec.entries[j].borrowed
      /\ Shareable(CurResource, ResourceOf(rec, j))

HasSharer == \E b \in Attempt : \E j \in DOMAIN mem.records[b].entries : Sharer(b, j)

ApplyShared ==
  /\ InApplyLoop /\ ~CurEntry.borrowed
  /\ \E b \in Attempt : \E j \in DOMAIN mem.records[b].entries :
       LET id == mem.records[b].entries[j].fingerprint
       IN  /\ Sharer(b, j)
           /\ IF os[CurResource] = id
              THEN mem' = SetFingerprint(mem, cur, idx, id) /\ pc' = "applySave"
              ELSE mem' = mem /\ pc' = "applyFailed"
  /\ UNCHANGED <<disk, os, touched, local>>

\* The resource must be missing, and backend.apply checks it again; it may
\* report an error although the resource now exists.
ApplyCreate(ok, created) ==
  /\ InApplyLoop /\ ~CurEntry.borrowed /\ ~HasSharer
  /\ IF os[CurResource] = Absent
     THEN /\ ok => created
          /\ os' = IF created THEN [os EXCEPT ![CurResource] = Own] ELSE os
          /\ mem' = IF ok THEN SetFingerprint(mem, cur, idx, Own) ELSE mem
          /\ pc' = IF ok THEN "applySave" ELSE "applyFailed"
     ELSE /\ ~ok /\ ~created
          /\ pc' = "applyFailed" /\ UNCHANGED <<os, mem>>
  /\ UNCHANGED <<disk, touched, local>>

\* Record the fingerprint the backend returned.
ApplySave(outcome) ==
  /\ pc = "applySave"
  /\ Save(mem, outcome)
  /\ IF outcome = "ok" THEN pc' = "applyEntry" /\ idx' = idx + 1
                       ELSE pc' = "rollback" /\ idx' = 0
  /\ UNCHANGED <<mem, os, touched, cur, call, failed, result>>

\* failed(): mark the record, then the rollback of apply_or_rollback.
ApplyFailed(outcome) ==
  /\ pc = "applyFailed"
  /\ mem' = SetPhase(mem, cur, "RecoveryRequired", CurRecord.uncertain)
  /\ Save(mem', outcome)
  /\ pc' = "rollback" /\ idx' = 0
  /\ UNCHANGED <<os, touched, cur, call, failed, result>>

ApplyCommit(outcome) ==
  LET active == SetPhase(mem, cur, "Active", FALSE)
  IN  /\ pc = "applyEntry" /\ idx > Len(CurRecord.entries)
      /\ Save(active, outcome)
      /\ IF outcome = "ok"
         THEN mem' = active /\ Return("ok")
         ELSE /\ mem' = SetPhase(mem, cur, "RecoveryRequired", TRUE)
              /\ pc' = "rollback" /\ idx' = 0
              /\ UNCHANGED <<cur, call, failed, result>>
      /\ UNCHANGED <<os, touched>>

-----------------------------------------------------------------------------
\* release, called by the client or by the rollback of an apply

\* The value a release that ends with res makes its caller return.
Outcome(res) == IF call = "apply" THEN "err" ELSE res

ReleaseNothing(a) ==
  /\ pc = "open"
  /\ mem.records[a] = NoRecord
  /\ Return("ok")
  /\ UNCHANGED <<store, os, touched>>

StillUncertain(rec) ==
  rec.uncertain \/ rec.phase \in {"Applying", "RecoveryRequired"}

ReleaseBegin(a, outcome) ==
  LET rec == mem.records[a]
  IN  /\ pc = "open" \/ (pc = "rollback" /\ a = cur)
      /\ rec # NoRecord
      /\ mem' = SetPhase(mem, a, "Releasing", StillUncertain(rec))
      /\ Save(mem', outcome)
      /\ IF outcome = "ok"
         THEN /\ pc' = "releaseEntry" /\ idx' = Len(rec.entries)
              /\ cur' = a /\ call' = IF pc = "open" THEN "release" ELSE call
              /\ failed' = FALSE /\ result' = "none"
         ELSE Return("err")
      /\ UNCHANGED <<os, touched>>

InReleaseLoop == pc = "releaseEntry" /\ idx > 0

\* Another record carries the same shareable resource with this identity.
SharedElsewhere ==
  \E b \in Attempt \ {cur} : \E j \in DOMAIN mem.records[b].entries :
    /\ Shareable(CurResource, ResourceOf(mem.records[b], j))
    /\ mem.records[b].entries[j].fingerprint = CurEntry.fingerprint

\* The entry needs no backend call: borrowed, never applied, or shared.
ReleaseSkip ==
  /\ InReleaseLoop
  /\ \/ CurEntry.borrowed
     \/ CurEntry.fingerprint = Absent /\ ~CurRecord.uncertain
     \/ CurEntry.fingerprint # Absent /\ SharedElsewhere
  /\ idx' = idx - 1
  /\ UNCHANGED <<store, os, touched, pc, cur, call, failed, result>>

\* Mutant: only an inspection that fails counts.
UnconfirmedIfUnreadable(inspected) == ~inspected

\* The resource was not seen to be missing.
Unconfirmed(inspected) == ~inspected \/ os[CurResource] # Absent

\* An interrupted apply left no fingerprint: only a missing resource is safe.
ReleaseUncertain(inspected) ==
  /\ InReleaseLoop
  /\ ~CurEntry.borrowed /\ CurEntry.fingerprint = Absent /\ CurRecord.uncertain
  /\ failed' = (failed \/ Unconfirmed(inspected))
  /\ idx' = idx - 1
  /\ UNCHANGED <<store, os, touched, pc, cur, call, result>>

\* Remove what still has our identity.  An inspection or removal that fails,
\* even after the resource went away, is remembered and the loop goes on.
ReleaseRemove(ok, removed) ==
  /\ InReleaseLoop
  /\ ~CurEntry.borrowed /\ CurEntry.fingerprint # Absent /\ ~SharedElsewhere
  /\ removed => os[CurResource] = CurEntry.fingerprint
  /\ ok => os[CurResource] = Absent \/ removed
  /\ os' = IF removed THEN [os EXCEPT ![CurResource] = Absent] ELSE os
  /\ IF ok THEN /\ mem' = SetFingerprint(mem, cur, idx, Absent)
                /\ pc' = "releaseSave" /\ UNCHANGED <<idx, failed>>
           ELSE /\ failed' = TRUE /\ idx' = idx - 1
                /\ UNCHANGED <<mem, pc>>
  /\ UNCHANGED <<disk, touched, cur, call, result>>

ReleaseSave(outcome) ==
  /\ pc = "releaseSave"
  /\ Save(mem, outcome)
  /\ IF outcome = "ok"
     THEN pc' = "releaseEntry" /\ idx' = idx - 1 /\ UNCHANGED <<cur, call, failed, result>>
     ELSE Return("err")
  /\ UNCHANGED <<mem, os, touched>>

\* failed() after a loop that could not confirm every removal.
ReleaseFailed(outcome) ==
  /\ pc = "releaseEntry" /\ idx = 0 /\ failed
  /\ mem' = SetPhase(mem, cur, "RecoveryRequired", CurRecord.uncertain)
  /\ Save(mem', outcome)
  /\ Return("err")
  /\ UNCHANGED <<os, touched>>

ReleaseCommit(outcome) ==
  LET without == SetRecord(mem, cur, NoRecord)
  IN  /\ pc = "releaseEntry" /\ idx = 0 /\ ~failed
      /\ Save(without, outcome)
      /\ mem' = IF outcome = "ok" THEN without ELSE mem
      /\ Return(IF outcome = "ok" THEN Outcome("ok") ELSE "err")
      /\ UNCHANGED <<os, touched>>

-----------------------------------------------------------------------------
\* The rest of the machine replaces or removes any resource.

External(r, id) ==
  /\ os[r] # id
  /\ Hostile \/ ~(os[r] = Own /\ Shareable(r, r))
  /\ os' = [os EXCEPT ![r] = id]
  /\ touched' = touched \cup {r}
  /\ UNCHANGED <<store, pc, local>>

Next ==
  \/ Open \/ Close \/ Crash
  \/ ApplyInspectFails \/ ApplyBorrowed \/ ApplyShared \/ ReleaseSkip
  \/ \E o \in SaveOutcome :
       \/ NetworkChanged(o)
       \/ ApplySave(o) \/ ApplyFailed(o) \/ ApplyCommit(o)
       \/ ReleaseSave(o) \/ ReleaseFailed(o) \/ ReleaseCommit(o)
       \/ \E plan \in Plan : Prepare(plan, o)
       \/ \E a \in Attempt : ApplyBegin(a, o) \/ ReleaseBegin(a, o)
  \/ \E plan \in Plan : PrepareRefused(plan) \/ PrepareRepeated(plan)
  \/ \E a \in Attempt : ApplyNothing(a) \/ ApplyRefused(a) \/ ReleaseNothing(a)
  \/ \E ok, done \in BOOLEAN : ApplyCreate(ok, done) \/ ReleaseRemove(ok, done)
  \/ \E ok \in BOOLEAN : ReleaseUncertain(ok)
  \/ \E r \in Resource, id \in Foreign \cup {Absent} : External(r, id)

Spec == Init /\ [][Next]_vars

-----------------------------------------------------------------------------
\* Properties

\* Every journal FileJournal::load would read is well formed: one entry per
\* resource of the plan, filed under the plan's attempt.
WellFormed(s) ==
  /\ s \in [epoch : 0..MaxEpoch, records : [Attempt -> Record \cup {NoRecord}]]
  /\ \A a \in Attempt : s.records[a] # NoRecord =>
       /\ s.records[a].plan.request.attempt = a
       /\ Len(s.records[a].entries) = Len(s.records[a].plan.request.resources)

TypeOK ==
  /\ WellFormed(disk) /\ WellFormed(mem)
  /\ os \in [Resource -> Identity]
  /\ touched \subseteq Resource
  /\ pc \in {"closed", "open", "applyEntry", "applySave", "applyFailed",
             "rollback", "releaseEntry", "releaseSave"}
  /\ cur \in Attempt \cup {NoAttempt}
  /\ call \in {"none", "apply", "release"}
  /\ idx \in Nat
  /\ failed \in BOOLEAN
  /\ result \in {"none", "ok", "err"}

\* rec answers for resource r: it recorded creating r, or it may have created
\* r in an apply that was interrupted before its fingerprint was recorded.
Answers(rec, r) ==
  \E i \in DOMAIN rec.entries :
    /\ ResourceOf(rec, i) = r /\ ~rec.entries[i].borrowed
    /\ \/ rec.entries[i].fingerprint = Own
       \/ rec.entries[i].fingerprint = Absent /\ rec.uncertain

\* Whatever the coordinator created in the operating system is accounted for
\* by a record in the journal, so that no crash and no failed write leaves a
\* route or DNS scope nobody will ever remove (save before backend.apply, the
\* uncertain flag, and the removal order of release).
NoOrphan ==
  \A r \in Resource :
    os[r] = Own => \E a \in Attempt : Answers(disk.records[a], r)

\* The journal never lists somebody else's route as one this program created,
\* so release can never remove it (prepare's borrowed flag, apply's inspection).
OwnershipSound ==
  \A a \in Attempt : \A i \in DOMAIN disk.records[a].entries :
    LET e == disk.records[a].entries[i]
    IN  ~e.borrowed => e.fingerprint \in {Own, Absent}

\* "Removed when the last lease is released": a shared gateway exception route
\* this program created does not outlive the records that name it.
RemovedWithLastLease ==
  \A r \in Resource :
    os[r] = Own /\ Shareable(r, r) =>
      \E a \in Attempt : \E i \in DOMAIN disk.records[a].entries :
        ResourceOf(disk.records[a], i) = r

\* Entry i of rec is installed as it is recorded, or somebody else changed it.
InPlace(rec, i) ==
  LET r == ResourceOf(rec, i)
  IN  r \in touched \/ (os[r] = rec.entries[i].fingerprint /\ os[r] # Absent)

\* While an attempt is active in the journal, every resource of its plan is
\* installed with the identity recorded for it, unless somebody outside changed
\* it: no release, rollback or recovery of another attempt, and no crash, pulls
\* a shared gateway route from under it.
ActiveInstalled ==
  \A a \in Attempt :
    disk.records[a].phase = "Active" =>
      \A i \in DOMAIN disk.records[a].entries : InPlace(disk.records[a], i)

\* No two records of s belong to one profile or hold conflicting resources.
Apart(s) ==
  \A a, b \in Attempt :
    LET ra == s.records[a]
        rb == s.records[b]
    IN  (a # b /\ ra # NoRecord /\ rb # NoRecord) =>
          /\ ra.plan.request.profile # rb.plan.request.profile
          /\ \A i \in DOMAIN ra.entries, j \in DOMAIN rb.entries :
               Conflicts(ResourceOf(ra, i), ResourceOf(rb, j)) =>
                 Shareable(ResourceOf(ra, i), ResourceOf(rb, j))

\* Two attempts in the journal never belong to one profile and never hold
\* conflicting resources, whatever order prepares, failed saves, reloads and
\* network changes came in (preview).
Exclusive == Apart(disk)

\* A record that may still be applied, or counts as active, was planned for
\* the current network: network_changed leaves none from an older epoch, even
\* when its save fails or the process dies.  (Below the saturation point.)
EpochCurrent ==
  \A a \in Attempt :
    disk.records[a].phase \in {"Prepared", "Active"} =>
      disk.records[a].plan.epoch = disk.epoch

\* Uncertainty is durable: once a record in the journal says that an apply was
\* interrupted, only committing that apply or deleting the record ends it.
UncertaintySticks ==
  [][\A a \in Attempt :
       disk.records[a].uncertain /\ ~disk'.records[a].uncertain =>
         disk'.records[a] = NoRecord \/ pc = "applyEntry"]_vars

-----------------------------------------------------------------------------
\* The inductive strengthening of OwnershipSound and NoOrphan: what each part
\* of the state must satisfy, for both snapshots.

Pure(s) ==
  \A a \in Attempt : \A i \in DOMAIN s.records[a].entries :
    ~s.records[a].entries[i].borrowed =>
      s.records[a].entries[i].fingerprint \in {Own, Absent}

\* An active record knows every resource it created.
Complete(s) ==
  \A a \in Attempt : \A i \in DOMAIN s.records[a].entries :
    s.records[a].phase = "Active" /\ ~s.records[a].entries[i].borrowed =>
      s.records[a].entries[i].fingerprint = Own

\* A shareable resource of ours that somebody borrowed, because its creator
\* lost the fingerprint in a crash, is still there and has no recorded creator.
BorrowedOwn(s, o) ==
  \A a \in Attempt : \A i \in DOMAIN s.records[a].entries :
    LET r == ResourceOf(s.records[a], i)
    IN  /\ s.records[a].entries[i].borrowed
        /\ s.records[a].entries[i].fingerprint = Own
        /\ Shareable(r, r)
        => /\ o[r] = Own
           /\ \A b \in Attempt : \A j \in DOMAIN s.records[b].entries :
                ResourceOf(s.records[b], j) = r /\ ~s.records[b].entries[j].borrowed
                  => s.records[b].entries[j].fingerprint # Own

Covered(s, o) ==
  \A r \in Resource : o[r] = Own => \E a \in Attempt : Answers(s.records[a], r)

InCall == pc \notin {"closed", "open"}

\* A fact the journal must know about entry j of the record being released,
\* unless another record answers for the resource.
MustAnswer(rec, j) ==
  /\ os[ResourceOf(rec, j)] = Own /\ ~rec.entries[j].borrowed
  /\ \/ rec.entries[j].fingerprint = Own
     \/ rec.entries[j].fingerprint = Absent /\ rec.uncertain

\* The entries before idx have been applied.
ApplyProgress ==
  /\ CurRecord.phase = "Applying" /\ CurRecord.uncertain
  /\ idx >= 1
  /\ \A j \in DOMAIN CurRecord.entries :
       j < idx /\ ~CurRecord.entries[j].borrowed =>
         CurRecord.entries[j].fingerprint = Own

\* The entries after idx have been released, or somebody else answers for them.
ReleaseProgress ==
  /\ CurRecord.phase = "Releasing"
  /\ idx <= Len(CurRecord.entries)
  /\ \A j \in DOMAIN CurRecord.entries :
       ~failed /\ j > idx /\ MustAnswer(CurRecord, j) =>
         \E b \in Attempt \ {cur} : Answers(mem.records[b], ResourceOf(CurRecord, j))

\* Inside the loops the journal is what memory says, up to the save that is due.
ControlInv ==
  /\ InCall => cur \in Attempt /\ CurRecord # NoRecord
  /\ pc \in {"applyEntry", "applyFailed", "releaseEntry"} => disk = mem
  /\ pc \in {"applyEntry", "applySave"} => ApplyProgress
  /\ pc = "applySave" => /\ idx \in DOMAIN CurRecord.entries
                         /\ CurEntry.fingerprint = Own
  /\ pc \in {"releaseEntry", "releaseSave"} => ReleaseProgress
  /\ pc = "releaseSave" => /\ idx \in DOMAIN CurRecord.entries
                           /\ os[CurResource] # Own

SnapshotInv(s, o) == Pure(s) /\ Complete(s) /\ BorrowedOwn(s, o)

\* The journal and the memory of the lock holder, wherever a call stands,
\* account for everything this program created: what makes OwnershipSound and
\* NoOrphan survive every step of prepare, apply, release and network_changed.
IInv ==
  /\ TypeOK
  /\ ControlInv
  /\ SnapshotInv(mem, os) /\ SnapshotInv(disk, os)
  /\ Covered(disk, os)
  /\ pc # "closed" => Covered(mem, os)

-----------------------------------------------------------------------------
\* The inductive strengthening of LeasesSafe.

\* Records under way or active are of the snapshot's epoch.
Timely(s) ==
  \A a \in Attempt :
    s.records[a].phase \in {"Prepared", "Applying", "Active"} =>
      s.records[a].plan.epoch = s.epoch

\* What was borrowed was there.
BorrowedSeen(s) ==
  \A a \in Attempt : \A i \in DOMAIN s.records[a].entries :
    s.records[a].entries[i].borrowed => s.records[a].entries[i].fingerprint # Absent

LeaseSnapshot(s) == Apart(s) /\ Timely(s) /\ BorrowedSeen(s)

\* What memory holds active the journal has as well.
ActiveSaved ==
  \A a \in Attempt : mem.records[a].phase = "Active" => disk.records[a] = mem.records[a]

\* Memory is at least as doubtful as the journal.
DoubtKept ==
  \A a \in Attempt : disk.records[a].uncertain => mem.records[a].uncertain

\* The entries an apply has been through are installed.
AppliedInPlace ==
  \A i \in DOMAIN CurRecord.entries :
    i < idx \/ (i = idx /\ pc = "applySave") => InPlace(CurRecord, i)

LeaseInv ==
  /\ LeaseSnapshot(mem) /\ LeaseSnapshot(disk)
  /\ ActiveInstalled /\ ActiveSaved
  /\ pc # "closed" => DoubtKept
  /\ pc \in {"applyEntry", "applySave"} => AppliedInPlace

\* What a lease is for: an active one has what it asked for, no two compete, none
\* outlives the network it was planned for, and an interrupted apply is not
\* forgotten (apply, prepare, network_changed, release).
LeasesSafe == [](ActiveInstalled /\ Exclusive /\ EpochCurrent) /\ UncertaintySticks
=============================================================================

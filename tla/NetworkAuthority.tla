-------------------------- MODULE NetworkAuthority --------------------------
(***************************************************************************)
(* The machine-wide network authority of crates/manager-core/src/          *)
(* network_authority.rs: a lock file, .authority.lock, and a durable       *)
(* reservation, active.json.  The lock dies with its process; the          *)
(* reservation is removed by finish or by an acknowledged recovery only.   *)
(*                                                                         *)
(* Every call may also fail for a reason outside this state: the directory *)
(* cannot be synced, the file cannot be read, or idle_guard finds native   *)
(* reservations.                                                           *)
(***************************************************************************)

CONSTANTS
  Attempt,  \* attempt ids of every manager on the machine
  Nobody    \* no attempt

ASSUME NobodyAssumption == Nobody \notin Attempt

VARIABLES
  owner,  \* active.json
  holder  \* attempt whose lease holds .authority.lock

authority == <<owner, holder>>

\* bound: process_group is not zero.
NoOwner == [attempt |-> Nobody, bound |-> FALSE]
Owner == [attempt : Attempt, bound : BOOLEAN] \cup {NoOwner}

\* atomic_file::write_private: an error leaves the old file, or the new one
\* when only the directory sync failed.
WriteOutcome == {"ok", "unwritten", "unsynced"}

\* remove_file and the directory sync after it.
RemoveOutcome == {"ok", "kept", "unsynced"}

AuthorityInit == owner = NoOwner /\ holder = Nobody

\* Mutant: whoever gets the lock is the owner.
FreeOfLock == holder = Nobody

\* guard() and inspect(): nobody holds the lock, nothing is reserved.
Free == holder = Nobody /\ owner = NoOwner

\* ExclusiveLease::acquire up to its write.
Acquire(a, bound, outcome) ==
  /\ Free
  /\ owner' = IF outcome = "unwritten" THEN owner ELSE [attempt |-> a, bound |-> bound]
  /\ holder' = IF outcome = "ok" THEN a ELSE Nobody

\* ExclusiveLease::bind_process_group.
BindProcessGroup(a, outcome) ==
  /\ holder = a
  /\ owner' = IF outcome = "unwritten" THEN owner ELSE [attempt |-> a, bound |-> TRUE]

\* The lease is dropped: the lock goes, the reservation stays.
DropLease == holder' = Nobody /\ owner' = owner

\* ExclusiveLease::finish of a lease that still has its record.
Finish(a, outcome) ==
  /\ holder = a /\ owner.attempt = a
  /\ owner' = IF outcome = "kept" THEN owner ELSE NoOwner
  /\ holder' = Nobody

\* acknowledge: the recovery adapter has given its proof of quiescence.
Acknowledge(a, outcome) ==
  /\ holder = Nobody /\ owner.attempt = a
  /\ owner' = IF outcome = "kept" THEN owner ELSE NoOwner
  /\ holder' = Nobody

=============================================================================

--------------------------- MODULE ProfileStorage ---------------------------
(***************************************************************************)
(* The headless repository: profiles.json and secrets.json, changed        *)
(* together through a redo journal under a lock that the threads of the    *)
(* service and the command line share.  The service or a command may die,  *)
(* and any file operation fail, between two steps.                         *)
(***************************************************************************)
EXTENDS Naturals

CONSTANTS
  Ids,
  Thread,       \* request threads of the service
  Command,      \* command-line invocations
  Orphans,      \* ids without a profile that an older secrets.json has a secret for
  MaxRevision,  \* bound: revisions of a profile
  MaxPassword,  \* bound: passwords typed
  MaxCrash,     \* bound: processes that die
  MaxFault      \* bound: file operations that fail

ASSUME StorageAssumption ==
  /\ Orphans \subseteq Ids /\ Ids # {}
  /\ Thread \cap Command = {} /\ {"nobody", "service"} \cap (Thread \cup Command) = {}
  /\ {MaxPassword, MaxCrash, MaxFault} \subseteq Nat /\ MaxRevision \in Nat \ {0}

VARIABLES
  profiles,  \* profiles.json: revision by id
  legacy,    \* is it the schema-0 array?
  secrets,   \* secrets.json: password by id
  journal,   \* .profile-transaction.json
  pair,      \* .migration-backup-schema0.json
  archive,   \* the backup an administrator last took
  flock,     \* holder of .storage.lock
  service,   \* holder of .service.lock
  session,   \* session_secrets of the service
  owed,      \* session_secrets once every durable commit is followed (a ghost)
  p,         \* what each thread or command is doing
  typed,     \* passwords typed so far
  crashes, faults

files == <<profiles, legacy, secrets, journal, pair, archive>>
counters == <<typed, crashes, faults>>
vars == <<files, flock, service, session, owed, p, counters>>

Proc == Thread \cup Command
Nobody == "nobody"
Empty == [i \in {} |-> 0]
NoFile == [on |-> FALSE, prof |-> Empty, sec |-> Empty]
Idle == [pc |-> "idle", op |-> "none", id |-> CHOOSE i \in Ids : TRUE, mine |-> FALSE,
         prof |-> Empty, sec |-> Empty, nprof |-> Empty, nsec |-> Empty, nsess |-> Empty]

\* The repository as its next reader finds it: the journal is the commit point.
Cat == IF journal.on THEN [prof |-> journal.prof, sec |-> journal.sec]
       ELSE [prof |-> profiles, sec |-> secrets]

Catalogue == INSTANCE ProfileCatalogue WITH cat <- Cat, Passwords <- 1 .. MaxPassword

With(f, i, v) == Catalogue!With(f, i, v)
Without(f, i) == Catalogue!Without(f, i)
Revision(f, i) == Catalogue!Revision(f, i)

\* The files close: .storage.lock for all, .service.lock for a command.
Released(k) ==
  /\ flock' = IF flock = k THEN Nobody ELSE flock
  /\ service' = IF service = k THEN Nobody ELSE service

Done(k) == p' = [p EXCEPT ![k] = Idle] /\ Released(k)
Goto(k, pc) == p' = [p EXCEPT ![k].pc = pc] /\ UNCHANGED <<flock, service>>

\* One file operation: it succeeds, or reports an error with or without effect.
File(k, pc, effect, none) ==
  \/ /\ effect /\ Goto(k, pc) /\ UNCHANGED counters
  \/ /\ faults < MaxFault /\ faults' = faults + 1
     /\ effect \/ none
     /\ Done(k) /\ UNCHANGED <<typed, crashes>>

-----------------------------------------------------------------------------
\* The service takes .service.lock for as long as it runs.
Serve ==
  /\ service = Nobody /\ service' = "service"
  /\ UNCHANGED <<files, flock, session, owed, p, counters>>

Begin(k, op, i) ==
  /\ p[k].pc = "idle"
  /\ \/ k \in Thread /\ op \in {"save", "delete", "read"} /\ service = "service" /\ UNCHANGED service
     \/ k \in Command /\ op = "backup" /\ UNCHANGED service
     \/ k \in Command /\ op \in {"restore", "rollback"} /\ service = Nobody /\ service' = k
  /\ p' = [p EXCEPT ![k] = [Idle EXCEPT !.pc = "lock", !.op = op, !.id = i]]
  /\ UNCHANGED <<files, flock, session, owed, counters>>

\* transaction_lock: the lock, then recover_transaction.
Lock(k) ==
  /\ p[k].pc = "lock" /\ flock = Nobody
  /\ flock' = k /\ p' = [p EXCEPT ![k].pc = "recover"]
  /\ UNCHANGED <<files, service, session, owed, counters>>

-----------------------------------------------------------------------------
\* recover_transaction, at the start of every operation and at the end of a commit

Acceptable(j) == DOMAIN j.sec \subseteq DOMAIN j.prof

\* Mutant: the journal an earlier process left is not looked at.
RecoverSkipped(k) ==
  /\ p[k].pc = "recover" /\ Goto(k, IF p[k].mine THEN "finish" ELSE "load")
  /\ UNCHANGED <<files, session, owed, counters>>

RecoverChecks(k) ==
  /\ p[k].pc = "recover"
  /\ IF ~journal.on THEN Goto(k, IF p[k].mine THEN "finish" ELSE "load")
     ELSE IF Acceptable(journal) THEN Goto(k, "rebackup")
     ELSE Done(k)
  /\ UNCHANGED <<files, session, owed, counters>>

\* backup_legacy_metadata
LegacyBackup(k, pc, next) ==
  /\ p[k].pc = pc
  /\ File(k, next,
          pair' = IF legacy /\ ~pair.on THEN [on |-> TRUE, prof |-> profiles, sec |-> secrets] ELSE pair,
          UNCHANGED pair)
  /\ UNCHANGED <<profiles, legacy, secrets, journal, archive, session, owed>>

RecoverBackup(k) == LegacyBackup(k, "rebackup", "profiles")

\* Mutant: recovery forgets the passwords.
RecoverProfilesOnly(k) ==
  /\ p[k].pc = "profiles"
  /\ File(k, "remove", profiles' = journal.prof /\ legacy' = FALSE, UNCHANGED <<profiles, legacy>>)
  /\ UNCHANGED <<secrets, journal, pair, archive, session, owed>>

RecoverProfiles(k) ==
  /\ p[k].pc = "profiles"
  /\ File(k, "secrets", profiles' = journal.prof /\ legacy' = FALSE, UNCHANGED <<profiles, legacy>>)
  /\ UNCHANGED <<secrets, journal, pair, archive, session, owed>>

RecoverSecrets(k) ==
  /\ p[k].pc = "secrets"
  /\ File(k, "remove", secrets' = journal.sec, UNCHANGED secrets)
  /\ UNCHANGED <<profiles, legacy, journal, pair, archive, session, owed>>

RecoverRemove(k) ==
  /\ p[k].pc = "remove"
  /\ File(k, IF p[k].mine THEN "finish" ELSE "load", journal' = NoFile, UNCHANGED journal)
  /\ UNCHANGED <<profiles, legacy, secrets, pair, archive, session, owed>>

-----------------------------------------------------------------------------
\* The operations

\* profile_repository: both documents are read under the lock.
Load(k) ==
  /\ p[k].pc = "load"
  /\ p' = [p EXCEPT ![k].pc = p[k].op, ![k].prof = profiles, ![k].sec = secrets]
  /\ UNCHANGED <<files, flock, service, session, owed, counters>>

\* What profile_service hands to commit.
Plan(k, prof, sec, sess, next) ==
  /\ p' = [p EXCEPT ![k].pc = next, ![k].nprof = prof, ![k].nsec = sec, ![k].nsess = sess]
  /\ UNCHANGED <<files, flock, service, session, owed>>

\* profile_service::save: remember or not, with a password or without.
\* A profile created without a password never adopts a stored one.
Save(k) ==
  LET i    == p[k].id
      r    == Revision(p[k].prof, i) + 1
      new  == i \notin DOMAIN p[k].prof
      prof == With(p[k].prof, i, r)
  IN /\ p[k].pc = "save" /\ r <= MaxRevision
     /\ \/ \* remember, with a password
           /\ typed < MaxPassword /\ typed' = typed + 1
           /\ Plan(k, prof, With(p[k].sec, i, typed + 1), Without(session, i), "backup1")
        \/ \* remember, no password
           /\ Plan(k, prof, IF new THEN Without(p[k].sec, i) ELSE p[k].sec, Without(session, i), "backup1")
           /\ UNCHANGED typed
        \/ \* for this session
           /\ typed < MaxPassword /\ typed' = typed + 1
           /\ Plan(k, prof, Without(p[k].sec, i), With(session, i, typed + 1), "backup1")
        \/ \* do not remember, no password
           /\ Plan(k, prof, Without(p[k].sec, i), session, "backup1")
           /\ UNCHANGED typed
     /\ UNCHANGED <<crashes, faults>>

\* profile_service::delete; an absent profile is not an error.
Delete(k) ==
  LET i == p[k].id
  IN /\ p[k].pc = "delete" /\ UNCHANGED counters
     /\ IF i \in DOMAIN p[k].prof
        THEN Plan(k, Without(p[k].prof, i), Without(p[k].sec, i), Without(session, i), "backup1")
        ELSE Done(k) /\ UNCHANGED <<files, session, owed>>

\* The request ends: a stale revision, an invalid input, a missing password, or
\* unfinished attempts before a restore or a rollback.
Refuse(k) ==
  /\ p[k].pc \in {"save", "delete", "restore", "rollback"}
  /\ Done(k) /\ UNCHANGED <<files, session, owed, counters>>

\* prepare_restored_catalog: past the archive's revision and the current one.
Restored(k) ==
  [i \in DOMAIN archive.prof |->
     1 + IF archive.prof[i] > Revision(p[k].prof, i) THEN archive.prof[i]
         ELSE Revision(p[k].prof, i)]

\* profile_service::restore; validate_portable_archive refuses orphans.
Restore(k) ==
  /\ p[k].pc = "restore" /\ archive.on /\ Acceptable(archive)
  /\ \A i \in DOMAIN archive.prof : Restored(k)[i] <= MaxRevision
  /\ Plan(k, Restored(k),
          [i \in (DOMAIN p[k].sec \ (DOMAIN p[k].prof \cup DOMAIN archive.prof)) \cup DOMAIN archive.sec |->
             IF i \in DOMAIN archive.sec THEN archive.sec[i] ELSE p[k].sec[i]],
          Empty, "keep")
  /\ UNCHANGED counters

\* commit keeps a copy of what a restore replaces, under a name of its own.
KeepCopy(k) ==
  /\ p[k].pc = "keep"
  /\ File(k, "backup1", TRUE, TRUE)
  /\ UNCHANGED <<files, session, owed>>

CommitBackup(k) == LegacyBackup(k, "backup1", "journal")

\* commit_profiles: the journal is the commit point.
WriteJournal(k) ==
  /\ p[k].pc = "journal"
  /\ \/ /\ journal' = [on |-> TRUE, prof |-> p[k].nprof, sec |-> p[k].nsec]
        /\ owed' = IF k \in Thread THEN p[k].nsess ELSE owed
        /\ \/ /\ p' = [p EXCEPT ![k].pc = "recover", ![k].mine = TRUE]
              /\ UNCHANGED <<flock, service, counters>>
           \/ /\ faults < MaxFault /\ faults' = faults + 1
              /\ Done(k) /\ UNCHANGED <<typed, crashes>>
     \/ /\ faults < MaxFault /\ faults' = faults + 1
        /\ Done(k) /\ UNCHANGED <<journal, owed, typed, crashes>>
  /\ UNCHANGED <<profiles, legacy, secrets, pair, archive, session>>

\* The end of commit: session changes follow.
Finish(k) ==
  /\ p[k].pc = "finish"
  /\ session' = IF k \in Thread THEN p[k].nsess ELSE session
  /\ Done(k) /\ UNCHANGED <<files, owed, counters>>

\* load_profiles, profile_and_password, list_profile_views.
Read(k) ==
  /\ p[k].pc = "read" /\ Done(k) /\ UNCHANGED <<files, session, owed, counters>>

\* backup_profiles: a document created whole, or removed again.
Backup(k) ==
  /\ p[k].pc = "backup"
  /\ archive' = [on |-> TRUE, prof |-> p[k].prof, sec |-> p[k].sec]
  /\ Done(k) /\ UNCHANGED <<profiles, legacy, secrets, journal, pair, session, owed, counters>>

\* prepare_legacy_rollback: a copy, then the same profiles as a schema-0 array.
Rollback(k) ==
  /\ p[k].pc = "rollback"
  /\ File(k, "legacy", TRUE, TRUE)
  /\ UNCHANGED <<files, session, owed>>

WriteLegacy(k) ==
  /\ p[k].pc = "legacy"
  /\ legacy' = TRUE /\ Done(k)
  /\ UNCHANGED <<profiles, secrets, journal, pair, archive, session, owed, counters>>

-----------------------------------------------------------------------------
\* A command dies; or the service, with all its threads and its memory.
Crash ==
  /\ crashes < MaxCrash /\ crashes' = crashes + 1
  /\ \/ \E k \in Command :
          /\ p[k].pc # "idle" /\ Done(k) /\ UNCHANGED <<session, owed>>
     \/ /\ service = "service" /\ service' = Nobody
        /\ p' = [k \in Proc |-> IF k \in Thread THEN Idle ELSE p[k]]
        /\ flock' = IF flock \in Thread THEN Nobody ELSE flock
        /\ session' = Empty /\ owed' = Empty
  /\ UNCHANGED <<files, typed, faults>>

Init ==
  /\ legacy \in BOOLEAN
  /\ \E i \in Ids \ Orphans : profiles = [j \in {i} |-> 1] /\ secrets = [j \in {i} \cup Orphans |-> 0]
  /\ journal = NoFile /\ pair = NoFile /\ archive = NoFile
  /\ flock = Nobody /\ service = Nobody /\ session = Empty /\ owed = Empty
  /\ p = [k \in Proc |-> Idle]
  /\ typed = 0 /\ crashes = 0 /\ faults = 0

Work(k) ==
  \/ \E i \in Ids, op \in {"save", "delete", "read"} : k \in Thread /\ Begin(k, op, i)
  \/ \E op \in {"backup", "restore", "rollback"} : k \in Command /\ Begin(k, op, Idle.id)
  \/ Lock(k) \/ RecoverChecks(k) \/ RecoverBackup(k) \/ RecoverProfiles(k)
  \/ RecoverSecrets(k) \/ RecoverRemove(k) \/ Load(k)
  \/ Save(k) \/ Delete(k) \/ Refuse(k) \/ Restore(k) \/ KeepCopy(k) \/ CommitBackup(k)
  \/ WriteJournal(k) \/ Finish(k) \/ Read(k) \/ Backup(k) \/ Rollback(k) \/ WriteLegacy(k)

Next == Serve \/ Crash \/ \E k \in Proc : Work(k)

Spec == Init /\ [][Next]_vars

-----------------------------------------------------------------------------
Maps(n) == UNION {[S -> 0 .. n] : S \in SUBSET Ids}

\* Every file holds whole documents; a thread or command that is past the lock
\* holds it, and a command that changes the repository holds .service.lock.
StorageTypeOK ==
  /\ profiles \in Maps(MaxRevision) /\ secrets \in Maps(MaxPassword) /\ legacy \in BOOLEAN
  /\ {journal.prof, pair.prof, archive.prof} \subseteq Maps(MaxRevision)
  /\ session \in Maps(MaxPassword) /\ flock \in Proc \cup {Nobody}
  /\ \A k \in Proc : p[k].pc \notin {"idle", "lock"} => flock = k
  /\ \A k \in Command : p[k].op \in {"restore", "rollback"} => service = k

\* Whoever plans or commits a change works from the repository as it is: no
\* other thread, command or recovery has changed it since it was read.
SnapshotCurrent ==
  \A k \in Proc :
    p[k].pc \in {"save", "delete", "restore", "keep", "backup1", "journal", "backup"} =>
      Cat = [prof |-> p[k].prof, sec |-> p[k].sec]

\* Seen through its commit point, the repository changes only by whole saves,
\* deletions and restores, each advancing revisions, whatever dies or fails.
Implements == Catalogue!Spec

\* The schema-0 array is replaced only after a backup of it exists, and that
\* backup pairs the profiles with the passwords they had, and is written once.
PairsWithProfiles ==
  /\ legacy /\ ~legacy' => pair.on
  /\ pair' # pair => ~pair.on /\ pair' = [on |-> TRUE, prof |-> Cat.prof, sec |-> Cat.sec]

MigrationPair == [][PairsWithProfiles]_vars

\* Every reader and writer can finish an interrupted commit.
JournalFinishable == journal.on => Acceptable(journal)

\* Once a durable commit is completed, by whoever completes it, the session
\* passwords are those it leaves.
SessionFollows == flock = Nobody /\ ~journal.on => session = owed

\* Whoever holds the lock works from the current repository, and finds no
\* journal it cannot finish (transaction_lock, recover_transaction).
RepositoryCurrent == StorageTypeOK /\ SnapshotCurrent /\ JournalFinishable

\* The files implement a catalogue that changes in one step, and the migration
\* from schema 0 keeps a pair that can be gone back to.
CatalogueKept == Implements /\ MigrationPair
=============================================================================

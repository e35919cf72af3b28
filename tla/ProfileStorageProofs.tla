------------------------ MODULE ProfileStorageProofs ------------------------
(***************************************************************************)
(* Proofs about the two profile repositories, for any profiles, threads,   *)
(* commands and bounds, and any crashes and failures between the steps.    *)
(*                                                                         *)
(* ProfileStorage: whoever holds the lock works from the current           *)
(* repository, and the two files and the journal implement a catalogue     *)
(* that changes in one step.  secrets.json has no password without a       *)
(* profile to begin with (Orphans = {}): one that an older version left    *)
(* would be copied into a journal that recovery refuses.                   *)
(*                                                                         *)
(* CredentialStore: the cache, the file and the commands agree, so that no *)
(* revision is lost and no connection uses a replaced password; metadata,  *)
(* credential store and intents account for one another.                   *)
(***************************************************************************)
EXTENDS ProfileStorage, CredentialStore, TLAPS

Revisions == Maps(MaxRevision)
Secrets == Maps(MaxPassword)
Docs == [on : BOOLEAN, prof : Revisions, sec : Secrets]

Recovering == {"rebackup", "profiles", "secrets", "remove"}
Snapshot == {"save", "delete", "restore", "keep", "backup1", "journal", "backup"}
Composed == {"keep", "backup1", "journal"}
Places == {"idle", "lock", "recover", "load", "read", "rollback", "legacy", "finish"} \cup Recovering \cup Snapshot
Ops == {"none", "save", "delete", "read", "backup", "restore", "rollback"}
Jobs == [pc : Places, op : Ops, id : Ids, mine : BOOLEAN, prof : Revisions, sec : Secrets,
         nprof : Revisions, nsec : Secrets, nsess : Secrets]

FilesTyped ==
  /\ profiles \in Revisions /\ secrets \in Secrets /\ legacy \in BOOLEAN
  /\ journal \in Docs /\ pair \in Docs /\ archive \in Docs
  /\ session \in Secrets /\ typed \in 0 .. MaxPassword

\* Who is past the lock holds it; who replaces everything keeps the service out.
LockHeld ==
  /\ flock \in Proc \cup {Nobody} /\ service \in Proc \cup {Nobody, "service"}
  /\ \A k \in Proc : p[k].pc \notin {"idle", "lock"} => flock = k
  /\ \A k \in Proc : p[k].pc # "idle" => p[k].op # "none"
  /\ \A k \in Command : p[k].op \in {"restore", "rollback"} => service = k

\* A change of the catalogue: a save, a deletion or a restore.
Change(id, prof, sec, nprof, nsec) ==
  \/ /\ nprof = With(prof, id, Revision(prof, id) + 1)
     /\ nsec \in {sec, Without(sec, id)} \cup {With(sec, id, v) : v \in 1 .. MaxPassword}
  \/ /\ id \in DOMAIN prof
     /\ nprof = Without(prof, id) /\ nsec = Without(sec, id)
  \/ \A i \in DOMAIN nprof : nprof[i] > Revision(prof, i)

\* What the holder of the lock relies on, wherever it stands.
Relies(j) ==
  /\ j.pc \in Recovering => journal.on
  /\ j.pc \in Snapshot \cup {"load", "read", "rollback", "legacy"} => ~journal.on
  /\ j.pc \in {"secrets", "remove"} => profiles = journal.prof /\ ~legacy
  /\ j.pc = "remove" => secrets = journal.sec
  /\ j.pc \in Snapshot => j.prof = profiles /\ j.sec = secrets
  /\ j.pc \in Composed => Change(j.id, j.prof, j.sec, j.nprof, j.nsec) /\ DOMAIN j.nsec \subseteq DOMAIN j.nprof
  /\ j.pc = "journal" /\ legacy => pair.on

\* The catalogue has no password without a profile, and a journal over schema-0
\* files is written after their backup.
Journalled ==
  /\ DOMAIN Cat.sec \subseteq DOMAIN Cat.prof
  /\ journal.on /\ legacy => pair.on

StorageInv ==
  /\ FilesTyped /\ p \in [Proc -> Jobs] /\ LockHeld /\ Journalled
  /\ \A k \in Proc : Relies(p[k])
-----------------------------------------------------------------------------
(* Maps. *)

LEMMA MapsIs ==
  ASSUME NEW n \in Nat, NEW f
  PROVE  f \in Maps(n) <=> \E S \in SUBSET Ids : f \in [S -> 0 .. n]
  BY DEF Maps

LEMMA EmptyIs == \A n \in Nat : Empty \in Maps(n)
<1> SUFFICES ASSUME NEW n \in Nat PROVE Empty \in Maps(n)
  OBVIOUS
<1>1. Empty \in [{} -> 0 .. n]
  BY DEF Empty
<1> QED BY <1>1, MapsIs

UpTo(n) == 0 .. n

LEMMA WithIs ==
  ASSUME NEW n \in Nat, NEW f \in Maps(n), NEW i \in Ids, NEW v \in UpTo(n)
  PROVE  With(f, i, v) \in Maps(n)
<1>1. PICK S \in SUBSET Ids : f \in [S -> 0 .. n]
  BY MapsIs
<1>2. With(f, i, v) \in [S \cup {i} -> 0 .. n]
  BY <1>1 DEF With, Catalogue!With, UpTo
<1>3. S \cup {i} \in SUBSET Ids
  OBVIOUS
<1> QED BY <1>1, <1>2, <1>3, MapsIs

LEMMA WithDomain ==
  ASSUME NEW f, NEW i, NEW v
  PROVE  DOMAIN With(f, i, v) = DOMAIN f \cup {i}
  BY DEF With, Catalogue!With

LEMMA WithoutIs ==
  ASSUME NEW n \in Nat, NEW f \in Maps(n), NEW i
  PROVE  Without(f, i) \in Maps(n) /\ DOMAIN Without(f, i) = DOMAIN f \ {i}
<1>1. PICK S \in SUBSET Ids : f \in [S -> 0 .. n]
  BY MapsIs
<1>2. Without(f, i) \in [S \ {i} -> 0 .. n]
  BY <1>1 DEF Without, Catalogue!Without
<1>3. S \ {i} \in SUBSET Ids
  OBVIOUS
<1> QED BY <1>1, <1>2, <1>3, MapsIs

LEMMA RevisionIs ==
  ASSUME NEW n \in Nat, NEW f \in Maps(n), NEW i
  PROVE  Revision(f, i) \in 0 .. n
<1>1. PICK S \in SUBSET Ids : f \in [S -> 0 .. n]
  BY MapsIs
<1> QED BY <1>1 DEF Revision, Catalogue!Revision

LEMMA IdleIs == Idle \in Jobs /\ Idle.pc = "idle" /\ Idle.op = "none"
<1>1. (CHOOSE i \in Ids : TRUE) \in Ids
  BY StorageAssumption
<1> QED BY <1>1, EmptyIs, StorageAssumption DEF Idle, Jobs, Revisions, Secrets, Places, Ops
-----------------------------------------------------------------------------
(* Steps of one thread or command. *)

Working(k) == p[k].pc \notin {"idle", "lock"}

\* The lock is held once.
LEMMA Alone ==
  ASSUME StorageInv, NEW k \in Proc, NEW i \in Proc, Working(k), i # k
  PROVE  ~Working(i)
  BY DEF StorageInv, LockHeld, Working

\* What is said of the files concerns the holder of the lock only.
LEMMA MovesRelies ==
  ASSUME StorageInv, NEW k \in Proc, p' = [p EXCEPT ![k] = p'[k]], Relies(p[k])',
         Working(k) \/ UNCHANGED files
  PROVE  \A i \in Proc : Relies(p[i])'
<1> SUFFICES ASSUME NEW i \in Proc, i # k PROVE Relies(p[i])'
  OBVIOUS
<1>1. p'[i] = p[i]
  BY DEF StorageInv
<1>2. CASE Working(k)
  <2>1. p'[i].pc \in {"idle", "lock"}
    BY <1>1, <1>2, Alone DEF Working
  <2> QED BY <2>1 DEF Relies, Recovering, Snapshot, Composed
<1>3. CASE UNCHANGED files
  BY <1>1, <1>3 DEF StorageInv, Relies, files
<1> QED BY <1>2, <1>3

\* A step with the lock in hand.
LEMMA Goes ==
  ASSUME StorageInv, NEW k \in Proc, Working(k), p' = [p EXCEPT ![k] = p'[k]], p'[k] \in Jobs,
         p'[k].op = p[k].op, UNCHANGED <<flock, service>>, FilesTyped', Journalled', Relies(p[k])'
  PROVE  StorageInv'
<1>1. p' \in [Proc -> Jobs]
  BY DEF StorageInv
<1>2. LockHeld'
  BY DEF StorageInv, LockHeld, Working, Proc
<1> QED BY <1>1, <1>2, MovesRelies DEF StorageInv

\* The end of an operation.
LEMMA Ends ==
  ASSUME StorageInv, NEW k \in Proc, Done(k), FilesTyped', Journalled', Working(k) \/ UNCHANGED files
  PROVE  StorageInv'
<1> USE IdleIs DEF Done
<1>1. p' \in [Proc -> Jobs] /\ p'[k] = Idle /\ p' = [p EXCEPT ![k] = p'[k]]
  BY DEF StorageInv
<1>2. Relies(p[k])'
  BY <1>1 DEF Relies, Recovering, Snapshot, Composed
<1>3. LockHeld'
  BY <1>1, StorageAssumption DEF StorageInv, LockHeld, Released, Proc, Nobody
<1> QED BY <1>1, <1>2, <1>3, MovesRelies DEF StorageInv

\* Steps that leave the files alone.
LEMMA SameFiles ==
  ASSUME StorageInv, UNCHANGED files
  PROVE  Journalled' /\ (session' \in Secrets /\ typed' \in 0 .. MaxPassword => FilesTyped')
  BY DEF StorageInv, Journalled, FilesTyped, files, Cat

LEMMA ServeKeeps == ASSUME StorageInv, Serve PROVE StorageInv'
<1>1. FilesTyped' /\ Journalled'
  BY SameFiles DEF Serve, StorageInv, FilesTyped, counters
<1>2. p' \in [Proc -> Jobs] /\ LockHeld'
  BY StorageAssumption DEF Serve, StorageInv, LockHeld, Nobody, Proc
<1>3. \A k \in Proc : Relies(p[k])'
  BY DEF Serve, StorageInv, Relies, files
<1> QED BY <1>1, <1>2, <1>3 DEF StorageInv

LEMMA BeginKeeps ==
  ASSUME StorageInv, NEW k \in Proc, NEW o \in Ops \ {"none"}, NEW i \in Ids, Begin(k, o, i)
  PROVE  StorageInv'
<1> DEFINE job == [Idle EXCEPT !.pc = "lock", !.op = o, !.id = i]
<1>1. job \in Jobs /\ job.pc = "lock" /\ job.op = o
  BY IdleIs DEF Jobs, Places
<1>2. p' = [p EXCEPT ![k] = job]
  BY DEF Begin
<1> HIDE DEF job
<1>3. p' \in [Proc -> Jobs] /\ p'[k] = job /\ p' = [p EXCEPT ![k] = p'[k]]
  BY <1>1, <1>2 DEF StorageInv
<1>4. FilesTyped' /\ Journalled'
  BY SameFiles DEF Begin, StorageInv, FilesTyped, counters
<1>5. LockHeld'
  BY <1>1, <1>3, StorageAssumption DEF Begin, StorageInv, LockHeld, Nobody, Proc
<1>6. Relies(p[k])'
  BY <1>1, <1>3 DEF Relies, Recovering, Snapshot, Composed
<1> QED BY <1>3, <1>4, <1>5, <1>6, MovesRelies DEF StorageInv, Begin

LEMMA LockKeeps == ASSUME StorageInv, NEW k \in Proc, Lock(k) PROVE StorageInv'
<1>1. /\ p' = [p EXCEPT ![k].pc = "recover"] /\ p[k] \in Jobs /\ p[k].pc = "lock"
      /\ flock = Nobody /\ flock' = k /\ UNCHANGED <<files, service, session, counters>>
  BY DEF Lock, StorageInv
<1>2. p' \in [Proc -> Jobs] /\ p'[k].pc = "recover" /\ p' = [p EXCEPT ![k] = p'[k]] /\ p'[k].op = p[k].op
  BY <1>1 DEF StorageInv, Jobs, Places
<1>3. FilesTyped' /\ Journalled'
  BY <1>1, SameFiles DEF StorageInv, FilesTyped, counters
<1>4. LockHeld'
  BY <1>1, <1>2, StorageAssumption DEF StorageInv, LockHeld, Nobody, Proc
<1>5. Relies(p[k])'
  BY <1>2 DEF Relies, Recovering, Snapshot, Composed
<1> QED BY <1>1, <1>2, <1>3, <1>4, <1>5, MovesRelies DEF StorageInv
-----------------------------------------------------------------------------
(* Recovery. *)

\* Only the place changes.
LEMMA Placed ==
  ASSUME StorageInv, NEW k \in Proc, NEW pc \in Places, Goto(k, pc)
  PROVE  /\ p' = [p EXCEPT ![k] = p'[k]] /\ p'[k] \in Jobs /\ p'[k].op = p[k].op
         /\ p'[k] = [p[k] EXCEPT !.pc = pc] /\ UNCHANGED <<flock, service>>
         /\ p'[k].pc = pc /\ p'[k].prof = p[k].prof /\ p'[k].sec = p[k].sec /\ p'[k].id = p[k].id
         /\ p'[k].nprof = p[k].nprof /\ p'[k].nsec = p[k].nsec
  BY DEF Goto, StorageInv, Jobs

LEMMA SameChange ==
  ASSUME NEW k,
         p'[k].prof = p[k].prof, p'[k].sec = p[k].sec, p'[k].id = p[k].id,
         p'[k].nprof = p[k].nprof, p'[k].nsec = p[k].nsec
  PROVE  Change(p[k].id, p[k].prof, p[k].sec, p[k].nprof, p[k].nsec)'
           <=> Change(p[k].id, p[k].prof, p[k].sec, p[k].nprof, p[k].nsec)
  BY DEF Change, With, Without, Revision, Catalogue!With, Catalogue!Without, Catalogue!Revision

LEMMA RecoverChecksKeeps == ASSUME StorageInv, NEW k \in Proc, RecoverChecks(k) PROVE StorageInv'
<1>1. Working(k)
  BY DEF RecoverChecks, Working
<1>2. FilesTyped' /\ Journalled'
  BY SameFiles DEF RecoverChecks, StorageInv, FilesTyped, counters
<1>3. CASE ~journal.on /\ \E pc \in {"finish", "load"} : Goto(k, pc)
  <2>1. PICK pc \in {"finish", "load"} : Goto(k, pc)
    BY <1>3
  <2>2. Relies(p[k])'
    BY <1>3, <2>1, Placed DEF RecoverChecks, files, Relies, Recovering, Snapshot, Composed, Places
  <2> QED BY <1>1, <1>2, <2>1, <2>2, Placed, Goes DEF Places
<1>4. CASE journal.on /\ Goto(k, "rebackup")
  <2>1. "rebackup" \in Places
    BY DEF Places, Recovering
  <2>2. p'[k].pc = "rebackup" /\ journal'.on
    BY <1>4, <2>1, Placed DEF RecoverChecks, files
  <2>3. Relies(p[k])'
    BY <2>2 DEF Relies, Recovering, Snapshot, Composed
  <2> QED BY <1>1, <1>2, <1>4, <2>1, <2>3, Placed, Goes
<1>5. CASE Done(k)
  BY <1>1, <1>2, <1>5, Ends
<1> QED BY <1>3, <1>4, <1>5 DEF RecoverChecks

\* Either outcome of a file operation.
LEMMA FileIs ==
  ASSUME NEW k, NEW pc, NEW ACTION e, NEW ACTION n, File(k, pc, e, n)
  PROVE  /\ UNCHANGED typed
         /\ (e /\ Goto(k, pc)) \/ ((e \/ n) /\ Done(k))
  BY DEF File, counters

LEMMA LegacyBackupKeeps ==
  ASSUME StorageInv, NEW k \in Proc, RecoverBackup(k) \/ CommitBackup(k)
  PROVE  StorageInv'
<1> DEFINE e == pair' = IF legacy /\ ~pair.on THEN [on |-> TRUE, prof |-> profiles, sec |-> secrets] ELSE pair
           n == UNCHANGED pair
<1>1. PICK pc \in {"rebackup", "backup1"}, next \in {"profiles", "journal"} :
        /\ pc = "rebackup" <=> next = "profiles"
        /\ LegacyBackup(k, pc, next)
  BY DEF RecoverBackup, CommitBackup
<1>2. /\ p[k].pc = pc /\ Working(k) /\ File(k, next, e, n)
      /\ UNCHANGED <<profiles, legacy, secrets, journal, archive, session>>
  BY <1>1 DEF LegacyBackup, Working
<1>3. UNCHANGED typed /\ ((e /\ Goto(k, next)) \/ ((e \/ n) /\ Done(k)))
  BY <1>2, FileIs
<1>4. pair' \in Docs
  <2>1. [on |-> TRUE, prof |-> profiles, sec |-> secrets] \in Docs /\ pair \in Docs
    BY DEF StorageInv, FilesTyped, Docs
  <2> QED BY <1>3, <2>1
<1>5. FilesTyped' /\ Journalled'
  <2>1. pair.on => pair'.on
    BY <1>3
  <2> QED BY <1>2, <1>3, <1>4, <2>1 DEF StorageInv, FilesTyped, Journalled, Cat
<1>6. CASE Done(k)
  BY <1>2, <1>5, <1>6, Ends
<1>7. CASE e /\ Goto(k, next)
  <2>1. next \in Places
    BY DEF Places, Recovering, Snapshot
  <2>2. legacy => pair'.on
    BY <1>7
  <2>3. Relies(p[k])
    BY DEF StorageInv
  <2>4. Relies(p[k])'
    <3>1. /\ p'[k].pc = next /\ p'[k].prof = p[k].prof /\ p'[k].sec = p[k].sec
          /\ p'[k].nprof = p[k].nprof /\ p'[k].nsec = p[k].nsec /\ p'[k].id = p[k].id
      BY <1>7, <2>1, Placed
    <3>2. Change(p[k].id, p[k].prof, p[k].sec, p[k].nprof, p[k].nsec)'
            <=> Change(p[k].id, p[k].prof, p[k].sec, p[k].nprof, p[k].nsec)
      BY <3>1, SameChange
    <3>3. CASE next = "profiles"
      BY <1>1, <1>2, <2>3, <3>1, <3>3 DEF Relies, Recovering, Snapshot, Composed
    <3>4. CASE next = "journal"
      BY <1>1, <1>2, <2>2, <2>3, <3>1, <3>2, <3>4 DEF Relies, Recovering, Snapshot, Composed
    <3> QED BY <3>3, <3>4
  <2> QED BY <1>2, <1>5, <1>7, <2>1, <2>4, Placed, Goes
<1> QED BY <1>3, <1>6, <1>7

\* While there is a journal, it is the catalogue, whatever the files hold.
LEMMA RecoverProfilesKeeps == ASSUME StorageInv, NEW k \in Proc, RecoverProfiles(k) PROVE StorageInv'
<1> DEFINE e == profiles' = journal.prof /\ legacy' = FALSE
           n == UNCHANGED <<profiles, legacy>>
<1>1. /\ p[k].pc = "profiles" /\ Working(k) /\ File(k, "secrets", e, n)
      /\ UNCHANGED <<secrets, journal, pair, archive, session>>
  BY DEF RecoverProfiles, Working
<1>2. UNCHANGED typed /\ ((e /\ Goto(k, "secrets")) \/ ((e \/ n) /\ Done(k)))
  BY <1>1, FileIs
<1>3. journal.on
  BY <1>1 DEF StorageInv, Relies, Recovering
<1>4. FilesTyped'
  BY <1>1, <1>2 DEF StorageInv, FilesTyped, Docs
<1>5. Journalled'
  <2>1. legacy' => legacy
    BY <1>2
  <2> QED BY <1>1, <1>3, <2>1 DEF StorageInv, Journalled, Cat
<1>6. CASE Done(k)
  BY <1>1, <1>4, <1>5, <1>6, Ends
<1>7. CASE e /\ Goto(k, "secrets")
  <2>1. "secrets" \in Places
    BY DEF Places, Recovering
  <2>2. p'[k].pc = "secrets"
    BY <1>7, <2>1, Placed
  <2>3. Relies(p[k])'
    BY <1>1, <1>3, <1>7, <2>2 DEF Relies, Recovering, Snapshot, Composed
  <2> QED BY <1>1, <1>4, <1>5, <1>7, <2>1, <2>3, Placed, Goes
<1> QED BY <1>2, <1>6, <1>7

LEMMA RecoverSecretsKeeps == ASSUME StorageInv, NEW k \in Proc, RecoverSecrets(k) PROVE StorageInv'
<1> DEFINE e == secrets' = journal.sec
           n == UNCHANGED secrets
<1>1. /\ p[k].pc = "secrets" /\ Working(k) /\ File(k, "remove", e, n)
      /\ UNCHANGED <<profiles, legacy, journal, pair, archive, session>>
  BY DEF RecoverSecrets, Working
<1>2. UNCHANGED typed /\ ((e /\ Goto(k, "remove")) \/ ((e \/ n) /\ Done(k)))
  BY <1>1, FileIs
<1>3. journal.on /\ profiles = journal.prof /\ ~legacy
  BY <1>1 DEF StorageInv, Relies, Recovering
<1>4. FilesTyped'
  BY <1>1, <1>2 DEF StorageInv, FilesTyped, Docs
<1>5. Journalled'
  BY <1>1, <1>3 DEF StorageInv, Journalled, Cat
<1>6. CASE Done(k)
  BY <1>1, <1>4, <1>5, <1>6, Ends
<1>7. CASE e /\ Goto(k, "remove")
  <2>1. "remove" \in Places
    BY DEF Places, Recovering
  <2>2. p'[k].pc = "remove"
    BY <1>7, <2>1, Placed
  <2>3. Relies(p[k])'
    BY <1>1, <1>3, <1>7, <2>2 DEF Relies, Recovering, Snapshot, Composed
  <2> QED BY <1>1, <1>4, <1>5, <1>7, <2>1, <2>3, Placed, Goes
<1> QED BY <1>2, <1>6, <1>7

LEMMA NoFileIs == NoFile \in Docs /\ ~NoFile.on
  BY EmptyIs, StorageAssumption DEF NoFile, Docs, Revisions, Secrets

LEMMA RecoverRemoveKeeps == ASSUME StorageInv, NEW k \in Proc, RecoverRemove(k) PROVE StorageInv'
<1> DEFINE e == journal' = NoFile
           n == UNCHANGED journal
           next == IF p[k].mine THEN "finish" ELSE "load"
<1>1. /\ p[k].pc = "remove" /\ Working(k) /\ File(k, next, e, n)
      /\ UNCHANGED <<profiles, legacy, secrets, pair, archive, session>>
  BY DEF RecoverRemove, Working
<1>2. UNCHANGED typed /\ ((e /\ Goto(k, next)) \/ ((e \/ n) /\ Done(k)))
  BY <1>1 DEF File, counters
<1>3. journal.on /\ profiles = journal.prof /\ ~legacy /\ secrets = journal.sec
  BY <1>1 DEF StorageInv, Relies, Recovering
<1>4. FilesTyped'
  BY <1>1, <1>2, NoFileIs DEF StorageInv, FilesTyped
<1>5. Journalled'
  BY <1>1, <1>2, <1>3, NoFileIs DEF StorageInv, Journalled, Cat
<1>6. CASE Done(k)
  BY <1>1, <1>4, <1>5, <1>6, Ends
<1>7. CASE e /\ Goto(k, next)
  <2>1. PICK pc \in {"finish", "load"} : Goto(k, pc)
    BY <1>7
  <2>2. p'[k].pc = pc /\ pc \in Places
    BY <2>1, Placed DEF Places
  <2>3. Relies(p[k])'
    BY <1>7, <2>2, NoFileIs DEF Relies, Recovering, Snapshot, Composed
  <2> QED BY <1>1, <1>4, <1>5, <2>1, <2>2, <2>3, Placed, Goes
<1> QED BY <1>2, <1>6, <1>7
-----------------------------------------------------------------------------
(* The operations. *)

LEMMA LoadKeeps == ASSUME StorageInv, NEW k \in Proc, Load(k) PROVE StorageInv'
<1>1. /\ p[k].pc = "load" /\ Working(k) /\ p[k] \in Jobs
      /\ UNCHANGED <<files, flock, service, session, counters>>
      /\ p' = [p EXCEPT ![k].pc = p[k].op, ![k].prof = profiles, ![k].sec = secrets]
  BY DEF Load, Working, StorageInv
<1>2. FilesTyped' /\ Journalled'
  BY <1>1, SameFiles DEF StorageInv, FilesTyped, counters
<1>3. ~journal.on
  BY <1>1 DEF StorageInv, Relies
<1>4. /\ p'[k] = [p[k] EXCEPT !.pc = p[k].op, !.prof = profiles, !.sec = secrets]
      /\ p' = [p EXCEPT ![k] = p'[k]]
  BY <1>1 DEF StorageInv
<1>5. p'[k].pc = p[k].op /\ p'[k].prof = profiles /\ p'[k].sec = secrets /\ p'[k].op = p[k].op
  <2>1. p[k] \in Jobs
    BY <1>1
  <2> QED BY <1>4, <2>1 DEF Jobs
<1>6. CASE p[k].op # "none"
  <2>1. p'[k] \in Jobs
    BY <1>1, <1>4, <1>6 DEF Jobs, Ops, Places, Snapshot, StorageInv, FilesTyped
  <2>2. Relies(p[k])'
    <3>1. p[k].op \in Ops
      BY <1>1 DEF Jobs
    <3> QED BY <1>1, <1>3, <1>5, <1>6, <3>1 DEF files, Relies, Recovering, Snapshot, Composed, Ops
  <2> QED BY <1>1, <1>2, <1>4, <1>5, <2>1, <2>2, Goes
<1> QED BY <1>1, <1>6 DEF StorageInv, LockHeld

\* What the holder of the lock has read is the repository.
LEMMA SnapshotIs ==
  ASSUME StorageInv, NEW k \in Proc, p[k].pc \in Snapshot
  PROVE  /\ ~journal.on /\ p[k].prof = profiles /\ p[k].sec = secrets
         /\ DOMAIN p[k].sec \subseteq DOMAIN p[k].prof
         /\ p[k] \in Jobs /\ p[k].prof \in Revisions /\ p[k].sec \in Secrets /\ p[k].id \in Ids
         /\ Working(k)
<1>1. ~journal.on /\ p[k].prof = profiles /\ p[k].sec = secrets
  BY DEF StorageInv, Relies
<1>2. DOMAIN p[k].sec \subseteq DOMAIN p[k].prof
  BY <1>1 DEF StorageInv, Journalled, Cat
<1> QED BY <1>1, <1>2 DEF StorageInv, Jobs, Snapshot, Working

LEMMA PlanKeeps ==
  ASSUME StorageInv, NEW k \in Proc, p[k].pc \in Snapshot,
         NEW prof \in Revisions, NEW sec \in Secrets, NEW sess \in Secrets, NEW next \in {"backup1", "keep"},
         Plan(k, prof, sec, sess, next), typed' \in 0 .. MaxPassword,
         DOMAIN sec \subseteq DOMAIN prof, Change(p[k].id, p[k].prof, p[k].sec, prof, sec)
  PROVE  StorageInv'
<1>1. /\ p' = [p EXCEPT ![k].pc = next, ![k].nprof = prof, ![k].nsec = sec, ![k].nsess = sess]
      /\ UNCHANGED <<files, flock, service, session>>
  BY DEF Plan
<1>2. p[k] \in Jobs
  BY DEF StorageInv
<1>3. FilesTyped' /\ Journalled'
  BY <1>1, SameFiles DEF StorageInv, FilesTyped
<1>4. /\ p'[k] = [p[k] EXCEPT !.pc = next, !.nprof = prof, !.nsec = sec, !.nsess = sess]
      /\ p' = [p EXCEPT ![k] = p'[k]]
  BY <1>1 DEF StorageInv
<1>5. /\ p'[k].pc = next /\ p'[k].prof = p[k].prof /\ p'[k].sec = p[k].sec /\ p'[k].op = p[k].op
      /\ p'[k].id = p[k].id /\ p'[k].nprof = prof /\ p'[k].nsec = sec
  BY <1>2, <1>4 DEF Jobs
<1>6. p'[k] \in Jobs
  BY <1>2, <1>4 DEF Jobs, Places, Snapshot
<1>7. UNCHANGED <<profiles, secrets, journal>>
  BY <1>1 DEF files
<1>8. Change(p[k].id, p[k].prof, p[k].sec, p[k].nprof, p[k].nsec)'
  BY <1>5 DEF Change, With, Without, Revision, Catalogue!With, Catalogue!Without, Catalogue!Revision
<1>9. Relies(p[k])'
  BY <1>5, <1>7, <1>8, SnapshotIs DEF Relies, Recovering, Snapshot, Composed
<1> QED BY <1>1, <1>3, <1>4, <1>5, <1>6, <1>9, SnapshotIs, Goes

LEMMA SaveKeeps == ASSUME StorageInv, NEW k \in Proc, Save(k) PROVE StorageInv'
<1> DEFINE i == p[k].id
           r == Revision(p[k].prof, i) + 1
           prof == With(p[k].prof, i, r)
<1>1. p[k].pc = "save" /\ r <= MaxRevision
  BY DEF Save
<1>2. p[k].pc \in Snapshot
  BY <1>1 DEF Snapshot
<1>3. /\ DOMAIN p[k].sec \subseteq DOMAIN p[k].prof /\ p[k].prof \in Revisions
      /\ p[k].sec \in Secrets /\ i \in Ids /\ session \in Secrets /\ typed \in 0 .. MaxPassword
      /\ MaxRevision \in Nat /\ MaxPassword \in Nat
  BY <1>2, SnapshotIs, StorageAssumption DEF StorageInv, FilesTyped
<1>4. r \in 0 .. MaxRevision
  BY <1>1, <1>3, RevisionIs DEF Revisions
<1>5. prof \in Revisions /\ DOMAIN prof = DOMAIN p[k].prof \cup {i}
  <2> HIDE DEF r, i
  <2>1. r \in UpTo(MaxRevision)
    BY <1>4 DEF UpTo
  <2> QED BY <1>3, <2>1, WithIs, WithDomain DEF Revisions
<1>6. Without(p[k].sec, i) \in Secrets /\ DOMAIN Without(p[k].sec, i) = DOMAIN p[k].sec \ {i}
  BY <1>3, WithoutIs DEF Secrets
<1>7. Without(session, i) \in Secrets
  BY <1>3, WithoutIs DEF Secrets
<1>8. typed < MaxPassword =>
        /\ typed + 1 \in 1 .. MaxPassword
        /\ With(p[k].sec, i, typed + 1) \in Secrets
        /\ DOMAIN With(p[k].sec, i, typed + 1) = DOMAIN p[k].sec \cup {i}
        /\ With(session, i, typed + 1) \in Secrets
  <2> DEFINE v == typed + 1
  <2>1. typed < MaxPassword => v \in 1 .. MaxPassword /\ v \in UpTo(MaxPassword)
    BY <1>3 DEF UpTo
  <2> HIDE DEF v, i
  <2>2. typed < MaxPassword =>
          /\ With(p[k].sec, i, v) \in Secrets /\ DOMAIN With(p[k].sec, i, v) = DOMAIN p[k].sec \cup {i}
          /\ With(session, i, v) \in Secrets
    BY <1>3, <2>1, WithIs, WithDomain DEF Secrets
  <2> QED BY <2>1, <2>2 DEF v
<1>9. \A sec : sec \in {p[k].sec, Without(p[k].sec, i)} \cup {With(p[k].sec, i, v) : v \in 1 .. MaxPassword}
               => Change(i, p[k].prof, p[k].sec, prof, sec)
  BY DEF Change
<1> HIDE DEF i, r, prof
<1>10. CASE /\ typed < MaxPassword /\ typed' = typed + 1
            /\ Plan(k, prof, With(p[k].sec, i, typed + 1), Without(session, i), "backup1")
  BY <1>2, <1>3, <1>5, <1>7, <1>8, <1>9, <1>10, PlanKeeps DEF i
<1>11. CASE \E sec \in {p[k].sec, Without(p[k].sec, i)} :
              Plan(k, prof, sec, Without(session, i), "backup1") /\ UNCHANGED typed
  <2>1. PICK sec \in {p[k].sec, Without(p[k].sec, i)} :
          Plan(k, prof, sec, Without(session, i), "backup1") /\ UNCHANGED typed
    BY <1>11
  <2>2. sec \in Secrets /\ DOMAIN sec \subseteq DOMAIN prof /\ Change(i, p[k].prof, p[k].sec, prof, sec)
    BY <1>3, <1>5, <1>6, <1>9
  <2> QED BY <1>2, <1>3, <1>5, <1>7, <2>1, <2>2, PlanKeeps DEF i
<1>12. CASE /\ typed < MaxPassword /\ typed' = typed + 1
            /\ Plan(k, prof, Without(p[k].sec, i), With(session, i, typed + 1), "backup1")
  BY <1>2, <1>3, <1>5, <1>6, <1>8, <1>9, <1>12, PlanKeeps DEF i
<1>13. CASE Plan(k, prof, Without(p[k].sec, i), session, "backup1") /\ UNCHANGED typed
  BY <1>2, <1>3, <1>5, <1>6, <1>9, <1>13, PlanKeeps DEF i
<1> QED BY <1>10, <1>11, <1>12, <1>13 DEF Save, i, r, prof

LEMMA DeleteKeeps == ASSUME StorageInv, NEW k \in Proc, Delete(k) PROVE StorageInv'
<1> DEFINE i == p[k].id
<1>1. p[k].pc = "delete" /\ p[k].pc \in Snapshot /\ UNCHANGED counters
  BY DEF Delete, Snapshot
<1>2. /\ DOMAIN p[k].sec \subseteq DOMAIN p[k].prof /\ p[k].prof \in Revisions
      /\ p[k].sec \in Secrets /\ session \in Secrets /\ typed' \in 0 .. MaxPassword
      /\ MaxRevision \in Nat /\ MaxPassword \in Nat /\ Working(k)
  BY <1>1, SnapshotIs, StorageAssumption DEF StorageInv, FilesTyped, counters
<1>3. CASE i \in DOMAIN p[k].prof
  <2>1. Plan(k, Without(p[k].prof, i), Without(p[k].sec, i), Without(session, i), "backup1")
    BY <1>3 DEF Delete
  <2>2. Without(p[k].prof, i) \in Revisions /\ DOMAIN Without(p[k].prof, i) = DOMAIN p[k].prof \ {i}
    BY <1>2, WithoutIs DEF Revisions
  <2>3. Without(p[k].sec, i) \in Secrets /\ DOMAIN Without(p[k].sec, i) = DOMAIN p[k].sec \ {i}
    BY <1>2, WithoutIs DEF Secrets
  <2>4. Without(session, i) \in Secrets
    BY <1>2, WithoutIs DEF Secrets
  <2>5. Change(p[k].id, p[k].prof, p[k].sec, Without(p[k].prof, i), Without(p[k].sec, i))
    BY <1>3 DEF Change
  <2> QED BY <1>1, <1>2, <2>1, <2>2, <2>3, <2>4, <2>5, PlanKeeps
<1>4. CASE i \notin DOMAIN p[k].prof
  <2>1. Done(k) /\ UNCHANGED <<files, session>>
    BY <1>4 DEF Delete
  <2>2. FilesTyped' /\ Journalled'
    BY <1>2, <2>1, SameFiles DEF StorageInv, FilesTyped
  <2> QED BY <1>2, <2>1, <2>2, Ends
<1> QED BY <1>3, <1>4

\* The revisions of a restore are past those of the archive and the present ones.
LEMMA RestoredIs ==
  ASSUME StorageInv, NEW k \in Proc, p[k] \in Jobs,
         \A i \in DOMAIN archive.prof : Restored(k)[i] <= MaxRevision
  PROVE  /\ Restored(k) \in Revisions /\ DOMAIN Restored(k) = DOMAIN archive.prof
         /\ \A i \in DOMAIN Restored(k) : Restored(k)[i] > Revision(p[k].prof, i)
<1>1. archive.prof \in Maps(MaxRevision) /\ p[k].prof \in Maps(MaxRevision) /\ MaxRevision \in Nat
  BY StorageAssumption DEF StorageInv, FilesTyped, Docs, Jobs, Revisions
<1>2. PICK S \in SUBSET Ids : archive.prof \in [S -> 0 .. MaxRevision]
  BY <1>1, MapsIs
<1>3. \A i \in S : Revision(p[k].prof, i) \in 0 .. MaxRevision /\ archive.prof[i] \in 0 .. MaxRevision
  BY <1>1, <1>2, RevisionIs
<1>4. \A i \in S : /\ Restored(k)[i] \in 0 .. MaxRevision
                   /\ Restored(k)[i] > Revision(p[k].prof, i)
  BY <1>1, <1>2, <1>3 DEF Restored
<1>5. DOMAIN Restored(k) = S /\ DOMAIN archive.prof = S
  BY <1>2 DEF Restored
<1>6. Restored(k) \in [S -> 0 .. MaxRevision]
  BY <1>2, <1>4 DEF Restored
<1>7. Restored(k) \in Revisions
  BY <1>1, <1>6, MapsIs DEF Revisions
<1> QED BY <1>4, <1>5, <1>7

LEMMA RestoreKeeps == ASSUME StorageInv, NEW k \in Proc, Restore(k) PROVE StorageInv'
<1> DEFINE own == DOMAIN p[k].sec \ (DOMAIN p[k].prof \cup DOMAIN archive.prof)
           sec == [i \in own \cup DOMAIN archive.sec |->
                     IF i \in DOMAIN archive.sec THEN archive.sec[i] ELSE p[k].sec[i]]
<1>1. /\ p[k].pc = "restore" /\ p[k].pc \in Snapshot /\ Acceptable(archive) /\ UNCHANGED counters
      /\ \A i \in DOMAIN archive.prof : Restored(k)[i] <= MaxRevision
      /\ Plan(k, Restored(k), sec, Empty, "keep")
  BY DEF Restore, Snapshot
<1>2. /\ DOMAIN p[k].sec \subseteq DOMAIN p[k].prof /\ p[k] \in Jobs
      /\ archive.sec \in Maps(MaxPassword) /\ MaxPassword \in Nat /\ typed' \in 0 .. MaxPassword
  BY <1>1, SnapshotIs, StorageAssumption DEF StorageInv, FilesTyped, Docs, Secrets, counters
<1>3. own = {}
  BY <1>2
<1>4. sec = archive.sec
  <2>1. PICK S \in SUBSET Ids : archive.sec \in [S -> 0 .. MaxPassword]
    BY <1>2, MapsIs
  <2>2. DOMAIN archive.sec = S /\ own \cup S = S
    BY <1>3, <2>1
  <2> QED BY <2>1, <2>2
<1>5. Restored(k) \in Revisions /\ DOMAIN Restored(k) = DOMAIN archive.prof
  BY <1>1, <1>2, RestoredIs
<1>6. Change(p[k].id, p[k].prof, p[k].sec, Restored(k), sec)
  BY <1>1, <1>2, RestoredIs DEF Change
<1> HIDE DEF sec
<1>7. sec \in Secrets /\ DOMAIN sec \subseteq DOMAIN Restored(k) /\ Empty \in Secrets
  BY <1>1, <1>2, <1>4, <1>5, EmptyIs DEF Secrets, Acceptable
<1> QED BY <1>1, <1>2, <1>5, <1>6, <1>7, PlanKeeps

\* A copy is made, or the operation ends.
LEMMA KeepCopyKeeps == ASSUME StorageInv, NEW k \in Proc, KeepCopy(k) PROVE StorageInv'
<1>1. /\ p[k].pc = "keep" /\ p[k].pc \in Snapshot /\ UNCHANGED <<files, session>>
      /\ UNCHANGED typed /\ (Goto(k, "backup1") \/ Done(k))
  BY DEF KeepCopy, File, Snapshot, counters
<1>2. FilesTyped' /\ Journalled' /\ Working(k)
  BY <1>1, SameFiles, SnapshotIs DEF StorageInv, FilesTyped
<1>3. CASE Done(k)
  BY <1>2, <1>3, Ends
<1>4. CASE Goto(k, "backup1")
  <2>1. "backup1" \in Places
    BY DEF Places, Snapshot
  <2>2. /\ p'[k].pc = "backup1" /\ p'[k].prof = p[k].prof /\ p'[k].sec = p[k].sec
        /\ p'[k].nprof = p[k].nprof /\ p'[k].nsec = p[k].nsec /\ p'[k].id = p[k].id
    BY <1>4, <2>1, Placed
  <2>3. Change(p[k].id, p[k].prof, p[k].sec, p[k].nprof, p[k].nsec)'
          <=> Change(p[k].id, p[k].prof, p[k].sec, p[k].nprof, p[k].nsec)
    BY <2>2, SameChange
  <2>4. Relies(p[k])
    BY DEF StorageInv
  <2>5. UNCHANGED <<profiles, secrets, journal>>
    BY <1>1 DEF files
  <2>6. Relies(p[k])'
    BY <1>1, <2>2, <2>3, <2>4, <2>5 DEF Relies, Recovering, Snapshot, Composed
  <2> QED BY <1>2, <1>4, <2>1, <2>6, Placed, Goes
<1> QED BY <1>1, <1>3, <1>4

\* The commit point.
LEMMA WriteJournalKeeps == ASSUME StorageInv, NEW k \in Proc, WriteJournal(k) PROVE StorageInv'
<1> DEFINE doc == [on |-> TRUE, prof |-> p[k].nprof, sec |-> p[k].nsec]
<1>1. /\ p[k].pc = "journal" /\ p[k].pc \in Snapshot /\ p[k] \in Jobs /\ Working(k)
      /\ UNCHANGED <<profiles, legacy, secrets, pair, archive, session, typed>>
  BY DEF WriteJournal, Snapshot, Working, StorageInv, counters
<1>2. Relies(p[k])
  BY DEF StorageInv
<1>3. doc \in Docs /\ doc.on /\ DOMAIN doc.sec \subseteq DOMAIN doc.prof /\ (legacy => pair.on)
  BY <1>1, <1>2 DEF Docs, Jobs, Relies, Composed
<1>4. ASSUME journal' = doc
      PROVE  FilesTyped' /\ Journalled'
  BY <1>1, <1>3, <1>4 DEF StorageInv, FilesTyped, Journalled, Cat
<1>5. CASE journal' = doc /\ p' = [p EXCEPT ![k].pc = "recover", ![k].mine = TRUE] /\ UNCHANGED <<flock, service>>
  <2>1. p'[k] = [p[k] EXCEPT !.pc = "recover", !.mine = TRUE] /\ p' = [p EXCEPT ![k] = p'[k]]
    BY <1>5 DEF StorageInv
  <2>2. p'[k] \in Jobs /\ p'[k].op = p[k].op /\ p'[k].pc = "recover"
    BY <1>1, <2>1 DEF Jobs, Places
  <2>3. Relies(p[k])'
    BY <2>2 DEF Relies, Recovering, Snapshot, Composed
  <2> QED BY <1>1, <1>4, <1>5, <2>1, <2>2, <2>3, Goes
<1>6. CASE journal' = doc /\ Done(k)
  BY <1>1, <1>4, <1>6, Ends
<1>7. CASE Done(k) /\ UNCHANGED journal
  <2>1. FilesTyped' /\ Journalled'
    BY <1>1, <1>7 DEF StorageInv, FilesTyped, Journalled, Cat
  <2> QED BY <1>1, <1>7, <2>1, Ends
<1> QED BY <1>5, <1>6, <1>7 DEF WriteJournal

\* The other ends of operations.
LEMMA EndingKeeps ==
  ASSUME StorageInv, NEW k \in Proc, Refuse(k) \/ Finish(k) \/ Read(k) \/ Backup(k) \/ WriteLegacy(k)
  PROVE  StorageInv'
<1>1. Working(k) /\ Done(k) /\ UNCHANGED <<profiles, secrets, journal, pair, typed>>
  BY DEF Refuse, Finish, Read, Backup, WriteLegacy, Working, files, counters
<1>2. session' \in Secrets /\ legacy' \in BOOLEAN
  BY DEF Refuse, Finish, Read, Backup, WriteLegacy, files, StorageInv, FilesTyped, Jobs
<1>3. archive' \in Docs
  <2>1. [on |-> TRUE, prof |-> p[k].prof, sec |-> p[k].sec] \in Docs /\ archive \in Docs
    BY DEF StorageInv, FilesTyped, Jobs, Docs
  <2> QED BY <2>1 DEF Refuse, Finish, Read, Backup, WriteLegacy, files
<1>4. journal.on => UNCHANGED legacy
  BY DEF Refuse, Finish, Read, Backup, WriteLegacy, files, StorageInv, Relies
<1>5. FilesTyped' /\ Journalled'
  BY <1>1, <1>2, <1>3, <1>4 DEF StorageInv, FilesTyped, Journalled, Cat
<1> QED BY <1>1, <1>5, Ends

LEMMA RollbackKeeps == ASSUME StorageInv, NEW k \in Proc, Rollback(k) PROVE StorageInv'
<1>1. /\ p[k].pc = "rollback" /\ Working(k) /\ UNCHANGED <<files, session>>
      /\ UNCHANGED typed /\ (Goto(k, "legacy") \/ Done(k))
  BY DEF Rollback, File, Working, counters
<1>2. FilesTyped' /\ Journalled' /\ ~journal.on
  BY <1>1, SameFiles DEF StorageInv, FilesTyped, Relies
<1>3. CASE Done(k)
  BY <1>1, <1>2, <1>3, Ends
<1>4. CASE Goto(k, "legacy")
  <2>1. "legacy" \in Places
    BY DEF Places
  <2>2. p'[k].pc = "legacy" /\ UNCHANGED journal
    BY <1>1, <1>4, <2>1, Placed DEF files
  <2>3. Relies(p[k])'
    BY <1>2, <2>2 DEF Relies, Recovering, Snapshot, Composed
  <2> QED BY <1>1, <1>2, <1>4, <2>1, <2>3, Placed, Goes
<1> QED BY <1>1, <1>3, <1>4

\* A crash leaves the files as they are.
LEMMA CrashKeeps == ASSUME StorageInv, Crash PROVE StorageInv'
<1>1. UNCHANGED <<files, typed>>
  BY DEF Crash
<1>2. session' \in Secrets
  BY EmptyIs, StorageAssumption DEF Crash, StorageInv, FilesTyped, Secrets
<1>3. FilesTyped' /\ Journalled'
  BY <1>1, <1>2, SameFiles DEF StorageInv, FilesTyped
<1>4. CASE \E k \in Command : Done(k)
  <2>1. PICK k \in Proc : Done(k)
    BY <1>4 DEF Proc
  <2> QED BY <1>1, <1>3, <2>1, Ends
<1>5. CASE /\ service = "service" /\ service' = Nobody
           /\ p' = [k \in Proc |-> IF k \in Thread THEN Idle ELSE p[k]]
           /\ flock' = IF flock \in Thread THEN Nobody ELSE flock
  <2>1. p' \in [Proc -> Jobs]
    BY <1>5, IdleIs DEF StorageInv
  <2>2. LockHeld'
    BY <1>5, IdleIs, StorageAssumption DEF StorageInv, LockHeld, Proc, Nobody
  <2>3. ASSUME NEW k \in Proc PROVE Relies(p[k])'
    <3>1. CASE k \in Thread
      BY <1>5, <3>1, IdleIs DEF Relies, Recovering, Snapshot, Composed
    <3>2. CASE k \notin Thread
      BY <1>1, <1>5, <3>2 DEF StorageInv, Relies, files
    <3> QED BY <3>1, <3>2
  <2> QED BY <1>3, <2>1, <2>2, <2>3 DEF StorageInv
<1> QED BY <1>4, <1>5 DEF Crash

LEMMA StorageInitInv == ASSUME Orphans = {}, Init PROVE StorageInv
<1>1. PICK i \in Ids : profiles = [j \in {i} |-> 1] /\ secrets = [j \in {i} |-> 0]
  <2>1. PICK i \in Ids \ Orphans : profiles = [j \in {i} |-> 1] /\ secrets = [j \in {i} \cup Orphans |-> 0]
    BY DEF Init
  <2>2. {i} \cup Orphans = {i}
    OBVIOUS
  <2> QED BY <2>1, <2>2
<1>2. profiles \in Revisions /\ secrets \in Secrets
  <2>1. profiles \in [{i} -> 0 .. MaxRevision] /\ secrets \in [{i} -> 0 .. MaxPassword]
    BY <1>1, StorageAssumption
  <2>2. {i} \in SUBSET Ids /\ MaxRevision \in Nat /\ MaxPassword \in Nat
    BY StorageAssumption
  <2> QED BY <2>1, <2>2, MapsIs DEF Revisions, Secrets
<1>3. FilesTyped
  BY <1>2, NoFileIs, EmptyIs, StorageAssumption DEF Init, FilesTyped, Secrets
<1>4. p \in [Proc -> Jobs] /\ \A k \in Proc : p[k] = Idle
  BY IdleIs DEF Init
<1>5. LockHeld
  BY <1>4, IdleIs DEF Init, LockHeld, Proc
<1>6. Journalled
  BY <1>1, NoFileIs DEF Init, Journalled, Cat
<1>7. \A k \in Proc : Relies(p[k])
  BY <1>4, IdleIs DEF Relies, Recovering, Snapshot, Composed
<1> QED BY <1>3, <1>4, <1>5, <1>6, <1>7 DEF StorageInv

LEMMA StorageStep == StorageInv /\ [Next]_vars => StorageInv'
<1> SUFFICES ASSUME StorageInv, [Next]_vars PROVE StorageInv'
  OBVIOUS
<1>1. CASE Serve
  BY <1>1, ServeKeeps
<1>2. CASE Crash
  BY <1>2, CrashKeeps
<1>3. ASSUME NEW k \in Proc, Work(k) PROVE StorageInv'
  <2>1. CASE \/ \E i \in Ids, op \in {"save", "delete", "read"} : Begin(k, op, i)
             \/ \E op \in {"backup", "restore", "rollback"} : Begin(k, op, Idle.id)
    <3>1. Idle.id \in Ids
      BY IdleIs DEF Jobs
    <3> QED BY <2>1, <3>1, BeginKeeps DEF Ops
  <2>2. CASE Lock(k)
    BY <2>2, LockKeeps
  <2>3. CASE RecoverChecks(k)
    BY <2>3, RecoverChecksKeeps
  <2>4. CASE RecoverBackup(k) \/ CommitBackup(k)
    BY <2>4, LegacyBackupKeeps
  <2>5. CASE RecoverProfiles(k)
    BY <2>5, RecoverProfilesKeeps
  <2>6. CASE RecoverSecrets(k)
    BY <2>6, RecoverSecretsKeeps
  <2>7. CASE RecoverRemove(k)
    BY <2>7, RecoverRemoveKeeps
  <2>8. CASE Load(k)
    BY <2>8, LoadKeeps
  <2>9. CASE Save(k)
    BY <2>9, SaveKeeps
  <2>10. CASE Delete(k)
    BY <2>10, DeleteKeeps
  <2>11. CASE Restore(k)
    BY <2>11, RestoreKeeps
  <2>12. CASE KeepCopy(k)
    BY <2>12, KeepCopyKeeps
  <2>13. CASE WriteJournal(k)
    BY <2>13, WriteJournalKeeps
  <2>14. CASE Refuse(k) \/ Finish(k) \/ Read(k) \/ Backup(k) \/ WriteLegacy(k)
    BY <2>14, EndingKeeps
  <2>15. CASE Rollback(k)
    BY <2>15, RollbackKeeps
  <2> QED BY <1>3, <2>1, <2>2, <2>3, <2>4, <2>5, <2>6, <2>7, <2>8, <2>9, <2>10, <2>11, <2>12, <2>13,
             <2>14, <2>15 DEF Work
<1>4. CASE UNCHANGED vars
  <2>1. UNCHANGED <<files, flock, service, session, p, typed>>
    BY <1>4 DEF vars, counters
  <2>2. FilesTyped' /\ Journalled'
    BY <2>1, SameFiles DEF StorageInv, FilesTyped
  <2>3. p' \in [Proc -> Jobs] /\ LockHeld'
    BY <2>1 DEF StorageInv, LockHeld
  <2>4. \A k \in Proc : Relies(p[k])'
    BY <2>1 DEF StorageInv, Relies, files
  <2> QED BY <2>2, <2>3, <2>4 DEF StorageInv
<1> QED BY <1>1, <1>2, <1>3, <1>4 DEF Next
-----------------------------------------------------------------------------
(* Refinement: the catalogue changes in one step, when a journal is written. *)

\* Whose writes of files the catalogue does not see.
LEMMA CatSame ==
  ASSUME StorageInv, [Next]_vars, \A k \in Proc : ~WriteJournal(k)
  PROVE  UNCHANGED Cat
<1>1. CASE UNCHANGED <<profiles, secrets, journal>>
  BY <1>1 DEF Cat
<1>2. ASSUME NEW k \in Proc, RecoverProfiles(k) \/ RecoverSecrets(k) PROVE UNCHANGED Cat
  <2>1. p[k].pc \in Recovering /\ UNCHANGED journal
    BY <1>2 DEF RecoverProfiles, RecoverSecrets, Recovering
  <2>2. journal.on
    BY <2>1 DEF StorageInv, Relies
  <2> QED BY <2>1, <2>2 DEF Cat
<1>3. ASSUME NEW k \in Proc, RecoverRemove(k) PROVE UNCHANGED Cat
  <2>1. p[k].pc = "remove" /\ UNCHANGED <<profiles, secrets>> /\ (journal' = NoFile \/ UNCHANGED journal)
    BY <1>3 DEF RecoverRemove, File
  <2>2. journal.on /\ profiles = journal.prof /\ secrets = journal.sec
    BY <2>1 DEF StorageInv, Relies, Recovering
  <2> QED BY <2>1, <2>2, NoFileIs DEF Cat
<1>4. CASE Serve \/ Crash \/ UNCHANGED vars
  BY <1>1, <1>4 DEF Serve, Crash, vars, files
<1>5. ASSUME NEW k \in Proc, Work(k), ~RecoverProfiles(k), ~RecoverSecrets(k), ~RecoverRemove(k)
      PROVE  UNCHANGED <<profiles, secrets, journal>>
  <2>1. ~WriteJournal(k)
    OBVIOUS
  <2>2. CASE \/ \E i \in Ids, op \in {"save", "delete", "read"} : Begin(k, op, i)
             \/ \E op \in {"backup", "restore", "rollback"} : Begin(k, op, Idle.id)
    BY <2>2 DEF Begin, files
  <2>3. CASE Lock(k) \/ RecoverChecks(k) \/ RecoverBackup(k) \/ CommitBackup(k) \/ Load(k)
    BY <2>3 DEF Lock, RecoverChecks, RecoverBackup, CommitBackup, LegacyBackup, Load, files
  <2>4. CASE Save(k) \/ Delete(k) \/ Refuse(k) \/ Restore(k) \/ KeepCopy(k)
    BY <2>4 DEF Save, Delete, Refuse, Restore, KeepCopy, Plan, files
  <2>5. CASE Finish(k) \/ Read(k) \/ Backup(k) \/ Rollback(k) \/ WriteLegacy(k)
    BY <2>5 DEF Finish, Read, Backup, Rollback, WriteLegacy, files
  <2> QED BY <1>5, <2>1, <2>2, <2>3, <2>4, <2>5 DEF Work
<1> QED BY <1>1, <1>2, <1>3, <1>4, <1>5 DEF Next

\* A commit is a save, a deletion or a restore of the catalogue.
LEMMA CommitIs ==
  ASSUME StorageInv, NEW k \in Proc, WriteJournal(k)
  PROVE  Catalogue!Next \/ UNCHANGED Cat
<1>1. p[k].pc = "journal" /\ p[k].pc \in Snapshot /\ UNCHANGED <<profiles, secrets>>
  BY DEF WriteJournal, Snapshot
<1>2. ~journal.on /\ p[k].prof = profiles /\ p[k].sec = secrets /\ p[k].id \in Ids
  BY <1>1, SnapshotIs
<1>3. Cat = [prof |-> p[k].prof, sec |-> p[k].sec]
  BY <1>2 DEF Cat
<1>4. /\ Change(p[k].id, p[k].prof, p[k].sec, p[k].nprof, p[k].nsec)
      /\ DOMAIN p[k].nsec \subseteq DOMAIN p[k].nprof
  BY <1>1 DEF StorageInv, Relies, Composed
<1>5. CASE journal' = [on |-> TRUE, prof |-> p[k].nprof, sec |-> p[k].nsec]
  <2>1. Cat' = [prof |-> p[k].nprof, sec |-> p[k].nsec]
    BY <1>5 DEF Cat
  <2>2. CASE /\ p[k].nprof = With(p[k].prof, p[k].id, Revision(p[k].prof, p[k].id) + 1)
             /\ p[k].nsec \in {p[k].sec, Without(p[k].sec, p[k].id)}
                                \cup {With(p[k].sec, p[k].id, v) : v \in 1 .. MaxPassword}
    <3>1. Catalogue!Save(p[k].id)
      BY <1>3, <2>1, <2>2 DEF Catalogue!Save, With, Without, Revision
    <3> QED BY <1>2, <3>1 DEF Catalogue!Next
  <2>3. CASE /\ p[k].id \in DOMAIN p[k].prof
             /\ p[k].nprof = Without(p[k].prof, p[k].id) /\ p[k].nsec = Without(p[k].sec, p[k].id)
    <3>1. Catalogue!Delete(p[k].id)
      BY <1>3, <2>1, <2>3 DEF Catalogue!Delete, Without
    <3> QED BY <1>2, <3>1 DEF Catalogue!Next
  <2>4. CASE \A i \in DOMAIN p[k].nprof : p[k].nprof[i] > Revision(p[k].prof, i)
    <3>1. Catalogue!Restore
      BY <1>3, <1>4, <2>1, <2>4 DEF Catalogue!Restore, Revision
    <3> QED BY <3>1 DEF Catalogue!Next
  <2> QED BY <1>4, <2>2, <2>3, <2>4 DEF Change
<1>6. CASE UNCHANGED journal
  BY <1>1, <1>6 DEF Cat
<1> QED BY <1>5, <1>6 DEF WriteJournal

\* Only a recovery ends the schema-0 array, and only a commit makes its backup.
LEMMA PairStep ==
  ASSUME StorageInv, [Next]_vars
  PROVE  PairsWithProfiles
<1>1. ASSUME NEW k \in Proc, RecoverProfiles(k) PROVE PairsWithProfiles
  <2>1. journal.on /\ UNCHANGED pair
    BY <1>1 DEF RecoverProfiles, StorageInv, Relies, Recovering
  <2> QED BY <2>1 DEF PairsWithProfiles, StorageInv, Journalled
<1>2. ASSUME NEW k \in Proc, RecoverBackup(k) \/ CommitBackup(k) PROVE PairsWithProfiles
  <2>1. /\ p[k].pc \in {"rebackup", "backup1"} /\ UNCHANGED legacy
        /\ pair' # pair => legacy /\ ~pair.on /\ pair' = [on |-> TRUE, prof |-> profiles, sec |-> secrets]
    BY <1>2 DEF RecoverBackup, CommitBackup, LegacyBackup, File
  <2>2. p[k].pc = "rebackup" => journal.on
    BY DEF StorageInv, Relies, Recovering
  <2>3. p[k].pc = "backup1" => ~journal.on
    BY DEF StorageInv, Relies, Snapshot
  <2>4. ~journal.on => Cat.prof = profiles /\ Cat.sec = secrets
    BY DEF Cat
  <2>5. journal.on /\ legacy => pair.on
    BY DEF StorageInv, Journalled
  <2> QED BY <2>1, <2>2, <2>3, <2>4, <2>5 DEF PairsWithProfiles
<1>3. CASE Serve \/ Crash \/ UNCHANGED vars
  BY <1>3 DEF Serve, Crash, vars, files, PairsWithProfiles
<1>4. ASSUME NEW k \in Proc, Work(k), ~RecoverProfiles(k), ~RecoverBackup(k), ~CommitBackup(k)
      PROVE  UNCHANGED pair /\ legacy' \in {legacy, TRUE}
  <2>1. CASE \/ \E i \in Ids, op \in {"save", "delete", "read"} : Begin(k, op, i)
             \/ \E op \in {"backup", "restore", "rollback"} : Begin(k, op, Idle.id)
    BY <2>1 DEF Begin, files
  <2>2. CASE Lock(k) \/ RecoverChecks(k) \/ RecoverSecrets(k) \/ RecoverRemove(k) \/ Load(k) \/ WriteJournal(k)
    BY <2>2 DEF Lock, RecoverChecks, RecoverSecrets, RecoverRemove, Load, WriteJournal, files
  <2>3. CASE Save(k) \/ Delete(k) \/ Refuse(k) \/ Restore(k) \/ KeepCopy(k)
    BY <2>3 DEF Save, Delete, Refuse, Restore, KeepCopy, Plan, files
  <2>4. CASE Finish(k) \/ Read(k) \/ Backup(k) \/ Rollback(k) \/ WriteLegacy(k)
    BY <2>4 DEF Finish, Read, Backup, Rollback, WriteLegacy, files
  <2> QED BY <1>4, <2>1, <2>2, <2>3, <2>4 DEF Work
<1>5. ASSUME UNCHANGED pair, legacy' \in {legacy, TRUE} PROVE PairsWithProfiles
  <2>1. CASE legacy' = legacy
    BY <1>5, <2>1 DEF PairsWithProfiles
  <2>2. CASE legacy' = TRUE
    BY <1>5, <2>2 DEF PairsWithProfiles
  <2> QED BY <1>5, <2>1, <2>2
<1> QED BY <1>1, <1>2, <1>3, <1>4, <1>5 DEF Next

\* What the invariant says of the run's property.
LEMMA StorageInvSays ==
  ASSUME StorageInv
  PROVE  RepositoryCurrent
<1>1. StorageTypeOK
  BY DEF StorageInv, FilesTyped, LockHeld, StorageTypeOK, Docs, Revisions, Secrets
<1>2. SnapshotCurrent
  <2> SUFFICES ASSUME NEW k \in Proc, p[k].pc \in Snapshot
               PROVE  Cat = [prof |-> p[k].prof, sec |-> p[k].sec]
    BY DEF SnapshotCurrent, Snapshot
  <2> QED BY SnapshotIs DEF Cat
<1>3. JournalFinishable
  BY DEF StorageInv, Journalled, JournalFinishable, Acceptable, Cat
<1> QED BY <1>1, <1>2, <1>3 DEF RepositoryCurrent
-----------------------------------------------------------------------------
(* The theorems. *)

\* The invariant of the repository: the lock, the journal as commit point, and
\* what its holder relies on at every step.
THEOREM StorageInductive == ASSUME Orphans = {} PROVE Spec => []StorageInv
<1>1. Init => StorageInv
  BY StorageInitInv
<1>2. StorageInv /\ [Next]_vars => StorageInv'
  BY StorageStep
<1> QED BY <1>1, <1>2, PTL DEF Spec

\* Whoever holds the lock, service or command line, works from the repository as
\* it is, and no interrupted commit is left that its next reader cannot finish.
THEOREM StorageCurrent == ASSUME Orphans = {} PROVE Spec => []RepositoryCurrent
<1>1. StorageInv => RepositoryCurrent
  BY StorageInvSays
<1> QED BY <1>1, StorageInductive, PTL

\* The two files and the journal implement the catalogue that changes by whole
\* saves, deletions and restores, whatever dies or fails between the steps, and
\* the backup of schema 0 pairs profiles with their passwords.
THEOREM StorageImplements == ASSUME Orphans = {} PROVE Spec => CatalogueKept
<1>1. StorageInv /\ [Next]_vars => [Catalogue!Next]_Cat
  <2> SUFFICES ASSUME StorageInv, [Next]_vars PROVE Catalogue!Next \/ UNCHANGED Cat
    OBVIOUS
  <2> QED BY CatSame, CommitIs
<1>2. StorageInv /\ [Next]_vars => [PairsWithProfiles]_vars
  BY PairStep
<1> QED BY <1>1, <1>2, StorageInductive, PTL DEF Spec, CatalogueKept, Implements, Catalogue!Spec, MigrationPair

-----------------------------------------------------------------------------
\* The repository of the desktop

\* The names are what StoreAssumption says they are.
LEMMA StoreNames ==
  /\ NoRef \notin AllRefs /\ Typed \notin AllRefs /\ "error" \notin AllRefs /\ NoRef # Typed
  /\ Refs \subseteq AllRefs /\ ProfileIds \subseteq AllRefs /\ \A r \in Refs : r \notin ProfileIds
  /\ Boot \notin Worker /\ Unlocked \notin Worker /\ Worker \subseteq Commands /\ Boot \in Commands
  /\ Unlocked # Boot /\ \A k \in Commands : k # Boot => k \in Worker
  /\ MaxLife \in Nat /\ MaxLife > 0 /\ MaxStoreRevision \in Nat
  /\ NoRef \notin ProfileIds /\ NoRef \notin Refs
BY StoreAssumption DEF NoRef, Typed, AllRefs, Boot, Unlocked, Commands

\* A catalogue is a function from some of the ids.
LEMMA MetaIs ==
  ASSUME NEW c
  PROVE  c \in Metadata <=> DOMAIN c \subseteq ProfileIds /\ c \in [DOMAIN c -> Entry]
<1>1. ASSUME c \in Metadata PROVE DOMAIN c \subseteq ProfileIds /\ c \in [DOMAIN c -> Entry]
  <2>1. PICK S \in SUBSET ProfileIds : c \in [S -> Entry]
    BY <1>1 DEF Metadata
  <2> QED BY <2>1
<1>2. ASSUME DOMAIN c \subseteq ProfileIds, c \in [DOMAIN c -> Entry] PROVE c \in Metadata
  BY <1>2 DEF Metadata
<1> QED BY <1>1, <1>2

\* The empty catalogue.
LEMMA NoProfilesIs == NoProfiles \in Metadata /\ DOMAIN NoProfiles = {} /\ NoProfiles \in Todos /\ NoProfiles \in Found
<1>1. DOMAIN NoProfiles = {} /\ (\A S : NoProfiles \in [{} -> S])
  BY DEF NoProfiles
<1>2. NoProfiles \in Metadata
  BY <1>1, MetaIs
<1>3. {} \in SUBSET ProfileIds
  OBVIOUS
<1>4. NoProfiles \in Todos /\ NoProfiles \in Found
  BY <1>1, <1>3 DEF Todos, Found
<1> QED BY <1>1, <1>2, <1>4

\* The parts of a catalogue.
LEMMA Parts ==
  ASSUME NEW c \in Metadata, NEW i \in DOMAIN c
  PROVE  /\ i \in ProfileIds /\ c[i] \in Entry /\ c[i].rev \in 0 .. MaxStoreRevision /\ c[i].rev \in Nat
         /\ c[i].ref \in Refs \cup {NoRef} /\ c[i].flag \in {"stored", "none", "unknown"} /\ c[i].life \in 1 .. MaxLife
         /\ RefOf(i, c[i]) \in AllRefs
<1>1. i \in ProfileIds /\ c[i] \in Entry
  BY MetaIs
<1>2. /\ c[i].rev \in 0 .. MaxStoreRevision /\ c[i].ref \in Refs \cup {NoRef} /\ c[i].flag \in {"stored", "none", "unknown"}
      /\ c[i].life \in 1 .. MaxLife
  BY <1>1 DEF Entry
<1>3. RefOf(i, c[i]) \in AllRefs
  BY <1>1, <1>2, StoreNames DEF RefOf
<1> QED BY <1>1, <1>2, <1>3

\* References are references.
LEMMA ReferencesTyped ==
  ASSUME NEW c \in Metadata
  PROVE  References(c) \subseteq AllRefs
BY Parts DEF References

\* Put and Drop.
LEMMA PutIs ==
  ASSUME NEW c \in Metadata, NEW i \in ProfileIds, NEW entry \in Entry
  PROVE  /\ Put(c, i, entry) \in Metadata /\ DOMAIN Put(c, i, entry) = DOMAIN c \cup {i} /\ Put(c, i, entry)[i] = entry
         /\ \A j \in DOMAIN c \ {i} : Put(c, i, entry)[j] = c[j]
<1>1. /\ DOMAIN Put(c, i, entry) = DOMAIN c \cup {i} /\ Put(c, i, entry)[i] = entry
      /\ \A j \in DOMAIN c \ {i} : Put(c, i, entry)[j] = c[j]
  BY DEF Put
<1>2. DOMAIN c \subseteq ProfileIds /\ \A j \in DOMAIN c : c[j] \in Entry
  BY MetaIs
<1>3. Put(c, i, entry) \in [DOMAIN c \cup {i} -> Entry]
  BY <1>2 DEF Put
<1> QED BY <1>1, <1>2, <1>3, MetaIs

\* The catalogue without a profile.
LEMMA DropIs ==
  ASSUME NEW c \in Metadata, NEW i
  PROVE  /\ Drop(c, i) \in Metadata /\ DOMAIN Drop(c, i) = DOMAIN c \ {i}
         /\ \A j \in DOMAIN c \ {i} : Drop(c, i)[j] = c[j]
<1>1. DOMAIN Drop(c, i) = DOMAIN c \ {i} /\ \A j \in DOMAIN c \ {i} : Drop(c, i)[j] = c[j]
  BY DEF Drop
<1>2. DOMAIN c \subseteq ProfileIds /\ \A j \in DOMAIN c : c[j] \in Entry
  BY MetaIs
<1>3. Drop(c, i) \in [DOMAIN c \ {i} -> Entry]
  BY <1>2 DEF Drop
<1> QED BY <1>1, <1>2, <1>3, MetaIs

\* What remains to be done.
LEMMA TodoDrop ==
  ASSUME NEW c \in Todos, NEW i
  PROVE  /\ Drop(c, i) \in Todos /\ DOMAIN Drop(c, i) = DOMAIN c \ {i} /\ DOMAIN c \subseteq ProfileIds
         /\ \A j \in DOMAIN c \ {i} : Drop(c, i)[j] = c[j]
<1>1. PICK S \in SUBSET ProfileIds : c \in [S -> {"replace", "remove"}]
  BY DEF Todos
<1>2. Drop(c, i) \in [S \ {i} -> {"replace", "remove"}] /\ S \ {i} \in SUBSET ProfileIds
  BY <1>1 DEF Drop
<1>3. Drop(c, i) \in Todos
  BY <1>2 DEF Todos
<1> QED BY <1>1, <1>3 DEF Drop

\* One entry changes.
LEMMA EntrySet ==
  ASSUME NEW c \in Metadata, NEW i \in DOMAIN c, NEW entry \in Entry
  PROVE  /\ [c EXCEPT ![i] = entry] \in Metadata /\ DOMAIN [c EXCEPT ![i] = entry] = DOMAIN c /\ [c EXCEPT ![i] = entry][i] = entry
         /\ \A j \in DOMAIN c \ {i} : [c EXCEPT ![i] = entry][j] = c[j]
<1>1. DOMAIN c \subseteq ProfileIds /\ c \in [DOMAIN c -> Entry]
  BY MetaIs
<1>2. [c EXCEPT ![i] = entry] \in [DOMAIN c -> Entry] /\ DOMAIN [c EXCEPT ![i] = entry] = DOMAIN c
  BY <1>1
<1> QED BY <1>1, <1>2, MetaIs

\* The fields of a command.
LEMMA EditTyped ==
  ASSUME StoreTyped, NEW k \in Commands
  PROVE  /\ w[k] \in Edits /\ w[k].cur \in Metadata /\ w[k].next \in Metadata /\ w[k].todo \in Todos
         /\ w[k].new \in Refs \cup {NoRef} /\ w[k].mine \subseteq Intents /\ w[k].item \subseteq Intents /\ w[k].live \subseteq AllRefs
         /\ w[k].id \in ProfileIds \cup {NoRef} /\ w[k].typed \in {"keep", "forget", "typed"}
         /\ w[k].pc \in {"idle", "reserved", "plan", "stage", "secret", "collect", "gc"}
         /\ w[k].op \in {"none", "save", "delete", "restore", "recover", "boot"}
BY DEF StoreTyped, Edits

\* The fields of the cache.
LEMMA StoreFields ==
  ASSUME StoreTyped
  PROVE  /\ store \in Caches /\ store.cat \in Metadata /\ store.mutating \subseteq ProfileIds
         /\ store.up \in BOOLEAN /\ store.recovery \in BOOLEAN /\ store.restoring \in BOOLEAN
         /\ store.session \in [ProfileIds -> AllRefs \cup {NoRef, Typed}]
         /\ disk.cat \in Metadata /\ durable.cat \in Metadata /\ disk.legacy \in BOOLEAN
         /\ loader.snap \in Metadata /\ loader.found \in Found
BY DEF StoreTyped, Caches

\* A command that has not begun.
LEMMA NoEditTyped == NoEdit \in Edits /\ NoEdit.pc = "idle" /\ NoEdit.op = "none"
BY NoProfilesIs DEF NoEdit, Edits

\* A command that becomes e.
Becomes(k, e) ==
  /\ w' \in [Commands -> Edits] /\ w'[k] = e /\ \A l \in Commands : l # k => w'[l] = w[l]

\* A command set to a state becomes it.
LEMMA BecomesIs ==
  ASSUME StoreTyped, NEW k \in Commands, NEW e \in Edits, w' = [w EXCEPT ![k] = e]
  PROVE  Becomes(k, e)
BY DEF StoreTyped, Becomes

\* The reservations rest.
Reserved == store'.up = store.up /\ store'.restoring = store.restoring /\ store'.mutating = store.mutating

\* An editing command goes on.
LEMMA ExclusiveMove ==
  ASSUME CacheInv, NEW k \in Commands, NEW e, Becomes(k, e), Editing(w[k]), Editing(e), e.op = w[k].op, e.id = w[k].id,
         Collecting(w[k]) => Collecting(e), lock' = lock, Reserved, UNCHANGED <<loader, conn>>
  PROVE  Exclusive'
<1>1. Exclusive /\ Worker \subseteq Commands /\ Boot \in Commands /\ Boot \notin Worker
  BY StoreNames DEF CacheInv
<1>2. \A l \in Commands : w'[l].op = w[l].op /\ w'[l].id = w[l].id /\ (Editing(w'[l]) <=> Editing(w[l]))
                          /\ (w'[l].pc = "idle" <=> w[l].pc = "idle") /\ (Collecting(w[l]) => Collecting(w'[l]))
  BY DEF Becomes, Editing
<1> QED BY <1>1, <1>2 DEF Exclusive, Reserved

\* A command ends and gives back what it reserved.
Freed(k) ==
  /\ store'.up = store.up /\ store'.restoring = (store.restoring /\ w[k].op \notin Whole)
  /\ store'.mutating = store.mutating \ {w[k].id} /\ lock' = IF lock = k THEN Unlocked ELSE lock

\* A command that ends gives up what it reserved.
LEMMA ExclusiveEnd ==
  ASSUME CacheInv, NEW k \in Commands, Becomes(k, NoEdit), w[k].pc # "idle", Freed(k), UNCHANGED <<loader, conn>>
  PROVE  Exclusive'
<1>1. /\ Exclusive /\ Worker \subseteq Commands /\ Boot \in Commands /\ Boot \notin Worker /\ (k # Boot => k \in Worker)
      /\ Unlocked \notin Worker /\ NoEdit.pc = "idle"
  BY StoreNames, NoEditTyped DEF CacheInv
<1>2. CASE k = Boot
  <2>1. \A l \in Worker : w'[l] = w[l] /\ w[l].pc = "idle" /\ ~Editing(w[l]) /\ lock # l
    BY <1>1, <1>2 DEF Becomes, Exclusive, Editing
  <2>2. /\ w'[Boot].pc = "idle" /\ (\A l \in Worker : w'[l].pc = "idle" /\ ~Editing(w'[l]) /\ lock' # l)
        /\ loader' = NoLoader /\ \A i \in ProfileIds : conn'[i].pc = "none"
    BY <1>1, <1>2, <2>1 DEF Exclusive, Becomes, Freed
  <2>3. /\ store'.restoring => store'.mutating = {}
        /\ \A i \in store'.mutating : conn'[i].pc = "none"
    BY <1>1 DEF Exclusive, Freed
  <2> QED BY <2>2, <2>3 DEF Exclusive
<1>3. CASE k \in Worker
  <2>1. /\ \A l \in Worker : l # k => w'[l] = w[l]
        /\ w'[k].pc = "idle" /\ ~Editing(w'[k]) /\ w'[Boot] = w[Boot] /\ w[Boot].pc = "idle"
    BY <1>1, <1>3 DEF Becomes, Exclusive, Editing
  <2>2. \A l \in Worker : Editing(w'[l]) <=> lock' = l
    <3>1. (Editing(w'[k]) <=> lock' = k)
      BY <1>1, <2>1 DEF Freed
    <3>2. ASSUME NEW l \in Worker, l # k PROVE Editing(w'[l]) <=> lock' = l
      BY <1>1, <1>3, <2>1, <3>2 DEF Exclusive, Freed
    <3> QED BY <3>1, <3>2
  <2>3. \A l \in Worker : l # k /\ w[l].pc # "idle" => w[k].op \notin Whole /\ w[l].op \notin Whole /\ w[k].id # w[l].id
    BY <1>1, <1>3 DEF Exclusive
  <2>4. \A l \in Worker : w'[l].pc # "idle" => l # k
    BY <2>1
  <2>5. ASSUME NEW l \in Worker
        PROVE  /\ w'[l].pc # "idle" => w'[l].op \in {"save", "delete"} \cup Whole
               /\ w'[l].pc # "idle" /\ w'[l].op \in {"save", "delete"} => w'[l].id \in store'.mutating
               /\ w'[l].pc # "idle" /\ w'[l].op \in Whole => store'.restoring
               /\ Editing(w'[l]) /\ w'[l].op = "recover" => Collecting(w'[l])
    BY <1>1, <2>1, <2>3, <2>4 DEF Exclusive, Freed, Editing
  <2>6. /\ store'.restoring => store'.mutating = {} /\ \A i \in ProfileIds : conn'[i].pc = "none"
        /\ \A i \in store'.mutating : conn'[i].pc = "none"
    BY <1>1 DEF Exclusive, Freed
  <2>7. ~store'.up => /\ loader' = NoLoader /\ (\A l \in Worker : w'[l].pc = "idle")
                      /\ \A i \in ProfileIds : conn'[i].pc = "none"
    BY <1>1, <2>1 DEF Exclusive, Freed
  <2>8. \A l, m \in Worker :
       l # m /\ w'[l].pc # "idle" /\ w'[m].pc # "idle" => w'[l].op \notin Whole /\ w'[l].id # w'[m].id
    BY <1>1, <2>1, <2>4 DEF Exclusive
  <2> QED BY <2>1, <2>2, <2>5, <2>6, <2>7, <2>8 DEF Exclusive
<1> QED BY <1>1, <1>2, <1>3

\* Threads that read credentials leave the reservations alone; a connection may begin where nothing is reserved.
LEMMA ExclusiveThreads ==
  ASSUME CacheInv, UNCHANGED <<w, lock>>, Reserved, store.up,
         \A i \in ProfileIds : conn'[i].pc # "none" => conn[i].pc # "none" \/ (i \notin store.mutating /\ ~store.restoring)
  PROVE  Exclusive'
<1>1. Exclusive /\ store.mutating \subseteq ProfileIds
  BY StoreFields DEF CacheInv
<1> QED BY <1>1 DEF Exclusive, Reserved

\* One command moves and the others see the same files, cache and startup thread.
LEMMA OthersSound ==
  ASSUME CacheInv, NEW k \in Commands, NEW e, Becomes(k, e), disk'.cat = disk.cat, store'.cat = store.cat,
         loader'.snap = loader.snap, Sound(e, disk.cat, store.cat, loader.snap)
  PROVE  CommandsSound'
BY DEF CacheInv, CommandsSound, Becomes

\* A command that has not begun, or is over, has nothing to be sound.
LEMMA IdleSound ==
  ASSUME NEW e, e.pc \in {"idle", "reserved"}, NEW file, NEW cache, NEW snap
  PROVE  Sound(e, file, cache, snap)
BY DEF Sound, Drafting, Collecting

\* The sessions while the cache rests: a command may only stop changing what it changed, and then answers for it.
LEMMA SessionsRest ==
  ASSUME CacheInv, NEW k \in Commands, NEW e, Becomes(k, e), UNCHANGED conn, store'.cat = store.cat, store'.session = store.session,
         \A i \in ProfileIds : Changes(w[k], i) /\ ~Changes(e, i) => Current(i, store.session[i], store.cat)
  PROVE  SessionsSound'
<1> SUFFICES ASSUME NEW i \in ProfileIds, \A l \in Worker : ~Changes(w'[l], i)
             PROVE  Current(i, store.session[i], store.cat)
  BY DEF CacheInv, SessionsSound
<1>1. CASE Changes(w[k], i) /\ k \in Worker
  BY <1>1 DEF Becomes
<1>2. CASE ~(Changes(w[k], i) /\ k \in Worker)
  <2>1. \A l \in Worker : ~Changes(w[l], i)
    BY <1>2, StoreNames DEF Becomes
  <2> QED BY <2>1 DEF CacheInv, SessionsSound
<1> QED BY <1>1, <1>2

\* What Abort does, and its effect.
LEMMA AbortIs ==
  ASSUME StoreTyped, NEW k \in Commands, Abort(k)
  PROVE  /\ Becomes(k, NoEdit) /\ Freed(k) /\ store' \in Caches /\ store'.cat = store.cat /\ store'.session = store.session
         /\ store'.recovery = store.recovery /\ lock' \in Worker \cup {Unlocked}
<1>1. Becomes(k, NoEdit)
  BY NoEditTyped, BecomesIs DEF Abort
<1>2. store' = Unreserved(k, store) /\ store \in Caches
  BY StoreFields DEF Abort
<1>3. /\ store' \in Caches /\ store'.cat = store.cat /\ store'.session = store.session /\ store'.recovery = store.recovery
      /\ store'.up = store.up /\ store'.restoring = (store.restoring /\ w[k].op \notin Whole)
      /\ store'.mutating = store.mutating \ {w[k].id}
  BY <1>2 DEF Unreserved, Caches, Whole
<1>4. lock' \in Worker \cup {Unlocked} /\ lock' = IF lock = k THEN Unlocked ELSE lock
  BY DEF StoreTyped, Abort
<1> QED BY <1>1, <1>3, <1>4 DEF Freed

\* A command that gives up before it has published anything.
LEMMA AbortKeeps ==
  ASSUME CacheInv, NEW k \in Commands, Abort(k), w[k].pc # "idle", \A i \in ProfileIds : ~Changes(w[k], i),
         UNCHANGED <<disk, durable, loader, conn>>
  PROVE  Exclusive' /\ CacheCurrent' /\ CommandsSound' /\ LoaderSound' /\ SessionsSound'
<1>1. /\ Becomes(k, NoEdit) /\ Freed(k) /\ store'.cat = store.cat /\ store'.session = store.session
      /\ store'.recovery = store.recovery /\ store'.up = store.up
  BY AbortIs DEF CacheInv, Freed
<1>2. Exclusive'
  BY <1>1, ExclusiveEnd
<1>3. CacheCurrent'
  BY <1>1 DEF CacheInv, CacheCurrent
<1>4. CommandsSound'
  BY <1>1, NoEditTyped, IdleSound, OthersSound
<1>5. LoaderSound'
  BY <1>1 DEF CacheInv, LoaderSound
<1>6. SessionsSound'
  BY <1>1, SessionsRest
<1> QED BY <1>2, <1>3, <1>4, <1>5, <1>6

\* Nothing but the reservations changes, and a command that waits for its turn.
LEMMA WaitingKeeps ==
  ASSUME CacheInv, NEW k \in Worker, w[k].pc = "idle", NEW e \in Edits, e.pc = "reserved", w' = [w EXCEPT ![k] = e],
         store' \in Caches, store'.cat = store.cat, store'.session = store.session, store'.recovery = store.recovery,
         store'.up = store.up, Exclusive', UNCHANGED <<records, vault, intents, lock, loader, conn, life, purged, tallies>>
  PROVE  CacheInv'
<1>1. k \in Commands /\ Becomes(k, e)
  BY BecomesIs, StoreNames DEF CacheInv
<1>2. StoreTyped'
  BY <1>1 DEF CacheInv, StoreTyped, records, tallies, Becomes
<1>3. CacheCurrent'
  BY DEF CacheInv, CacheCurrent, records
<1>4. CommandsSound'
  BY <1>1, IdleSound, OthersSound DEF records
<1>5. LoaderSound'
  BY DEF CacheInv, LoaderSound, records
<1>6. SessionsSound'
  BY <1>1, SessionsRest DEF Changes, Collecting
<1> QED BY <1>2, <1>3, <1>4, <1>5, <1>6 DEF CacheInv

\* A save or a delete reserves its profile.
LEMMA Cache_Reserve ==
  ASSUME CacheInv, NEW k \in Worker, NEW op \in {"save", "delete"}, NEW i \in ProfileIds, Reserve(k, op, i)
  PROVE  CacheInv'
<1> DEFINE e == [NoEdit EXCEPT !.pc = "reserved", !.op = op, !.id = i]
<1>0. k \in Commands /\ Boot \in Commands /\ Boot \notin Worker /\ \A l \in Worker : l \in Commands
  BY StoreNames
<1>1. /\ w[k].pc = "idle" /\ store.up /\ ~store.restoring /\ i \notin store.mutating /\ conn[i].pc = "none"
      /\ store' = [store EXCEPT !.mutating = store.mutating \cup {i}] /\ w' = [w EXCEPT ![k] = e]
      /\ UNCHANGED <<records, vault, intents, lock, loader, conn, life, purged, tallies>>
  BY DEF Reserve, Ready, Busy
<1>2. e \in Edits /\ e.pc = "reserved" /\ e.op = op /\ e.id = i /\ ~Editing(e)
  BY NoEditTyped DEF Edits, Editing
<1>3. /\ store' \in Caches /\ store'.cat = store.cat /\ store'.session = store.session /\ store'.recovery = store.recovery
      /\ store'.up = store.up /\ store'.restoring = store.restoring /\ store'.mutating = store.mutating \cup {i}
  BY <1>1, StoreFields DEF CacheInv, Caches
<1> HIDE DEF e
<1>4. Becomes(k, e)
  BY <1>0, <1>1, <1>2, BecomesIs DEF CacheInv
<1>5. Exclusive'
  <2>1. Exclusive /\ ~Editing(w[k]) /\ lock # k
    BY <1>1 DEF CacheInv, Exclusive, Editing
  <2>2. /\ \A l \in Commands : l # k => w'[l] = w[l]
        /\ w'[k] = e /\ lock' = lock /\ conn' = conn /\ loader' = loader
    BY <1>1, <1>4 DEF Becomes
  <2>3. \A l \in Worker : l # k /\ w[l].pc # "idle" => w[l].op \notin Whole /\ w[l].id # i
    BY <1>1, <2>1 DEF Exclusive
  <2>4. op \notin Whole
    BY DEF Whole
  <2>5. ASSUME NEW l \in Worker
        PROVE  /\ Editing(w'[l]) <=> lock' = l
               /\ w'[l].pc # "idle" => w'[l].op \in {"save", "delete"} \cup Whole
               /\ w'[l].pc # "idle" /\ w'[l].op \in {"save", "delete"} => w'[l].id \in store'.mutating
               /\ w'[l].pc # "idle" /\ w'[l].op \in Whole => store'.restoring
               /\ Editing(w'[l]) /\ w'[l].op = "recover" => Collecting(w'[l])
    <3>1. CASE l = k
      BY <1>2, <1>3, <2>1, <2>2, <2>4, <3>1
    <3>2. CASE l # k
      BY <1>0, <1>3, <2>1, <2>2, <3>2 DEF Exclusive
    <3> QED BY <3>1, <3>2
  <2>6. \A l, m \in Worker :
       l # m /\ w'[l].pc # "idle" /\ w'[m].pc # "idle" => w'[l].op \notin Whole /\ w'[l].id # w'[m].id
    BY <1>0, <1>2, <2>1, <2>2, <2>3, <2>4 DEF Exclusive
  <2>7. w'[Boot] = w[Boot] /\ w[Boot].pc = "idle"
    BY <1>0, <1>1, <2>1, <2>2 DEF Exclusive
  <2>8. \A j \in store'.mutating : conn'[j].pc = "none"
    BY <1>1, <1>3, <2>1 DEF Exclusive
  <2> QED BY <1>1, <1>3, <2>5, <2>6, <2>7, <2>8 DEF Exclusive
<1> QED BY <1>1, <1>2, <1>3, <1>5, WaitingKeeps

\* A restore or a recovery reserves the repository.
LEMMA Cache_ReserveAll ==
  ASSUME CacheInv, NEW k \in Worker, NEW op \in Whole, ReserveAll(k, op)
  PROVE  CacheInv'
<1> DEFINE e == [NoEdit EXCEPT !.pc = "reserved", !.op = op]
<1>0. k \in Commands /\ Boot \in Commands /\ Boot \notin Worker /\ \A l \in Worker : l \in Commands
  BY StoreNames
<1>1. /\ w[k].pc = "idle" /\ store.up /\ ~store.restoring /\ (\A i \in ProfileIds : i \notin store.mutating /\ conn[i].pc = "none")
      /\ store' = [store EXCEPT !.restoring = TRUE] /\ w' = [w EXCEPT ![k] = e]
      /\ UNCHANGED <<records, vault, intents, lock, loader, conn, life, purged, tallies>>
  BY DEF ReserveAll, RepositoryIdle, Busy
<1>2. e \in Edits /\ e.pc = "reserved" /\ e.op = op /\ ~Editing(e)
  BY NoEditTyped DEF Edits, Editing, Whole
<1>3. /\ store' \in Caches /\ store'.cat = store.cat /\ store'.session = store.session /\ store'.recovery = store.recovery
      /\ store'.up = store.up /\ store'.restoring /\ store'.mutating = store.mutating /\ store.mutating = {}
  BY <1>1, StoreFields DEF CacheInv, Caches
<1> HIDE DEF e
<1>4. Becomes(k, e)
  BY <1>0, <1>1, <1>2, BecomesIs DEF CacheInv
<1>5. Exclusive'
  <2>1. Exclusive /\ ~Editing(w[k]) /\ lock # k
    BY <1>1 DEF CacheInv, Exclusive, Editing
  <2>2. /\ \A l \in Commands : l # k => w'[l] = w[l]
        /\ w'[k] = e /\ lock' = lock /\ conn' = conn /\ loader' = loader
    BY <1>1, <1>4 DEF Becomes
  <2>3. \A l \in Worker : w[l].pc = "idle" /\ ~Editing(w[l])
    BY <1>1, <1>3, <2>1 DEF Exclusive, Editing
  <2>4. \A l \in Worker : w'[l].pc # "idle" => l = k
    BY <1>0, <2>2, <2>3
  <2>5. \A l \in Worker : Editing(w'[l]) <=> lock' = l
    BY <1>0, <1>2, <2>1, <2>2, <2>3 DEF Exclusive
  <2>6. w'[Boot] = w[Boot] /\ w[Boot].pc = "idle"
    BY <1>0, <1>1, <2>1, <2>2 DEF Exclusive
  <2>7. op \notin {"save", "delete"}
    BY DEF Whole
  <2>8. ASSUME NEW l \in Worker
        PROVE  /\ w'[l].pc # "idle" => w'[l].op \in {"save", "delete"} \cup Whole
               /\ w'[l].pc # "idle" /\ w'[l].op \in {"save", "delete"} => w'[l].id \in store'.mutating
               /\ w'[l].pc # "idle" /\ w'[l].op \in Whole => store'.restoring
               /\ Editing(w'[l]) /\ w'[l].op = "recover" => Collecting(w'[l])
    <3>1. CASE l = k
      BY <1>2, <1>3, <2>2, <2>7, <3>1
    <3>2. CASE l # k
      BY <1>0, <2>2, <2>3, <3>2
    <3> QED BY <3>1, <3>2
  <2> QED BY <1>1, <1>3, <2>2, <2>4, <2>5, <2>6, <2>8 DEF Exclusive
<1> QED BY <1>1, <1>2, <1>3, <1>5, WaitingKeeps

\* An abort that touches nothing else but perhaps the vault.
LEMMA AbortInv ==
  ASSUME CacheInv, NEW k \in Commands, Abort(k), w[k].pc # "idle", \A i \in ProfileIds : ~Changes(w[k], i),
         UNCHANGED <<disk, durable, backup, loader, conn, intents, life, purged, appCrashes>>,
         vault' \in [AllRefs -> 0..MaxLife], storeFaults' \in Nat
  PROVE  CacheInv'
<1>1. StoreTyped'
  <2>1. w' \in [Commands -> Edits] /\ store' \in Caches /\ lock' \in Worker \cup {Unlocked}
    BY AbortIs DEF CacheInv, Becomes
  <2> QED BY <2>1 DEF CacheInv, StoreTyped
<1> QED BY <1>1, AbortKeeps DEF CacheInv

\* The lock is taken and the cache copied, or the repository is not ready.
LEMMA Cache_Open ==
  ASSUME CacheInv, NEW k \in Worker, Open(k)
  PROVE  CacheInv'
<1>0. k \in Commands /\ Boot \in Commands /\ Boot \notin Worker /\ \A l \in Worker : l \in Commands
  BY StoreNames
<1>1. /\ w[k].pc = "reserved" /\ w[k].op # "recover" /\ lock = Unlocked
      /\ UNCHANGED <<disk, durable, backup, vault, intents, loader, conn, life, purged, appCrashes, storeFaults>>
  BY DEF Open, records, tallies
<1>2. CASE ~Ready
  <2>1. Abort(k) /\ vault' \in [AllRefs -> 0..MaxLife] /\ storeFaults' \in Nat /\ \A i \in ProfileIds : ~Changes(w[k], i)
    BY <1>1, <1>2 DEF Open, CacheInv, StoreTyped, Changes, Collecting
  <2> QED BY <1>0, <1>1, <2>1, AbortInv
<1>3. CASE Ready
  <2> DEFINE e == [w[k] EXCEPT !.pc = "plan", !.cur = store.cat]
  <2>1. lock' = k /\ store' = store /\ w' = [w EXCEPT ![k] = e]
    BY <1>3 DEF Open
  <2>2. e \in Edits /\ e.pc = "plan" /\ e.cur = store.cat /\ e.op = w[k].op /\ e.id = w[k].id
    BY <1>0, EditTyped, StoreFields DEF CacheInv, Edits
  <2> HIDE DEF e
  <2>3. Becomes(k, e)
    BY <1>0, <2>1, <2>2, BecomesIs DEF CacheInv
  <2>4. StoreTyped'
    <3>1. w' \in [Commands -> Edits]
      BY <2>3 DEF Becomes
    <3> QED BY <1>1, <2>1, <3>1 DEF CacheInv, StoreTyped
  <2>5. Exclusive'
    <3>1. Exclusive /\ \A l \in Worker : ~Editing(w[l])
      BY <1>1, StoreNames DEF CacheInv, Exclusive
    <3>2. (\A l \in Commands : l # k => w'[l] = w[l]) /\ w'[k] = e
      BY <2>3 DEF Becomes
    <3>3. Editing(e) /\ e.pc # "idle" /\ w[k].pc # "idle"
      BY <1>1, <2>2 DEF Editing
    <3>4. \A l \in Worker : Editing(w'[l]) <=> lock' = l
      BY <1>0, <2>1, <3>1, <3>2, <3>3
    <3>5. \A l \in Commands : w'[l].op = w[l].op /\ w'[l].id = w[l].id /\ (w'[l].pc # "idle" <=> w[l].pc # "idle")
      BY <2>2, <3>2, <3>3
    <3>6. \A l \in Worker : Editing(w'[l]) /\ w'[l].op = "recover" => Collecting(w'[l])
      BY <1>0, <1>1, <2>2, <3>1, <3>2
    <3>7. w'[Boot] = w[Boot]
      BY <1>0, <3>2
    <3> QED BY <1>0, <1>1, <2>1, <3>1, <3>4, <3>5, <3>6, <3>7 DEF Exclusive
  <2>6. CacheCurrent' /\ LoaderSound'
    BY <1>1, <2>1 DEF CacheInv, CacheCurrent, LoaderSound
  <2>7. CommandsSound'
    <3>1. Sound(e, disk.cat, store.cat, loader.snap)
      BY <2>2 DEF Sound, Drafting, Collecting, Follows
    <3> QED BY <1>0, <1>1, <2>1, <2>3, <3>1, OthersSound
  <2>8. SessionsSound'
    BY <1>0, <1>1, <2>1, <2>3, SessionsRest DEF Changes, Collecting
  <2> QED BY <2>4, <2>5, <2>6, <2>7, <2>8 DEF CacheInv
<1> QED BY <1>2, <1>3

\* A command is refused.
LEMMA Cache_RefuseEdit ==
  ASSUME CacheInv, NEW k \in Worker, RefuseEdit(k)
  PROVE  CacheInv'
<1>1. /\ k \in Commands /\ w[k].pc = "plan" /\ Abort(k)
      /\ UNCHANGED <<disk, durable, backup, vault, intents, loader, conn, life, purged, appCrashes, storeFaults>>
  BY StoreNames DEF RefuseEdit, records, tallies
<1>2. vault' \in [AllRefs -> 0..MaxLife] /\ storeFaults' \in Nat /\ \A i \in ProfileIds : ~Changes(w[k], i)
  BY <1>1 DEF CacheInv, StoreTyped, Changes, Collecting
<1> QED BY <1>1, <1>2, AbortInv

\* A command that edits takes a step that leaves the file, the cache and the threads alone.
LEMMA EditMoves ==
  ASSUME CacheInv, NEW k \in Commands, NEW e \in Edits, w' = [w EXCEPT ![k] = e], Editing(w[k]), Editing(e),
         e.op = w[k].op, e.id = w[k].id, Collecting(w[k]) => Collecting(e), Sound(e, disk.cat, store.cat, loader.snap),
         \A i \in ProfileIds : Changes(w[k], i) => Changes(e, i),
         UNCHANGED <<disk, backup, store, lock, loader, conn, purged, appCrashes>>, durable' \in {durable, disk},
         life' \in [ProfileIds -> 0..MaxLife], vault' \in [AllRefs -> 0..MaxLife], intents' \subseteq Intents, storeFaults' \in Nat
  PROVE  CacheInv'
<1>1. Becomes(k, e)
  BY BecomesIs DEF CacheInv
<1>2. StoreTyped'
  <2>1. w' \in [Commands -> Edits]
    BY <1>1 DEF Becomes
  <2> QED BY <2>1 DEF CacheInv, StoreTyped
<1>3. Exclusive'
  BY <1>1, ExclusiveMove DEF Reserved
<1>4. CacheCurrent'
  BY DEF CacheInv, CacheCurrent
<1>5. CommandsSound'
  BY <1>1, OthersSound
<1>6. LoaderSound'
  BY DEF CacheInv, LoaderSound
<1>7. SessionsSound'
  BY <1>1, SessionsRest
<1> QED BY <1>2, <1>3, <1>4, <1>5, <1>6, <1>7 DEF CacheInv

\* What a command in the plan knows.
LEMMA Planning ==
  ASSUME CacheInv, NEW k \in Worker, w[k].pc = "plan"
  PROVE  /\ k \in Commands /\ Editing(w[k]) /\ ~Collecting(w[k]) /\ (\A i \in ProfileIds : ~Changes(w[k], i))
         /\ w[k].op \in {"save", "delete", "restore"} /\ (w[k].op \in {"save", "delete"} => w[k].id \in ProfileIds)
         /\ Follows(store.cat, w[k].cur) /\ w[k] \in Edits /\ w[k].cur \in Metadata /\ w[k].op # "boot"
<1>1. k \in Commands /\ Editing(w[k]) /\ ~Collecting(w[k]) /\ (\A i \in ProfileIds : ~Changes(w[k], i))
  BY StoreNames DEF Editing, Collecting, Changes
<1>2. w[k].op \in {"save", "delete", "restore"} /\ (w[k].op \in {"save", "delete"} => w[k].id \in ProfileIds)
  BY <1>1, StoreFields DEF CacheInv, Exclusive, Whole, Collecting, Editing
<1>3. Follows(store.cat, w[k].cur)
  BY <1>1 DEF CacheInv, CommandsSound, Sound
<1> QED BY <1>1, <1>2, <1>3, EditTyped DEF CacheInv

\* Staging.
LEMMA StageKeeps ==
  ASSUME CacheInv, NEW k \in Worker, w[k].pc = "plan", NEW c \in Metadata, NEW n \in Metadata, NEW todo \in Todos,
         NEW mode \in {"keep", "forget", "typed"}, Stage(k, c, n, todo, mode), life' \in [ProfileIds -> 0..MaxLife],
         Follows(store.cat, c), Remembers(loader.snap, store.cat, n),
         \A e \in Edits : /\ e.cur = c /\ e.next = n /\ e.todo = todo /\ e.typed = mode /\ e.pc = "stage"
                          /\ e.op = w[k].op /\ e.id = w[k].id
                          => Draft(e)
  PROVE  CacheInv'
<1> DEFINE e == [w[k] EXCEPT !.pc = "stage", !.cur = c, !.next = n, !.todo = todo, !.typed = mode]
<1>1. w' = [w EXCEPT ![k] = e] /\ UNCHANGED <<records, vault, intents, store, lock, loader, conn, purged, tallies>>
  BY DEF Stage
<1>2. /\ e \in Edits /\ e.pc = "stage" /\ e.cur = c /\ e.next = n /\ e.todo = todo /\ e.typed = mode
      /\ e.op = w[k].op /\ e.id = w[k].id
  BY Planning DEF Edits
<1> HIDE DEF e
<1>3. Draft(e)
  BY <1>2
<1>4. Sound(e, disk.cat, store.cat, loader.snap)
  BY <1>2, <1>3 DEF Sound, Collecting, Drafting
<1>5. Editing(e)
  BY <1>2 DEF Editing
<1>6. /\ UNCHANGED <<disk, backup, store, lock, loader, conn, purged, appCrashes>> /\ durable' \in {durable, disk}
      /\ vault' \in [AllRefs -> 0..MaxLife] /\ intents' \subseteq Intents /\ storeFaults' \in Nat
  BY <1>1 DEF CacheInv, StoreTyped, records, tallies
<1> QED BY <1>1, <1>2, <1>4, <1>5, <1>6, Planning, EditMoves

\* What is copied from the cache is remembered.
LEMMA RemembersCopy ==
  ASSUME NEW cache, NEW c, NEW n, NEW snap, Follows(cache, c),
         \A i \in DOMAIN n : n[i].ref = NoRef \/ (i \in DOMAIN c /\ n[i].ref = c[i].ref)
  PROVE  Remembers(snap, cache, n)
BY DEF Remembers, At, Follows

\* One thing to do.
LEMMA TodoOne ==
  ASSUME NEW i \in ProfileIds, NEW a \in {"replace", "remove"}
  PROVE  [j \in {i} |-> a] \in Todos /\ DOMAIN [j \in {i} |-> a] = {i} /\ [j \in {i} |-> a][i] = a
<1>1. {i} \in SUBSET ProfileIds /\ [j \in {i} |-> a] \in [{i} -> {"replace", "remove"}]
  OBVIOUS
<1> QED BY <1>1 DEF Todos

\* A delete is planned.
LEMMA Cache_PlanDelete ==
  ASSUME CacheInv, NEW k \in Worker, PlanDelete(k)
  PROVE  CacheInv'
<1> DEFINE i == w[k].id
<1> DEFINE c == w[k].cur
<1> DEFINE todo == [j \in {i} |-> "remove"]
<1>1. /\ w[k].pc = "plan" /\ w[k].op = "delete" /\ i \in DOMAIN c /\ Stage(k, c, Drop(c, i), todo, "forget")
      /\ life' = life
  BY DEF PlanDelete
<1>2. i \in ProfileIds /\ c \in Metadata /\ Follows(store.cat, c)
  BY <1>1, Planning
<1>3. /\ Drop(c, i) \in Metadata /\ DOMAIN Drop(c, i) = DOMAIN c \ {i}
      /\ \A j \in DOMAIN c \ {i} : Drop(c, i)[j] = c[j]
  BY <1>2, DropIs
<1>4. todo \in Todos /\ DOMAIN todo = {i} /\ todo[i] = "remove"
  BY <1>2, TodoOne
<1>5. life' \in [ProfileIds -> 0..MaxLife]
  BY <1>1 DEF CacheInv, StoreTyped
<1>6. \A j \in DOMAIN c : c[j].rev \in Nat
  BY <1>2, Parts
<1>7. Remembers(loader.snap, store.cat, Drop(c, i))
  BY <1>2, <1>3, RemembersCopy
<1>8. ASSUME NEW e \in Edits, e.cur = c, e.next = Drop(c, i), e.todo = todo, e.typed = "forget", e.pc = "stage",
             e.op = w[k].op, e.id = w[k].id
      PROVE  Draft(e)
  BY <1>1, <1>2, <1>3, <1>4, <1>6, <1>8 DEF Draft
<1> HIDE DEF i, c, todo
<1> QED BY <1>1, <1>2, <1>3, <1>4, <1>5, <1>7, <1>8, StageKeeps DEF i, c

\* The entry a save makes.
LEMMA SavedIs ==
  ASSUME CacheInv, NEW c \in Metadata, NEW i \in ProfileIds, RevisionOf(c, i) < MaxStoreRevision,
         i \in DOMAIN c \/ life[i] < MaxLife
  PROVE  /\ Saved(c, i) \in Entry /\ Saved(c, i).life \in 0 .. MaxLife
         /\ i \in DOMAIN c => /\ Saved(c, i).rev >= c[i].rev /\ Saved(c, i).ref = c[i].ref
                              /\ Saved(c, i).flag = c[i].flag /\ Saved(c, i).life = c[i].life
         /\ i \notin DOMAIN c => Saved(c, i).ref = NoRef /\ Saved(c, i).flag = "none"
<1>1. MaxStoreRevision \in Nat /\ MaxLife \in Nat /\ life[i] \in 0 .. MaxLife
  BY StoreNames DEF CacheInv, StoreTyped
<1>2. CASE i \in DOMAIN c
  <2>1. /\ c[i] \in Entry /\ c[i].rev \in 0 .. MaxStoreRevision /\ c[i].rev < MaxStoreRevision /\ c[i].life \in 1 .. MaxLife
        /\ Saved(c, i) = [c[i] EXCEPT !.rev = c[i].rev + 1]
    BY <1>2, Parts DEF RevisionOf, Saved
  <2>2. c[i].rev + 1 \in 0 .. MaxStoreRevision /\ c[i].rev + 1 >= c[i].rev /\ c[i].life \in 0 .. MaxLife
    BY <1>1, <2>1
  <2> QED BY <1>2, <2>1, <2>2 DEF Entry
<1>3. CASE i \notin DOMAIN c
  <2>1. 1 \in 0 .. MaxStoreRevision /\ life[i] + 1 \in 1 .. MaxLife /\ life[i] + 1 \in 0 .. MaxLife
    BY <1>1, <1>3 DEF RevisionOf
  <2> QED BY <1>3, <2>1 DEF Saved, Entry
<1> QED BY <1>2, <1>3

\* Looking the password up only touches a flag.
LEMMA RefreshedIs ==
  ASSUME NEW c \in Metadata, NEW i \in DOMAIN c
  PROVE  /\ Refreshed(c, i) \in Metadata /\ DOMAIN Refreshed(c, i) = DOMAIN c
         /\ \A j \in DOMAIN c : /\ Refreshed(c, i)[j].rev = c[j].rev /\ Refreshed(c, i)[j].ref = c[j].ref
                                /\ Refreshed(c, i)[j].life = c[j].life /\ (j # i => Refreshed(c, i)[j] = c[j])
         /\ Refreshed(c, i)[i].flag = IF Present(RefOf(i, c[i])) THEN "stored" ELSE "none"
<1> DEFINE f == IF Present(RefOf(i, c[i])) THEN "stored" ELSE "none"
<1> DEFINE entry == [c[i] EXCEPT !.flag = f]
<1>1. c[i] \in Entry /\ f \in {"stored", "none", "unknown"}
  BY Parts
<1>2. entry \in Entry /\ entry.rev = c[i].rev /\ entry.ref = c[i].ref /\ entry.life = c[i].life /\ entry.flag = f
  BY <1>1 DEF Entry
<1>3. Refreshed(c, i) = [c EXCEPT ![i] = entry]
  BY DEF Refreshed
<1> HIDE DEF entry
<1>4. /\ [c EXCEPT ![i] = entry] \in Metadata /\ DOMAIN [c EXCEPT ![i] = entry] = DOMAIN c /\ [c EXCEPT ![i] = entry][i] = entry
      /\ \A j \in DOMAIN c \ {i} : [c EXCEPT ![i] = entry][j] = c[j]
  BY <1>2, EntrySet
<1> QED BY <1>2, <1>3, <1>4

\* A save is planned.
LEMMA Cache_PlanSave ==
  ASSUME CacheInv, NEW k \in Worker, NEW password \in BOOLEAN, NEW remember \in BOOLEAN, PlanSave(k, password, remember)
  PROVE  CacheInv'
<1> DEFINE i == w[k].id
<1> DEFINE d == w[k].cur
<1> DEFINE c == IF remember /\ ~password THEN Refreshed(d, i) ELSE d
<1> DEFINE entry == Saved(c, i)
<1> DEFINE q == IF remember THEN entry ELSE [entry EXCEPT !.ref = NoRef]
<1> DEFINE n == Put(c, i, q)
<1> DEFINE a == IF remember THEN "replace" ELSE "remove"
<1> DEFINE todo == IF remember /\ ~password THEN NoProfiles ELSE [j \in {i} |-> a]
<1> DEFINE mode == IF remember THEN "forget" ELSE IF password THEN "typed" ELSE "keep"
<1>1. /\ w[k].pc = "plan" /\ w[k].op = "save" /\ RevisionOf(d, i) < MaxStoreRevision
      /\ i \in DOMAIN d \/ life[i] < MaxLife
      /\ remember /\ ~password => i \in DOMAIN d /\ c[i].flag = "stored"
      /\ life' = [life EXCEPT ![i] = entry.life]
      /\ Stage(k, c, n, todo, mode)
  <2>1. CASE remember
    BY <2>1 DEF PlanSave
  <2>2. CASE ~remember
    BY <2>2 DEF PlanSave
  <2> QED BY <2>1, <2>2
<1>2. i \in ProfileIds /\ d \in Metadata /\ Follows(store.cat, d)
  BY <1>1, Planning
<1>3. /\ c \in Metadata /\ DOMAIN c = DOMAIN d /\ Follows(store.cat, c) /\ RevisionOf(c, i) < MaxStoreRevision
      /\ i \in DOMAIN c \/ life[i] < MaxLife
  <2>1. CASE ~(remember /\ ~password)
    BY <1>1, <1>2, <2>1
  <2>2. CASE remember /\ ~password
    <3>1. i \in DOMAIN d /\ c = Refreshed(d, i) /\ c[i].flag = "stored"
      BY <1>1, <2>2
    <3> HIDE DEF c, d
    <3>2. /\ c \in Metadata /\ DOMAIN c = DOMAIN d
          /\ \A j \in DOMAIN d : c[j].rev = d[j].rev /\ c[j].ref = d[j].ref /\ (j # i => c[j] = d[j])
      BY <1>2, <3>1, RefreshedIs
    <3>3. Follows(store.cat, c)
      BY <1>2, <3>1, <3>2 DEF Follows
    <3> QED BY <1>1, <3>1, <3>2, <3>3 DEF RevisionOf
  <2> QED BY <2>1, <2>2
<1> HIDE DEF c, d
<1>4. /\ entry \in Entry /\ entry.life \in 0 .. MaxLife
      /\ i \in DOMAIN c => entry.rev >= c[i].rev /\ entry.ref = c[i].ref
      /\ i \notin DOMAIN c => entry.ref = NoRef
  BY <1>2, <1>3, SavedIs
<1> HIDE DEF entry
<1>5. q \in Entry /\ (i \in DOMAIN c => q.rev >= c[i].rev) /\ (q.ref = NoRef \/ (i \in DOMAIN c /\ q.ref = c[i].ref))
      /\ (~remember => q.ref = NoRef)
  BY <1>4 DEF Entry
<1> HIDE DEF q
<1>6. n \in Metadata /\ DOMAIN n = DOMAIN c \cup {i} /\ n[i] = q /\ \A j \in DOMAIN c \ {i} : n[j] = c[j]
  BY <1>2, <1>3, <1>5, PutIs
<1> HIDE DEF n
<1>7. todo \in Todos /\ DOMAIN todo \subseteq {i} /\ (\A j \in DOMAIN todo : todo[j] = a)
  <2>1. CASE remember /\ ~password
    BY <2>1, NoProfilesIs
  <2>2. CASE ~(remember /\ ~password)
    BY <1>2, <2>2, TodoOne
  <2> QED BY <2>1, <2>2
<1> HIDE DEF todo
<1>8. life' \in [ProfileIds -> 0..MaxLife]
  BY <1>1, <1>2, <1>4 DEF CacheInv, StoreTyped
<1>9. \A j \in DOMAIN c : c[j].rev \in Nat
  BY <1>3, Parts
<1>10. Remembers(loader.snap, store.cat, n)
  <2>1. \A j \in DOMAIN n : n[j].ref = NoRef \/ (j \in DOMAIN c /\ n[j].ref = c[j].ref)
    BY <1>5, <1>6
  <2> QED BY <1>3, <2>1, RemembersCopy
<1>11. ASSUME NEW e \in Edits, e.cur = c, e.next = n, e.todo = todo, e.typed = mode, e.pc = "stage",
             e.op = w[k].op, e.id = w[k].id
      PROVE  Draft(e)
  <2>1. \A j \in DOMAIN c \cap DOMAIN n : n[j].rev >= c[j].rev
    BY <1>5, <1>6, <1>9
  <2>2. \A j \in ProfileIds \ {i} : /\ j \in DOMAIN n <=> j \in DOMAIN c
                                    /\ j \in DOMAIN n => n[j] = c[j]
    BY <1>6
  <2>3. e.typed = "keep" => ~remember
    BY <1>11
  <2>4. i = e.id /\ e.op = "save"
    BY <1>1, <1>11
  <2>5. \A j \in DOMAIN todo : j = i /\ j \in DOMAIN n /\ (~remember => todo[j] = "remove")
    BY <1>6, <1>7
  <2>6. ~remember => n[i].ref = NoRef
    BY <1>5, <1>6
  <2> HIDE DEF i, a, mode
  <2> QED BY <1>6, <1>7, <1>11, <2>1, <2>2, <2>3, <2>4, <2>5, <2>6 DEF Draft
<1>12. mode \in {"keep", "forget", "typed"}
  OBVIOUS
<1> HIDE DEF i, a, mode
<1> QED BY <1>1, <1>3, <1>6, <1>7, <1>8, <1>10, <1>11, <1>12, StageKeeps

\* A restore is planned.
LEMMA Cache_PlanRestore ==
  ASSUME CacheInv, NEW k \in Worker, NEW S \in SUBSET ProfileIds, NEW T \in SUBSET S, PlanRestore(k, S, T)
  PROVE  CacheInv'
<1> DEFINE c == w[k].cur
<1> DEFINE n == RestoredFrom(c, S)
<1> DEFINE todo == [i \in DOMAIN c \cup S |-> IF i \in T THEN "replace" ELSE "remove"]
<1>1. /\ w[k].pc = "plan" /\ w[k].op = "restore" /\ \A i \in S : RevisionOf(c, i) < MaxStoreRevision
      /\ life' = [i \in ProfileIds |-> IF i \in S THEN n[i].life ELSE life[i]]
      /\ Stage(k, c, n, todo, "forget")
  BY DEF PlanRestore
<1>2. c \in Metadata /\ Follows(store.cat, c) /\ DOMAIN c \subseteq ProfileIds
  BY <1>1, Planning, MetaIs
<1>3. MaxStoreRevision \in Nat /\ MaxLife \in Nat /\ MaxLife > 0 /\ \A i \in ProfileIds : life[i] \in 0 .. MaxLife
  BY StoreNames DEF CacheInv, StoreTyped
<1>4. DOMAIN n = S /\ \A i \in S : n[i] \in Entry /\ n[i].ref = NoRef /\ n[i].life \in 0 .. MaxLife
                                   /\ (i \in DOMAIN c => n[i].rev >= c[i].rev)
  <2> SUFFICES ASSUME NEW i \in S
               PROVE  /\ n[i] \in Entry /\ n[i].ref = NoRef /\ n[i].life \in 0 .. MaxLife
                      /\ i \in DOMAIN c => n[i].rev >= c[i].rev
    BY DEF RestoredFrom
  <2> DEFINE l == IF i \in DOMAIN c THEN c[i].life ELSE IF life[i] = 0 THEN 1 ELSE life[i]
  <2> DEFINE v == RevisionOf(c, i) + 1
  <2>1. n[i] = [rev |-> v, ref |-> NoRef, flag |-> "none", life |-> l]
    BY DEF RestoredFrom
  <2>2. l \in 1 .. MaxLife /\ l \in 0 .. MaxLife
    <3>1. CASE i \in DOMAIN c
      <4>1. c[i].life \in 1 .. MaxLife
        BY <1>2, <3>1, Parts
      <4> QED BY <1>3, <3>1, <4>1
    <3>2. CASE i \notin DOMAIN c
      BY <1>3, <3>2
    <3> QED BY <3>1, <3>2
  <2>3. v \in 0 .. MaxStoreRevision /\ (i \in DOMAIN c => v >= c[i].rev)
    <3>1. CASE i \in DOMAIN c
      <4>1. c[i].rev \in Nat /\ c[i].rev < MaxStoreRevision
        BY <1>1, <1>2, <3>1, Parts DEF RevisionOf
      <4> QED BY <1>3, <3>1, <4>1 DEF RevisionOf
    <3>2. CASE i \notin DOMAIN c
      BY <1>1, <1>3, <3>2 DEF RevisionOf
    <3> QED BY <3>1, <3>2
  <2> HIDE DEF l, v, n, c
  <2> QED BY <2>1, <2>2, <2>3 DEF Entry
<1>5. n \in Metadata
  <2>1. n \in [S -> Entry]
    BY <1>4 DEF RestoredFrom
  <2> QED BY <2>1 DEF Metadata
<1> HIDE DEF n
<1>6. todo \in Todos /\ DOMAIN todo = DOMAIN c \cup S /\ \A i \in DOMAIN todo : todo[i] = "replace" => i \in S
  <2>1. DOMAIN c \cup S \in SUBSET ProfileIds /\ todo \in [DOMAIN c \cup S -> {"replace", "remove"}]
    BY <1>2
  <2> QED BY <2>1 DEF Todos
<1>7. life' \in [ProfileIds -> 0..MaxLife]
  BY <1>1, <1>3, <1>4
<1>8. Remembers(loader.snap, store.cat, n)
  BY <1>2, <1>4, RemembersCopy
<1> HIDE DEF todo, c
<1>9. ASSUME NEW e \in Edits, e.cur = c, e.next = n, e.todo = todo, e.typed = "forget", e.pc = "stage",
             e.op = w[k].op, e.id = w[k].id
      PROVE  Draft(e)
  BY <1>1, <1>4, <1>6, <1>9 DEF Draft
<1> QED BY <1>1, <1>2, <1>5, <1>6, <1>7, <1>8, <1>9, StageKeeps

\* What a command that stages knows.
LEMMA Staging ==
  ASSUME CacheInv, NEW k \in Worker, Drafting(w[k])
  PROVE  /\ k \in Commands /\ Editing(w[k]) /\ ~Collecting(w[k]) /\ (\A i \in ProfileIds : ~Changes(w[k], i))
         /\ w[k].op \in {"save", "delete", "restore"} /\ (w[k].op \in {"save", "delete"} => w[k].id \in ProfileIds)
         /\ Follows(store.cat, w[k].cur) /\ Draft(w[k]) /\ Remembers(loader.snap, store.cat, w[k].next)
         /\ w[k] \in Edits /\ w[k].cur \in Metadata /\ w[k].next \in Metadata /\ w[k].todo \in Todos /\ lock = k /\ store.up
         /\ w[k].pc = "secret" => \A i \in DOMAIN loader.snap : loader.snap[i].ref # w[k].new
<1>1. k \in Commands /\ Editing(w[k]) /\ ~Collecting(w[k]) /\ (\A i \in ProfileIds : ~Changes(w[k], i)) /\ w[k].pc # "idle"
  BY StoreNames DEF Editing, Collecting, Changes, Drafting
<1>2. /\ w[k].op \in {"save", "delete", "restore"} /\ (w[k].op \in {"save", "delete"} => w[k].id \in ProfileIds)
      /\ lock = k
  BY <1>1, StoreFields DEF CacheInv, Exclusive, Whole
<1>3. store.up
  BY <1>1 DEF CacheInv, Exclusive
<1>4. /\ Follows(store.cat, w[k].cur) /\ Draft(w[k]) /\ Remembers(loader.snap, store.cat, w[k].next)
      /\ w[k].pc = "secret" => \A i \in DOMAIN loader.snap : loader.snap[i].ref # w[k].new
  BY <1>1 DEF CacheInv, CommandsSound, Sound
<1> QED BY <1>1, <1>2, <1>3, <1>4, EditTyped DEF CacheInv

\* A reference in the metadata.
LEMMA ReferencedIs ==
  ASSUME NEW c \in Metadata, NEW i, NEW r \in Refs \cup {NoRef}
  PROVE  /\ Referenced(c, i, r) \in Metadata /\ DOMAIN Referenced(c, i, r) = DOMAIN c
         /\ \A j \in DOMAIN c : /\ Referenced(c, i, r)[j].rev = c[j].rev /\ Referenced(c, i, r)[j].life = c[j].life
                                /\ j # i => Referenced(c, i, r)[j] = c[j]
         /\ i \in DOMAIN c => /\ Referenced(c, i, r)[i].ref = r
                              /\ Referenced(c, i, r)[i].flag = IF r = NoRef THEN "none" ELSE "stored"
<1>1. CASE i \notin DOMAIN c
  BY <1>1 DEF Referenced
<1>2. CASE i \in DOMAIN c
  <2> DEFINE f == IF r = NoRef THEN "none" ELSE "stored"
  <2> DEFINE entry == [c[i] EXCEPT !.ref = r, !.flag = f]
  <2>1. c[i] \in Entry /\ f \in {"stored", "none", "unknown"}
    BY <1>2, Parts
  <2>2. entry \in Entry /\ entry.rev = c[i].rev /\ entry.ref = r /\ entry.life = c[i].life /\ entry.flag = f
    BY <2>1 DEF Entry
  <2>3. Referenced(c, i, r) = [c EXCEPT ![i] = entry]
    BY <1>2 DEF Referenced
  <2> HIDE DEF entry
  <2>4. /\ [c EXCEPT ![i] = entry] \in Metadata /\ DOMAIN [c EXCEPT ![i] = entry] = DOMAIN c /\ [c EXCEPT ![i] = entry][i] = entry
        /\ \A j \in DOMAIN c \ {i} : [c EXCEPT ![i] = entry][j] = c[j]
    BY <1>2, <2>2, EntrySet
  <2> QED BY <2>2, <2>3, <2>4
<1> QED BY <1>1, <1>2

\* An intent names references.
LEMMA OldRefIs ==
  ASSUME CacheInv, NEW k \in Commands, NEW i
  PROVE  OldRef(k, i) \in AllRefs \cup {NoRef}
<1>1. w[k].cur \in Metadata
  BY EditTyped DEF CacheInv
<1> QED BY <1>1, Parts DEF OldRef

\* The parts of a step of begin.
Begins(k, i, r, t, e) ==
  /\ r \in Refs \cup {NoRef} /\ (r # NoRef => r \in Fresh /\ w[k].todo[i] = "replace") /\ (r = NoRef => w[k].todo[i] = "remove")
  /\ t = [id |-> i, old |-> OldRef(k, i), new |-> r] /\ t \in Intents
  /\ e \in Edits /\ e.pc = (IF r = NoRef THEN "stage" ELSE "secret") /\ e.todo = Drop(w[k].todo, i) /\ e.new = r
  /\ e.next = Referenced(w[k].next, i, r) /\ e.mine = w[k].mine \cup {t} /\ e.cur = w[k].cur /\ e.op = w[k].op
  /\ e.id = w[k].id /\ e.typed = w[k].typed /\ w' = [w EXCEPT ![k] = e] /\ intents' = intents \cup {t} /\ durable' = disk

\* What begin does.
LEMMA BeginIs ==
  ASSUME CacheInv, NEW k \in Worker, NEW i \in ProfileIds, BeginIntent(k, i)
  PROVE  /\ w[k].pc = "stage" /\ i \in DOMAIN w[k].todo /\ (\E r, t, e : Begins(k, i, r, t, e))
         /\ UNCHANGED <<disk, backup, vault, store, lock, loader, conn, life, purged, tallies>>
<1>1. w[k].pc = "stage" /\ i \in DOMAIN w[k].todo /\ (w[k].todo[i] = "replace" => Fresh # {})
      /\ UNCHANGED <<disk, backup, vault, store, lock, loader, conn, life, purged, tallies>> /\ durable' = disk
  BY DEF BeginIntent
<1>2. k \in Commands /\ w[k] \in Edits /\ w[k].next \in Metadata /\ w[k].todo \in Todos
  BY <1>1, Staging DEF Drafting
<1>3. PICK Z \in SUBSET ProfileIds : w[k].todo \in [Z -> {"replace", "remove"}]
  BY <1>2 DEF Todos
<1>4. w[k].todo[i] \in {"replace", "remove"}
  BY <1>1, <1>3
<1> DEFINE r == IF w[k].todo[i] = "replace" THEN CHOOSE x \in Refs : x \in Fresh ELSE NoRef
<1> DEFINE t == [id |-> i, old |-> OldRef(k, i), new |-> r]
<1> DEFINE e == [w[k] EXCEPT !.pc = IF r = NoRef THEN "stage" ELSE "secret", !.todo = Drop(w[k].todo, i), !.new = r,
                             !.next = Referenced(w[k].next, i, r), !.mine = w[k].mine \cup {t}]
<1>5. intents' = intents \cup {t} /\ w' = [w EXCEPT ![k] = e]
  <2>1. /\ intents' = intents \cup {t}
        /\ w' = [w EXCEPT ![k].pc = IF r = NoRef THEN "stage" ELSE "secret",
                          ![k].todo = Drop(@, i), ![k].new = r,
                          ![k].next = Referenced(@, i, r), ![k].mine = @ \cup {t}]
    BY DEF BeginIntent
  <2> HIDE DEF r, t
  <2> QED BY <2>1
<1>6. w[k].todo[i] = "replace" => r \in Refs /\ r \in Fresh
  <2> SUFFICES ASSUME w[k].todo[i] = "replace" PROVE r \in Refs /\ r \in Fresh
    OBVIOUS
  <2>1. \E x \in Refs : x \in Fresh
    BY <1>1 DEF Fresh
  <2> QED BY <2>1
<1>7. r \in Refs \cup {NoRef} /\ (r # NoRef => r \in Fresh /\ w[k].todo[i] = "replace") /\ (r = NoRef => w[k].todo[i] = "remove")
  BY <1>4, <1>6, StoreNames
<1> HIDE DEF r
<1>8. t \in Intents
  BY <1>2, <1>7, OldRefIs DEF Intents
<1>9. Referenced(w[k].next, i, r) \in Metadata /\ Drop(w[k].todo, i) \in Todos
  BY <1>2, <1>7, ReferencedIs, TodoDrop
<1>10. /\ e \in Edits /\ e.pc = (IF r = NoRef THEN "stage" ELSE "secret") /\ e.todo = Drop(w[k].todo, i) /\ e.new = r
      /\ e.next = Referenced(w[k].next, i, r) /\ e.mine = w[k].mine \cup {t} /\ e.cur = w[k].cur /\ e.op = w[k].op
      /\ e.id = w[k].id /\ e.typed = w[k].typed
  <2> DEFINE pc == IF r = NoRef THEN "stage" ELSE "secret"
  <2>1. pc \in {"stage", "secret"} /\ w[k].mine \cup {t} \subseteq Intents
    BY <1>2, <1>8 DEF Edits
  <2> HIDE DEF pc, t
  <2>2. e = [w[k] EXCEPT !.pc = pc, !.todo = Drop(w[k].todo, i), !.new = r,
                         !.next = Referenced(w[k].next, i, r), !.mine = w[k].mine \cup {t}]
    BY DEF pc
  <2>3. pc = IF r = NoRef THEN "stage" ELSE "secret"
    BY DEF pc
  <2> HIDE DEF e
  <2> QED BY <1>2, <1>7, <1>9, <2>1, <2>2, <2>3 DEF Edits
<1>11. Begins(k, i, r, t, e)
  BY <1>1, <1>5, <1>7, <1>8, <1>10 DEF Begins
<1> HIDE DEF t, e
<1> QED BY <1>1, <1>11

\* A fresh reference is in no catalogue.
LEMMA FreshIs ==
  ASSUME NEW r \in Fresh
  PROVE  /\ ~Present(r) /\ r \in Refs /\ r \notin backup
         /\ \A c \in {disk.cat, durable.cat, store.cat, loader.snap} : \A j \in DOMAIN c : c[j].ref # r
         /\ \A k \in Commands : /\ \A j \in DOMAIN w[k].cur : w[k].cur[j].ref # r
                                /\ \A j \in DOMAIN w[k].next : w[k].next[j].ref # r
         /\ \A t \in intents : t.old # r /\ t.new # r
         /\ \A i \in DOMAIN loader.found : loader.found[i] # r
<1>1. r \in Refs /\ ~Mentioned(r)
  BY DEF Fresh
<1> QED BY <1>1 DEF Mentioned

\* An intent is begun.
LEMMA Cache_BeginIntent ==
  ASSUME CacheInv, NEW k \in Worker, NEW i \in ProfileIds, BeginIntent(k, i)
  PROVE  CacheInv'
<1>1. /\ w[k].pc = "stage" /\ i \in DOMAIN w[k].todo
      /\ UNCHANGED <<disk, backup, vault, store, lock, loader, conn, life, purged, tallies>>
  BY BeginIs
<1>2. PICK r, t, e : Begins(k, i, r, t, e)
  BY BeginIs
<1>3. /\ k \in Commands /\ Draft(w[k]) /\ w[k].next \in Metadata /\ w[k].todo \in Todos /\ Follows(store.cat, w[k].cur)
      /\ Remembers(loader.snap, store.cat, w[k].next) /\ Editing(w[k]) /\ ~Collecting(w[k])
      /\ (\A j \in ProfileIds : ~Changes(w[k], j))
  BY <1>1, Staging DEF Drafting
<1> DEFINE n == w[k].next
<1> DEFINE m == e.next
<1>4. /\ m \in Metadata /\ DOMAIN m = DOMAIN n
      /\ \A j \in DOMAIN n : m[j].rev = n[j].rev /\ (j # i => m[j] = n[j])
      /\ i \in DOMAIN n => m[i].ref = r
  BY <1>2, <1>3, ReferencedIs DEF Begins
<1>5. DOMAIN e.todo = DOMAIN w[k].todo \ {i} /\ \A j \in DOMAIN e.todo : e.todo[j] = w[k].todo[j]
  <2>1. e.todo = Drop(w[k].todo, i) /\ w[k].todo \in Todos
    BY <1>2, <1>3 DEF Begins
  <2>2. /\ DOMAIN Drop(w[k].todo, i) = DOMAIN w[k].todo \ {i}
        /\ \A j \in DOMAIN w[k].todo \ {i} : Drop(w[k].todo, i)[j] = w[k].todo[j]
    BY <2>1, TodoDrop
  <2> QED BY <2>1, <2>2
<1>6. /\ e.op = w[k].op /\ e.id = w[k].id /\ e.cur = w[k].cur /\ e.typed = w[k].typed /\ e.new = r /\ r \in Refs \cup {NoRef}
      /\ (r # NoRef => w[k].todo[i] = "replace") /\ e.pc = (IF r = NoRef THEN "stage" ELSE "secret")
      /\ (r # NoRef => \A j \in DOMAIN loader.snap : loader.snap[j].ref # r)
  BY <1>2, FreshIs DEF Begins
<1> HIDE DEF m, n
<1>7. Draft(e)
  <2>1. Draft(w[k]) /\ e.next = m /\ w[k].next = n
    BY <1>3 DEF m, n
  <2>2. e.op \in {"save", "delete"} => i = e.id
    BY <1>1, <1>6, <2>1 DEF Draft
  <2>3. \A j \in DOMAIN e.cur \cap DOMAIN m : m[j].rev >= e.cur[j].rev
    BY <1>4, <1>6, <2>1 DEF Draft
  <2>4. e.op \in {"save", "delete"} =>
       /\ DOMAIN e.todo \subseteq {e.id}
       /\ \A j \in ProfileIds \ {e.id} : /\ j \in DOMAIN m <=> j \in DOMAIN e.cur
                                         /\ j \in DOMAIN m => m[j] = e.cur[j]
    BY <1>4, <1>5, <1>6, <2>1, <2>2 DEF Draft
  <2>5. \A j \in DOMAIN e.todo : e.todo[j] = "replace" => j \in DOMAIN m
    BY <1>4, <1>5, <2>1 DEF Draft
  <2>6. e.typed = "keep" =>
       /\ e.op = "save" /\ e.id \in DOMAIN m /\ m[e.id].ref = NoRef
       /\ \A j \in DOMAIN e.todo : e.todo[j] = "remove"
    BY <1>1, <1>4, <1>5, <1>6, <2>1, <2>2 DEF Draft
  <2>7. e.pc = "secret" => e.new \in Refs /\ \E j \in DOMAIN m : m[j].ref = e.new
    BY <1>1, <1>4, <1>6, <2>1 DEF Draft
  <2> QED BY <2>1, <2>3, <2>4, <2>5, <2>6, <2>7 DEF Draft
<1>8. Remembers(loader.snap, store.cat, m)
  <2>1. Remembers(loader.snap, store.cat, n)
    BY <1>3 DEF n
  <2> QED BY <1>4, <1>6, <2>1 DEF Remembers, At
<1>9. Drafting(e) /\ ~Collecting(e) /\ Editing(e) /\ e.pc # "plan"
  BY <1>6 DEF Drafting, Collecting, Editing
<1>10. Sound(e, disk.cat, store.cat, loader.snap)
  BY <1>3, <1>6, <1>7, <1>8, <1>9 DEF Sound, m
<1>11. /\ UNCHANGED <<disk, backup, store, lock, loader, conn, purged, appCrashes>> /\ durable' \in {durable, disk}
       /\ life' \in [ProfileIds -> 0..MaxLife] /\ vault' \in [AllRefs -> 0..MaxLife] /\ intents' \subseteq Intents /\ storeFaults' \in Nat
  BY <1>1, <1>2 DEF CacheInv, StoreTyped, Begins, tallies
<1>12. e \in Edits /\ w' = [w EXCEPT ![k] = e]
  BY <1>2 DEF Begins
<1> QED BY <1>3, <1>6, <1>9, <1>10, <1>11, <1>12, EditMoves

\* The life a secret is written for.
LEMMA OwnerIs ==
  ASSUME CacheInv, NEW k \in Worker, w[k].pc = "secret"
  PROVE  w[k].new \in Refs /\ Owner(k) \in 1 .. MaxLife /\ Owner(k) \in 0 .. MaxLife /\ Owner(k) # 0
<1>1. w[k].new \in Refs /\ w[k].next \in Metadata /\ \E j \in DOMAIN w[k].next : w[k].next[j].ref = w[k].new
  BY Staging DEF Drafting, Draft
<1>2. Owner(k) \in 1 .. MaxLife
  BY <1>1, Parts DEF Owner
<1> QED BY <1>1, <1>2, StoreNames

\* write_secret leaves the metadata alone.
LEMMA Cache_WriteSecret ==
  ASSUME CacheInv, NEW k \in Worker, WriteSecret(k)
  PROVE  CacheInv'
<1> DEFINE e == [w[k] EXCEPT !.pc = "stage", !.new = NoRef]
<1>1. /\ w[k].pc = "secret" /\ vault' = [vault EXCEPT ![w[k].new] = Owner(k)] /\ w' = [w EXCEPT ![k] = e]
      /\ UNCHANGED <<disk, durable, backup, intents, store, lock, loader, conn, life, purged, appCrashes, storeFaults>>
  BY DEF WriteSecret, records, tallies
<1>2. /\ k \in Commands /\ Draft(w[k]) /\ Follows(store.cat, w[k].cur) /\ w[k] \in Edits
      /\ Remembers(loader.snap, store.cat, w[k].next) /\ Editing(w[k]) /\ ~Collecting(w[k])
      /\ (\A j \in ProfileIds : ~Changes(w[k], j))
  BY <1>1, Staging DEF Drafting
<1>3. /\ e \in Edits /\ e.pc = "stage" /\ e.cur = w[k].cur /\ e.next = w[k].next /\ e.todo = w[k].todo /\ e.typed = w[k].typed
      /\ e.op = w[k].op /\ e.id = w[k].id
  BY <1>2 DEF Edits
<1> HIDE DEF e
<1>4. Draft(e)
  BY <1>2, <1>3 DEF Draft
<1>5. Sound(e, disk.cat, store.cat, loader.snap) /\ Editing(e)
  BY <1>2, <1>3, <1>4 DEF Sound, Drafting, Collecting, Editing
<1>6. vault' \in [AllRefs -> 0..MaxLife]
  BY <1>1, OwnerIs, StoreNames DEF CacheInv, StoreTyped
<1>7. /\ life' \in [ProfileIds -> 0..MaxLife] /\ intents' \subseteq Intents /\ storeFaults' \in Nat
  BY <1>1 DEF CacheInv, StoreTyped
<1> QED BY <1>1, <1>2, <1>3, <1>5, <1>6, <1>7, EditMoves

\* A command whose staging fails ends.
LEMMA Cache_StageFails ==
  ASSUME CacheInv, NEW k \in Worker, StageFails(k)
  PROVE  CacheInv'
<1>1. /\ w[k].pc \in {"stage", "secret"} /\ Abort(k) /\ storeFaults' = storeFaults + 1
      /\ vault' = vault \/ (w[k].pc = "secret" /\ vault' = [vault EXCEPT ![w[k].new] = Owner(k)])
      /\ UNCHANGED <<disk, durable, backup, intents, loader, conn, life, purged, appCrashes>>
  BY DEF StageFails, records, Fault
<1>2. k \in Commands /\ w[k].pc # "idle" /\ (\A j \in ProfileIds : ~Changes(w[k], j))
  BY <1>1, Staging DEF Drafting
<1>3. vault' \in [AllRefs -> 0..MaxLife] /\ storeFaults' \in Nat
  BY <1>1, OwnerIs, StoreNames DEF CacheInv, StoreTyped
<1> QED BY <1>1, <1>2, <1>3, AbortInv

\* A write of the metadata that succeeds, or fails.
LEMMA MigrationTyped ==
  ASSUME StoreTyped
  PROVE  MigrationBackup \subseteq AllRefs
<1>1. backup \subseteq AllRefs /\ References(disk.cat) \subseteq AllRefs
  BY StoreFields, ReferencesTyped DEF StoreTyped
<1> QED BY <1>1 DEF MigrationBackup

\* A metadata write that succeeds.
LEMMA WrittenIs ==
  ASSUME StoreTyped, NEW c \in Metadata, Written(c)
  PROVE  /\ disk' \in [cat : Metadata, legacy : BOOLEAN] /\ durable' = disk' /\ disk'.cat = c /\ backup' \subseteq AllRefs
         /\ ~disk'.legacy /\ storeFaults' = storeFaults /\ storeFaults' \in Nat /\ backup' = MigrationBackup
BY MigrationTyped DEF Written, StoreTyped

\* A metadata write that fails, before the rename or after it.
LEMMA NotWrittenIs ==
  ASSUME StoreTyped, NEW c \in Metadata, NotWritten(c)
  PROVE  /\ disk' \in [cat : Metadata, legacy : BOOLEAN] /\ durable' = durable /\ backup' \subseteq AllRefs
         /\ storeFaults' \in Nat
         /\ disk' = disk \/ (UnsyncedFault /\ disk'.cat = c /\ ~disk'.legacy)
         /\ backup' \in {backup, MigrationBackup}
<1>1. /\ storeFaults' \in Nat /\ durable' = durable /\ backup' \in {backup, MigrationBackup}
      /\ disk' = disk \/ (UnsyncedFault /\ disk' = [cat |-> c, legacy |-> FALSE])
  BY DEF NotWritten, Fault, StoreTyped
<1>2. disk \in [cat : Metadata, legacy : BOOLEAN] /\ backup \subseteq AllRefs
  BY DEF StoreTyped
<1>3. /\ disk' \in [cat : Metadata, legacy : BOOLEAN]
      /\ disk' = disk \/ (UnsyncedFault /\ disk'.cat = c /\ ~disk'.legacy)
  <2>1. CASE disk' = disk
    BY <1>2, <2>1
  <2>2. CASE UnsyncedFault /\ disk' = [cat |-> c, legacy |-> FALSE]
    BY <2>2
  <2> QED BY <1>1, <2>1, <2>2
<1>4. backup' \subseteq AllRefs
  BY <1>1, <1>2, MigrationTyped
<1> QED BY <1>1, <1>3, <1>4

\* While one command edits, the others wait.
LEMMA OthersWait ==
  ASSUME CacheInv, NEW k \in Worker, Editing(w[k])
  PROVE  \A l \in Commands : l # k => w[l].pc \in {"idle", "reserved"}
<1>1. w[k].pc # "idle" /\ lock = k /\ store.up /\ \A l \in Worker : l # k => ~Editing(w[l])
  BY DEF CacheInv, Exclusive, Editing
<1>2. w[Boot].pc = "idle"
  BY <1>1 DEF CacheInv, Exclusive
<1> QED BY <1>1, <1>2, StoreNames DEF Editing

\* The metadata is written.
LEMMA Cache_CommitOk ==
  ASSUME CacheInv, NEW k \in Worker, w[k].pc = "stage", ~store.recovery, Written(w[k].next),
         store' = [store EXCEPT !.cat = w[k].next], w' = [w EXCEPT ![k].pc = "collect"],
         UNCHANGED <<lock, vault, intents, loader, conn, life, purged, appCrashes>>
  PROVE  CacheInv'
<1> DEFINE e == [w[k] EXCEPT !.pc = "collect"]
<1> DEFINE n == w[k].next
<1>1. /\ k \in Commands /\ Editing(w[k]) /\ ~Collecting(w[k]) /\ (\A i \in ProfileIds : ~Changes(w[k], i))
      /\ w[k].op \in {"save", "delete", "restore"} /\ Follows(store.cat, w[k].cur) /\ Draft(w[k])
      /\ Remembers(loader.snap, store.cat, n) /\ w[k] \in Edits /\ n \in Metadata /\ lock = k /\ store.up
  BY Staging DEF Drafting
<1>2. w' = [w EXCEPT ![k] = e]
  OBVIOUS
<1>3. /\ e \in Edits /\ e.pc = "collect" /\ e.op = w[k].op /\ e.id = w[k].id /\ e.typed = w[k].typed /\ e.next = n
  BY <1>1 DEF Edits
<1> HIDE DEF e
<1>4. Becomes(k, e) /\ Editing(e) /\ Collecting(e)
  BY <1>1, <1>2, <1>3, BecomesIs DEF CacheInv, Editing, Collecting
<1>5. /\ disk' \in [cat : Metadata, legacy : BOOLEAN] /\ durable' = disk' /\ disk'.cat = n /\ backup' \subseteq AllRefs
      /\ storeFaults' \in Nat
  BY <1>1, WrittenIs DEF CacheInv
<1>6. /\ store' \in Caches /\ store'.cat = n /\ store'.session = store.session /\ store'.recovery = store.recovery /\ Reserved
  BY <1>1, StoreFields DEF CacheInv, Caches, Reserved
<1> HIDE DEF n
<1>7. StoreTyped'
  <2>1. w' \in [Commands -> Edits]
    BY <1>4 DEF Becomes
  <2> QED BY <1>5, <1>6, <2>1 DEF CacheInv, StoreTyped
<1>8. Exclusive'
  BY <1>1, <1>3, <1>4, <1>6, ExclusiveMove
<1>9. CacheCurrent'
  BY <1>5, <1>6 DEF CacheCurrent
<1>10. \A l \in Commands : l # k => w'[l] = w[l] /\ w[l].pc \in {"idle", "reserved"}
  BY <1>1, <1>4, OthersWait DEF Becomes
<1>11. CommandsSound'
  <2>1. Sound(e, disk'.cat, store'.cat, loader'.snap)
    <3>1. e.typed = "keep" /\ e.op = "save" => e.id \in DOMAIN n /\ n[e.id].ref = NoRef
      BY <1>1, <1>3 DEF Draft, n
    <3>2. e.typed = "keep" => e.op = "save"
      BY <1>1, <1>3 DEF Draft
    <3> QED BY <1>1, <1>3, <1>6, <3>1, <3>2 DEF Sound, Drafting, Collecting
  <2>2. \A l \in Commands : Sound(w'[l], disk'.cat, store'.cat, loader'.snap)
    BY <1>4, <1>10, <2>1, IdleSound DEF Becomes
  <2> QED BY <2>2 DEF CommandsSound
<1>12. LoaderSound'
  <2>1. Reading(loader, store.cat)
    BY DEF CacheInv, LoaderSound
  <2>2. Reading(loader, n)
    BY <1>1, <2>1 DEF Reading, Remembers
  <2>3. Remembers(loader.snap, n, n)
    BY DEF Remembers
  <2> QED BY <1>5, <1>6, <2>2, <2>3 DEF LoaderSound
<1>13. SessionsSound'
  <2>1. ASSUME NEW i \in ProfileIds, w[k].op \in {"save", "delete"}, i # w[k].id
        PROVE  (i \in DOMAIN store.cat <=> i \in DOMAIN n) /\ (i \in DOMAIN n => n[i].ref = store.cat[i].ref)
    <3>1. (i \in DOMAIN n <=> i \in DOMAIN w[k].cur) /\ (i \in DOMAIN n => n[i] = w[k].cur[i])
      BY <1>1, <2>1 DEF Draft, n
    <3> QED BY <1>1, <3>1 DEF Follows
  <2>2. \A i \in ProfileIds : \A r : w[k].op \in {"save", "delete"} /\ i # w[k].id /\ Current(i, r, store.cat) => Current(i, r, n)
    BY <2>1 DEF Current
  <2>3. \A i \in ProfileIds : (\A l \in Worker : ~Changes(w[l], i))
    BY <1>1, <1>10, StoreNames DEF Changes, Collecting
  <2>4. ASSUME NEW i \in ProfileIds, \A l \in Worker : ~Changes(w'[l], i) PROVE Current(i, store'.session[i], store'.cat)
    <3>1. ~Changes(e, i)
      BY <1>4, <2>4 DEF Becomes
    <3>2. w[k].op \in {"save", "delete"} /\ i # w[k].id
      BY <1>1, <1>3, <1>4, <3>1 DEF Changes
    <3>3. Current(i, store.session[i], store.cat)
      BY <2>3 DEF CacheInv, SessionsSound
    <3> QED BY <1>6, <2>2, <3>2, <3>3
  <2>5. ASSUME NEW i \in ProfileIds, conn[i].pc # "none" PROVE i \in DOMAIN n /\ Current(i, conn[i].ref, n)
    <3>1. Exclusive /\ w[k].pc # "idle"
      BY <1>1 DEF CacheInv, Editing
    <3>2. w[k].op \in {"save", "delete"} /\ i # w[k].id
      BY <1>1, <2>5, <3>1 DEF Exclusive, Whole
    <3>3. i \in DOMAIN store.cat /\ Current(i, conn[i].ref, store.cat)
      BY <2>5 DEF CacheInv, SessionsSound
    <3> QED BY <2>1, <2>2, <3>2, <3>3
  <2>6. \A i \in ProfileIds : conn[i].pc = "read" => conn[i].ref \in AllRefs
    BY DEF CacheInv, SessionsSound
  <2> QED BY <1>6, <2>4, <2>5, <2>6 DEF SessionsSound
<1> QED BY <1>7, <1>8, <1>9, <1>11, <1>12, <1>13 DEF CacheInv

\* The write fails: the repository waits for a recovery.
LEMMA Cache_CommitFails ==
  ASSUME CacheInv, NEW k \in Worker, w[k].pc = "stage", ~store.recovery, NotWritten(w[k].next),
         w' = [w EXCEPT ![k] = NoEdit], lock' = Unlocked, store' = [Unreserved(k, store) EXCEPT !.recovery = TRUE],
         UNCHANGED <<vault, intents, loader, conn, life, purged, appCrashes>>
  PROVE  CacheInv'
<1> DEFINE n == w[k].next
<1>1. /\ k \in Commands /\ Editing(w[k]) /\ ~Collecting(w[k]) /\ (\A i \in ProfileIds : ~Changes(w[k], i))
      /\ Remembers(loader.snap, store.cat, n) /\ n \in Metadata /\ lock = k
  BY Staging DEF Drafting
<1>2. Becomes(k, NoEdit)
  BY <1>1, NoEditTyped, BecomesIs DEF CacheInv
<1>3. /\ disk' \in [cat : Metadata, legacy : BOOLEAN] /\ durable' = durable /\ backup' \subseteq AllRefs
      /\ storeFaults' \in Nat
      /\ disk' = disk \/ (UnsyncedFault /\ disk'.cat = n)
  BY <1>1, NotWrittenIs DEF CacheInv
<1>4. /\ store' \in Caches /\ store'.cat = store.cat /\ store'.session = store.session /\ store'.recovery
      /\ store'.up = store.up /\ store'.restoring = (store.restoring /\ w[k].op \notin Whole)
      /\ store'.mutating = store.mutating \ {w[k].id}
  BY StoreFields DEF CacheInv, Caches, Unreserved, Whole
<1> HIDE DEF n
<1>5. StoreTyped'
  <2>1. w' \in [Commands -> Edits]
    BY <1>2 DEF Becomes
  <2> QED BY <1>3, <1>4, <2>1 DEF CacheInv, StoreTyped
<1>6. Exclusive'
  <2>1. Freed(k) /\ w[k].pc # "idle"
    BY <1>1, <1>4 DEF Freed
  <2> QED BY <1>1, <1>2, <2>1, ExclusiveEnd
<1>7. CacheCurrent'
  BY <1>3, <1>4 DEF CacheInv, CacheCurrent
<1>8. CommandsSound'
  <2>1. \A l \in Commands : w'[l].pc \in {"idle", "reserved"}
    BY <1>1, <1>2, OthersWait, NoEditTyped DEF Becomes
  <2> QED BY <2>1, IdleSound DEF CommandsSound
<1>9. LoaderSound'
  <2>1. Reading(loader, store.cat) /\ Remembers(loader.snap, store.cat, disk'.cat)
    BY <1>1, <1>3 DEF CacheInv, LoaderSound
  <2> QED BY <1>4, <2>1 DEF LoaderSound
<1>10. SessionsSound'
  BY <1>1, <1>2, <1>4, SessionsRest
<1> QED BY <1>5, <1>6, <1>7, <1>8, <1>9, <1>10 DEF CacheInv

\* commit_metadata, whether the write succeeds or not.
LEMMA Cache_Commit ==
  ASSUME CacheInv, NEW k \in Worker, NEW ok \in BOOLEAN, Commit(k, ok)
  PROVE  CacheInv'
<1>1. w[k].pc = "stage" /\ UNCHANGED <<vault, intents, loader, conn, life, purged, appCrashes>>
  BY DEF Commit
<1>2. CASE store.recovery
  <2>1. Abort(k) /\ UNCHANGED <<disk, durable, backup, storeFaults>>
    BY <1>2 DEF Commit, records
  <2>2. k \in Commands /\ \A i \in ProfileIds : ~Changes(w[k], i)
    BY <1>1, Staging DEF Drafting
  <2>3. vault' \in [AllRefs -> 0..MaxLife] /\ storeFaults' \in Nat
    BY <1>1, <2>1 DEF CacheInv, StoreTyped
  <2> QED BY <1>1, <2>1, <2>2, <2>3, AbortInv
<1>3. CASE ~store.recovery /\ ok
  BY <1>1, <1>3, Cache_CommitOk DEF Commit
<1>4. CASE ~store.recovery /\ ~ok
  BY <1>1, <1>4, Cache_CommitFails DEF Commit
<1> QED BY <1>2, <1>3, <1>4

\* Only the credential store changes.
LEMMA VaultOnly ==
  ASSUME CacheInv, UNCHANGED <<records, memory, intents, life, appCrashes>>, vault' \in [AllRefs -> 0..MaxLife],
         purged' \subseteq AllRefs, storeFaults' \in Nat
  PROVE  CacheInv'
<1>1. StoreTyped'
  BY DEF CacheInv, StoreTyped, records, memory
<1>2. Exclusive' /\ CacheCurrent'
  BY DEF CacheInv, Exclusive, CacheCurrent, records, memory
<1>3. CommandsSound' /\ LoaderSound'
  BY DEF CacheInv, CommandsSound, LoaderSound, records, memory
<1>4. SessionsSound'
  BY DEF CacheInv, SessionsSound, records, memory
<1> QED BY <1>1, <1>2, <1>3, <1>4 DEF CacheInv

\* A collector deletes a secret.
LEMMA Cache_CollectDeletes ==
  ASSUME CacheInv, NEW k \in Commands, NEW t \in intents, NEW r \in AllRefs, CollectDeletes(k, t, r)
  PROVE  CacheInv'
<1>1. /\ vault' = [vault EXCEPT ![r] = 0] /\ purged' = purged /\ storeFaults' = storeFaults
      /\ UNCHANGED <<records, memory, intents, life, appCrashes>>
  BY DEF CollectDeletes, tallies
<1>2. vault' \in [AllRefs -> 0..MaxLife] /\ purged' \subseteq AllRefs /\ storeFaults' \in Nat
  BY <1>1, StoreNames DEF CacheInv, StoreTyped
<1> QED BY <1>1, <1>2, VaultOnly

\* Somebody else deletes a secret.
LEMMA Cache_Purge ==
  ASSUME CacheInv, NEW r \in AllRefs, Purge(r)
  PROVE  CacheInv'
<1>1. /\ vault' = [vault EXCEPT ![r] = 0] /\ purged' = purged \cup {r} /\ storeFaults' = storeFaults + 1
      /\ UNCHANGED <<records, memory, intents, life, appCrashes>>
  BY DEF Purge, Fault
<1>2. vault' \in [AllRefs -> 0..MaxLife] /\ purged' \subseteq AllRefs /\ storeFaults' \in Nat
  BY <1>1, StoreNames DEF CacheInv, StoreTyped
<1> QED BY <1>1, <1>2, VaultOnly

\* A collector goes from one intent to the next.
LEMMA CollectMoves ==
  ASSUME CacheInv, NEW k \in Commands, Collecting(w[k]), NEW e \in Edits, Collecting(e), w' = [w EXCEPT ![k] = e],
         e.op = w[k].op, e.id = w[k].id, e.next = w[k].next, e.typed = w[k].typed, e.op \in {"recover", "boot"} => e.live = w[k].live,
         UNCHANGED <<disk, backup, vault, store, lock, loader, conn, life, purged, appCrashes>>, durable' \in {durable, disk},
         intents' \subseteq Intents, storeFaults' \in Nat
  PROVE  CacheInv'
<1>1. Editing(w[k]) /\ Editing(e) /\ ~Drafting(e) /\ e.pc # "plan" /\ e.pc # "secret"
  BY DEF Collecting, Editing, Drafting
<1>2. Sound(w[k], disk.cat, store.cat, loader.snap)
  BY DEF CacheInv, CommandsSound
<1>3. Sound(e, disk.cat, store.cat, loader.snap)
  BY <1>1, <1>2 DEF Sound
<1>4. \A i \in ProfileIds : Changes(w[k], i) => Changes(e, i)
  BY DEF Changes
<1>5. life' \in [ProfileIds -> 0..MaxLife] /\ vault' \in [AllRefs -> 0..MaxLife]
  BY DEF CacheInv, StoreTyped
<1> QED BY <1>1, <1>3, <1>4, <1>5, EditMoves

\* A collector looks at an intent.
LEMMA Cache_CollectLoads ==
  ASSUME CacheInv, NEW k \in Commands, NEW t \in intents, CollectLoads(k, t)
  PROVE  CacheInv'
<1> DEFINE live == IF w[k].op \in {"recover", "boot"} THEN w[k].live ELSE References(disk.cat)
<1> DEFINE e == [w[k] EXCEPT !.pc = "gc", !.item = {t}, !.live = live]
<1>1. /\ w[k].pc = "collect" /\ w' = [w EXCEPT ![k] = e]
      /\ UNCHANGED <<records, vault, intents, store, lock, loader, conn, life, purged, tallies>>
  BY DEF CollectLoads
<1>2. w[k] \in Edits /\ live \in SUBSET AllRefs /\ {t} \in SUBSET Intents
  <2>1. References(disk.cat) \subseteq AllRefs /\ w[k].live \subseteq AllRefs /\ w[k] \in Edits /\ intents \subseteq Intents
    BY StoreFields, ReferencesTyped, EditTyped DEF CacheInv, StoreTyped
  <2> QED BY <2>1
<1>3. w[k].op \in {"recover", "boot"} => live = w[k].live
  OBVIOUS
<1> HIDE DEF live
<1>4. /\ e \in Edits /\ e.pc = "gc" /\ e.op = w[k].op /\ e.id = w[k].id /\ e.next = w[k].next /\ e.typed = w[k].typed
      /\ e.live = live
  BY <1>2 DEF Edits
<1> HIDE DEF e
<1>5. Collecting(w[k]) /\ Collecting(e)
  BY <1>1, <1>4 DEF Collecting
<1>6. /\ UNCHANGED <<disk, backup, vault, store, lock, loader, conn, life, purged, appCrashes>> /\ durable' \in {durable, disk}
      /\ intents' \subseteq Intents /\ storeFaults' \in Nat
  BY <1>1 DEF CacheInv, StoreTyped, records, tallies
<1> QED BY <1>1, <1>3, <1>4, <1>5, <1>6, CollectMoves

\* The command after one of its intents is dealt with.
LEMMA NextIntent ==
  ASSUME StoreTyped, NEW k \in Commands, w[k].pc = "gc", NEW t,
         w' = [w EXCEPT ![k].pc = "collect", ![k].item = {}, ![k].mine = w[k].mine \ {t}]
  PROVE  \E e \in Edits :
           /\ w' = [w EXCEPT ![k] = e] /\ e.pc = "collect" /\ e.op = w[k].op /\ e.id = w[k].id /\ e.next = w[k].next
           /\ e.typed = w[k].typed /\ e.live = w[k].live /\ e.mine = w[k].mine \ {t} /\ Collecting(e) /\ Collecting(w[k])
<1> DEFINE e == [w[k] EXCEPT !.pc = "collect", !.item = {}, !.mine = w[k].mine \ {t}]
<1>1. w[k] \in Edits /\ w[k].mine \ {t} \subseteq Intents
  BY EditTyped
<1>2. /\ e \in Edits /\ e.pc = "collect" /\ e.op = w[k].op /\ e.id = w[k].id /\ e.next = w[k].next
      /\ e.typed = w[k].typed /\ e.live = w[k].live /\ e.mine = w[k].mine \ {t}
  BY <1>1 DEF Edits
<1>3. w' = [w EXCEPT ![k] = e]
  OBVIOUS
<1> HIDE DEF e
<1>4. Collecting(e) /\ Collecting(w[k])
  BY <1>2 DEF Collecting
<1> QED BY <1>2, <1>3, <1>4

\* A collector is done with an intent.
LEMMA Cache_CollectEnds ==
  ASSUME CacheInv, NEW k \in Commands, NEW t \in intents, CollectEnds(k, t)
  PROVE  CacheInv'
<1>1. /\ w[k].pc = "gc" /\ w' = [w EXCEPT ![k].pc = "collect", ![k].item = {}, ![k].mine = w[k].mine \ {t}]
      /\ UNCHANGED <<disk, backup, vault, store, lock, loader, conn, life, purged, tallies>>
      /\ durable' \in {durable, disk} /\ intents' \subseteq intents
  BY DEF CollectEnds
<1>2. PICK e \in Edits :
           /\ w' = [w EXCEPT ![k] = e] /\ e.pc = "collect" /\ e.op = w[k].op /\ e.id = w[k].id /\ e.next = w[k].next
           /\ e.typed = w[k].typed /\ e.live = w[k].live /\ Collecting(e) /\ Collecting(w[k])
  BY <1>1, NextIntent DEF CacheInv
<1>3. intents' \subseteq Intents /\ storeFaults' \in Nat /\ appCrashes' = appCrashes
  BY <1>1 DEF CacheInv, StoreTyped, tallies
<1> QED BY <1>1, <1>2, <1>3, CollectMoves

\* A deletion fails.
LEMMA Cache_CollectFails ==
  ASSUME CacheInv, NEW k \in Commands, NEW t \in intents, CollectFails(k, t)
  PROVE  CacheInv'
<1>1. /\ w[k].pc = "gc" /\ storeFaults' = storeFaults + 1
      /\ UNCHANGED <<disk, durable, backup, vault, intents, loader, conn, life, purged, appCrashes>>
  BY DEF CollectFails, Fault, records
<1>2. intents' \subseteq Intents /\ storeFaults' \in Nat /\ vault' \in [AllRefs -> 0..MaxLife]
  BY <1>1 DEF CacheInv, StoreTyped
<1>3. CASE w[k].op \in {"recover", "boot"}
  <2>1. Abort(k) /\ \A i \in ProfileIds : ~Changes(w[k], i)
    BY <1>3 DEF CollectFails, Changes
  <2> QED BY <1>1, <1>2, <2>1, AbortInv
<1>4. CASE w[k].op \notin {"recover", "boot"}
  <2>1. w' = [w EXCEPT ![k].pc = "collect", ![k].item = {}, ![k].mine = w[k].mine \ {t}] /\ UNCHANGED <<lock, store>>
    BY <1>4 DEF CollectFails
  <2>2. PICK e \in Edits :
           /\ w' = [w EXCEPT ![k] = e] /\ e.pc = "collect" /\ e.op = w[k].op /\ e.id = w[k].id /\ e.next = w[k].next
           /\ e.typed = w[k].typed /\ e.live = w[k].live /\ Collecting(e) /\ Collecting(w[k])
    BY <1>1, <2>1, NextIntent DEF CacheInv
  <2> QED BY <1>1, <1>2, <2>1, <2>2, CollectMoves
<1> QED BY <1>3, <1>4

\* The session passwords follow the commit.
LEMMA Cache_Publish ==
  ASSUME CacheInv, NEW k \in Worker, Publish(k)
  PROVE  CacheInv'
<1> DEFINE sess == [i \in ProfileIds |->
           IF w[k].op = "restore" THEN NoRef
           ELSE IF i # w[k].id \/ w[k].typed = "keep" THEN store.session[i]
           ELSE IF w[k].typed = "typed" THEN Typed ELSE NoRef]
<1>1. /\ w[k].pc = "collect" /\ w[k].op \notin {"recover", "boot"} /\ w' = [w EXCEPT ![k] = NoEdit] /\ lock' = Unlocked
      /\ store' = [Unreserved(k, store) EXCEPT !.session = sess]
      /\ UNCHANGED <<disk, durable, backup, vault, intents, loader, conn, life, purged, appCrashes, storeFaults>>
  BY DEF Publish, records, tallies
<1>2. k \in Commands /\ Editing(w[k]) /\ Collecting(w[k]) /\ w[k].pc # "idle"
  BY <1>1, StoreNames DEF Editing, Collecting
<1>3. lock = k /\ w[k].op \in {"save", "delete", "restore"}
  BY <1>1, <1>2 DEF CacheInv, Exclusive, Whole
<1>4. sess \in [ProfileIds -> AllRefs \cup {NoRef, Typed}]
  <2>1. \A i \in ProfileIds : store.session[i] \in AllRefs \cup {NoRef, Typed}
    BY StoreFields DEF CacheInv
  <2> QED BY <2>1
<1>5. \A i \in ProfileIds : /\ w[k].op = "restore" => sess[i] = NoRef
                            /\ w[k].op # "restore" /\ i # w[k].id => sess[i] = store.session[i]
                            /\ w[k].op # "restore" /\ i = w[k].id /\ w[k].typed # "keep" => sess[i] \in {NoRef, Typed}
                            /\ w[k].op # "restore" /\ i = w[k].id /\ w[k].typed = "keep" => sess[i] = store.session[i]
  OBVIOUS
<1> HIDE DEF sess
<1>6. /\ store' \in Caches /\ store'.cat = store.cat /\ store'.session = sess /\ store'.recovery = store.recovery
      /\ store'.up = store.up /\ store'.restoring = (store.restoring /\ w[k].op \notin Whole)
      /\ store'.mutating = store.mutating \ {w[k].id}
  BY <1>1, <1>4, StoreFields DEF CacheInv, Caches, Unreserved, Whole
<1>7. Becomes(k, NoEdit) /\ Freed(k)
  BY <1>1, <1>2, <1>3, <1>6, NoEditTyped, BecomesIs DEF CacheInv, Freed
<1>8. StoreTyped'
  <2>1. w' \in [Commands -> Edits]
    BY <1>7 DEF Becomes
  <2> QED BY <1>1, <1>6, <2>1 DEF CacheInv, StoreTyped
<1>9. Exclusive'
  BY <1>1, <1>2, <1>7, ExclusiveEnd
<1>10. CacheCurrent' /\ LoaderSound'
  BY <1>1, <1>6 DEF CacheInv, CacheCurrent, LoaderSound
<1>11. CommandsSound'
  BY <1>1, <1>2, <1>6, <1>7, NoEditTyped, IdleSound, OthersSound
<1>12. SessionsSound'
  <2>1. \A l \in Worker, i \in ProfileIds : l # k => ~Changes(w[l], i)
    BY <1>2, OthersWait, StoreNames DEF Changes, Collecting
  <2>2. \A i \in ProfileIds : ~Changes(w[k], i) => Current(i, store.session[i], store.cat)
    BY <2>1 DEF CacheInv, SessionsSound
  <2>3. w[k].typed = "keep" /\ w[k].op # "restore" => w[k].id \in DOMAIN store.cat /\ store.cat[w[k].id].ref = NoRef
    BY <1>2, <1>3 DEF CacheInv, CommandsSound, Sound
  <2>4. NoRef \notin AllRefs /\ Typed \notin AllRefs
    BY StoreNames
  <2>5. ASSUME NEW i \in ProfileIds PROVE Current(i, sess[i], store.cat)
    <3>1. CASE w[k].op = "restore" \/ (i = w[k].id /\ w[k].typed # "keep")
      BY <1>3, <1>5, <2>4, <3>1 DEF Current
    <3>2. CASE w[k].op # "restore" /\ i # w[k].id
      BY <1>5, <2>2, <3>2 DEF Changes
    <3>3. CASE w[k].op # "restore" /\ i = w[k].id /\ w[k].typed = "keep"
      BY <2>3, <3>3 DEF Current
    <3> QED BY <3>1, <3>2, <3>3
  <2>6. \A i \in ProfileIds : /\ conn[i].pc # "none" => i \in DOMAIN store.cat /\ Current(i, conn[i].ref, store.cat)
                              /\ conn[i].pc = "read" => conn[i].ref \in AllRefs
    BY DEF CacheInv, SessionsSound
  <2> QED BY <1>1, <1>6, <2>5, <2>6 DEF SessionsSound
<1> QED BY <1>8, <1>9, <1>10, <1>11, <1>12 DEF CacheInv

\* A recovery loads the metadata and flushes it, or fails.
LEMMA Cache_Recover ==
  ASSUME CacheInv, NEW k \in Worker, NEW ok \in BOOLEAN, Recover(k, ok)
  PROVE  CacheInv'
<1>0. k \in Commands /\ Boot \in Commands /\ Boot \notin Worker /\ \A l \in Worker : l \in Commands
  BY StoreNames
<1>1. /\ w[k].pc = "reserved" /\ w[k].op = "recover" /\ lock = Unlocked
      /\ UNCHANGED <<disk, backup, vault, intents, loader, conn, life, purged, appCrashes>>
  BY DEF Recover
<1>2. CASE ~ok
  <2>1. Abort(k) /\ UNCHANGED durable /\ storeFaults' = storeFaults + 1
    BY <1>2 DEF Recover, Fault
  <2>2. vault' \in [AllRefs -> 0..MaxLife] /\ storeFaults' \in Nat /\ \A i \in ProfileIds : ~Changes(w[k], i)
    BY <1>1, <2>1 DEF CacheInv, StoreTyped, Changes
  <2> QED BY <1>0, <1>1, <2>1, <2>2, AbortInv
<1>3. CASE ok
  <2> DEFINE e == [w[k] EXCEPT !.pc = "collect", !.mine = intents, !.next = disk.cat, !.live = References(disk.cat)]
  <2>1. durable' = disk /\ lock' = k /\ store' = store /\ storeFaults' = storeFaults /\ w' = [w EXCEPT ![k] = e]
    BY <1>3 DEF Recover
  <2>2. /\ e \in Edits /\ e.pc = "collect" /\ e.next = disk.cat /\ e.live = References(disk.cat) /\ e.op = w[k].op
        /\ e.id = w[k].id
    <3>1. w[k] \in Edits /\ References(disk.cat) \subseteq AllRefs /\ intents \subseteq Intents /\ disk.cat \in Metadata
      BY <1>0, EditTyped, StoreFields, ReferencesTyped DEF CacheInv, StoreTyped
    <3> QED BY <3>1 DEF Edits
  <2> HIDE DEF e
  <2>3. Becomes(k, e)
    BY <1>0, <2>1, <2>2, BecomesIs DEF CacheInv
  <2>4. StoreTyped'
    <3>1. w' \in [Commands -> Edits]
      BY <2>3 DEF Becomes
    <3> QED BY <1>1, <2>1, <3>1 DEF CacheInv, StoreTyped
  <2>5. Exclusive'
    <3>1. Exclusive /\ \A l \in Worker : ~Editing(w[l])
      BY <1>1, StoreNames DEF CacheInv, Exclusive
    <3>2. (\A l \in Commands : l # k => w'[l] = w[l]) /\ w'[k] = e
      BY <2>3 DEF Becomes
    <3>3. Editing(e) /\ e.pc # "idle" /\ w[k].pc # "idle" /\ Collecting(e)
      BY <1>1, <2>2 DEF Editing, Collecting
    <3>4. \A l \in Worker : Editing(w'[l]) <=> lock' = l
      BY <1>0, <2>1, <3>1, <3>2, <3>3
    <3>5. \A l \in Commands : w'[l].op = w[l].op /\ w'[l].id = w[l].id /\ (w'[l].pc # "idle" <=> w[l].pc # "idle")
      BY <2>2, <3>2, <3>3
    <3>6. \A l \in Worker : Editing(w'[l]) /\ w'[l].op = "recover" => Collecting(w'[l])
      BY <1>0, <3>1, <3>2, <3>3
    <3>7. w'[Boot] = w[Boot]
      BY <1>0, <3>2
    <3> QED BY <1>0, <1>1, <2>1, <3>1, <3>4, <3>5, <3>6, <3>7 DEF Exclusive
  <2>6. CacheCurrent' /\ LoaderSound'
    BY <1>1, <2>1 DEF CacheInv, CacheCurrent, LoaderSound
  <2>7. CommandsSound'
    <3>1. Sound(e, disk.cat, store.cat, loader.snap)
      BY <1>1, <2>2 DEF Sound, Drafting, Collecting
    <3> QED BY <1>0, <1>1, <2>1, <2>3, <3>1, OthersSound
  <2>8. SessionsSound'
    BY <1>0, <1>1, <2>1, <2>3, SessionsRest DEF Changes, Collecting
  <2> QED BY <2>4, <2>5, <2>6, <2>7, <2>8 DEF CacheInv
<1> QED BY <1>2, <1>3

\* What was loaded becomes the cache.
LEMMA Cache_Recovered ==
  ASSUME CacheInv, NEW k \in Worker, Recovered(k)
  PROVE  CacheInv'
<1>1. /\ w[k].pc = "collect" /\ w[k].op = "recover" /\ w' = [w EXCEPT ![k] = NoEdit] /\ lock' = Unlocked
      /\ store' = NewStore(w[k].next, TRUE)
      /\ UNCHANGED <<disk, durable, backup, vault, intents, loader, conn, life, purged, appCrashes, storeFaults>>
  BY DEF Recovered, records, tallies
<1>2. k \in Commands /\ Editing(w[k]) /\ Collecting(w[k]) /\ w[k].pc # "idle"
  BY <1>1, StoreNames DEF Editing, Collecting
<1>3. w[k].next = disk.cat /\ disk.cat \in Metadata
  BY <1>1, <1>2, StoreFields DEF CacheInv, CommandsSound, Sound
<1>4. /\ store' \in Caches /\ store'.cat = disk.cat /\ store'.up = TRUE /\ store'.recovery = FALSE
      /\ store'.restoring = FALSE /\ store'.mutating = {} /\ \A i \in ProfileIds : store'.session[i] = NoRef
  <2>1. store' = NewStore(disk.cat, TRUE)
    BY <1>1, <1>3
  <2>2. store' \in Caches
    BY <1>3, <2>1 DEF NewStore, Caches
  <2>3. /\ store'.cat = disk.cat /\ store'.up = TRUE /\ store'.recovery = FALSE
        /\ store'.restoring = FALSE /\ store'.mutating = {} /\ \A i \in ProfileIds : store'.session[i] = NoRef
    BY <2>1 DEF NewStore
  <2> QED BY <2>2, <2>3
<1>5. /\ store.up /\ store.restoring /\ store.mutating = {} /\ lock = k /\ (\A i \in ProfileIds : conn[i].pc = "none")
  BY <1>1, <1>2 DEF CacheInv, Exclusive, Whole
<1>6. Becomes(k, NoEdit)
  BY <1>1, <1>2, NoEditTyped, BecomesIs DEF CacheInv
<1>7. Freed(k)
  <2>1. store'.up = store.up /\ store'.restoring = (store.restoring /\ w[k].op \notin Whole)
    BY <1>1, <1>4, <1>5, StoreFields DEF CacheInv, Whole
  <2> QED BY <1>1, <1>4, <1>5, <2>1 DEF Freed
<1>8. StoreTyped'
  <2>1. w' \in [Commands -> Edits]
    BY <1>6 DEF Becomes
  <2> QED BY <1>1, <1>4, <2>1 DEF CacheInv, StoreTyped
<1>9. Exclusive'
  BY <1>1, <1>2, <1>6, <1>7, ExclusiveEnd
<1>10. CacheCurrent'
  BY <1>1, <1>4 DEF CacheInv, CacheCurrent
<1>11. CommandsSound'
  <2>1. \A l \in Commands : w'[l].pc \in {"idle", "reserved"}
    BY <1>2, <1>6, OthersWait, NoEditTyped DEF Becomes
  <2> QED BY <2>1, IdleSound DEF CommandsSound
<1>12. LoaderSound'
  <2>1. Reading(loader, store.cat) /\ Remembers(loader.snap, store.cat, disk.cat)
    BY DEF CacheInv, LoaderSound
  <2>2. Reading(loader, disk.cat)
    BY <2>1 DEF Reading, Remembers
  <2>3. Remembers(loader.snap, disk.cat, disk.cat)
    BY DEF Remembers
  <2> QED BY <1>1, <1>4, <2>2, <2>3 DEF LoaderSound
<1>13. SessionsSound'
  BY <1>1, <1>4, <1>5, StoreNames DEF SessionsSound, Current
<1> QED BY <1>8, <1>9, <1>10, <1>11, <1>12, <1>13 DEF CacheInv

\* The process starts.
LEMMA Cache_Start ==
  ASSUME CacheInv, Start
  PROVE  CacheInv'
<1> DEFINE e == [NoEdit EXCEPT !.pc = "collect", !.op = "boot", !.mine = intents,
                              !.next = disk.cat, !.live = References(disk.cat)]
<1>1. /\ ~store.up /\ w[Boot].pc = "idle" /\ w' = [w EXCEPT ![Boot] = e]
      /\ UNCHANGED <<disk, durable, backup, vault, intents, store, lock, loader, conn, life, purged, appCrashes, storeFaults>>
  BY DEF Start, records, tallies
<1>2. /\ e \in Edits /\ e.pc = "collect" /\ e.next = disk.cat /\ e.live = References(disk.cat) /\ e.op = "boot"
  <2>1. References(disk.cat) \subseteq AllRefs /\ intents \subseteq Intents /\ disk.cat \in Metadata
    BY StoreFields, ReferencesTyped DEF CacheInv, StoreTyped
  <2> QED BY <2>1, NoEditTyped DEF Edits
<1> HIDE DEF e
<1>3. Boot \in Commands /\ Boot \notin Worker /\ Becomes(Boot, e) /\ \A l \in Worker : l \in Commands /\ l # Boot
  BY <1>1, <1>2, BecomesIs, StoreNames DEF CacheInv
<1>4. StoreTyped'
  <2>1. w' \in [Commands -> Edits]
    BY <1>3 DEF Becomes
  <2> QED BY <1>1, <2>1 DEF CacheInv, StoreTyped
<1>5. Exclusive'
  <2>1. Exclusive /\ w'[Boot] = e /\ (\A l \in Worker : w'[l] = w[l]) /\ Collecting(e)
    BY <1>2, <1>3 DEF CacheInv, Becomes, Collecting
  <2> QED BY <1>1, <1>2, <2>1 DEF Exclusive
<1>6. CacheCurrent' /\ LoaderSound'
  BY <1>1 DEF CacheInv, CacheCurrent, LoaderSound
<1>7. CommandsSound'
  <2>1. Sound(e, disk.cat, store.cat, loader.snap)
    BY <1>2 DEF Sound, Drafting, Collecting
  <2> QED BY <1>1, <1>3, <2>1, OthersSound
<1>8. SessionsSound'
  BY <1>1, <1>3, SessionsRest DEF Changes, Collecting
<1> QED BY <1>4, <1>5, <1>6, <1>7, <1>8 DEF CacheInv

\* The rest of setup publishes the metadata setup loaded.
LEMMA Cache_Started ==
  ASSUME CacheInv, Started
  PROVE  CacheInv'
<1>1. /\ w[Boot].pc = "collect" /\ store' = NewStore(w[Boot].next, TRUE) /\ w' = [w EXCEPT ![Boot] = NoEdit]
      /\ loader' = [pc |-> "read", snap |-> w[Boot].next, found |-> NoProfiles]
      /\ UNCHANGED <<disk, durable, backup, vault, intents, lock, conn, life, purged, appCrashes, storeFaults>>
  BY DEF Started, records, tallies
<1>2. Boot \in Commands /\ Boot \notin Worker /\ \A l \in Worker : l \in Commands /\ l # Boot
  BY StoreNames
<1>3. Collecting(w[Boot]) /\ w[Boot].op = "boot" /\ ~store.up /\ \A l \in Worker : w[l].pc = "idle"
  BY <1>1 DEF CacheInv, Exclusive, Collecting
<1>4. w[Boot].next = disk.cat /\ disk.cat \in Metadata
  BY <1>2, <1>3, StoreFields DEF CacheInv, CommandsSound, Sound
<1>5. /\ store' \in Caches /\ store'.cat = disk.cat /\ store'.up = TRUE /\ store'.recovery = FALSE
      /\ store'.restoring = FALSE /\ store'.mutating = {} /\ \A i \in ProfileIds : store'.session[i] = NoRef
  <2>1. store' = NewStore(disk.cat, TRUE)
    BY <1>1, <1>4
  <2>2. store' \in Caches
    BY <1>4, <2>1 DEF NewStore, Caches
  <2>3. /\ store'.cat = disk.cat /\ store'.up = TRUE /\ store'.recovery = FALSE
        /\ store'.restoring = FALSE /\ store'.mutating = {} /\ \A i \in ProfileIds : store'.session[i] = NoRef
    BY <2>1 DEF NewStore
  <2> QED BY <2>2, <2>3
<1>6. Becomes(Boot, NoEdit) /\ \A l \in Commands : w'[l].pc = "idle"
  <2>1. Becomes(Boot, NoEdit)
    BY <1>1, <1>2, NoEditTyped, BecomesIs DEF CacheInv
  <2>2. \A l \in Commands : l # Boot => w[l].pc = "idle"
    BY <1>3, StoreNames
  <2> QED BY <2>1, <2>2, NoEditTyped DEF Becomes
<1>7. loader'.snap = disk.cat /\ loader'.found = NoProfiles /\ loader' \in [pc : {"none", "read"}, snap : Metadata, found : Found]
  BY <1>1, <1>4, NoProfilesIs
<1>8. StoreTyped'
  <2>1. w' \in [Commands -> Edits]
    BY <1>6 DEF Becomes
  <2> QED BY <1>1, <1>5, <1>7, <2>1 DEF CacheInv, StoreTyped
<1>9. Exclusive'
  <2>1. \A l \in Worker : lock # l /\ ~Editing(w'[l])
    BY <1>2, <1>3, <1>6 DEF CacheInv, Exclusive, Editing
  <2>2. \A l \in Worker : w'[l].pc = "idle"
    BY <1>2, <1>6
  <2> QED BY <1>1, <1>2, <1>5, <1>6, <2>1, <2>2 DEF Exclusive
<1>10. CacheCurrent'
  BY <1>1, <1>5 DEF CacheInv, CacheCurrent
<1>11. CommandsSound'
  BY <1>6, IdleSound DEF CommandsSound
<1>12. LoaderSound'
  <2>1. Remembers(disk.cat, disk.cat, disk.cat)
    BY DEF Remembers
  <2>2. Reading(loader', disk.cat)
    BY <1>7, NoProfilesIs DEF Reading
  <2> QED BY <1>1, <1>5, <1>7, <2>1, <2>2 DEF LoaderSound
<1>13. SessionsSound'
  <2>1. \A i \in ProfileIds : conn[i].pc = "none"
    BY <1>3 DEF CacheInv, Exclusive
  <2> QED BY <1>1, <1>5, <2>1, StoreNames DEF SessionsSound, Current
<1> QED BY <1>8, <1>9, <1>10, <1>11, <1>12, <1>13 DEF CacheInv

\* Nothing runs.
LEMMA Nothing ==
  ASSUME Stopped, disk' \in [cat : Metadata, legacy : BOOLEAN], durable' \in [cat : Metadata, legacy : BOOLEAN], backup' \subseteq AllRefs,
         vault' \in [AllRefs -> 0..MaxLife], purged' \subseteq AllRefs, intents' \subseteq Intents,
         life' \in [ProfileIds -> 0..MaxLife], appCrashes' \in Nat, storeFaults' \in Nat, ~UnsyncedFault => durable' = disk'
  PROVE  CacheInv'
<1>1. /\ store' = NewStore(NoProfiles, FALSE) /\ lock' = Unlocked /\ loader' = NoLoader
      /\ w' = [k \in Commands |-> NoEdit] /\ conn' = [i \in ProfileIds |-> NoConn]
  BY DEF Stopped
<1>2. /\ store' \in Caches /\ store'.up = FALSE /\ store'.recovery = FALSE
      /\ store'.restoring = FALSE /\ store'.mutating = {} /\ \A i \in ProfileIds : store'.session[i] = NoRef
  <2>1. store' = NewStore(NoProfiles, FALSE) /\ NoProfiles \in Metadata
    BY <1>1, NoProfilesIs
  <2>2. store' \in Caches
    BY <2>1 DEF NewStore, Caches
  <2>3. /\ store'.up = FALSE /\ store'.recovery = FALSE
        /\ store'.restoring = FALSE /\ store'.mutating = {} /\ \A i \in ProfileIds : store'.session[i] = NoRef
    BY <2>1 DEF NewStore
  <2> QED BY <2>2, <2>3
<1>3. (\A k \in Commands : w'[k] = NoEdit) /\ w' \in [Commands -> Edits] /\ NoEdit.pc = "idle"
  BY <1>1, NoEditTyped
<1>4. /\ \A i \in ProfileIds : conn'[i].pc = "none"
      /\ conn' \in [ProfileIds -> [pc : {"none", "read", "ready"}, ref : AllRefs \cup {NoRef, Typed}]]
  BY <1>1 DEF NoConn
<1>5. loader'.snap = NoProfiles /\ loader'.found = NoProfiles /\ loader' \in [pc : {"none", "read"}, snap : Metadata, found : Found]
  BY <1>1, NoProfilesIs DEF NoLoader
<1>6. StoreTyped'
  BY <1>1, <1>2, <1>3, <1>4, <1>5 DEF StoreTyped
<1>7. Exclusive'
  <2>1. \A k \in Worker : w'[k].pc = "idle" /\ ~Editing(w'[k])
    BY <1>3, StoreNames DEF Editing
  <2>2. w'[Boot].pc = "idle" /\ Unlocked \notin Worker
    BY <1>3, StoreNames
  <2> QED BY <1>1, <1>2, <1>4, <2>1, <2>2 DEF Exclusive
<1>8. CacheCurrent'
  BY <1>2 DEF CacheCurrent
<1>9. CommandsSound'
  BY <1>3, IdleSound DEF CommandsSound
<1>10. LoaderSound'
  <2>1. DOMAIN loader'.snap = {} /\ DOMAIN loader'.found = {}
    BY <1>5, NoProfilesIs
  <2> QED BY <2>1 DEF LoaderSound, Reading, Remembers
<1>11. SessionsSound'
  BY <1>2, <1>4, StoreNames DEF SessionsSound, Current
<1> QED BY <1>6, <1>7, <1>8, <1>9, <1>10, <1>11 DEF CacheInv

\* A crash keeps the files only.
LEMMA Cache_AppCrash ==
  ASSUME CacheInv, NEW power \in BOOLEAN, AppCrash(power)
  PROVE  CacheInv'
<1>1. /\ Stopped /\ appCrashes' = appCrashes + 1 /\ disk' = (IF power THEN durable ELSE disk)
      /\ UNCHANGED <<durable, backup, vault, intents, life, purged, storeFaults>>
  BY DEF AppCrash
<1>2. /\ disk' \in [cat : Metadata, legacy : BOOLEAN] /\ durable' \in [cat : Metadata, legacy : BOOLEAN] /\ backup' \subseteq AllRefs
      /\ vault' \in [AllRefs -> 0..MaxLife] /\ purged' \subseteq AllRefs /\ intents' \subseteq Intents
      /\ life' \in [ProfileIds -> 0..MaxLife] /\ appCrashes' \in Nat /\ storeFaults' \in Nat
  BY <1>1 DEF CacheInv, StoreTyped
<1>3. ~UnsyncedFault => durable' = disk'
  BY <1>1 DEF CacheInv, CacheCurrent
<1> QED BY <1>1, <1>2, <1>3, Nothing

\* Two catalogues that differ in flags only.
SameRefs(c, d) == DOMAIN c = DOMAIN d /\ \A i \in DOMAIN c : c[i].rev = d[i].rev /\ c[i].ref = d[i].ref

\* Flags do not decide which password is current.
LEMMA SameCurrent ==
  ASSUME NEW c, NEW d, SameRefs(c, d), NEW i, NEW r, Current(i, r, d)
  PROVE  Current(i, r, c) /\ (i \in DOMAIN d => i \in DOMAIN c)
BY DEF SameRefs, Current

\* No recovery is under way beside a thread that writes flags.
NoneRecovers == \A k \in Commands : Collecting(w[k]) => w[k].op \notin {"recover", "boot"}

\* Outside a recovery no collector relies on references it loaded once.
LEMMA NoRecovery ==
  ASSUME CacheInv, store.up, ~store.restoring
  PROVE  NoneRecovers
<1>1. \A k \in Commands : k = Boot \/ k \in Worker
  BY StoreNames
<1>2. Exclusive
  BY DEF CacheInv
<1>3. w[Boot].pc = "idle"
  BY <1>2 DEF Exclusive
<1>4. \A k \in Worker : w[k].pc # "idle" => w[k].op \notin Whole /\ w[k].op # "boot"
  BY <1>2 DEF Exclusive, Whole
<1> QED BY <1>1, <1>3, <1>4 DEF NoneRecovers, Collecting, Whole

\* Flags change in the cache, in the file, or in both.
LEMMA FlagsMove ==
  ASSUME CacheInv, store.up, NEW c \in Metadata, SameRefs(c, store.cat), w' = w,
         \A i \in DOMAIN c : c[i].flag # "none" => store.cat[i].flag # "none",
         disk'.cat = disk.cat \/ (disk'.cat = c /\ NoneRecovers), store'.cat \in {store.cat, c}, loader' \in {loader, NoLoader}
  PROVE  CommandsSound' /\ LoaderSound'
<1> DEFINE d == store'.cat
<1>1. SameRefs(d, store.cat) /\ \A i \in DOMAIN d : d[i].flag # "none" => store.cat[i].flag # "none"
  BY DEF SameRefs
<1>2. loader'.snap = loader.snap \/ (DOMAIN loader'.snap = {} /\ DOMAIN loader'.found = {})
  BY NoProfilesIs DEF NoLoader
<1> HIDE DEF d
<1>3. Reading(loader, store.cat) /\ Remembers(loader.snap, store.cat, disk.cat)
  BY DEF CacheInv, LoaderSound
<1>4. \A n : Remembers(loader.snap, store.cat, n) => Remembers(loader'.snap, d, n)
  BY <1>1, <1>2 DEF Remembers, At, SameRefs
<1>5. Remembers(loader.snap, store.cat, c)
  BY DEF Remembers, At, SameRefs
<1>6. Remembers(loader'.snap, d, disk'.cat)
  BY <1>3, <1>4, <1>5
<1>7. Reading(loader', d)
  <2>1. CASE loader' = loader
    BY <1>1, <1>3, <2>1 DEF Reading, At, SameRefs
  <2>2. CASE DOMAIN loader'.snap = {} /\ DOMAIN loader'.found = {}
    BY <2>2 DEF Reading
  <2>3. loader' = loader \/ (DOMAIN loader'.snap = {} /\ DOMAIN loader'.found = {})
    BY NoProfilesIs DEF NoLoader
  <2> QED BY <2>1, <2>2, <2>3
<1>8. ASSUME NEW k \in Commands PROVE Sound(w[k], disk'.cat, d, loader'.snap)
  <2>1. Sound(w[k], disk.cat, store.cat, loader.snap)
    BY DEF CacheInv, CommandsSound
  <2>2. Follows(store.cat, w[k].cur) => Follows(d, w[k].cur)
    BY <1>1 DEF Follows, SameRefs
  <2>3. Collecting(w[k]) /\ w[k].op \in {"recover", "boot"} => disk'.cat = disk.cat
    BY DEF NoneRecovers
  <2>4. (\A i \in DOMAIN loader.snap : loader.snap[i].ref # w[k].new) => \A i \in DOMAIN loader'.snap : loader'.snap[i].ref # w[k].new
    BY <1>2
  <2>5. w[k].id \in DOMAIN store.cat /\ store.cat[w[k].id].ref = NoRef => w[k].id \in DOMAIN d /\ d[w[k].id].ref = NoRef
    BY <1>1 DEF SameRefs
  <2>6. Remembers(loader.snap, store.cat, w[k].next) => Remembers(loader'.snap, d, w[k].next)
    BY <1>4
  <2> QED BY <2>1, <2>2, <2>3, <2>4, <2>5, <2>6 DEF Sound
<1>9. \A k \in Commands : Sound(w'[k], disk'.cat, d, loader'.snap)
  BY <1>8
<1> QED BY <1>6, <1>7, <1>9 DEF CommandsSound, LoaderSound, d

\* What the startup thread has found.
LEMMA FoundPut ==
  ASSUME NEW f \in Found, NEW i \in ProfileIds, NEW r \in AllRefs \cup {NoRef, "error"}
  PROVE  /\ Put(f, i, r) \in Found /\ DOMAIN Put(f, i, r) = DOMAIN f \cup {i} /\ Put(f, i, r)[i] = r
         /\ \A j \in DOMAIN f \ {i} : Put(f, i, r)[j] = f[j]
<1>1. PICK Z \in SUBSET ProfileIds : f \in [Z -> AllRefs \cup {NoRef, "error"}]
  BY DEF Found
<1>2. Z \cup {i} \in SUBSET ProfileIds /\ Put(f, i, r) \in [Z \cup {i} -> AllRefs \cup {NoRef, "error"}]
  BY <1>1 DEF Put
<1>3. Put(f, i, r) \in Found
  BY <1>2 DEF Found
<1> QED BY <1>3 DEF Put

\* The reference read_usable_stored_password is asked for.
LEMMA AskedForIs ==
  ASSUME CacheInv, NEW i \in ProfileIds
  PROVE  AskedFor(i) \in AllRefs /\ (i \in DOMAIN store.cat => store.cat[i].ref \in {NoRef, AskedFor(i)})
<1>1. store.cat \in Metadata /\ i \in AllRefs
  BY StoreFields, StoreNames DEF CacheInv
<1>2. CASE i \in DOMAIN store.cat
  BY <1>1, <1>2, Parts DEF AskedFor, RefOf
<1>3. CASE i \notin DOMAIN store.cat
  BY <1>1, <1>3 DEF AskedFor
<1> QED BY <1>2, <1>3

\* The startup thread reads a credential.
LEMMA Cache_LoaderReads ==
  ASSUME CacheInv, NEW i \in ProfileIds, NEW ok \in BOOLEAN, LoaderReads(i, ok)
  PROVE  CacheInv'
<1> DEFINE f == IF ~ok THEN "error" ELSE IF Present(AskedFor(i)) THEN AskedFor(i) ELSE NoRef
<1>1. /\ loader.pc = "read" /\ i \in DOMAIN loader.snap \ DOMAIN loader.found /\ loader.snap[i].flag # "none"
      /\ loader' = [loader EXCEPT !.found = Put(loader.found, i, f)] /\ storeFaults' \in {storeFaults, storeFaults + 1}
      /\ UNCHANGED <<disk, durable, backup, vault, intents, store, w, lock, conn, life, purged, appCrashes>>
  BY DEF LoaderReads, Fault, records
<1>2. AskedFor(i) \in AllRefs /\ (i \in DOMAIN store.cat => store.cat[i].ref \in {NoRef, AskedFor(i)})
  BY AskedForIs
<1>3. f \in AllRefs \cup {NoRef, "error"} /\ (f \in AllRefs => f = AskedFor(i))
  BY <1>2, StoreNames
<1> HIDE DEF f
<1> DEFINE g == Put(loader.found, i, f)
<1>4. loader.found \in Found /\ loader \in [pc : {"none", "read"}, snap : Metadata, found : Found]
  BY DEF CacheInv, StoreTyped
<1>5. /\ g \in Found /\ DOMAIN g = DOMAIN loader.found \cup {i} /\ g[i] = f
      /\ \A j \in DOMAIN loader.found \ {i} : g[j] = loader.found[j]
  <2>1. \A x \in Found, r \in AllRefs \cup {NoRef, "error"} :
          /\ Put(x, i, r) \in Found /\ DOMAIN Put(x, i, r) = DOMAIN x \cup {i} /\ Put(x, i, r)[i] = r
          /\ \A j \in DOMAIN x \ {i} : Put(x, i, r)[j] = x[j]
    BY FoundPut
  <2>2. f \in AllRefs \cup {NoRef, "error"}
    BY <1>3
  <2> QED BY <1>4, <2>1, <2>2
<1> HIDE DEF g
<1>6. loader' \in [pc : {"none", "read"}, snap : Metadata, found : Found] /\ loader'.found = g /\ loader'.snap = loader.snap
  BY <1>1, <1>4, <1>5 DEF g
<1>7. StoreTyped'
  BY <1>1, <1>6 DEF CacheInv, StoreTyped
<1>8. Exclusive'
  <2>1. store.up
    BY <1>1 DEF CacheInv, Exclusive, NoLoader
  <2> QED BY <1>1, <2>1, ExclusiveThreads DEF Reserved
<1>9. CacheCurrent' /\ SessionsSound'
  BY <1>1 DEF CacheInv, CacheCurrent, SessionsSound
<1>10. CommandsSound'
  BY <1>1, <1>6 DEF CacheInv, CommandsSound
<1>11. LoaderSound'
  <2>1. Reading(loader, store.cat) /\ Remembers(loader.snap, store.cat, disk.cat)
    BY DEF CacheInv, LoaderSound
  <2>2. loader.snap[i].ref # NoRef /\ f \in AllRefs \ {loader.snap[i].ref} => ~At(store.cat, i, loader.snap)
    BY <1>2, <1>3 DEF At
  <2>3. Reading(loader', store.cat)
    BY <1>1, <1>5, <1>6, <2>1, <2>2 DEF Reading
  <2> QED BY <1>1, <1>6, <2>1, <2>3 DEF LoaderSound
<1> QED BY <1>7, <1>8, <1>9, <1>10, <1>11 DEF CacheInv

\* The catalogue the startup thread leaves.
Marked(Z) ==
  [i \in DOMAIN store.cat |-> IF i \in Z THEN [store.cat[i] EXCEPT !.flag = LoaderFlag(i)] ELSE store.cat[i]]

\* The flags the startup thread writes.
LEMMA LoaderCat ==
  ASSUME CacheInv, NEW Z \in SUBSET LoaderTakes, NEW c, c = Marked(Z)
  PROVE  /\ c \in Metadata /\ SameRefs(c, store.cat) /\ (\A i \in DOMAIN c : c[i].flag # "none" => store.cat[i].flag # "none")
         /\ \A i \in DOMAIN c : c[i] = store.cat[i] \/ (i \in Z /\ c[i] = [store.cat[i] EXCEPT !.flag = LoaderFlag(i)])
<1>1. store.cat \in Metadata /\ DOMAIN store.cat \subseteq ProfileIds /\ \A i \in DOMAIN store.cat : store.cat[i] \in Entry
  BY StoreFields, MetaIs DEF CacheInv
<1>2. \A i \in Z : i \in DOMAIN store.cat /\ store.cat[i].flag = loader.snap[i].flag /\ i \in DOMAIN loader.found
  BY DEF LoaderTakes, StillCurrent
<1>3. \A i \in Z : store.cat[i].flag # "none"
  BY <1>2 DEF CacheInv, LoaderSound, Reading
<1>4. \A i : LoaderFlag(i) \in {"stored", "none", "unknown"}
  BY DEF LoaderFlag
<1>5. ASSUME NEW i \in DOMAIN store.cat
      PROVE  /\ c[i] \in Entry /\ c[i].rev = store.cat[i].rev /\ c[i].ref = store.cat[i].ref
             /\ c[i].flag # "none" => store.cat[i].flag # "none"
             /\ c[i] = store.cat[i] \/ (i \in Z /\ c[i] = [store.cat[i] EXCEPT !.flag = LoaderFlag(i)])
  <2>1. CASE i \notin Z
    BY <1>1, <1>5, <2>1 DEF Marked
  <2>2. CASE i \in Z
    <3>1. c[i] = [store.cat[i] EXCEPT !.flag = LoaderFlag(i)] /\ store.cat[i] \in Entry
      BY <1>1, <1>5, <2>2 DEF Marked
    <3> QED BY <1>3, <1>4, <2>2, <3>1 DEF Entry
  <2> QED BY <2>1, <2>2
<1>6. DOMAIN c = DOMAIN store.cat /\ c \in [DOMAIN c -> Entry]
  BY <1>5 DEF Marked
<1> QED BY <1>1, <1>5, <1>6, MetaIs DEF SameRefs

\* The startup thread ends.
LEMMA Cache_LoaderEnds ==
  ASSUME CacheInv, NEW ok \in BOOLEAN, LoaderEnds(ok)
  PROVE  CacheInv'
<1> DEFINE Z == IF store.recovery \/ store.restoring THEN {} ELSE LoaderTakes
<1> DEFINE c == [i \in DOMAIN store.cat |->
              IF i \in Z THEN [store.cat[i] EXCEPT !.flag = LoaderFlag(i)] ELSE store.cat[i]]
<1> DEFINE sess == [i \in ProfileIds |-> IF i \in Z /\ loader.found[i] \notin {"error", NoRef}
                                THEN loader.found[i] ELSE store.session[i]]
<1>1. /\ loader.pc = "read" /\ loader' = NoLoader
      /\ store' = [store EXCEPT !.cat = c, !.session = sess, !.recovery = store.recovery \/ ~ok]
      /\ IF c = store.cat THEN ok /\ UNCHANGED <<records, storeFaults>>
         ELSE IF ok THEN Written(c) ELSE NotWritten(c)
      /\ UNCHANGED <<vault, intents, w, lock, conn, life, purged, appCrashes>>
  BY DEF LoaderEnds
<1>2. Z \subseteq LoaderTakes /\ (Z # {} => ~store.recovery /\ ~store.restoring)
  OBVIOUS
<1>3. /\ c \in Metadata /\ SameRefs(c, store.cat) /\ (\A i \in DOMAIN c : c[i].flag # "none" => store.cat[i].flag # "none")
      /\ \A i \in DOMAIN c : c[i] = store.cat[i] \/ i \in Z
  <2>1. c = Marked(Z)
    BY DEF Marked
  <2> HIDE DEF Z, c
  <2> QED BY <1>2, <2>1, LoaderCat
<1>4. c # store.cat => Z # {}
  <2>1. store.cat \in [DOMAIN store.cat -> Entry]
    BY StoreFields, MetaIs DEF CacheInv
  <2>2. Z = {} => \A i \in DOMAIN store.cat : c[i] = store.cat[i]
    OBVIOUS
  <2>3. DOMAIN c = DOMAIN store.cat
    OBVIOUS
  <2>4. c \in [DOMAIN store.cat -> Entry]
    BY <1>3, <2>3, MetaIs
  <2> HIDE DEF c, Z
  <2> QED BY <2>1, <2>2, <2>4
<1>5. \A i \in Z : i \in DOMAIN store.cat /\ i \in DOMAIN loader.found /\ At(store.cat, i, loader.snap)
  BY <1>2 DEF LoaderTakes, StillCurrent, At
<1>6. loader.found \in Found /\ \A i \in DOMAIN loader.found : loader.found[i] \in AllRefs \cup {NoRef, "error"}
  <2>1. loader.found \in Found
    BY StoreFields DEF CacheInv
  <2>2. PICK Y \in SUBSET ProfileIds : loader.found \in [Y -> AllRefs \cup {NoRef, "error"}]
    BY <2>1 DEF Found
  <2> QED BY <2>1, <2>2
<1>7. \A i \in ProfileIds : sess[i] = store.session[i] \/ (i \in Z /\ sess[i] = loader.found[i] /\ sess[i] \in AllRefs)
  BY <1>5, <1>6
<1>8. sess \in [ProfileIds -> AllRefs \cup {NoRef, Typed}]
  <2>1. \A i \in ProfileIds : store.session[i] \in AllRefs \cup {NoRef, Typed}
    BY StoreFields DEF CacheInv
  <2> QED BY <1>7, <2>1
<1>9. store.up
  BY <1>1 DEF CacheInv, Exclusive, NoLoader
<1> HIDE DEF c, Z, sess
<1>10. /\ store' \in Caches /\ store'.cat = c /\ store'.session = sess /\ store'.recovery = (store.recovery \/ ~ok) /\ Reserved
  BY <1>1, <1>3, <1>8, StoreFields DEF CacheInv, Caches, Reserved
<1>11. NoneRecovers \/ c = store.cat
  BY <1>2, <1>4, <1>9, NoRecovery
<1>12. /\ disk' \in [cat : Metadata, legacy : BOOLEAN] /\ durable' \in [cat : Metadata, legacy : BOOLEAN] /\ backup' \subseteq AllRefs
       /\ storeFaults' \in Nat /\ (disk'.cat = disk.cat \/ (disk'.cat = c /\ NoneRecovers))
       /\ CacheCurrent'
  <2>1. CASE c = store.cat
    <3>1. ok /\ UNCHANGED <<disk, durable, backup, storeFaults>> /\ store'.cat = store.cat
      BY <1>1, <1>10, <2>1 DEF records
    <3>2. store'.recovery = store.recovery
      BY <1>10, <3>1, StoreFields DEF CacheInv
    <3> QED BY <1>10, <3>1, <3>2 DEF CacheInv, StoreTyped, CacheCurrent, Reserved
  <2>2. CASE c # store.cat /\ ok
    BY <1>1, <1>3, <1>10, <1>11, <2>2, WrittenIs DEF CacheInv, CacheCurrent
  <2>3. CASE c # store.cat /\ ~ok
    <3>1. /\ disk' \in [cat : Metadata, legacy : BOOLEAN] /\ durable' = durable /\ backup' \subseteq AllRefs
          /\ storeFaults' \in Nat
          /\ disk' = disk \/ (UnsyncedFault /\ disk'.cat = c)
      BY <1>1, <1>3, <2>3, NotWrittenIs DEF CacheInv
    <3>2. store'.recovery
      BY <1>10, <2>3
    <3> QED BY <1>11, <2>3, <3>1, <3>2 DEF CacheInv, CacheCurrent, StoreTyped
  <2> QED BY <2>1, <2>2, <2>3
<1>13. StoreTyped'
  <2>1. loader' \in [pc : {"none", "read"}, snap : Metadata, found : Found]
    BY <1>1, NoProfilesIs DEF NoLoader
  <2> QED BY <1>1, <1>10, <1>12, <2>1 DEF CacheInv, StoreTyped
<1>14. Exclusive'
  BY <1>1, <1>9, <1>10, ExclusiveThreads
<1>15. CommandsSound' /\ LoaderSound'
  BY <1>1, <1>3, <1>9, <1>10, <1>12, FlagsMove
<1>16. SessionsSound'
  <2>1. \A i \in Z : Current(i, loader.found[i], store.cat)
    BY <1>5 DEF CacheInv, LoaderSound, Reading, Current, At
  <2>2. ASSUME NEW i \in ProfileIds, \A k \in Worker : ~Changes(w'[k], i) PROVE Current(i, store'.session[i], store'.cat)
    <3>1. Current(i, store.session[i], store.cat)
      BY <1>1, <2>2 DEF CacheInv, SessionsSound
    <3>2. Current(i, sess[i], store.cat)
      BY <1>7, <2>1, <3>1
    <3> QED BY <1>3, <1>10, <3>2, SameCurrent
  <2>3. ASSUME NEW i \in ProfileIds, conn[i].pc # "none" PROVE i \in DOMAIN c /\ Current(i, conn[i].ref, c)
    <3>1. i \in DOMAIN store.cat /\ Current(i, conn[i].ref, store.cat)
      BY <2>3 DEF CacheInv, SessionsSound
    <3> QED BY <1>3, <3>1, SameCurrent
  <2>4. \A i \in ProfileIds : conn[i].pc = "read" => conn[i].ref \in AllRefs
    BY DEF CacheInv, SessionsSound
  <2> QED BY <1>1, <1>10, <2>2, <2>3, <2>4 DEF SessionsSound
<1> QED BY <1>12, <1>13, <1>14, <1>15, <1>16 DEF CacheInv

\* A connection moves and nothing is written.
LEMMA ConnMoves ==
  ASSUME CacheInv, store.up, NEW i \in ProfileIds, NEW v \in [pc : {"none", "read", "ready"}, ref : AllRefs \cup {NoRef, Typed}],
         conn' = [conn EXCEPT ![i] = v], v.pc # "none" => conn[i].pc # "none" \/ (i \notin store.mutating /\ ~store.restoring),
         v.pc # "none" => i \in DOMAIN store.cat /\ Current(i, v.ref, store.cat), v.pc = "read" => v.ref \in AllRefs,
         store' \in Caches, store'.cat = store.cat, store'.recovery = store.recovery, Reserved,
         \A j \in ProfileIds : store'.session[j] = store.session[j] \/ Current(j, store'.session[j], store.cat),
         UNCHANGED <<records, vault, intents, w, lock, loader, life, purged, tallies>>
  PROVE  CacheInv'
<1>1. /\ conn' \in [ProfileIds -> [pc : {"none", "read", "ready"}, ref : AllRefs \cup {NoRef, Typed}]] /\ conn'[i] = v
      /\ \A j \in ProfileIds : j # i => conn'[j] = conn[j]
  BY DEF CacheInv, StoreTyped
<1>2. StoreTyped'
  BY <1>1 DEF CacheInv, StoreTyped, records, tallies
<1>3. Exclusive'
  BY <1>1, ExclusiveThreads
<1>4. CacheCurrent' /\ CommandsSound' /\ LoaderSound'
  BY DEF CacheInv, CacheCurrent, CommandsSound, LoaderSound, records, Reserved
<1>5. SessionsSound'
  BY <1>1 DEF CacheInv, SessionsSound
<1> QED BY <1>2, <1>3, <1>4, <1>5 DEF CacheInv

\* Only a running process connects.
LEMMA ConnUp ==
  ASSUME CacheInv, NEW i \in ProfileIds, conn[i].pc # "none"
  PROVE  /\ store.up /\ ~store.restoring /\ i \notin store.mutating /\ i \in DOMAIN store.cat /\ Current(i, conn[i].ref, store.cat)
         /\ conn[i] \in [pc : {"none", "read", "ready"}, ref : AllRefs \cup {NoRef, Typed}]
<1>1. store.up /\ ~store.restoring /\ i \notin store.mutating
  BY DEF CacheInv, Exclusive
<1>2. i \in DOMAIN store.cat /\ Current(i, conn[i].ref, store.cat)
  BY DEF CacheInv, SessionsSound
<1>3. conn[i] \in [pc : {"none", "read", "ready"}, ref : AllRefs \cup {NoRef, Typed}]
  BY DEF CacheInv, StoreTyped
<1> QED BY <1>1, <1>2, <1>3

\* No connection.
LEMMA NoConnIs == NoConn \in [pc : {"none", "read", "ready"}, ref : AllRefs \cup {NoRef, Typed}] /\ NoConn.pc = "none"
BY DEF NoConn

\* An attempt ends.
LEMMA Cache_ConnectionEnds ==
  ASSUME CacheInv, NEW i \in ProfileIds, ConnectionEnds(i)
  PROVE  CacheInv'
<1>1. /\ conn[i].pc = "ready" /\ conn' = [conn EXCEPT ![i] = NoConn] /\ store' = store
      /\ UNCHANGED <<records, vault, intents, w, lock, loader, life, purged, tallies>>
  BY DEF ConnectionEnds
<1>2. store.up /\ store \in Caches
  BY <1>1, ConnUp, StoreFields DEF CacheInv
<1>3. Reserved
  BY <1>1 DEF Reserved
<1> QED BY <1>1, <1>2, <1>3, NoConnIs, ConnMoves

\* start_profile_impl takes the password of the session or asks for the stored one.
LEMMA Cache_StartConnection ==
  ASSUME CacheInv, NEW i \in ProfileIds, StartConnection(i)
  PROVE  CacheInv'
<1> DEFINE v == IF store.session[i] # NoRef THEN [pc |-> "ready", ref |-> store.session[i]]
                ELSE IF store.cat[i].flag = "stored" THEN [pc |-> "read", ref |-> AskedFor(i)] ELSE NoConn
<1>1. /\ store.up /\ ~store.restoring /\ i \notin store.mutating /\ i \in DOMAIN store.cat /\ conn' = [conn EXCEPT ![i] = v]
      /\ store' = store /\ UNCHANGED <<records, vault, intents, w, lock, loader, life, purged, tallies>>
  BY DEF StartConnection, Ready, Busy
<1>2. \A k \in Worker : ~Changes(w[k], i)
  BY <1>1 DEF CacheInv, Exclusive, Changes, Collecting, Whole
<1>3. Current(i, store.session[i], store.cat) /\ store.session[i] \in AllRefs \cup {NoRef, Typed} /\ store \in Caches
  BY <1>2, StoreFields DEF CacheInv, SessionsSound
<1>4. AskedFor(i) \in AllRefs /\ Current(i, AskedFor(i), store.cat)
  BY <1>1, AskedForIs DEF Current
<1>5. /\ v \in [pc : {"none", "read", "ready"}, ref : AllRefs \cup {NoRef, Typed}]
      /\ v.pc # "none" => Current(i, v.ref, store.cat)
      /\ v.pc = "read" => v.ref \in AllRefs
  <2>1. CASE store.session[i] # NoRef
    BY <1>3, <2>1
  <2>2. CASE store.session[i] = NoRef /\ store.cat[i].flag = "stored"
    BY <1>4, <2>2
  <2>3. CASE store.session[i] = NoRef /\ store.cat[i].flag # "stored"
    BY <2>3, NoConnIs
  <2> QED BY <2>1, <2>2, <2>3
<1>6. Reserved
  BY <1>1 DEF Reserved
<1> HIDE DEF v
<1> QED BY <1>1, <1>3, <1>5, <1>6, ConnMoves

\* resolve_profile_password keeps the secret it read for the session.
LEMMA Cache_Resolve ==
  ASSUME CacheInv, NEW i \in ProfileIds, Resolve(i)
  PROVE  CacheInv'
<1>1. /\ conn[i].pc = "read" /\ UNCHANGED <<records, vault, intents, w, lock, loader, life, purged, tallies>>
      /\ \/ store' = [store EXCEPT !.session[i] = conn[i].ref] /\ conn' = [conn EXCEPT ![i].pc = "ready"]
         \/ conn' = [conn EXCEPT ![i] = NoConn] /\ store' = store
  BY DEF Resolve
<1>2. /\ store.up /\ ~store.restoring /\ i \notin store.mutating /\ i \in DOMAIN store.cat /\ Current(i, conn[i].ref, store.cat)
      /\ conn[i] \in [pc : {"none", "read", "ready"}, ref : AllRefs \cup {NoRef, Typed}] /\ store \in Caches
      /\ store.session \in [ProfileIds -> AllRefs \cup {NoRef, Typed}]
  BY <1>1, ConnUp, StoreFields DEF CacheInv
<1>3. CASE conn' = [conn EXCEPT ![i] = NoConn] /\ store' = store
  <2>1. Reserved
    BY <1>3 DEF Reserved
  <2> QED BY <1>1, <1>2, <1>3, <2>1, NoConnIs, ConnMoves
<1>4. CASE store' = [store EXCEPT !.session[i] = conn[i].ref] /\ conn' = [conn EXCEPT ![i].pc = "ready"]
  <2> DEFINE v == [conn[i] EXCEPT !.pc = "ready"]
  <2>1. v \in [pc : {"none", "read", "ready"}, ref : AllRefs \cup {NoRef, Typed}] /\ v.pc = "ready" /\ v.ref = conn[i].ref
    BY <1>2
  <2>2. conn' = [conn EXCEPT ![i] = v]
    BY <1>4
  <2> HIDE DEF v
  <2>3. /\ store' \in Caches /\ store'.cat = store.cat /\ store'.recovery = store.recovery /\ Reserved
        /\ store'.session = [store.session EXCEPT ![i] = conn[i].ref]
    <3> DEFINE s == [store.session EXCEPT ![i] = conn[i].ref]
    <3>1. s \in [ProfileIds -> AllRefs \cup {NoRef, Typed}]
      BY <1>2
    <3>2. store' = [store EXCEPT !.session = s]
      BY <1>4
    <3> HIDE DEF s
    <3>3. /\ store' \in Caches /\ store'.cat = store.cat /\ store'.recovery = store.recovery /\ Reserved
          /\ store'.session = s
      BY <1>2, <3>1, <3>2 DEF Caches, Reserved
    <3> QED BY <3>3 DEF s
  <2>4. \A j \in ProfileIds : store'.session[j] = store.session[j] \/ Current(j, store'.session[j], store.cat)
    BY <1>2, <2>3
  <2> QED BY <1>1, <1>2, <2>1, <2>2, <2>3, <2>4, ConnMoves
<1> QED BY <1>1, <1>3, <1>4

\* clear_missing_stored_password, whether its write succeeds or not.
LEMMA Cache_ClearMissing ==
  ASSUME CacheInv, NEW i \in ProfileIds, NEW ok \in BOOLEAN, ClearMissing(i, ok)
  PROVE  CacheInv'
<1>1. /\ conn[i].pc = "read" /\ conn' = [conn EXCEPT ![i] = NoConn]
      /\ UNCHANGED <<vault, intents, w, lock, loader, life, purged, appCrashes>>
  BY DEF ClearMissing
<1>2. store.up /\ ~store.restoring /\ i \in DOMAIN store.cat /\ store \in Caches /\ store.cat \in Metadata
  BY <1>1, ConnUp, StoreFields DEF CacheInv
<1>3. CASE UNCHANGED <<records, store, storeFaults>>
  <2>1. Reserved /\ tallies' = tallies
    BY <1>1, <1>3 DEF Reserved, tallies
  <2> QED BY <1>1, <1>2, <1>3, <2>1, NoConnIs, ConnMoves
<1>4. CASE ~UNCHANGED <<records, store, storeFaults>>
  <2> DEFINE c == [store.cat EXCEPT ![i].flag = "none"]
  <2>1. /\ store.cat[i].flag = "stored" /\ ~store.recovery
        /\ \/ ok /\ Written(c) /\ store' = [store EXCEPT !.cat = c, !.session[i] = NoRef]
           \/ ~ok /\ NotWritten(c) /\ store' = [store EXCEPT !.recovery = TRUE]
    BY <1>4 DEF ClearMissing
  <2>2. /\ c \in Metadata /\ SameRefs(c, store.cat) /\ \A j \in DOMAIN c : c[j].flag # "none" => store.cat[j].flag # "none"
    <3> DEFINE entry == [store.cat[i] EXCEPT !.flag = "none"]
    <3>1. store.cat[i] \in Entry
      BY <1>2, Parts
    <3>2. entry \in Entry /\ entry.rev = store.cat[i].rev /\ entry.ref = store.cat[i].ref /\ entry.flag = "none"
      BY <3>1 DEF Entry
    <3>3. c = [store.cat EXCEPT ![i] = entry]
      OBVIOUS
    <3> HIDE DEF entry
    <3>4. /\ [store.cat EXCEPT ![i] = entry] \in Metadata /\ DOMAIN [store.cat EXCEPT ![i] = entry] = DOMAIN store.cat
          /\ [store.cat EXCEPT ![i] = entry][i] = entry
          /\ \A j \in DOMAIN store.cat \ {i} : [store.cat EXCEPT ![i] = entry][j] = store.cat[j]
      BY <1>2, <3>2, EntrySet
    <3> HIDE DEF c
    <3> QED BY <3>2, <3>3, <3>4 DEF SameRefs
  <2>3. NoneRecovers
    BY <1>2, NoRecovery
  <2> HIDE DEF c
  <2>4. /\ store' \in Caches /\ store'.cat \in {store.cat, c} /\ Reserved
        /\ \A j \in ProfileIds : store'.session[j] \in {store.session[j], NoRef}
        /\ disk' \in [cat : Metadata, legacy : BOOLEAN] /\ durable' \in [cat : Metadata, legacy : BOOLEAN] /\ backup' \subseteq AllRefs
        /\ storeFaults' \in Nat /\ (disk'.cat = disk.cat \/ disk'.cat = c)
        /\ CacheCurrent'
    <3>1. CASE ok /\ Written(c) /\ store' = [store EXCEPT !.cat = c, !.session[i] = NoRef]
      <4> DEFINE s == [store.session EXCEPT ![i] = NoRef]
      <4>1. s \in [ProfileIds -> AllRefs \cup {NoRef, Typed}] /\ \A j \in ProfileIds : s[j] \in {store.session[j], NoRef}
        BY StoreFields DEF CacheInv
      <4>2. store' = [store EXCEPT !.cat = c, !.session = s]
        BY <3>1
      <4> HIDE DEF s
      <4>3. store' \in Caches /\ store'.cat = c /\ Reserved /\ store'.session = s
        BY <1>2, <2>2, <4>1, <4>2 DEF Caches, Reserved
      <4>4. /\ disk' \in [cat : Metadata, legacy : BOOLEAN] /\ durable' = disk' /\ disk'.cat = c /\ backup' \subseteq AllRefs
            /\ storeFaults' \in Nat
        BY <2>2, <3>1, WrittenIs DEF CacheInv
      <4> QED BY <4>1, <4>3, <4>4 DEF CacheCurrent
    <3>2. CASE ~ok /\ NotWritten(c) /\ store' = [store EXCEPT !.recovery = TRUE]
      <4>1. store' \in Caches /\ store'.cat = store.cat /\ Reserved /\ store'.session = store.session /\ store'.recovery = TRUE
        BY <1>2, <3>2 DEF Caches, Reserved
      <4>2. /\ disk' \in [cat : Metadata, legacy : BOOLEAN] /\ durable' = durable /\ backup' \subseteq AllRefs
            /\ storeFaults' \in Nat
            /\ disk' = disk \/ (UnsyncedFault /\ disk'.cat = c)
        BY <2>2, <3>2, NotWrittenIs DEF CacheInv
      <4> QED BY <4>1, <4>2 DEF CacheInv, CacheCurrent, StoreTyped
    <3> QED BY <2>1, <3>1, <3>2
  <2>5. /\ conn' \in [ProfileIds -> [pc : {"none", "read", "ready"}, ref : AllRefs \cup {NoRef, Typed}]] /\ conn'[i].pc = "none"
        /\ \A j \in ProfileIds : j # i => conn'[j] = conn[j]
    BY <1>1, NoConnIs DEF CacheInv, StoreTyped
  <2>6. StoreTyped'
    BY <1>1, <2>4, <2>5 DEF CacheInv, StoreTyped
  <2>7. Exclusive'
    BY <1>1, <1>2, <2>4, <2>5, ExclusiveThreads
  <2>8. CommandsSound' /\ LoaderSound'
    BY <1>1, <1>2, <2>2, <2>3, <2>4, FlagsMove
  <2>9. SessionsSound'
    <3>1. SameRefs(store'.cat, store.cat)
      BY <2>2, <2>4 DEF SameRefs
    <3>2. \A j \in ProfileIds : (\A k \in Worker : ~Changes(w'[k], j)) => Current(j, store.session[j], store.cat)
      BY <1>1 DEF CacheInv, SessionsSound
    <3>3. \A j \in ProfileIds : Current(j, NoRef, store.cat)
      BY StoreNames DEF Current
    <3>4. \A j \in ProfileIds : (\A k \in Worker : ~Changes(w'[k], j)) => Current(j, store'.session[j], store'.cat)
      BY <2>4, <3>1, <3>2, <3>3, SameCurrent
    <3>5. ASSUME NEW j \in ProfileIds, conn'[j].pc # "none" PROVE j \in DOMAIN store'.cat /\ Current(j, conn'[j].ref, store'.cat)
      <4>1. conn'[j] = conn[j]
        BY <2>5, <3>5
      <4>2. j \in DOMAIN store.cat /\ Current(j, conn'[j].ref, store.cat)
        BY <3>5, <4>1 DEF CacheInv, SessionsSound
      <4> QED BY <3>1, <4>2, SameCurrent
    <3>6. \A j \in ProfileIds : conn'[j].pc = "read" => conn'[j].ref \in AllRefs
      BY <2>5 DEF CacheInv, SessionsSound
    <3> QED BY <3>4, <3>5, <3>6 DEF SessionsSound
  <2> QED BY <2>4, <2>6, <2>7, <2>8, <2>9 DEF CacheInv
<1> QED BY <1>3, <1>4

\* The state the program starts in.
LEMMA StoreStarts ==
  ASSUME StoreInit
  PROVE  CacheInv
<1>1. PICK S \in {{}, Legacy} :
    /\ disk = [cat |-> [i \in S |-> [rev |-> 0, ref |-> NoRef, flag |-> "unknown", life |-> 1]],
               legacy |-> S # {}]
    /\ durable = disk /\ backup = {} /\ intents = {} /\ purged = {}
    /\ vault = [r \in AllRefs |-> IF r \in S THEN 1 ELSE 0]
    /\ store = NewStore(NoProfiles, FALSE) /\ w = [k \in Commands |-> NoEdit] /\ lock = Unlocked
    /\ loader = NoLoader /\ conn = [i \in ProfileIds |-> NoConn]
    /\ life = [i \in ProfileIds |-> IF i \in S THEN 1 ELSE 0]
    /\ appCrashes = 0 /\ storeFaults = 0
  BY DEF StoreInit
<1>2. S \subseteq ProfileIds /\ MaxLife \in Nat /\ MaxLife > 0 /\ MaxStoreRevision \in Nat
  BY StoreAssumption
<1>3. disk \in [cat : Metadata, legacy : BOOLEAN]
  <2> DEFINE entry == [rev |-> 0, ref |-> NoRef, flag |-> "unknown", life |-> 1]
  <2>1. 0 \in 0 .. MaxStoreRevision /\ 1 \in 1 .. MaxLife
    BY <1>2
  <2>2. entry \in Entry
    BY <2>1 DEF Entry
  <2> HIDE DEF entry
  <2>3. [i \in S |-> entry] \in Metadata
    BY <1>2, <2>2, MetaIs
  <2>4. disk = [cat |-> [i \in S |-> entry], legacy |-> S # {}]
    BY <1>1 DEF entry
  <2> QED BY <2>3, <2>4
<1>4. vault \in [AllRefs -> 0..MaxLife] /\ life \in [ProfileIds -> 0..MaxLife]
  BY <1>1, <1>2
<1>5. store \in Caches /\ store.up = FALSE /\ store.recovery = FALSE /\ store.restoring = FALSE /\ store.mutating = {}
      /\ \A i \in ProfileIds : store.session[i] = NoRef
  <2>1. store = NewStore(NoProfiles, FALSE) /\ NoProfiles \in Metadata
    BY <1>1, NoProfilesIs
  <2>2. store \in Caches
    BY <2>1 DEF NewStore, Caches
  <2>3. /\ store.up = FALSE /\ store.recovery = FALSE
        /\ store.restoring = FALSE /\ store.mutating = {} /\ \A i \in ProfileIds : store.session[i] = NoRef
    BY <2>1 DEF NewStore
  <2> QED BY <2>2, <2>3
<1>6. (\A k \in Commands : w[k] = NoEdit) /\ w \in [Commands -> Edits] /\ NoEdit.pc = "idle"
  BY <1>1, NoEditTyped
<1>7. /\ \A i \in ProfileIds : conn[i].pc = "none"
      /\ conn \in [ProfileIds -> [pc : {"none", "read", "ready"}, ref : AllRefs \cup {NoRef, Typed}]]
  BY <1>1 DEF NoConn
<1>8. loader.snap = NoProfiles /\ loader.found = NoProfiles /\ loader \in [pc : {"none", "read"}, snap : Metadata, found : Found]
  BY <1>1, NoProfilesIs DEF NoLoader
<1>9. StoreTyped
  BY <1>1, <1>3, <1>4, <1>5, <1>6, <1>7, <1>8 DEF StoreTyped
<1>10. Exclusive
  <2>1. \A k \in Worker : w[k].pc = "idle" /\ ~Editing(w[k])
    BY <1>6, StoreNames DEF Editing
  <2>2. w[Boot].pc = "idle" /\ Unlocked \notin Worker
    BY <1>6, StoreNames
  <2> QED BY <1>1, <1>5, <1>7, <2>1, <2>2 DEF Exclusive
<1>11. CacheCurrent
  BY <1>1, <1>5 DEF CacheCurrent
<1>12. CommandsSound
  BY <1>6, IdleSound DEF CommandsSound
<1>13. LoaderSound
  <2>1. DOMAIN loader.snap = {} /\ DOMAIN loader.found = {}
    BY <1>8, NoProfilesIs
  <2> QED BY <2>1 DEF LoaderSound, Reading, Remembers
<1>14. SessionsSound
  BY <1>5, <1>7, StoreNames DEF SessionsSound, Current
<1> QED BY <1>9, <1>10, <1>11, <1>12, <1>13, <1>14 DEF CacheInv

\* Nothing happens.
LEMMA StoreRests ==
  ASSUME CacheInv, UNCHANGED storeVars
  PROVE  CacheInv'
<1>1. UNCHANGED <<records, memory, intents, life, appCrashes>> /\ vault' = vault /\ purged' = purged /\ storeFaults' = storeFaults
  BY DEF storeVars, tallies
<1>2. vault' \in [AllRefs -> 0..MaxLife] /\ purged' \subseteq AllRefs /\ storeFaults' \in Nat
  BY <1>1 DEF CacheInv, StoreTyped
<1> QED BY <1>1, <1>2, VaultOnly

\* Every step.
LEMMA StoreSteps ==
  ASSUME CacheInv, StoreNext
  PROVE  CacheInv'
<1>1. CASE \E k \in Worker : Edit(k)
  <2>1. PICK k \in Worker : Edit(k)
    BY <1>1
  <2>2. CASE \E i \in ProfileIds, op \in {"save", "delete"} : Reserve(k, op, i)
    BY <2>2, Cache_Reserve
  <2>3. CASE \E op \in {"restore", "recover"} : ReserveAll(k, op)
    BY <2>3, Cache_ReserveAll DEF Whole
  <2>4. CASE Open(k)
    BY <2>4, Cache_Open
  <2>5. CASE \E password, remember \in BOOLEAN : PlanSave(k, password, remember)
    BY <2>5, Cache_PlanSave
  <2>6. CASE PlanDelete(k)
    BY <2>6, Cache_PlanDelete
  <2>7. CASE \E S \in SUBSET ProfileIds : \E T \in SUBSET S : PlanRestore(k, S, T)
    BY <2>7, Cache_PlanRestore
  <2>8. CASE RefuseEdit(k)
    BY <2>8, Cache_RefuseEdit
  <2>9. CASE \E i \in ProfileIds : BeginIntent(k, i)
    BY <2>9, Cache_BeginIntent
  <2>10. CASE WriteSecret(k)
    BY <2>10, Cache_WriteSecret
  <2>11. CASE StageFails(k)
    BY <2>11, Cache_StageFails
  <2>12. CASE \E ok \in BOOLEAN : Commit(k, ok) \/ Recover(k, ok)
    BY <2>12, Cache_Commit, Cache_Recover
  <2>13. CASE Publish(k)
    BY <2>13, Cache_Publish
  <2>14. CASE Recovered(k)
    BY <2>14, Cache_Recovered
  <2> QED BY <2>1, <2>2, <2>3, <2>4, <2>5, <2>6, <2>7, <2>8, <2>9, <2>10, <2>11, <2>12, <2>13, <2>14 DEF Edit
<1>2. CASE \E k \in Commands : Collector(k)
  <2>1. PICK k \in Commands, t \in intents :
          \/ CollectLoads(k, t) \/ CollectEnds(k, t) \/ CollectFails(k, t)
          \/ \E r \in AllRefs : CollectDeletes(k, t, r)
    BY <1>2 DEF Collector
  <2> QED BY <2>1, Cache_CollectLoads, Cache_CollectEnds, Cache_CollectFails, Cache_CollectDeletes
<1>3. CASE Threads
  BY <1>3, Cache_LoaderReads, Cache_ClearMissing, Cache_LoaderEnds, Cache_StartConnection, Cache_Resolve, Cache_ConnectionEnds
     DEF Threads
<1>4. CASE Start \/ Started
  BY <1>4, Cache_Start, Cache_Started
<1>5. CASE AppCrash(FALSE) \/ AppCrash(TRUE)
  BY <1>5, Cache_AppCrash
<1>6. CASE \E r \in AllRefs : Purge(r)
  BY <1>6, Cache_Purge
<1> QED BY <1>1, <1>2, <1>3, <1>4, <1>5, <1>6 DEF StoreNext

\* The invariant of the desktop's repository, for any profiles, references, threads, crashes
\* and failures: one command edits at a time, the cache is the file unless a write failed, and
\* what the startup thread, the sessions and the connections hold is of the references in it
\* (CREDENTIAL_TRANSACTIONS, reserve_profile_mutation, commit_metadata).
THEOREM RepositoryCorrect == StoreSpec => []CacheInv
<1>1. CacheInv /\ [StoreNext]_storeVars => CacheInv'
  BY StoreSteps, StoreRests
<1> QED BY <1>1, StoreStarts, PTL DEF StoreSpec

\* UsesCurrentSecret for any profiles, references, threads, crashes and failures: no
\* connection uses a password read under a reference that a finished save, delete or restore
\* has replaced (release of session passwords in the commands, startup_credential_result_is_current,
\* resolve_profile_password).
THEOREM SecretsCurrent == StoreSpec => []UsesCurrentSecret
<1>1. CacheInv => UsesCurrentSecret
  BY DEF CacheInv, SessionsSound, UsesCurrentSecret, Current
<1> QED BY <1>1, RepositoryCorrect, PTL

\* No profile in both files has gone back.
Later == \A i \in DOMAIN disk.cat \cap DOMAIN disk'.cat : disk'.cat[i].rev >= disk.cat[i].rev

\* The metadata stays as it is.
LEMMA LaterRest ==
  ASSUME CacheInv, disk'.cat = disk.cat
  PROVE  Later
<1>1. \A i \in DOMAIN disk.cat : disk.cat[i].rev \in Nat
  BY StoreFields, Parts DEF CacheInv
<1> QED BY <1>1 DEF Later

\* Only flags change.
LEMMA LaterFlags ==
  ASSUME CacheInv, store.up, ~store.recovery, NEW c, SameRefs(c, store.cat), disk'.cat = c \/ disk'.cat = disk.cat
  PROVE  Later
<1>1. store.cat = disk.cat /\ \A i \in DOMAIN disk.cat : disk.cat[i].rev \in Nat
  BY StoreFields, Parts DEF CacheInv, CacheCurrent
<1> QED BY <1>1 DEF Later, SameRefs

\* A commit writes revisions from the file on.
LEMMA Later_Commit ==
  ASSUME CacheInv, NEW k \in Worker, NEW ok \in BOOLEAN, Commit(k, ok)
  PROVE  Later
<1>1. w[k].pc = "stage"
  BY DEF Commit
<1>2. store.up /\ Follows(store.cat, w[k].cur) /\ Draft(w[k]) /\ w[k].next \in Metadata
  BY <1>1, Staging DEF Drafting
<1>3. CASE store.recovery
  BY <1>3, LaterRest DEF Commit, records
<1>4. CASE ~store.recovery
  <2>1. disk'.cat = w[k].next \/ disk'.cat = disk.cat
    BY <1>2, <1>4, WrittenIs, NotWrittenIs DEF Commit, CacheInv
  <2>2. store.cat = disk.cat
    BY <1>2, <1>4 DEF CacheInv, CacheCurrent
  <2>3. \A i \in DOMAIN disk.cat \cap DOMAIN w[k].next : w[k].next[i].rev >= disk.cat[i].rev
    BY <1>2, <2>2 DEF Follows, Draft
  <2>4. CASE disk'.cat = w[k].next
    BY <2>3, <2>4 DEF Later
  <2>5. CASE disk'.cat = disk.cat
    BY <2>5, LaterRest
  <2> QED BY <2>1, <2>4, <2>5
<1> QED BY <1>3, <1>4

\* The startup thread writes flags.
LEMMA Later_LoaderEnds ==
  ASSUME CacheInv, NEW ok \in BOOLEAN, LoaderEnds(ok)
  PROVE  Later
<1> DEFINE Z == IF store.recovery \/ store.restoring THEN {} ELSE LoaderTakes
<1> DEFINE c == Marked(Z)
<1>1. /\ loader.pc = "read"
      /\ IF c = store.cat THEN ok /\ UNCHANGED <<records, storeFaults>>
         ELSE IF ok THEN Written(c) ELSE NotWritten(c)
  BY DEF LoaderEnds, Marked
<1>2. Z \subseteq LoaderTakes /\ (Z # {} => ~store.recovery)
  OBVIOUS
<1> HIDE DEF Z, c
<1>3. c \in Metadata /\ SameRefs(c, store.cat) /\ \A i \in DOMAIN c : c[i] = store.cat[i] \/ i \in Z
  BY <1>2, LoaderCat DEF c
<1>4. store.up
  BY <1>1 DEF CacheInv, Exclusive, NoLoader
<1>5. CASE Z = {}
  <2>1. store.cat \in [DOMAIN store.cat -> Entry] /\ c \in [DOMAIN c -> Entry] /\ DOMAIN c = DOMAIN store.cat
    BY <1>3, StoreFields, MetaIs DEF CacheInv, SameRefs
  <2>2. c = store.cat
    BY <1>3, <1>5, <2>1
  <2> QED BY <1>1, <2>2, LaterRest DEF records
<1>6. CASE Z # {}
  <2>1. disk'.cat = c \/ disk'.cat = disk.cat
    BY <1>1, <1>3, WrittenIs, NotWrittenIs DEF CacheInv, records
  <2> QED BY <1>2, <1>3, <1>4, <1>6, <2>1, LaterFlags
<1> QED BY <1>5, <1>6

\* One flag less.
LEMMA Cleared ==
  ASSUME NEW d \in Metadata, NEW i \in DOMAIN d, NEW c, c = [d EXCEPT ![i].flag = "none"]
  PROVE  /\ c \in Metadata /\ SameRefs(c, d) /\ c[i].flag = "none" /\ \A j \in DOMAIN d : j # i => c[j] = d[j]
<1> DEFINE entry == [d[i] EXCEPT !.flag = "none"]
<1>1. d[i] \in Entry
  BY Parts
<1>2. entry \in Entry /\ entry.rev = d[i].rev /\ entry.ref = d[i].ref /\ entry.flag = "none"
  BY <1>1 DEF Entry
<1>3. c = [d EXCEPT ![i] = entry]
  OBVIOUS
<1> HIDE DEF entry
<1>4. /\ [d EXCEPT ![i] = entry] \in Metadata /\ DOMAIN [d EXCEPT ![i] = entry] = DOMAIN d /\ [d EXCEPT ![i] = entry][i] = entry
      /\ \A j \in DOMAIN d \ {i} : [d EXCEPT ![i] = entry][j] = d[j]
  BY <1>2, EntrySet
<1> QED BY <1>2, <1>3, <1>4 DEF SameRefs

\* clear_missing_stored_password writes a flag.
LEMMA Later_ClearMissing ==
  ASSUME CacheInv, NEW i \in ProfileIds, NEW ok \in BOOLEAN, ClearMissing(i, ok)
  PROVE  Later
<1>1. conn[i].pc = "read"
  BY DEF ClearMissing
<1>2. store.up /\ i \in DOMAIN store.cat /\ store.cat \in Metadata
  BY <1>1, ConnUp, StoreFields DEF CacheInv
<1>3. CASE store.cat[i].flag # "stored" \/ store.recovery
  BY <1>3, LaterRest DEF ClearMissing, records
<1>4. CASE store.cat[i].flag = "stored" /\ ~store.recovery
  <2> DEFINE c == [store.cat EXCEPT ![i].flag = "none"]
  <2>1. Written(c) \/ NotWritten(c)
    BY <1>2, <1>4 DEF ClearMissing
  <2>2. c = [store.cat EXCEPT ![i].flag = "none"]
    OBVIOUS
  <2> HIDE DEF c
  <2>3. c \in Metadata /\ SameRefs(c, store.cat)
    BY <1>2, <2>2, Cleared
  <2>4. disk'.cat = c \/ disk'.cat = disk.cat
    BY <2>1, <2>3, WrittenIs, NotWrittenIs DEF CacheInv
  <2> QED BY <1>2, <1>4, <2>3, <2>4, LaterFlags
<1> QED BY <1>3, <1>4

\* Every step keeps the revisions, but a loss of power.
LEMMA RevisionSteps ==
  ASSUME CacheInv, StoreNext
  PROVE  (appCrashes' > appCrashes /\ disk' = durable) \/ Later
<1>1. CASE \E k \in Worker : Edit(k)
  <2>1. PICK k \in Worker : Edit(k)
    BY <1>1
  <2>2. CASE \E ok \in BOOLEAN : Commit(k, ok)
    BY <2>2, Later_Commit
  <2>3. CASE \/ \E i \in ProfileIds, op \in {"save", "delete"} : Reserve(k, op, i)
             \/ \E op \in {"restore", "recover"} : ReserveAll(k, op)
             \/ Open(k) \/ PlanDelete(k) \/ RefuseEdit(k)
             \/ \E i \in ProfileIds : BeginIntent(k, i)
             \/ WriteSecret(k) \/ StageFails(k)
             \/ \E ok \in BOOLEAN : Recover(k, ok)
             \/ Publish(k) \/ Recovered(k)
    <3>1. disk' = disk
      BY <2>3 DEF Reserve, ReserveAll, Open, PlanDelete, Stage, RefuseEdit, BeginIntent, WriteSecret, StageFails, Recover,
                  Publish, Recovered, records
    <3> QED BY <3>1, LaterRest
  <2>4. CASE \E password, remember \in BOOLEAN : PlanSave(k, password, remember)
    <3>1. disk' = disk
      BY <2>4 DEF PlanSave, Stage, records
    <3> QED BY <3>1, LaterRest
  <2>5. CASE \E S \in SUBSET ProfileIds : \E T \in SUBSET S : PlanRestore(k, S, T)
    <3>1. disk' = disk
      BY <2>5 DEF PlanRestore, Stage, records
    <3> QED BY <3>1, LaterRest
  <2> QED BY <2>1, <2>2, <2>3, <2>4, <2>5 DEF Edit
<1>2. CASE \E k \in Commands : Collector(k)
  <2>1. disk' = disk
    BY <1>2 DEF Collector, CollectLoads, CollectEnds, CollectFails, CollectDeletes, records
  <2> QED BY <2>1, LaterRest
<1>3. CASE Threads
  <2>1. CASE \E i \in ProfileIds, ok \in BOOLEAN : ClearMissing(i, ok)
    BY <2>1, Later_ClearMissing
  <2>2. CASE \E ok \in BOOLEAN : LoaderEnds(ok)
    BY <2>2, Later_LoaderEnds
  <2>3. CASE \/ \E i \in ProfileIds, ok \in BOOLEAN : LoaderReads(i, ok)
             \/ \E i \in ProfileIds : StartConnection(i) \/ Resolve(i) \/ ConnectionEnds(i)
    <3>1. disk' = disk
      BY <2>3 DEF LoaderReads, StartConnection, Resolve, ConnectionEnds, records
    <3> QED BY <3>1, LaterRest
  <2> QED BY <1>3, <2>1, <2>2, <2>3 DEF Threads
<1>4. CASE Start \/ Started \/ \E r \in AllRefs : Purge(r)
  <2>1. disk' = disk
    BY <1>4 DEF Start, Started, Purge, records
  <2> QED BY <2>1, LaterRest
<1>5. CASE AppCrash(FALSE)
  <2>1. disk' = disk
    BY <1>5 DEF AppCrash
  <2> QED BY <2>1, LaterRest
<1>6. CASE AppCrash(TRUE)
  <2>1. appCrashes' = appCrashes + 1 /\ disk' = durable /\ appCrashes \in Nat
    BY <1>6 DEF AppCrash, CacheInv, StoreTyped
  <2> QED BY <2>1
<1> QED BY <1>1, <1>2, <1>3, <1>4, <1>5, <1>6 DEF StoreNext

\* NoRevisionLost for any profiles, threads, crashes and failures: no command, and none of
\* the threads that write flags back, puts an older revision over a newer one (commit_metadata,
\* credential_recovery_required).
THEOREM RevisionsKept == StoreSpec => NoRevisionLost
<1>1. CacheInv /\ [StoreNext]_storeVars =>
        [\/ appCrashes' > appCrashes /\ disk' = durable
         \/ \A i \in DOMAIN disk.cat \cap DOMAIN disk'.cat : disk'.cat[i].rev >= disk.cat[i].rev]_storeVars
  BY RevisionSteps DEF Later
<1> QED BY <1>1, RepositoryCorrect, PTL DEF StoreSpec, NoRevisionLost

\* A command is now e.
Turns(k, e) == w'[k] = e /\ \A l \in Commands : l # k => w'[l] = w[l]

\* A command set to a state turns into it.
LEMMA TurnsIs ==
  ASSUME CacheInv, NEW k \in Commands, NEW e, w' = [w EXCEPT ![k] = e]
  PROVE  Turns(k, e)
BY DEF CacheInv, StoreTyped, Turns

\* A file is backed when its references are.
LEMMA BackedRefs ==
  ASSUME NEW c, NEW S
  PROVE  Backed(c, DOMAIN c, S) <=> References(c) \subseteq S
BY DEF Backed, References

\* A command that only waits or moves between intents.
LEMMA IdleBacked ==
  ASSUME NEW e, e.pc \in {"idle", "reserved", "collect"}, NEW file, NEW safe
  PROVE  EditBacked(e, file, safe)
BY DEF EditBacked, Drafting

\* More secrets, fewer references.
LEMMA MoreBacked ==
  ASSUME NEW e, NEW file, NEW other, NEW safe, NEW more, EditBacked(e, file, safe), safe \subseteq more,
         References(other) \subseteq References(file)
  PROVE  EditBacked(e, other, more)
BY DEF EditBacked, Backed

\* One command moves; no credential goes.
LEMMA BackedMove ==
  ASSUME SecretsBacked, NEW k \in Commands, NEW e, Turns(k, e), disk'.cat = disk.cat, Safe \subseteq Safe', EditBacked(e, disk.cat, Safe')
  PROVE  SecretsBacked'
<1>1. Backed(disk.cat, DOMAIN disk.cat, Safe')
  BY BackedRefs DEF SecretsBacked
<1>2. \A l \in Commands : EditBacked(w'[l], disk.cat, Safe')
  BY MoreBacked DEF SecretsBacked, Turns
<1> QED BY <1>1, <1>2 DEF SecretsBacked

\* The file loses references, or nothing happens to it.
LEMMA BackedFile ==
  ASSUME SecretsBacked, w' = w, References(disk'.cat) \subseteq References(disk.cat), Safe \subseteq Safe'
  PROVE  SecretsBacked'
<1>1. Backed(disk'.cat, DOMAIN disk'.cat, Safe')
  BY BackedRefs DEF SecretsBacked
<1>2. \A l \in Commands : EditBacked(w'[l], disk'.cat, Safe')
  BY MoreBacked DEF SecretsBacked
<1> QED BY <1>1, <1>2 DEF SecretsBacked

\* The file is new and nobody edits.
LEMMA BackedNew ==
  ASSUME References(disk'.cat) \subseteq Safe', \A l \in Commands : w'[l].pc \in {"idle", "reserved", "collect"}
  PROVE  SecretsBacked'
<1>1. Backed(disk'.cat, DOMAIN disk'.cat, Safe')
  BY BackedRefs
<1> QED BY <1>1, IdleBacked DEF SecretsBacked

\* The credential store stays as it is.
LEMMA SafeRests ==
  ASSUME UNCHANGED <<vault, purged>>
  PROVE  Safe' = Safe /\ Held' = Held
BY DEF Safe, Held, Present

\* A secret is written.
LEMMA SafeGrows ==
  ASSUME CacheInv, NEW k \in Worker, w[k].pc = "secret", vault' = [vault EXCEPT ![w[k].new] = Owner(k)], purged' = purged
  PROVE  Safe \subseteq Safe' /\ w[k].new \in Safe' /\ Safe' \subseteq Safe \cup {w[k].new} /\ Held' = Held \cup {w[k].new}
<1>1. w[k].new \in AllRefs /\ Owner(k) # 0 /\ vault \in [AllRefs -> 0..MaxLife]
  BY OwnerIs, StoreNames DEF CacheInv, StoreTyped
<1>2. Held' = Held \cup {w[k].new}
  BY <1>1 DEF Held, Present
<1> QED BY <1>2 DEF Safe

\* A command waits, goes on to the next intent, or is over.
LEMMA BackedRest ==
  ASSUME CacheInv, SecretsBacked, NEW k \in Commands, NEW e, e.pc \in {"idle", "reserved", "collect"}, Turns(k, e), disk'.cat = disk.cat,
         Safe \subseteq Safe'
  PROVE  SecretsBacked'
BY BackedMove, IdleBacked

\* A command is given up.
LEMMA BackedAbort ==
  ASSUME CacheInv, SecretsBacked, NEW k \in Commands, Abort(k), disk'.cat = disk.cat, Safe \subseteq Safe'
  PROVE  SecretsBacked'
<1>1. Turns(k, NoEdit) /\ NoEdit.pc = "idle"
  BY TurnsIs, NoEditTyped DEF Abort
<1> QED BY <1>1, BackedRest

\* Reservations, refusals and ends.
LEMMA Backed_Quiet ==
  ASSUME CacheInv, SecretsBacked, NEW k \in Worker,
         \/ \E i \in ProfileIds, op \in {"save", "delete"} : Reserve(k, op, i)
         \/ \E op \in {"restore", "recover"} : ReserveAll(k, op)
         \/ RefuseEdit(k) \/ Publish(k) \/ Recovered(k) \/ \E ok \in BOOLEAN : Recover(k, ok)
  PROVE  SecretsBacked'
<1>1. k \in Commands /\ w[k] \in Edits /\ NoEdit \in Edits /\ NoEdit.pc = "idle"
  BY StoreNames, EditTyped, NoEditTyped DEF CacheInv
<1>2. disk' = disk /\ vault' = vault /\ purged' = purged
  BY DEF Reserve, ReserveAll, RefuseEdit, Publish, Recovered, Recover, records
<1>3. disk'.cat = disk.cat /\ Safe \subseteq Safe'
  BY <1>2, SafeRests
<1>4. CASE \E i \in ProfileIds, op \in {"save", "delete"} : Reserve(k, op, i)
  <2>1. PICK i \in ProfileIds, op \in {"save", "delete"} : w' = [w EXCEPT ![k] = [NoEdit EXCEPT !.pc = "reserved", !.op = op, !.id = i]]
    BY <1>4 DEF Reserve
  <2> DEFINE e == [NoEdit EXCEPT !.pc = "reserved", !.op = op, !.id = i]
  <2>2. e.pc = "reserved" /\ w' = [w EXCEPT ![k] = e]
    BY <1>1, <2>1 DEF NoEdit
  <2> HIDE DEF e
  <2>3. Turns(k, e)
    BY <1>1, <2>2, TurnsIs
  <2> QED BY <1>1, <1>3, <2>2, <2>3, BackedRest
<1>5. CASE \E op \in {"restore", "recover"} : ReserveAll(k, op)
  <2>1. PICK op \in {"restore", "recover"} : w' = [w EXCEPT ![k] = [NoEdit EXCEPT !.pc = "reserved", !.op = op]]
    BY <1>5 DEF ReserveAll
  <2> DEFINE e == [NoEdit EXCEPT !.pc = "reserved", !.op = op]
  <2>2. e.pc = "reserved" /\ w' = [w EXCEPT ![k] = e]
    BY <1>1, <2>1 DEF NoEdit
  <2> HIDE DEF e
  <2>3. Turns(k, e)
    BY <1>1, <2>2, TurnsIs
  <2> QED BY <1>1, <1>3, <2>2, <2>3, BackedRest
<1>6. CASE RefuseEdit(k)
  BY <1>1, <1>3, <1>6, BackedAbort DEF RefuseEdit
<1>7. CASE Publish(k) \/ Recovered(k)
  <2>1. w' = [w EXCEPT ![k] = NoEdit]
    BY <1>7 DEF Publish, Recovered
  <2>2. Turns(k, NoEdit)
    BY <1>1, <2>1, TurnsIs
  <2> QED BY <1>1, <1>3, <2>2, BackedRest
<1>8. CASE \E ok \in BOOLEAN : Recover(k, ok)
  <2> DEFINE e == [w[k] EXCEPT !.pc = "collect", !.mine = intents, !.next = disk.cat, !.live = References(disk.cat)]
  <2>1. Abort(k) \/ w' = [w EXCEPT ![k] = e]
    BY <1>8 DEF Recover
  <2>2. e.pc = "collect"
    BY <1>1 DEF Edits
  <2> HIDE DEF e
  <2>3. CASE w' = [w EXCEPT ![k] = e]
    <3>1. Turns(k, e)
      BY <1>1, <2>3, TurnsIs
    <3> QED BY <1>1, <1>3, <2>2, <3>1, BackedRest
  <2> QED BY <1>1, <1>3, <2>1, <2>3, BackedAbort
<1> QED BY <1>4, <1>5, <1>6, <1>7, <1>8

\* What staging does to the references of the copy c.
Planned(k, e) ==
  /\ Turns(k, e) /\ e.pc = "stage" /\ e.mine = w[k].mine /\ e.cur \in Metadata /\ e.next \in Metadata
  /\ DOMAIN e.cur = DOMAIN w[k].cur
  /\ \A j \in DOMAIN e.cur : /\ e.cur[j].ref = w[k].cur[j].ref
                             /\ e.cur[j].flag = w[k].cur[j].flag \/ Present(RefOf(j, e.cur[j]))
  /\ \A j \in DOMAIN e.next \ DOMAIN e.todo :
       e.next[j].flag # "none" => j \in DOMAIN e.cur /\ e.cur[j].flag # "none" /\ e.next[j].ref = e.cur[j].ref
  /\ \A j \in DOMAIN e.cur \ DOMAIN e.todo :
       j \in DOMAIN e.next /\ e.next[j].ref = e.cur[j].ref /\ e.next[j].flag = e.cur[j].flag

\* What Stage writes down.
LEMMA StageIs ==
  ASSUME CacheInv, NEW k \in Worker, w[k].pc = "plan", NEW c, NEW n, NEW todo, NEW mode, Stage(k, c, n, todo, mode)
  PROVE  \E e : /\ Turns(k, e) /\ e.pc = "stage" /\ e.mine = w[k].mine /\ e.cur = c /\ e.next = n /\ e.todo = todo
<1> DEFINE e == [w[k] EXCEPT !.pc = "stage", !.cur = c, !.next = n, !.todo = todo, !.typed = mode]
<1>1. w' = [w EXCEPT ![k] = e]
  BY DEF Stage
<1>2. k \in Commands /\ w[k] \in Edits
  BY Planning
<1>3. e.pc = "stage" /\ e.mine = w[k].mine /\ e.cur = c /\ e.next = n /\ e.todo = todo
  BY <1>2 DEF Edits
<1> HIDE DEF e
<1>4. Turns(k, e)
  BY <1>1, <1>2, TurnsIs
<1> QED BY <1>3, <1>4

\* profile_service::save.
LEMMA SavePlanned ==
  ASSUME CacheInv, NEW k \in Worker, NEW password \in BOOLEAN, NEW remember \in BOOLEAN, PlanSave(k, password, remember)
  PROVE  \E e : Planned(k, e)
<1> DEFINE i == w[k].id
<1> DEFINE d == w[k].cur
<1> DEFINE c == IF remember /\ ~password THEN Refreshed(d, i) ELSE d
<1> DEFINE entry == Saved(c, i)
<1> DEFINE q == IF remember THEN entry ELSE [entry EXCEPT !.ref = NoRef]
<1> DEFINE n == Put(c, i, q)
<1> DEFINE a == IF remember THEN "replace" ELSE "remove"
<1> DEFINE todo == IF remember /\ ~password THEN NoProfiles ELSE [j \in {i} |-> a]
<1> DEFINE mode == IF remember THEN "forget" ELSE IF password THEN "typed" ELSE "keep"
<1>1. /\ w[k].pc = "plan" /\ w[k].op = "save" /\ RevisionOf(d, i) < MaxStoreRevision
      /\ i \in DOMAIN d \/ life[i] < MaxLife
      /\ remember /\ ~password => i \in DOMAIN d /\ c[i].flag = "stored"
      /\ Stage(k, c, n, todo, mode)
  <2>1. CASE remember
    BY <2>1 DEF PlanSave
  <2>2. CASE ~remember
    BY <2>2 DEF PlanSave
  <2> QED BY <2>1, <2>2
<1>2. i \in ProfileIds /\ d \in Metadata
  BY <1>1, Planning
<1>3. /\ c \in Metadata /\ DOMAIN c = DOMAIN d /\ RevisionOf(c, i) < MaxStoreRevision /\ (i \in DOMAIN c \/ life[i] < MaxLife)
      /\ \A j \in DOMAIN c : c[j].ref = d[j].ref /\ (c[j].flag = d[j].flag \/ Present(RefOf(j, c[j])))
  <2>1. CASE ~(remember /\ ~password)
    BY <1>1, <1>2, <2>1
  <2>2. CASE remember /\ ~password
    <3>1. i \in DOMAIN d /\ c = Refreshed(d, i) /\ c[i].flag = "stored"
      BY <1>1, <2>2
    <3> HIDE DEF c, d
    <3>2. /\ c \in Metadata /\ DOMAIN c = DOMAIN d
          /\ \A j \in DOMAIN d : c[j].rev = d[j].rev /\ c[j].ref = d[j].ref /\ (j # i => c[j] = d[j])
          /\ c[i].flag = IF Present(RefOf(i, d[i])) THEN "stored" ELSE "none"
      BY <1>2, <3>1, RefreshedIs
    <3>3. Present(RefOf(i, c[i]))
      BY <3>1, <3>2 DEF RefOf
    <3> QED BY <1>1, <3>1, <3>2, <3>3 DEF RevisionOf
  <2> QED BY <2>1, <2>2
<1> HIDE DEF c, d
<1>4. /\ entry \in Entry
      /\ i \in DOMAIN c => entry.ref = c[i].ref /\ entry.flag = c[i].flag
  BY <1>2, <1>3, SavedIs
<1> HIDE DEF entry
<1>5. q \in Entry /\ (remember => q = entry)
  <2>1. CASE remember
    BY <1>4, <2>1
  <2>2. CASE ~remember
    BY <1>4, <2>2 DEF Entry
  <2> QED BY <2>1, <2>2
<1> HIDE DEF q
<1>6. n \in Metadata /\ DOMAIN n = DOMAIN c \cup {i} /\ n[i] = q /\ \A j \in DOMAIN c \ {i} : n[j] = c[j]
  <2>1. c \in Metadata /\ i \in ProfileIds /\ q \in Entry
    BY <1>2, <1>3, <1>5
  <2> HIDE DEF i
  <2> QED BY <2>1, PutIs
<1> HIDE DEF n
<1>7. IF remember /\ ~password THEN DOMAIN todo = {} ELSE DOMAIN todo = {i}
  BY NoProfilesIs
<1> HIDE DEF todo, mode
<1>8. PICK e : Turns(k, e) /\ e.pc = "stage" /\ e.mine = w[k].mine /\ e.cur = c /\ e.next = n /\ e.todo = todo
  BY <1>1, StageIs
<1>9. \A j \in DOMAIN n \ DOMAIN todo : j \in DOMAIN c /\ n[j].ref = c[j].ref /\ n[j].flag = c[j].flag
  <2>1. CASE remember /\ ~password
    <3>1. n[i].ref = c[i].ref /\ n[i].flag = c[i].flag /\ i \in DOMAIN c
      BY <1>1, <1>3, <1>4, <1>5, <1>6, <2>1
    <3> QED BY <1>6, <3>1
  <2>2. CASE ~(remember /\ ~password)
    BY <1>6, <1>7, <2>2
  <2> QED BY <2>1, <2>2
<1>10. Planned(k, e)
  BY <1>3, <1>6, <1>8, <1>9 DEF Planned, d
<1> QED BY <1>10

\* profile_service::delete.
LEMMA DeletePlanned ==
  ASSUME CacheInv, NEW k \in Worker, PlanDelete(k)
  PROVE  \E e : Planned(k, e)
<1> DEFINE i == w[k].id
<1> DEFINE c == w[k].cur
<1> DEFINE todo == [j \in {i} |-> "remove"]
<1>1. w[k].pc = "plan" /\ Stage(k, c, Drop(c, i), todo, "forget")
  BY DEF PlanDelete
<1>2. c \in Metadata
  BY <1>1, Planning
<1>3. /\ Drop(c, i) \in Metadata /\ DOMAIN Drop(c, i) = DOMAIN c \ {i}
      /\ \A j \in DOMAIN c \ {i} : Drop(c, i)[j] = c[j]
  BY <1>2, DropIs
<1>4. DOMAIN todo = {i}
  OBVIOUS
<1> HIDE DEF todo
<1>5. PICK e : Turns(k, e) /\ e.pc = "stage" /\ e.mine = w[k].mine /\ e.cur = c /\ e.next = Drop(c, i) /\ e.todo = todo
  BY <1>1, StageIs
<1>6. Planned(k, e)
  BY <1>2, <1>3, <1>4, <1>5 DEF Planned
<1> QED BY <1>6

\* profile_service::restore.
LEMMA RestorePlanned ==
  ASSUME CacheInv, CacheInv', NEW k \in Worker, NEW S \in SUBSET ProfileIds, NEW T \in SUBSET S, PlanRestore(k, S, T)
  PROVE  \E e : Planned(k, e)
<1> DEFINE c == w[k].cur
<1> DEFINE n == RestoredFrom(c, S)
<1> DEFINE todo == [i \in DOMAIN c \cup S |-> IF i \in T THEN "replace" ELSE "remove"]
<1>1. w[k].pc = "plan" /\ Stage(k, c, n, todo, "forget")
  BY DEF PlanRestore
<1>2. c \in Metadata /\ k \in Commands
  BY <1>1, Planning
<1>3. DOMAIN n = S /\ \A i \in S : n[i].flag = "none"
  BY DEF RestoredFrom
<1>4. DOMAIN todo = DOMAIN c \cup S
  OBVIOUS
<1> HIDE DEF todo, n
<1>5. PICK e : Turns(k, e) /\ e.pc = "stage" /\ e.mine = w[k].mine /\ e.cur = c /\ e.next = n /\ e.todo = todo
  BY <1>1, StageIs
<1>6. n \in Metadata
  <2>1. w'[k].next \in Metadata
    BY <1>2 DEF CacheInv, StoreTyped, Edits
  <2> QED BY <1>5, <2>1 DEF Turns
<1>7. Planned(k, e)
  BY <1>2, <1>3, <1>4, <1>5, <1>6 DEF Planned
<1> QED BY <1>7

\* A plan, whatever the command.
Plans(k) ==
  \/ \E password, remember \in BOOLEAN : PlanSave(k, password, remember)
  \/ PlanDelete(k)
  \/ \E S \in SUBSET ProfileIds : \E T \in SUBSET S : PlanRestore(k, S, T)

\* What the three have in common.
LEMMA PlansIs ==
  ASSUME CacheInv, CacheInv', NEW k \in Worker, Plans(k)
  PROVE  /\ \E e : Planned(k, e)
         /\ w[k].pc = "plan" /\ UNCHANGED <<records, vault, intents, store, lock, loader, conn, purged, tallies>>
<1>1. \E e : Planned(k, e)
  BY SavePlanned, DeletePlanned, RestorePlanned DEF Plans
<1>2. CASE \E password, remember \in BOOLEAN : PlanSave(k, password, remember)
  BY <1>1, <1>2 DEF PlanSave, Stage
<1>3. CASE PlanDelete(k)
  BY <1>1, <1>3 DEF PlanDelete, Stage
<1>4. CASE \E S \in SUBSET ProfileIds : \E T \in SUBSET S : PlanRestore(k, S, T)
  BY <1>1, <1>4 DEF PlanRestore, Stage
<1> QED BY <1>2, <1>3, <1>4 DEF Plans

\* A command copies the cache, which is the file.
LEMMA Backed_Open ==
  ASSUME CacheInv, SecretsBacked, NEW k \in Worker, Open(k)
  PROVE  SecretsBacked'
<1>1. /\ k \in Commands /\ w[k] \in Edits /\ disk'.cat = disk.cat /\ UNCHANGED <<vault, purged>>
  BY StoreNames, EditTyped DEF Open, records, CacheInv
<1>2. Safe' = Safe
  BY <1>1, SafeRests
<1>3. CASE ~Ready
  BY <1>1, <1>2, <1>3, BackedAbort DEF Open
<1>4. CASE Ready
  <2> DEFINE e == [w[k] EXCEPT !.pc = "plan", !.cur = store.cat]
  <2>1. w' = [w EXCEPT ![k] = e]
    BY <1>4 DEF Open
  <2>2. e.pc = "plan" /\ e.cur = store.cat
    BY <1>1 DEF Edits
  <2> HIDE DEF e
  <2>3. store.cat = disk.cat
    BY <1>4 DEF Ready, CacheInv, CacheCurrent
  <2>4. EditBacked(e, disk.cat, Safe')
    BY <1>2, <2>2, <2>3 DEF SecretsBacked, EditBacked, Drafting
  <2>5. Turns(k, e)
    BY <1>1, <2>1, TurnsIs
  <2> QED BY <1>1, <1>2, <2>4, <2>5, BackedMove
<1> QED BY <1>3, <1>4

\* A plan keeps references, or has them on its list.
LEMMA Backed_Plan ==
  ASSUME CacheInv, CacheInv', SecretsBacked, NEW k \in Worker, Plans(k)
  PROVE  SecretsBacked'
<1>1. /\ k \in Commands /\ w[k].pc = "plan" /\ disk'.cat = disk.cat /\ UNCHANGED <<vault, purged>>
  BY StoreNames, PlansIs DEF records
<1>2. Safe' = Safe
  BY <1>1, SafeRests
<1>3. PICK e : Planned(k, e)
  BY PlansIs
<1>4. Backed(w[k].cur, DOMAIN w[k].cur, Safe)
  BY <1>1 DEF SecretsBacked, EditBacked
<1>5. \A j \in DOMAIN e.cur : RefOf(j, e.cur[j]) \in AllRefs
  BY <1>3, Parts DEF Planned
<1>6. \A j \in DOMAIN e.cur : RefOf(j, e.cur[j]) = RefOf(j, w[k].cur[j])
  BY <1>3 DEF Planned, RefOf
<1>7. \A j \in DOMAIN e.cur : e.cur[j].flag = w[k].cur[j].flag \/ RefOf(j, e.cur[j]) \in Safe
  BY <1>3, <1>5 DEF Planned, Safe, Held
<1>8. Backed(e.cur, DOMAIN e.cur, Safe)
  BY <1>3, <1>4, <1>6, <1>7 DEF Backed, Planned
<1>9. Backed(e.next, DOMAIN e.next \ DOMAIN e.todo, Safe \cup Coming(e))
  BY <1>3, <1>8 DEF Backed, Planned, RefOf
<1>10. EditBacked(e, disk.cat, Safe')
  BY <1>2, <1>3, <1>8, <1>9 DEF EditBacked, Planned, Drafting
<1> QED BY <1>1, <1>2, <1>3, <1>10, BackedMove DEF Planned

\* A new reference is on its way to the credential store.
LEMMA Backed_BeginIntent ==
  ASSUME CacheInv, SecretsBacked, NEW k \in Worker, NEW i \in ProfileIds, BeginIntent(k, i)
  PROVE  SecretsBacked'
<1>1. /\ w[k].pc = "stage" /\ i \in DOMAIN w[k].todo /\ k \in Commands
      /\ UNCHANGED <<disk, backup, vault, store, lock, loader, conn, life, purged, tallies>>
  BY BeginIs, StoreNames
<1>2. PICK r, t, e : Begins(k, i, r, t, e)
  BY BeginIs
<1>3. Safe' = Safe
  BY <1>1, SafeRests
<1>4. w[k].next \in Metadata /\ w[k].todo \in Todos
  BY <1>1, Staging DEF Drafting
<1> DEFINE n == w[k].next
<1> DEFINE m == e.next
<1>5. /\ DOMAIN m = DOMAIN n /\ (\A j \in DOMAIN n : j # i => m[j] = n[j])
      /\ i \in DOMAIN n => m[i].ref = r /\ m[i].flag = IF r = NoRef THEN "none" ELSE "stored"
  BY <1>2, <1>4, ReferencedIs DEF Begins
<1>6. DOMAIN e.todo = DOMAIN w[k].todo \ {i}
  BY <1>2, <1>4, TodoDrop DEF Begins
<1>7. /\ Backed(w[k].cur, DOMAIN w[k].cur, Safe) /\ Backed(n, DOMAIN n \ DOMAIN w[k].todo, Safe)
  BY <1>1 DEF SecretsBacked, EditBacked, Drafting, Coming
<1>8. e.cur = w[k].cur /\ e.new = r /\ e.pc = (IF r = NoRef THEN "stage" ELSE "secret")
  BY <1>2 DEF Begins
<1> HIDE DEF m, n
<1>9. Backed(m, DOMAIN m \ DOMAIN e.todo, Safe \cup Coming(e))
  <2> SUFFICES ASSUME NEW j \in DOMAIN m \ DOMAIN e.todo, m[j].flag # "none" PROVE RefOf(j, m[j]) \in Safe \cup Coming(e)
    BY DEF Backed
  <2>1. CASE j = i
    <3>1. r # NoRef /\ m[j].ref = r /\ e.pc = "secret"
      BY <1>5, <1>8, <2>1
    <3> QED BY <1>8, <3>1 DEF Coming, RefOf
  <2>2. CASE j # i
    BY <1>5, <1>6, <1>7, <2>2 DEF Backed
  <2> QED BY <2>1, <2>2
<1>10. EditBacked(e, disk.cat, Safe')
  BY <1>3, <1>7, <1>8, <1>9 DEF EditBacked, Drafting, m
<1>11. Turns(k, e)
  BY <1>1, <1>2, TurnsIs DEF Begins
<1> QED BY <1>1, <1>3, <1>10, <1>11, BackedMove

\* And arrives.
LEMMA Backed_WriteSecret ==
  ASSUME CacheInv, SecretsBacked, NEW k \in Worker, WriteSecret(k)
  PROVE  SecretsBacked'
<1> DEFINE e == [w[k] EXCEPT !.pc = "stage", !.new = NoRef]
<1>1. /\ w[k].pc = "secret" /\ vault' = [vault EXCEPT ![w[k].new] = Owner(k)] /\ w' = [w EXCEPT ![k] = e]
      /\ disk' = disk /\ purged' = purged
  BY DEF WriteSecret, records
<1>2. k \in Commands /\ w[k] \in Edits
  BY <1>1, Staging DEF Drafting
<1>3. e.pc = "stage" /\ e.cur = w[k].cur /\ e.next = w[k].next /\ e.todo = w[k].todo
  BY <1>2 DEF Edits
<1> HIDE DEF e
<1>4. Safe \subseteq Safe' /\ w[k].new \in Safe'
  BY <1>1, SafeGrows
<1>5. EditBacked(w[k], disk.cat, Safe)
  BY <1>2 DEF SecretsBacked
<1>6. EditBacked(e, disk.cat, Safe')
  BY <1>1, <1>3, <1>4, <1>5 DEF EditBacked, Drafting, Coming, Backed
<1>7. Turns(k, e)
  BY <1>1, <1>2, TurnsIs
<1> QED BY <1>1, <1>2, <1>4, <1>6, <1>7, BackedMove

\* A secret that was written after all does no harm.
LEMMA Backed_StageFails ==
  ASSUME CacheInv, SecretsBacked, NEW k \in Worker, StageFails(k)
  PROVE  SecretsBacked'
<1>1. /\ Abort(k) /\ disk'.cat = disk.cat /\ purged' = purged /\ k \in Commands
      /\ vault' = vault \/ (w[k].pc = "secret" /\ vault' = [vault EXCEPT ![w[k].new] = Owner(k)])
  BY StoreNames DEF StageFails, records
<1>2. Safe \subseteq Safe'
  BY <1>1, SafeGrows, SafeRests
<1> QED BY <1>1, <1>2, BackedAbort

\* What is committed is in the credential store.
LEMMA Backed_Commit ==
  ASSUME CacheInv, SecretsBacked, NEW k \in Worker, NEW ok \in BOOLEAN, Commit(k, ok)
  PROVE  SecretsBacked'
<1>1. /\ w[k].pc = "stage" /\ w[k].todo = NoProfiles /\ UNCHANGED <<vault, purged>>
  BY DEF Commit
<1>2. k \in Commands /\ Editing(w[k]) /\ w[k] \in Edits /\ w[k].next \in Metadata
  BY <1>1, Staging DEF Drafting
<1>3. Safe' = Safe
  BY <1>1, SafeRests
<1>4. CASE store.recovery
  BY <1>2, <1>3, <1>4, BackedAbort DEF Commit, records
<1>5. CASE ~store.recovery
  <2>1. disk'.cat = disk.cat \/ disk'.cat = w[k].next
    BY <1>2, <1>5, WrittenIs, NotWrittenIs DEF Commit, CacheInv
  <2>2. References(disk.cat) \subseteq Safe
    BY BackedRefs DEF SecretsBacked
  <2>3. References(w[k].next) \subseteq Safe
    <3>1. Backed(w[k].next, DOMAIN w[k].next \ DOMAIN w[k].todo, Safe)
      BY <1>1, <1>2 DEF SecretsBacked, EditBacked, Drafting, Coming
    <3>2. DOMAIN w[k].next \ DOMAIN w[k].todo = DOMAIN w[k].next
      BY <1>1, NoProfilesIs
    <3> QED BY <3>1, <3>2, BackedRefs
  <2>4. w'[k].pc \in {"idle", "collect"} /\ \A l \in Commands : l # k => w'[l] = w[l]
    <3>1. CASE ok
      <4> DEFINE e == [w[k] EXCEPT !.pc = "collect"]
      <4>1. w' = [w EXCEPT ![k] = e] /\ e.pc = "collect"
        BY <1>2, <1>5, <3>1 DEF Commit, Edits
      <4> HIDE DEF e
      <4>2. Turns(k, e)
        BY <1>2, <4>1, TurnsIs
      <4> QED BY <4>1, <4>2 DEF Turns
    <3>2. CASE ~ok
      <4>1. w' = [w EXCEPT ![k] = NoEdit] /\ NoEdit.pc = "idle"
        BY <1>5, <3>2, NoEditTyped DEF Commit
      <4>2. Turns(k, NoEdit)
        BY <1>2, <4>1, TurnsIs
      <4> QED BY <4>1, <4>2 DEF Turns
    <3> QED BY <3>1, <3>2
  <2>5. \A l \in Commands : w'[l].pc \in {"idle", "reserved", "collect"}
    BY <1>2, <2>4, OthersWait
  <2> QED BY <1>3, <2>1, <2>2, <2>3, <2>5, BackedNew
<1> QED BY <1>4, <1>5

\* What a collector sees of one intent.
LEMMA LoadsIs ==
  ASSUME CacheInv, NEW k \in Commands, NEW t \in intents, CollectLoads(k, t)
  PROVE  /\ w[k].pc = "collect" /\ UNCHANGED <<records, vault, intents, store, lock, loader, conn, life, purged, tallies>>
         /\ \E e : Turns(k, e) /\ e.pc = "gc" /\ e.live = References(disk.cat)
<1> DEFINE live == IF w[k].op \in {"recover", "boot"} THEN w[k].live ELSE References(disk.cat)
<1> DEFINE e == [w[k] EXCEPT !.pc = "gc", !.item = {t}, !.live = live]
<1>1. /\ w[k].pc = "collect" /\ w' = [w EXCEPT ![k] = e]
      /\ UNCHANGED <<records, vault, intents, store, lock, loader, conn, life, purged, tallies>>
  BY DEF CollectLoads
<1>2. w[k] \in Edits /\ live = References(disk.cat)
  BY <1>1, EditTyped DEF CacheInv, CommandsSound, Sound, Collecting
<1> HIDE DEF live
<1>3. e.pc = "gc" /\ e.live = live
  BY <1>2 DEF Edits
<1> HIDE DEF e
<1>4. Turns(k, e)
  BY <1>1, TurnsIs
<1> QED BY <1>1, <1>2, <1>3, <1>4

\* A collector knows the references in use.
LEMMA Backed_Collect ==
  ASSUME CacheInv, SecretsBacked, NEW k \in Commands, NEW t \in intents, CollectLoads(k, t) \/ CollectEnds(k, t) \/ CollectFails(k, t)
  PROVE  SecretsBacked'
<1>1. disk'.cat = disk.cat /\ UNCHANGED <<vault, purged>>
  BY DEF CollectLoads, CollectEnds, CollectFails, records
<1>2. Safe' = Safe
  BY <1>1, SafeRests
<1>3. CASE CollectLoads(k, t)
  <2>1. PICK e : Turns(k, e) /\ e.pc = "gc" /\ e.live = References(disk.cat)
    BY <1>3, LoadsIs
  <2>2. EditBacked(e, disk.cat, Safe')
    BY <2>1 DEF EditBacked, Drafting
  <2> QED BY <1>1, <1>2, <2>1, <2>2, BackedMove
<1>4. CASE CollectEnds(k, t) \/ CollectFails(k, t)
  <2>1. w[k].pc = "gc" /\ (Abort(k) \/ w' = [w EXCEPT ![k].pc = "collect", ![k].item = {}, ![k].mine = w[k].mine \ {t}])
    BY <1>4 DEF CollectEnds, CollectFails
  <2>2. CASE Abort(k)
    BY <1>1, <1>2, <2>2, BackedAbort
  <2>3. CASE w' = [w EXCEPT ![k].pc = "collect", ![k].item = {}, ![k].mine = w[k].mine \ {t}]
    <3>1. PICK e \in Edits : w' = [w EXCEPT ![k] = e] /\ e.pc = "collect"
      BY <2>1, <2>3, NextIntent DEF CacheInv
    <3>2. Turns(k, e)
      BY <3>1, TurnsIs
    <3> QED BY <1>1, <1>2, <3>1, <3>2, BackedRest
  <2> QED BY <2>1, <2>2, <2>3
<1> QED BY <1>3, <1>4

\* While a collector deletes, nobody plans or stages.
LEMMA CollectorAlone ==
  ASSUME CacheInv, NEW k \in Commands, Collecting(w[k])
  PROVE  \A l \in Commands : l # k => w[l].pc \in {"idle", "reserved"}
<1>1. k = Boot \/ k \in Worker
  BY StoreNames
<1>2. CASE k \in Worker
  BY <1>2, OthersWait DEF Editing, Collecting
<1>3. CASE k = Boot
  <2>1. \A l \in Worker : w[l].pc = "idle"
    BY <1>3 DEF CacheInv, Exclusive, Collecting
  <2> QED BY <1>3, <2>1, StoreNames
<1> QED BY <1>1, <1>2, <1>3

\* And spares them.
LEMMA Backed_CollectDeletes ==
  ASSUME CacheInv, SecretsBacked, NEW k \in Commands, NEW t \in intents, NEW r \in AllRefs, CollectDeletes(k, t, r)
  PROVE  SecretsBacked'
<1>1. /\ w[k].pc = "gc" /\ r \in Garbage(t, w[k].live) /\ vault' = [vault EXCEPT ![r] = 0]
      /\ UNCHANGED <<disk, w, purged>>
  BY DEF CollectDeletes, records, memory
<1>2. References(disk.cat) \subseteq w[k].live /\ r \notin w[k].live
  BY <1>1 DEF SecretsBacked, EditBacked, Garbage
<1>3. Safe \ {r} \subseteq Safe'
  BY <1>1 DEF Safe, Held, Present, CacheInv, StoreTyped
<1>4. References(disk.cat) \subseteq Safe
  BY BackedRefs DEF SecretsBacked
<1>5. Backed(disk'.cat, DOMAIN disk'.cat, Safe')
  BY <1>1, <1>2, <1>3, <1>4, BackedRefs
<1>6. \A l \in Commands : l # k => w[l].pc \in {"idle", "reserved"}
  BY <1>1, CollectorAlone DEF Collecting
<1>7. EditBacked(w[k], disk.cat, Safe')
  BY <1>1, <1>2 DEF EditBacked, Drafting
<1>8. \A l \in Commands : EditBacked(w'[l], disk'.cat, Safe')
  BY <1>1, <1>6, <1>7, IdleBacked
<1> QED BY <1>5, <1>8 DEF SecretsBacked

\* What somebody else deletes is on record.
LEMMA Backed_Purge ==
  ASSUME CacheInv, SecretsBacked, NEW r \in AllRefs, Purge(r)
  PROVE  SecretsBacked'
<1>1. vault' = [vault EXCEPT ![r] = 0] /\ purged' = purged \cup {r} /\ disk' = disk /\ w' = w
  BY DEF Purge, records, memory
<1>2. Safe \subseteq Safe'
  BY <1>1 DEF Safe, Held, Present, CacheInv, StoreTyped
<1> QED BY <1>1, <1>2, BackedFile

\* Setup changes no file.
LEMMA Backed_Start ==
  ASSUME CacheInv, SecretsBacked, Start \/ Started
  PROVE  SecretsBacked'
<1>1. Boot \in Commands /\ disk'.cat = disk.cat /\ UNCHANGED <<vault, purged>>
  BY StoreNames DEF Start, Started, records
<1>2. Safe' = Safe
  BY <1>1, SafeRests
<1> DEFINE e == IF Start THEN [NoEdit EXCEPT !.pc = "collect", !.op = "boot", !.mine = intents,
                                           !.next = disk.cat, !.live = References(disk.cat)] ELSE NoEdit
<1>3. w' = [w EXCEPT ![Boot] = e]
  BY DEF Start, Started
<1>4. e.pc \in {"idle", "collect"}
  BY NoEditTyped DEF NoEdit
<1> HIDE DEF e
<1>5. Turns(Boot, e)
  BY <1>1, <1>3, TurnsIs
<1> QED BY <1>1, <1>2, <1>4, <1>5, BackedRest

\* Nothing is undone that was relied on.
LEMMA Backed_AppCrash ==
  ASSUME CacheInv, SecretsBacked, ~(PowerLoss /\ UnsyncedFault), AppCrash(FALSE) \/ (PowerLoss /\ AppCrash(TRUE))
  PROVE  SecretsBacked'
<1>1. /\ disk' = disk \/ (PowerLoss /\ disk' = durable)
      /\ UNCHANGED <<vault, purged>> /\ w' = [k \in Commands |-> NoEdit]
  BY DEF AppCrash, Stopped
<1>2. disk' = disk
  BY <1>1 DEF CacheInv, CacheCurrent
<1>3. Safe' = Safe
  BY <1>1, SafeRests
<1>4. References(disk'.cat) \subseteq Safe'
  BY <1>2, <1>3, BackedRefs DEF SecretsBacked
<1>5. \A l \in Commands : w'[l].pc = "idle"
  BY <1>1, NoEditTyped
<1> QED BY <1>4, <1>5, BackedNew

\* Fewer flags, fewer references.
LEMMA FewerRefs ==
  ASSUME NEW c, NEW d, SameRefs(c, d), \A i \in DOMAIN c : c[i].flag # "none" => d[i].flag # "none"
  PROVE  References(c) \subseteq References(d)
BY DEF SameRefs, References, RefOf

\* What the startup thread writes.
LEMMA LoaderIs ==
  ASSUME CacheInv, NEW ok \in BOOLEAN, LoaderEnds(ok)
  PROVE  /\ w' = w /\ loader' = NoLoader /\ UNCHANGED <<vault, intents, purged>>
         /\ \E c, Z : /\ Z \subseteq LoaderTakes /\ c = Marked(Z) /\ c \in Metadata /\ store'.cat = c
                      /\ \/ disk' = disk /\ backup' = backup
                         \/ /\ store.cat = disk.cat /\ disk'.cat = c /\ ~disk'.legacy /\ backup' \in {backup, MigrationBackup}
                         \/ disk' = disk /\ backup' \in {backup, MigrationBackup}
<1> DEFINE Z == IF store.recovery \/ store.restoring THEN {} ELSE LoaderTakes
<1> DEFINE c == Marked(Z)
<1>1. /\ loader.pc = "read" /\ w' = w /\ loader' = NoLoader /\ UNCHANGED <<vault, intents, purged>> /\ store'.cat = c
      /\ IF c = store.cat THEN ok /\ UNCHANGED <<records, storeFaults>>
         ELSE IF ok THEN Written(c) ELSE NotWritten(c)
  BY StoreFields DEF LoaderEnds, Marked, CacheInv, Caches
<1>2. Z \subseteq LoaderTakes /\ (Z # {} => ~store.recovery)
  OBVIOUS
<1>0. c = Marked(Z)
  OBVIOUS
<1> HIDE DEF Z, c
<1>3. c \in Metadata /\ SameRefs(c, store.cat) /\ \A i \in DOMAIN c : c[i] = store.cat[i] \/ i \in Z
  BY <1>0, <1>2, LoaderCat
<1>4. store.up
  BY <1>1 DEF CacheInv, Exclusive, NoLoader
<1>5. c # store.cat => Z # {}
  <2>1. store.cat \in [DOMAIN store.cat -> Entry] /\ c \in [DOMAIN c -> Entry] /\ DOMAIN c = DOMAIN store.cat
    BY <1>3, StoreFields, MetaIs DEF CacheInv, SameRefs
  <2> QED BY <1>3, <2>1
<1>6. c # store.cat => store.cat = disk.cat
  BY <1>2, <1>4, <1>5 DEF CacheInv, CacheCurrent
<1>7. \/ disk' = disk /\ backup' = backup
      \/ /\ store.cat = disk.cat /\ disk'.cat = c /\ ~disk'.legacy /\ backup' \in {backup, MigrationBackup}
      \/ disk' = disk /\ backup' \in {backup, MigrationBackup}
  <2>1. CASE c = store.cat
    BY <1>1, <2>1 DEF records
  <2>2. CASE c # store.cat /\ ok
    BY <1>1, <1>3, <1>6, <2>2, WrittenIs DEF CacheInv
  <2>3. CASE c # store.cat /\ ~ok
    BY <1>1, <1>3, <1>6, <2>3, NotWrittenIs DEF CacheInv
  <2> QED BY <2>1, <2>2, <2>3
<1> QED BY <1>0, <1>1, <1>2, <1>3, <1>7

\* The startup thread only gives references up.
LEMMA Backed_LoaderEnds ==
  ASSUME CacheInv, SecretsBacked, NEW ok \in BOOLEAN, LoaderEnds(ok)
  PROVE  SecretsBacked'
<1>1. w' = w /\ Safe' = Safe
  BY LoaderIs, SafeRests
<1>2. PICK c, Z : Z \subseteq LoaderTakes /\ c = Marked(Z) /\ (disk' = disk \/ (store.cat = disk.cat /\ disk'.cat = c))
  BY LoaderIs
<1>3. References(c) \subseteq References(store.cat)
  BY <1>2, LoaderCat, FewerRefs
<1>4. References(disk'.cat) \subseteq References(disk.cat)
  BY <1>2, <1>3
<1> QED BY <1>1, <1>4, BackedFile

\* What a connection that misses its password writes.
LEMMA MissingIs ==
  ASSUME CacheInv, NEW i \in ProfileIds, NEW ok \in BOOLEAN, ClearMissing(i, ok)
  PROVE  /\ w' = w /\ UNCHANGED <<vault, intents, purged, loader>> /\ ~Present(conn[i].ref) /\ i \in DOMAIN store.cat
         /\ Current(i, conn[i].ref, store.cat) /\ conn[i].ref \in AllRefs
         /\ \E c : /\ c = [store.cat EXCEPT ![i].flag = "none"] /\ store'.cat \in {store.cat, c}
                   /\ \/ disk' = disk /\ backup' \in {backup, MigrationBackup}
                      \/ /\ store.cat = disk.cat /\ store.cat[i].flag = "stored" /\ disk'.cat = c /\ ~disk'.legacy
                         /\ backup' \in {backup, MigrationBackup}
<1>1. conn[i].pc = "read" /\ w' = w /\ UNCHANGED <<vault, intents, purged, loader>> /\ ~Present(conn[i].ref)
  BY DEF ClearMissing
<1>2. store.up /\ i \in DOMAIN store.cat /\ store.cat \in Metadata /\ Current(i, conn[i].ref, store.cat) /\ store \in Caches
  BY <1>1, ConnUp, StoreFields DEF CacheInv
<1>3. conn[i].ref \in AllRefs
  BY <1>1 DEF CacheInv, SessionsSound
<1> DEFINE c == [store.cat EXCEPT ![i].flag = "none"]
<1>4. c = [store.cat EXCEPT ![i].flag = "none"]
  OBVIOUS
<1>5. \/ UNCHANGED <<records, store>>
      \/ /\ store.cat[i].flag = "stored" /\ ~store.recovery
         /\ \/ Written(c) /\ store' = [store EXCEPT !.cat = c, !.session[i] = NoRef]
            \/ NotWritten(c) /\ store' = [store EXCEPT !.recovery = TRUE]
  BY <1>2 DEF ClearMissing
<1> HIDE DEF c
<1>6. c \in Metadata
  BY <1>2, <1>4, Cleared
<1>7. /\ store'.cat \in {store.cat, c}
      /\ \/ disk' = disk /\ backup' \in {backup, MigrationBackup}
         \/ /\ store.cat = disk.cat /\ store.cat[i].flag = "stored" /\ disk'.cat = c /\ ~disk'.legacy
            /\ backup' \in {backup, MigrationBackup}
  <2>1. CASE UNCHANGED <<records, store>>
    BY <2>1 DEF records
  <2>2. CASE store.cat[i].flag = "stored" /\ ~store.recovery /\ Written(c) /\ store' = [store EXCEPT !.cat = c, !.session[i] = NoRef]
    <3>1. store.cat = disk.cat
      BY <1>2, <2>2 DEF CacheInv, CacheCurrent
    <3>2. store'.cat = c
      BY <1>2, <2>2 DEF Caches
    <3> QED BY <1>6, <2>2, <3>1, <3>2, WrittenIs DEF CacheInv
  <2>3. CASE store.cat[i].flag = "stored" /\ ~store.recovery /\ NotWritten(c) /\ store' = [store EXCEPT !.recovery = TRUE]
    <3>1. store.cat = disk.cat
      BY <1>2, <2>3 DEF CacheInv, CacheCurrent
    <3>2. store'.cat = store.cat
      BY <1>2, <2>3 DEF Caches
    <3> QED BY <1>6, <2>3, <3>1, <3>2, NotWrittenIs DEF CacheInv
  <2> QED BY <1>5, <2>1, <2>2, <2>3
<1> QED BY <1>1, <1>2, <1>3, <1>4, <1>7

\* clear_missing_stored_password only gives one up.
LEMMA Backed_ClearMissing ==
  ASSUME CacheInv, SecretsBacked, NEW i \in ProfileIds, NEW ok \in BOOLEAN, ClearMissing(i, ok)
  PROVE  SecretsBacked'
<1>1. w' = w /\ Safe' = Safe /\ i \in DOMAIN store.cat /\ store.cat \in Metadata
  BY MissingIs, SafeRests, StoreFields DEF CacheInv
<1>2. PICK c : c = [store.cat EXCEPT ![i].flag = "none"] /\ (disk' = disk \/ (store.cat = disk.cat /\ disk'.cat = c))
  BY MissingIs
<1>3. c \in Metadata /\ SameRefs(c, store.cat) /\ c[i].flag = "none" /\ \A j \in DOMAIN store.cat : j # i => c[j] = store.cat[j]
  BY <1>1, <1>2, Cleared
<1>4. References(c) \subseteq References(store.cat)
  BY <1>3, FewerRefs DEF SameRefs
<1>5. References(disk'.cat) \subseteq References(disk.cat)
  BY <1>2, <1>4
<1> QED BY <1>1, <1>5, BackedFile

\* Every step.
LEMMA BackedSteps ==
  ASSUME CacheInv, CacheInv', SecretsBacked, ~(PowerLoss /\ UnsyncedFault), StoreNext
  PROVE  SecretsBacked'
<1>1. CASE \E k \in Worker : Edit(k)
  <2>1. PICK k \in Worker : Edit(k)
    BY <1>1
  <2>2. CASE \/ \E i \in ProfileIds, op \in {"save", "delete"} : Reserve(k, op, i)
             \/ \E op \in {"restore", "recover"} : ReserveAll(k, op)
             \/ RefuseEdit(k) \/ Publish(k) \/ Recovered(k) \/ \E ok \in BOOLEAN : Recover(k, ok)
    BY <2>2, Backed_Quiet
  <2>3. CASE Open(k)
    BY <2>3, Backed_Open
  <2>4. CASE Plans(k)
    BY <2>4, Backed_Plan
  <2>5. CASE \E i \in ProfileIds : BeginIntent(k, i)
    BY <2>5, Backed_BeginIntent
  <2>6. CASE WriteSecret(k) \/ StageFails(k)
    BY <2>6, Backed_WriteSecret, Backed_StageFails
  <2>7. CASE \E ok \in BOOLEAN : Commit(k, ok)
    BY <2>7, Backed_Commit
  <2> QED BY <2>1, <2>2, <2>3, <2>4, <2>5, <2>6, <2>7 DEF Edit, Plans
<1>2. CASE \E k \in Commands : Collector(k)
  <2>1. PICK k \in Commands, t \in intents :
          \/ CollectLoads(k, t) \/ CollectEnds(k, t) \/ CollectFails(k, t)
          \/ \E r \in AllRefs : CollectDeletes(k, t, r)
    BY <1>2 DEF Collector
  <2> QED BY <2>1, Backed_Collect, Backed_CollectDeletes
<1>3. CASE Threads
  <2>1. CASE \/ \E i \in ProfileIds, ok \in BOOLEAN : LoaderReads(i, ok)
             \/ \E i \in ProfileIds : StartConnection(i) \/ Resolve(i) \/ ConnectionEnds(i)
    <3>1. disk' = disk /\ w' = w /\ UNCHANGED <<vault, purged>>
      BY <2>1 DEF LoaderReads, StartConnection, Resolve, ConnectionEnds, records
    <3> QED BY <3>1, SafeRests, BackedFile
  <2> QED BY <1>3, <2>1, Backed_LoaderEnds, Backed_ClearMissing DEF Threads
<1>4. CASE Start \/ Started
  BY <1>4, Backed_Start
<1>5. CASE AppCrash(FALSE) \/ (PowerLoss /\ AppCrash(TRUE))
  BY <1>5, Backed_AppCrash
<1>6. CASE \E r \in AllRefs : Purge(r)
  BY <1>6, Backed_Purge
<1> QED BY <1>1, <1>2, <1>3, <1>4, <1>5, <1>6 DEF StoreNext

\* No step.
LEMMA BackedRests ==
  ASSUME SecretsBacked, UNCHANGED storeVars
  PROVE  SecretsBacked'
<1>1. disk' = disk /\ w' = w /\ UNCHANGED <<vault, purged>>
  BY DEF storeVars, records, memory
<1> QED BY <1>1, SafeRests, BackedFile

\* The repository the program starts with.
LEMMA BackedStarts ==
  ASSUME StoreInit
  PROVE  SecretsBacked
<1>1. PICK S \in {{}, Legacy} :
    /\ disk = [cat |-> [i \in S |-> [rev |-> 0, ref |-> NoRef, flag |-> "unknown", life |-> 1]],
               legacy |-> S # {}]
    /\ vault = [r \in AllRefs |-> IF r \in S THEN 1 ELSE 0] /\ w = [k \in Commands |-> NoEdit]
  BY DEF StoreInit
<1>2. S \subseteq AllRefs
  BY StoreAssumption DEF AllRefs
<1>3. DOMAIN disk.cat = S /\ \A i \in S : RefOf(i, disk.cat[i]) = i
  BY <1>1 DEF RefOf
<1>4. \A i \in S : i \in Safe
  BY <1>1, <1>2 DEF Safe, Held, Present
<1>5. Backed(disk.cat, DOMAIN disk.cat, Safe)
  BY <1>3, <1>4 DEF Backed
<1>6. \A k \in Commands : EditBacked(w[k], disk.cat, Safe)
  BY <1>1, NoEditTyped, IdleBacked
<1> QED BY <1>5, <1>6 DEF SecretsBacked

\* Whatever the metadata, or a command's copy of it, will be once written: each reference in
\* it has its secret in the credential store, unless somebody else deleted it.  Flushes after
\* renames work, or power is never lost: otherwise setup collects by a file that power can
\* still take back.
THEOREM CredentialsBacked == ASSUME ~(PowerLoss /\ UnsyncedFault) PROVE StoreSpec => []SecretsBacked
<1>1. CacheInv /\ CacheInv' /\ SecretsBacked /\ [StoreNext]_storeVars => SecretsBacked'
  BY BackedSteps, BackedRests
<1> QED BY <1>1, BackedStarts, RepositoryCorrect, PTL DEF StoreSpec

\* The metadata or an intent names the reference.
Noted(r, file, ts) == r \in References(file) \/ \E t \in ts : r \in Candidates(t)

\* With no migration backup the metadata and the intents name every secret.
LEMMA AccountedIs ==
  ASSUME SecretsTraced
  PROVE  \A r \in Held : Noted(r, disk.cat, intents)
BY DEF SecretsTraced, SecretAccountedFor, Held, Noted

\* What remains to show after a step.
LEMMA TracedNew ==
  ASSUME backup' = {}, ~disk'.legacy, OwnRefs(disk'.cat, DOMAIN disk'.cat), Held' \cap ProfileIds = {},
         \A r \in Held' : Noted(r, disk'.cat, intents'),
         \A k \in Commands : EditTraced(w'[k], disk'.cat, intents', Held'),
         OwnRefs(loader'.snap, DOMAIN loader'.snap), Missing(loader', store'.cat, Held')
  PROVE  SecretsTraced'
<1>1. SecretAccountedFor'
  BY DEF SecretAccountedFor, Held, Noted
<1> QED BY <1>1 DEF SecretsTraced

\* A secret that was missing stays missing.
LEMMA StillMissing ==
  ASSUME NEW ld, NEW cache, NEW c, NEW held, NEW less, Missing(ld, cache, held), less \subseteq held,
         \A i \in DOMAIN ld.found : At(c, i, ld.snap) => At(cache, i, ld.snap)
  PROVE  Missing(ld, c, less)
BY DEF Missing

\* The startup thread and the cache stay as they are.
LEMMA SameMissing ==
  ASSUME SecretsTraced, loader' = loader, store'.cat = store.cat, Held' \subseteq Held
  PROVE  OwnRefs(loader'.snap, DOMAIN loader'.snap) /\ Missing(loader', store'.cat, Held')
BY StillMissing DEF SecretsTraced

\* Less held, more written down.
LEMMA LessTraced ==
  ASSUME NEW e, NEW file, NEW ts, NEW more, NEW held, NEW less, EditTraced(e, file, ts, held), ts \subseteq more, less \subseteq held
  PROVE  EditTraced(e, file, more, less)
BY DEF EditTraced

\* A command that waits.
LEMMA WaitsTraced ==
  ASSUME NEW e, NEW file, NEW ts, NEW held, e.pc \in {"idle", "collect"} \/ (e.pc = "reserved" /\ e.mine = {})
  PROVE  EditTraced(e, file, ts, held)
BY DEF EditTraced, Drafting

\* Who waits relies on nothing.
LEMMA OthersTraced ==
  ASSUME SecretsTraced, NEW l \in Commands, w[l].pc \in {"idle", "reserved"}, NEW file, NEW ts, NEW held
  PROVE  EditTraced(w[l], file, ts, held)
<1>1. w[l].pc = "reserved" => w[l].mine = {}
  BY DEF SecretsTraced, EditTraced
<1> QED BY <1>1, WaitsTraced

\* One command moves; the metadata stays and nothing is written.
LEMMA TracedMove ==
  ASSUME SecretsTraced, NEW k \in Commands, NEW e, Turns(k, e), UNCHANGED <<disk, backup, loader>>, store'.cat = store.cat,
         intents \subseteq intents', Held' \subseteq Held, EditTraced(e, disk.cat, intents', Held')
  PROVE  SecretsTraced'
<1>1. \A l \in Commands : EditTraced(w'[l], disk'.cat, intents', Held')
  BY LessTraced DEF SecretsTraced, Turns
<1>2. \A r \in Held' : Noted(r, disk'.cat, intents')
  BY AccountedIs DEF Noted
<1>3. backup' = {} /\ ~disk'.legacy /\ OwnRefs(disk'.cat, DOMAIN disk'.cat) /\ Held' \cap ProfileIds = {}
  BY DEF SecretsTraced
<1> QED BY <1>1, <1>2, <1>3, SameMissing, TracedNew

\* A command waits, goes on to the next intent, or is over.
LEMMA TracedRest ==
  ASSUME SecretsTraced, NEW k \in Commands, NEW e, e.pc \in {"idle", "collect"} \/ (e.pc = "reserved" /\ e.mine = {}), Turns(k, e),
         UNCHANGED <<disk, backup, loader>>, store'.cat = store.cat, intents \subseteq intents', Held' \subseteq Held
  PROVE  SecretsTraced'
BY TracedMove, WaitsTraced

\* A command is given up.
LEMMA TracedAbort ==
  ASSUME CacheInv, SecretsTraced, NEW k \in Commands, Abort(k), UNCHANGED <<disk, backup, loader, intents>>, Held' \subseteq Held
  PROVE  SecretsTraced'
<1>1. Turns(k, NoEdit) /\ NoEdit.pc = "idle" /\ store'.cat = store.cat
  BY TurnsIs, NoEditTyped, AbortIs DEF Abort, CacheInv
<1> QED BY <1>1, TracedRest

\* The metadata keeps the references that are held.
LEMMA TracedFile ==
  ASSUME SecretsTraced, w' = w, intents' = intents, Held' = Held, Held \cap References(disk.cat) \subseteq References(disk'.cat),
         backup' = {}, ~disk'.legacy, OwnRefs(disk'.cat, DOMAIN disk'.cat), OwnRefs(loader'.snap, DOMAIN loader'.snap),
         Missing(loader', store'.cat, Held)
  PROVE  SecretsTraced'
<1>1. \A l \in Commands : EditTraced(w'[l], disk'.cat, intents', Held')
  BY DEF SecretsTraced, EditTraced
<1>2. \A r \in Held' : Noted(r, disk'.cat, intents')
  BY AccountedIs DEF Noted
<1>3. Held' \cap ProfileIds = {}
  BY DEF SecretsTraced
<1> QED BY <1>1, <1>2, <1>3, TracedNew

\* Without schema 0 there is no migration.
LEMMA NoMigration ==
  ASSUME SecretsTraced
  PROVE  MigrationBackup = {} /\ backup = {}
BY DEF SecretsTraced, MigrationBackup

\* The startup thread asks for profiles that may have a secret.
LEMMA FoundOwn ==
  ASSUME CacheInv, SecretsTraced
  PROVE  \A i \in DOMAIN loader.found : i \in DOMAIN loader.snap /\ loader.snap[i].ref # NoRef
BY DEF CacheInv, LoaderSound, Reading, SecretsTraced, OwnRefs

\* A catalogue the startup thread's references agree with.
LEMMA MissingMoves ==
  ASSUME CacheInv, SecretsTraced, NEW c, Remembers(loader.snap, store.cat, c)
  PROVE  Missing(loader, c, Held)
<1>1. \A i \in DOMAIN loader.found : At(c, i, loader.snap) => At(store.cat, i, loader.snap)
  BY FoundOwn DEF Remembers
<1> QED BY <1>1, StillMissing DEF SecretsTraced

\* apply_recovered_profiles publishes the file, which the startup thread still knows.
LEMMA Traced_Recovered ==
  ASSUME CacheInv, SecretsTraced, NEW k \in Worker, Recovered(k)
  PROVE  SecretsTraced'
<1>1. /\ k \in Commands /\ w[k].pc = "collect" /\ w[k].op = "recover" /\ w' = [w EXCEPT ![k] = NoEdit]
      /\ store' = NewStore(w[k].next, TRUE) /\ UNCHANGED <<disk, backup, vault, purged, intents, loader>>
  BY StoreNames DEF Recovered, records
<1>2. store'.cat = disk.cat
  BY <1>1 DEF NewStore, CacheInv, CommandsSound, Sound, Collecting
<1>3. Turns(k, NoEdit) /\ NoEdit.pc = "idle" /\ Held' = Held
  BY <1>1, TurnsIs, NoEditTyped, SafeRests
<1>4. \A l \in Commands : EditTraced(w'[l], disk'.cat, intents', Held')
  BY <1>1, <1>3, WaitsTraced DEF SecretsTraced, Turns
<1>5. \A r \in Held' : Noted(r, disk'.cat, intents')
  BY <1>1, <1>3, AccountedIs
<1>6. Missing(loader', store'.cat, Held')
  BY <1>1, <1>2, <1>3, MissingMoves DEF CacheInv, LoaderSound
<1>7. /\ backup' = {} /\ ~disk'.legacy /\ OwnRefs(disk'.cat, DOMAIN disk'.cat) /\ Held' \cap ProfileIds = {}
      /\ OwnRefs(loader'.snap, DOMAIN loader'.snap)
  BY <1>1, <1>3 DEF SecretsTraced
<1> QED BY <1>4, <1>5, <1>6, <1>7, TracedNew

\* Reservations, refusals and ends.
LEMMA Traced_Quiet ==
  ASSUME CacheInv, SecretsTraced, NEW k \in Worker,
         \/ \E i \in ProfileIds, op \in {"save", "delete"} : Reserve(k, op, i)
         \/ \E op \in {"restore", "recover"} : ReserveAll(k, op)
         \/ RefuseEdit(k) \/ Publish(k) \/ \E ok \in BOOLEAN : Recover(k, ok)
  PROVE  SecretsTraced'
<1>1. k \in Commands /\ w[k] \in Edits /\ store \in Caches /\ NoEdit \in Edits /\ NoEdit.pc = "idle"
  BY StoreNames, EditTyped, NoEditTyped, StoreFields DEF CacheInv
<1>2. UNCHANGED <<disk, backup, vault, purged, intents, loader>>
  BY DEF Reserve, ReserveAll, RefuseEdit, Publish, Recover, records
<1>3. Held' \subseteq Held /\ intents \subseteq intents'
  BY <1>2, SafeRests
<1>4. CASE \E i \in ProfileIds, op \in {"save", "delete"} : Reserve(k, op, i)
  <2>1. PICK i \in ProfileIds, op \in {"save", "delete"} : w' = [w EXCEPT ![k] = [NoEdit EXCEPT !.pc = "reserved", !.op = op, !.id = i]]
    BY <1>4 DEF Reserve
  <2> DEFINE e == [NoEdit EXCEPT !.pc = "reserved", !.op = op, !.id = i]
  <2>2. e.pc = "reserved" /\ e.mine = {} /\ w' = [w EXCEPT ![k] = e]
    BY <1>1, <2>1 DEF NoEdit
  <2> HIDE DEF e
  <2>3. Turns(k, e)
    BY <1>1, <2>2, TurnsIs
  <2>4. store'.cat = store.cat
    BY <1>1, <1>4 DEF Reserve, Caches
  <2> QED BY <1>1, <1>2, <1>3, <2>2, <2>3, <2>4, TracedRest
<1>5. CASE \E op \in {"restore", "recover"} : ReserveAll(k, op)
  <2>1. PICK op \in {"restore", "recover"} : w' = [w EXCEPT ![k] = [NoEdit EXCEPT !.pc = "reserved", !.op = op]]
    BY <1>5 DEF ReserveAll
  <2> DEFINE e == [NoEdit EXCEPT !.pc = "reserved", !.op = op]
  <2>2. e.pc = "reserved" /\ e.mine = {} /\ w' = [w EXCEPT ![k] = e]
    BY <1>1, <2>1 DEF NoEdit
  <2> HIDE DEF e
  <2>3. Turns(k, e)
    BY <1>1, <2>2, TurnsIs
  <2>4. store'.cat = store.cat
    BY <1>1, <1>5 DEF ReserveAll, Caches
  <2> QED BY <1>1, <1>2, <1>3, <2>2, <2>3, <2>4, TracedRest
<1>6. CASE RefuseEdit(k)
  BY <1>1, <1>2, <1>3, <1>6, TracedAbort DEF RefuseEdit
<1>7. CASE Publish(k)
  <2>1. w' = [w EXCEPT ![k] = NoEdit]
    BY <1>7 DEF Publish
  <2>2. Turns(k, NoEdit)
    BY <1>1, <2>1, TurnsIs
  <2>3. store'.cat = store.cat
    <3>1. PICK s : store' = [Unreserved(k, store) EXCEPT !.session = s]
      BY <1>7 DEF Publish
    <3> QED BY <1>1, <3>1 DEF Unreserved, Caches
  <2> QED BY <1>1, <1>2, <1>3, <2>2, <2>3, TracedRest
<1>8. CASE \E ok \in BOOLEAN : Recover(k, ok)
  <2> DEFINE e == [w[k] EXCEPT !.pc = "collect", !.mine = intents, !.next = disk.cat, !.live = References(disk.cat)]
  <2>1. Abort(k) \/ (w' = [w EXCEPT ![k] = e] /\ store' = store)
    BY <1>8 DEF Recover
  <2>2. e.pc = "collect"
    BY <1>1 DEF Edits
  <2> HIDE DEF e
  <2>3. CASE w' = [w EXCEPT ![k] = e] /\ store' = store
    <3>1. Turns(k, e)
      BY <1>1, <2>3, TurnsIs
    <3> QED BY <1>1, <1>2, <1>3, <2>2, <2>3, <3>1, TracedRest
  <2> QED BY <1>1, <1>2, <1>3, <2>1, <2>3, TracedAbort
<1> QED BY <1>4, <1>5, <1>6, <1>7, <1>8

\* A command copies the cache, which is the file.
LEMMA Traced_Open ==
  ASSUME CacheInv, SecretsTraced, NEW k \in Worker, Open(k)
  PROVE  SecretsTraced'
<1>1. /\ k \in Commands /\ w[k] \in Edits /\ w[k].pc = "reserved"
      /\ UNCHANGED <<disk, backup, vault, purged, intents, loader>>
  BY StoreNames, EditTyped DEF Open, records, CacheInv
<1>2. Held' \subseteq Held /\ intents \subseteq intents'
  BY <1>1, SafeRests
<1>3. CASE ~Ready
  BY <1>1, <1>2, <1>3, TracedAbort DEF Open
<1>4. CASE Ready
  <2> DEFINE e == [w[k] EXCEPT !.pc = "plan", !.cur = store.cat]
  <2>1. w' = [w EXCEPT ![k] = e] /\ store' = store
    BY <1>4 DEF Open
  <2>2. e.pc = "plan" /\ e.cur = store.cat /\ e.mine = w[k].mine
    BY <1>1 DEF Edits
  <2> HIDE DEF e
  <2>3. store.cat = disk.cat
    BY <1>4 DEF Ready, CacheInv, CacheCurrent
  <2>4. EditTraced(e, disk.cat, intents', Held')
    BY <1>1, <2>2, <2>3 DEF SecretsTraced, EditTraced, Drafting
  <2>5. Turns(k, e)
    BY <1>1, <2>1, TurnsIs
  <2> QED BY <1>1, <1>2, <2>1, <2>4, <2>5, TracedMove
<1> QED BY <1>3, <1>4

\* What a plan gives up is on its list.
LEMMA Traced_Plan ==
  ASSUME CacheInv, CacheInv', SecretsTraced, NEW k \in Worker, Plans(k)
  PROVE  SecretsTraced'
<1>1. /\ k \in Commands /\ w[k].pc = "plan" /\ UNCHANGED <<disk, backup, vault, purged, intents, loader, store>>
  BY StoreNames, PlansIs DEF records
<1>2. Held' = Held /\ intents \subseteq intents'
  BY <1>1, SafeRests
<1>3. PICK e : Planned(k, e)
  BY PlansIs
<1>4. w[k].mine = {} /\ OwnRefs(w[k].cur, DOMAIN w[k].cur)
  BY <1>1 DEF SecretsTraced, EditTraced
<1>5. \A j \in DOMAIN e.cur : j \in ProfileIds /\ RefOf(j, e.cur[j]) \in AllRefs
  BY <1>3, Parts DEF Planned
<1>6. OwnRefs(e.cur, DOMAIN e.cur)
  <2> SUFFICES ASSUME NEW j \in DOMAIN e.cur, e.cur[j].flag # "none", e.cur[j].ref = NoRef PROVE FALSE
    BY DEF OwnRefs
  <2>1. Present(j)
    BY <1>3, <1>4 DEF Planned, OwnRefs, RefOf
  <2> QED BY <1>5, <2>1, StoreNames DEF SecretsTraced, Held
<1>7. \A j \in DOMAIN e.cur : e.cur[j].flag # "none" => Kept(e, j)
  BY <1>3 DEF Planned, Kept
<1>8. OwnRefs(e.next, DOMAIN e.next \ DOMAIN e.todo)
  BY <1>3, <1>6 DEF Planned, OwnRefs
<1>9. EditTraced(e, disk.cat, intents', Held')
  BY <1>3, <1>4, <1>6, <1>7, <1>8 DEF EditTraced, Planned, Drafting, Coming
<1> QED BY <1>1, <1>2, <1>3, <1>9, TracedMove DEF Planned

\* What leaves the list is in an intent.
LEMMA Traced_BeginIntent ==
  ASSUME CacheInv, SecretsTraced, NEW k \in Worker, NEW i \in ProfileIds, BeginIntent(k, i)
  PROVE  SecretsTraced'
<1>1. /\ w[k].pc = "stage" /\ i \in DOMAIN w[k].todo /\ k \in Commands
      /\ UNCHANGED <<disk, backup, vault, store, lock, loader, conn, life, purged, tallies>>
  BY BeginIs, StoreNames
<1>2. PICK r, t, e : Begins(k, i, r, t, e)
  BY BeginIs
<1>3. Held' \subseteq Held /\ intents \subseteq intents' /\ t \in intents'
  BY <1>1, <1>2, SafeRests DEF Begins
<1>4. w[k].next \in Metadata /\ w[k].todo \in Todos
  BY <1>1, Staging DEF Drafting
<1> DEFINE n == w[k].next
<1> DEFINE m == e.next
<1>5. /\ DOMAIN m = DOMAIN n /\ (\A j \in DOMAIN n : j # i => m[j] = n[j])
      /\ i \in DOMAIN n => m[i].ref = r /\ m[i].flag = IF r = NoRef THEN "none" ELSE "stored"
  BY <1>2, <1>4, ReferencedIs DEF Begins
<1>6. DOMAIN e.todo = DOMAIN w[k].todo \ {i}
  BY <1>2, <1>4, TodoDrop DEF Begins
<1>7. /\ w[k].mine \subseteq intents /\ OwnRefs(w[k].cur, DOMAIN w[k].cur) /\ OwnRefs(n, DOMAIN n \ DOMAIN w[k].todo)
      /\ \A j \in DOMAIN w[k].cur : w[k].cur[j].flag # "none" => Kept(w[k], j)
  BY <1>1 DEF SecretsTraced, EditTraced, Drafting
<1>8. /\ e.cur = w[k].cur /\ e.new = r /\ e.pc = (IF r = NoRef THEN "stage" ELSE "secret") /\ e.mine = w[k].mine \cup {t}
      /\ t.old = OldRef(k, i) /\ t.new = r
  BY <1>2 DEF Begins
<1> HIDE DEF m, n
<1>9. OwnRefs(m, DOMAIN m \ DOMAIN e.todo)
  BY <1>5, <1>6, <1>7 DEF OwnRefs
<1>10. \A j \in DOMAIN e.cur : e.cur[j].flag # "none" => Kept(e, j)
  <2> SUFFICES ASSUME NEW j \in DOMAIN e.cur, e.cur[j].flag # "none" PROVE Kept(e, j)
    OBVIOUS
  <2>1. CASE j = i
    <3>1. t.old = RefOf(i, e.cur[i])
      BY <1>8, <2>1 DEF OldRef
    <3> QED BY <1>8, <2>1, <3>1 DEF Kept
  <2>2. CASE j # i
    <3>1. Kept(w[k], j)
      BY <1>7, <1>8
    <3> QED BY <1>5, <1>6, <1>8, <2>2, <3>1 DEF Kept, m, n
  <2> QED BY <2>1, <2>2
<1>11. Coming(e) \subseteq {u.new : u \in e.mine}
  BY <1>8 DEF Coming
<1>12. e.mine \subseteq intents'
  BY <1>3, <1>7, <1>8
<1>13. EditTraced(e, disk.cat, intents', Held')
  BY <1>7, <1>8, <1>9, <1>10, <1>11, <1>12 DEF EditTraced, Drafting, m
<1>14. Turns(k, e)
  BY <1>1, <1>2, TurnsIs DEF Begins
<1> QED BY <1>1, <1>3, <1>13, <1>14, TracedMove

\* A secret is written under a reference an intent announces.
LEMMA SecretNoted ==
  ASSUME CacheInv, SecretsTraced, NEW k \in Worker, w[k].pc = "secret", vault' = [vault EXCEPT ![w[k].new] = Owner(k)],
         UNCHANGED <<disk, backup, purged, intents, loader>>, store'.cat = store.cat
  PROVE  /\ backup' = {} /\ ~disk'.legacy /\ OwnRefs(disk'.cat, DOMAIN disk'.cat) /\ Held' \cap ProfileIds = {}
         /\ \A r \in Held' : Noted(r, disk'.cat, intents')
         /\ OwnRefs(loader'.snap, DOMAIN loader'.snap) /\ Missing(loader', store'.cat, Held')
<1>1. k \in Commands /\ w[k].new \in Refs /\ w[k].new \notin ProfileIds /\ w[k].new # NoRef
  BY OwnerIs, StoreNames
<1>2. Held' = Held \cup {w[k].new}
  BY SafeGrows
<1>3. \E t \in intents : w[k].new \in Candidates(t)
  <2>1. w[k].mine \subseteq intents /\ w[k].new \in {t.new : t \in w[k].mine}
    BY <1>1 DEF SecretsTraced, EditTraced, Drafting, Coming
  <2> QED BY <1>1, <2>1 DEF Candidates
<1>4. \A r \in Held' : Noted(r, disk'.cat, intents')
  BY <1>2, <1>3, AccountedIs DEF Noted
<1>5. \A i \in DOMAIN loader.snap : loader.snap[i].ref # w[k].new
  BY Staging DEF Drafting
<1>6. DOMAIN loader.found \subseteq DOMAIN loader.snap
  BY DEF CacheInv, LoaderSound, Reading
<1>7. Missing(loader', store'.cat, Held')
  BY <1>2, <1>5, <1>6 DEF SecretsTraced, Missing
<1> QED BY <1>1, <1>2, <1>4, <1>7 DEF SecretsTraced

\* A secret is announced before it is written.
LEMMA Traced_WriteSecret ==
  ASSUME CacheInv, SecretsTraced, NEW k \in Worker, WriteSecret(k)
  PROVE  SecretsTraced'
<1> DEFINE e == [w[k] EXCEPT !.pc = "stage", !.new = NoRef]
<1>1. /\ w[k].pc = "secret" /\ vault' = [vault EXCEPT ![w[k].new] = Owner(k)] /\ w' = [w EXCEPT ![k] = e]
      /\ UNCHANGED <<disk, backup, purged, intents, loader, store>>
  BY DEF WriteSecret, records
<1>2. k \in Commands /\ w[k] \in Edits /\ Editing(w[k])
  BY <1>1, Staging DEF Drafting
<1>3. e.pc = "stage" /\ e.cur = w[k].cur /\ e.next = w[k].next /\ e.todo = w[k].todo /\ e.mine = w[k].mine
  BY <1>2 DEF Edits
<1> HIDE DEF e
<1>4. EditTraced(w[k], disk.cat, intents, Held)
  BY <1>2 DEF SecretsTraced
<1>5. \A j \in DOMAIN e.cur : Kept(w[k], j) => Kept(e, j)
  BY <1>3 DEF Kept
<1>6. EditTraced(e, disk.cat, intents, Held')
  BY <1>1, <1>3, <1>4, <1>5 DEF EditTraced, Drafting, Coming
<1>7. Turns(k, e)
  BY <1>1, <1>2, TurnsIs
<1>8. \A l \in Commands : EditTraced(w'[l], disk'.cat, intents', Held')
  BY <1>1, <1>2, <1>6, <1>7, OthersWait, OthersTraced DEF Turns
<1> QED BY <1>1, <1>8, SecretNoted, TracedNew

\* And stays announced when the command fails.
LEMMA Traced_StageFails ==
  ASSUME CacheInv, SecretsTraced, NEW k \in Worker, StageFails(k)
  PROVE  SecretsTraced'
<1>1. /\ Abort(k) /\ UNCHANGED <<disk, backup, purged, intents, loader>> /\ k \in Commands /\ Drafting(w[k])
      /\ vault' = vault \/ (w[k].pc = "secret" /\ vault' = [vault EXCEPT ![w[k].new] = Owner(k)])
  BY StoreNames DEF StageFails, records, Drafting
<1>2. CASE vault' = vault
  BY <1>1, <1>2, SafeRests, TracedAbort
<1>3. CASE w[k].pc = "secret" /\ vault' = [vault EXCEPT ![w[k].new] = Owner(k)]
  <2>1. Turns(k, NoEdit) /\ NoEdit.pc = "idle" /\ store'.cat = store.cat /\ Editing(w[k])
    BY <1>1, TurnsIs, NoEditTyped, AbortIs, Staging DEF Abort, CacheInv
  <2>2. \A l \in Commands : EditTraced(w'[l], disk'.cat, intents', Held')
    BY <1>1, <2>1, OthersWait, OthersTraced, WaitsTraced DEF Turns
  <2> QED BY <1>1, <1>3, <2>1, <2>2, SecretNoted, TracedNew
<1> QED BY <1>1, <1>2, <1>3

\* A commit puts nothing out of sight.
LEMMA CommitNotes ==
  ASSUME CacheInv, SecretsTraced, NEW k \in Worker, w[k].pc = "stage", w[k].todo = NoProfiles, store.cat = disk.cat
  PROVE  /\ \A r \in Held : Noted(r, w[k].next, intents)
         /\ OwnRefs(w[k].next, DOMAIN w[k].next)
<1>1. /\ k \in Commands /\ Follows(disk.cat, w[k].cur) /\ DOMAIN w[k].todo = {} /\ disk.cat \in Metadata
      /\ w[k].cur \in Metadata
  BY Staging, NoProfilesIs, StoreFields DEF Drafting, CacheInv
<1>2. /\ w[k].mine \subseteq intents /\ OwnRefs(w[k].next, DOMAIN w[k].next \ DOMAIN w[k].todo)
      /\ \A i \in DOMAIN w[k].cur : w[k].cur[i].flag # "none" => Kept(w[k], i)
  BY <1>1 DEF SecretsTraced, EditTraced, Drafting
<1>3. \A r \in References(disk.cat) : Noted(r, w[k].next, intents)
  <2> SUFFICES ASSUME NEW r \in References(disk.cat) PROVE Noted(r, w[k].next, intents)
    OBVIOUS
  <2>1. PICK i \in DOMAIN disk.cat : disk.cat[i].flag # "none" /\ r = RefOf(i, disk.cat[i])
    BY DEF References
  <2>2. i \in DOMAIN w[k].cur /\ w[k].cur[i].flag # "none" /\ w[k].cur[i].ref = disk.cat[i].ref
    BY <1>1, <2>1 DEF Follows
  <2>3. r = RefOf(i, w[k].cur[i]) /\ r \in AllRefs
    BY <1>1, <2>1, <2>2, Parts DEF RefOf
  <2>4. CASE \E t \in w[k].mine : t.old = r
    BY <1>2, <2>3, <2>4, StoreNames DEF Noted, Candidates
  <2>5. CASE i \in DOMAIN w[k].next /\ w[k].next[i].flag # "none" /\ w[k].next[i].ref = w[k].cur[i].ref
    BY <2>3, <2>5 DEF Noted, References, RefOf
  <2> QED BY <1>1, <1>2, <2>2, <2>3, <2>4, <2>5 DEF Kept
<1>4. \A r \in Held : Noted(r, w[k].next, intents)
  BY <1>3, AccountedIs DEF Noted
<1> QED BY <1>1, <1>2, <1>4

\* commit_metadata, whether the write succeeds or not.
LEMMA Traced_Commit ==
  ASSUME CacheInv, SecretsTraced, NEW k \in Worker, NEW ok \in BOOLEAN, Commit(k, ok)
  PROVE  SecretsTraced'
<1>1. /\ w[k].pc = "stage" /\ w[k].todo = NoProfiles /\ UNCHANGED <<vault, purged, intents, loader>>
  BY DEF Commit
<1>2. /\ k \in Commands /\ Editing(w[k]) /\ w[k] \in Edits /\ w[k].next \in Metadata /\ store.up
      /\ Remembers(loader.snap, store.cat, w[k].next) /\ store \in Caches
  BY <1>1, Staging, StoreFields DEF Drafting, CacheInv
<1>3. Held' = Held
  BY <1>1, SafeRests
<1>4. CASE store.recovery
  BY <1>1, <1>2, <1>3, <1>4, TracedAbort DEF Commit, records
<1>5. CASE ~store.recovery
  <2>1. store.cat = disk.cat
    BY <1>2, <1>5 DEF CacheInv, CacheCurrent
  <2>2. (disk' = disk \/ (disk'.cat = w[k].next /\ ~disk'.legacy)) /\ backup' = {}
    BY <1>2, <1>5, WrittenIs, NotWrittenIs, NoMigration DEF Commit, CacheInv
  <2>3. ~disk'.legacy /\ OwnRefs(disk'.cat, DOMAIN disk'.cat) /\ \A r \in Held' : Noted(r, disk'.cat, intents')
    <3>1. CASE disk' = disk
      BY <1>1, <1>3, <3>1, AccountedIs DEF SecretsTraced
    <3>2. CASE disk'.cat = w[k].next /\ ~disk'.legacy
      BY <1>1, <1>3, <2>1, <3>2, CommitNotes
    <3> QED BY <2>2, <3>1, <3>2
  <2>4. w'[k].pc \in {"idle", "collect"} /\ (\A l \in Commands : l # k => w'[l] = w[l]) /\ store'.cat \in {store.cat, w[k].next}
    <3>1. CASE ok
      <4> DEFINE e == [w[k] EXCEPT !.pc = "collect"]
      <4>1. w' = [w EXCEPT ![k] = e] /\ e.pc = "collect" /\ store' = [store EXCEPT !.cat = w[k].next]
        BY <1>2, <1>5, <3>1 DEF Commit, Edits
      <4> HIDE DEF e
      <4>2. Turns(k, e)
        BY <1>2, <4>1, TurnsIs
      <4>3. store'.cat = w[k].next
        BY <1>2, <4>1 DEF Caches
      <4> QED BY <4>1, <4>2, <4>3 DEF Turns
    <3>2. CASE ~ok
      <4>1. w' = [w EXCEPT ![k] = NoEdit] /\ NoEdit.pc = "idle" /\ store' = [Unreserved(k, store) EXCEPT !.recovery = TRUE]
        BY <1>5, <3>2, NoEditTyped DEF Commit
      <4>2. Turns(k, NoEdit)
        BY <1>2, <4>1, TurnsIs
      <4>3. store'.cat = store.cat
        BY <1>2, <4>1 DEF Caches, Unreserved
      <4> QED BY <4>1, <4>2, <4>3 DEF Turns
    <3> QED BY <3>1, <3>2
  <2>5. \A l \in Commands : EditTraced(w'[l], disk'.cat, intents', Held')
    BY <1>2, <2>4, OthersWait, OthersTraced, WaitsTraced
  <2>6. Missing(loader', store'.cat, Held')
    BY <1>1, <1>2, <1>3, <2>4, MissingMoves DEF SecretsTraced
  <2>7. Held' \cap ProfileIds = {} /\ OwnRefs(loader'.snap, DOMAIN loader'.snap)
    BY <1>1, <1>3 DEF SecretsTraced
  <2> QED BY <2>2, <2>3, <2>5, <2>6, <2>7, TracedNew
<1> QED BY <1>4, <1>5

\* A collector loads the references in use.
LEMMA Traced_CollectLoads ==
  ASSUME CacheInv, SecretsTraced, NEW k \in Commands, NEW t \in intents, CollectLoads(k, t)
  PROVE  SecretsTraced'
<1>1. UNCHANGED <<disk, backup, vault, purged, intents, loader, store>>
  BY LoadsIs DEF records
<1>2. PICK e : Turns(k, e) /\ e.pc = "gc" /\ e.live = References(disk.cat)
  BY LoadsIs
<1>3. EditTraced(e, disk.cat, intents', Held')
  BY <1>2 DEF EditTraced, Drafting
<1> QED BY <1>1, <1>2, <1>3, SafeRests, TracedMove

\* An intent goes when what it names is deleted or in the metadata.
LEMMA Traced_CollectEnds ==
  ASSUME CacheInv, SecretsTraced, NEW k \in Commands, NEW t \in intents, CollectEnds(k, t)
  PROVE  SecretsTraced'
<1>1. /\ w[k].pc = "gc" /\ (\A r \in Garbage(t, w[k].live) : ~Present(r)) /\ intents \ {t} \subseteq intents'
      /\ w' = [w EXCEPT ![k].pc = "collect", ![k].item = {}, ![k].mine = w[k].mine \ {t}]
      /\ UNCHANGED <<disk, backup, vault, purged, loader, store>>
  BY DEF CollectEnds
<1>2. Held' = Held
  BY <1>1, SafeRests
<1>3. Held \cap w[k].live \subseteq References(disk.cat) /\ backup = {}
  BY <1>1 DEF SecretsTraced, EditTraced
<1>4. \A r \in Held : r \in Candidates(t) => r \in References(disk.cat)
  BY <1>1, <1>3 DEF Garbage, Held
<1>5. \A r \in Held' : Noted(r, disk'.cat, intents')
  BY <1>1, <1>2, <1>4, AccountedIs DEF Noted
<1>6. PICK e \in Edits : w' = [w EXCEPT ![k] = e] /\ e.pc = "collect"
  BY <1>1, NextIntent DEF CacheInv
<1>7. Turns(k, e)
  BY <1>6, TurnsIs
<1>8. \A l \in Commands : EditTraced(w'[l], disk'.cat, intents', Held')
  BY <1>1, <1>6, <1>7, CollectorAlone, OthersTraced, WaitsTraced DEF Turns, Collecting
<1>9. backup' = {} /\ ~disk'.legacy /\ OwnRefs(disk'.cat, DOMAIN disk'.cat) /\ Held' \cap ProfileIds = {}
  BY <1>1, <1>2 DEF SecretsTraced
<1> QED BY <1>1, <1>2, <1>5, <1>8, <1>9, SameMissing, TracedNew

\* A deletion fails and the intent stays.
LEMMA Traced_CollectFails ==
  ASSUME CacheInv, SecretsTraced, NEW k \in Commands, NEW t \in intents, CollectFails(k, t)
  PROVE  SecretsTraced'
<1>1. /\ w[k].pc = "gc" /\ UNCHANGED <<disk, backup, vault, purged, loader, intents>>
      /\ Abort(k) \/ (store' = store /\ w' = [w EXCEPT ![k].pc = "collect", ![k].item = {}, ![k].mine = w[k].mine \ {t}])
  BY DEF CollectFails, records
<1>2. Held' = Held
  BY <1>1, SafeRests
<1>3. CASE Abort(k)
  BY <1>1, <1>2, <1>3, TracedAbort
<1>4. CASE store' = store /\ w' = [w EXCEPT ![k].pc = "collect", ![k].item = {}, ![k].mine = w[k].mine \ {t}]
  <2>1. PICK e \in Edits : w' = [w EXCEPT ![k] = e] /\ e.pc = "collect"
    BY <1>1, <1>4, NextIntent DEF CacheInv
  <2>2. Turns(k, e)
    BY <2>1, TurnsIs
  <2> QED BY <1>1, <1>2, <1>4, <2>1, <2>2, TracedRest
<1> QED BY <1>1, <1>3, <1>4

\* A secret is deleted.
LEMMA Traced_Deletes ==
  ASSUME CacheInv, SecretsTraced, NEW r \in AllRefs, vault' = [vault EXCEPT ![r] = 0],
         UNCHANGED <<disk, backup, loader, intents, store, w>>
  PROVE  SecretsTraced'
<1>1. Held' \subseteq Held
  BY DEF Held, Present, CacheInv, StoreTyped
<1>2. \A l \in Commands : EditTraced(w'[l], disk'.cat, intents', Held')
  BY <1>1, LessTraced DEF SecretsTraced
<1>3. \A s \in Held' : Noted(s, disk'.cat, intents')
  BY <1>1, AccountedIs
<1>4. backup' = {} /\ ~disk'.legacy /\ OwnRefs(disk'.cat, DOMAIN disk'.cat) /\ Held' \cap ProfileIds = {}
  BY <1>1 DEF SecretsTraced
<1> QED BY <1>1, <1>2, <1>3, <1>4, SameMissing, TracedNew

\* Setup collects before anything is published.
LEMMA Traced_Start ==
  ASSUME CacheInv, SecretsTraced, Start
  PROVE  SecretsTraced'
<1> DEFINE e == [NoEdit EXCEPT !.pc = "collect", !.op = "boot", !.mine = intents, !.next = disk.cat, !.live = References(disk.cat)]
<1>1. Boot \in Commands /\ w' = [w EXCEPT ![Boot] = e] /\ UNCHANGED <<disk, backup, vault, purged, loader, intents, store>>
  BY StoreNames DEF Start, records
<1>2. e.pc = "collect"
  BY DEF NoEdit
<1> HIDE DEF e
<1>3. Turns(Boot, e)
  BY <1>1, TurnsIs
<1> QED BY <1>1, <1>2, <1>3, SafeRests, TracedRest

\* The startup thread sets out with what setup loaded.
LEMMA Traced_Started ==
  ASSUME CacheInv, SecretsTraced, Started
  PROVE  SecretsTraced'
<1>1. /\ Boot \in Commands /\ w[Boot].pc = "collect" /\ w' = [w EXCEPT ![Boot] = NoEdit]
      /\ loader' = [pc |-> "read", snap |-> w[Boot].next, found |-> NoProfiles]
      /\ UNCHANGED <<disk, backup, vault, purged, intents>>
  BY StoreNames DEF Started, records
<1>2. w[Boot].op = "boot"
  BY <1>1 DEF CacheInv, Exclusive
<1>3. w[Boot].next = disk.cat
  BY <1>1, <1>2 DEF CacheInv, CommandsSound, Sound, Collecting
<1>4. Turns(Boot, NoEdit) /\ NoEdit.pc = "idle" /\ Held' = Held
  BY <1>1, TurnsIs, NoEditTyped, SafeRests
<1>5. \A l \in Commands : EditTraced(w'[l], disk'.cat, intents', Held')
  BY <1>1, <1>4, WaitsTraced DEF SecretsTraced, Turns
<1>6. \A r \in Held' : Noted(r, disk'.cat, intents')
  BY <1>1, <1>4, AccountedIs
<1>7. OwnRefs(loader'.snap, DOMAIN loader'.snap)
  BY <1>1, <1>3 DEF SecretsTraced
<1>8. Missing(loader', store'.cat, Held')
  BY <1>1, NoProfilesIs DEF Missing
<1>9. backup' = {} /\ ~disk'.legacy /\ OwnRefs(disk'.cat, DOMAIN disk'.cat) /\ Held' \cap ProfileIds = {}
  BY <1>1, <1>4 DEF SecretsTraced
<1> QED BY <1>5, <1>6, <1>7, <1>8, <1>9, TracedNew

\* No startup thread.
LEMMA NoLoaderTraced ==
  ASSUME loader' = NoLoader, NEW cache, NEW held
  PROVE  OwnRefs(loader'.snap, DOMAIN loader'.snap) /\ Missing(loader', cache, held)
BY NoProfilesIs DEF NoLoader, OwnRefs, Missing

\* The intents outlive a crash.
LEMMA Traced_AppCrash ==
  ASSUME CacheInv, SecretsTraced, ~(PowerLoss /\ UnsyncedFault), AppCrash(FALSE) \/ (PowerLoss /\ AppCrash(TRUE))
  PROVE  SecretsTraced'
<1>1. /\ disk' = disk \/ (PowerLoss /\ disk' = durable)
      /\ UNCHANGED <<vault, purged, backup, intents>> /\ w' = [k \in Commands |-> NoEdit] /\ loader' = NoLoader
  BY DEF AppCrash, Stopped
<1>2. disk' = disk
  BY <1>1 DEF CacheInv, CacheCurrent
<1>3. Held' = Held
  BY <1>1, SafeRests
<1>4. \A l \in Commands : EditTraced(w'[l], disk'.cat, intents', Held')
  BY <1>1, NoEditTyped, WaitsTraced
<1>5. \A r \in Held' : Noted(r, disk'.cat, intents')
  BY <1>1, <1>2, <1>3, AccountedIs
<1>6. backup' = {} /\ ~disk'.legacy /\ OwnRefs(disk'.cat, DOMAIN disk'.cat) /\ Held' \cap ProfileIds = {}
  BY <1>1, <1>2, <1>3 DEF SecretsTraced
<1> QED BY <1>1, <1>4, <1>5, <1>6, NoLoaderTraced, TracedNew

\* A secret is missing only if its reference is looked up.
LEMMA Traced_LoaderReads ==
  ASSUME CacheInv, SecretsTraced, NEW i \in ProfileIds, NEW ok \in BOOLEAN, LoaderReads(i, ok)
  PROVE  SecretsTraced'
<1> DEFINE v == IF ~ok THEN "error" ELSE IF Present(AskedFor(i)) THEN AskedFor(i) ELSE NoRef
<1>1. /\ i \in DOMAIN loader.snap \ DOMAIN loader.found /\ loader.snap[i].flag # "none"
      /\ loader' = [loader EXCEPT !.found = Put(loader.found, i, v)]
      /\ UNCHANGED <<disk, backup, vault, purged, intents, store, w>>
  BY DEF LoaderReads, records
<1>2. AskedFor(i) \in AllRefs /\ (i \in DOMAIN store.cat => store.cat[i].ref \in {NoRef, AskedFor(i)})
  BY AskedForIs
<1>3. v \in AllRefs \cup {NoRef, "error"} /\ (v = NoRef => AskedFor(i) \notin Held)
  <2>1. CASE ~ok
    BY <2>1 DEF NoRef
  <2>2. CASE ok
    BY <1>2, <2>2, StoreNames DEF Held
  <2> QED BY <2>1, <2>2
<1> HIDE DEF v
<1>4. loader.found \in Found /\ loader.snap \in Metadata /\ loader \in [pc : {"none", "read"}, snap : Metadata, found : Found]
  BY DEF CacheInv, StoreTyped
<1>5. /\ DOMAIN Put(loader.found, i, v) = DOMAIN loader.found \cup {i} /\ Put(loader.found, i, v)[i] = v
      /\ \A j \in DOMAIN loader.found \ {i} : Put(loader.found, i, v)[j] = loader.found[j]
  <2>1. v \in AllRefs \cup {NoRef, "error"} /\ loader.found \in Found
    BY <1>3, <1>4
  <2> QED BY <2>1, FoundPut
<1>6. loader'.snap = loader.snap /\ loader'.found = Put(loader.found, i, v)
  BY <1>1, <1>4
<1>7. loader.snap[i].ref # NoRef /\ OwnRefs(loader.snap, DOMAIN loader.snap) /\ Missing(loader, store.cat, Held)
  BY <1>1 DEF SecretsTraced, OwnRefs
<1>8. v = NoRef /\ At(store.cat, i, loader.snap) => loader.snap[i].ref \notin Held
  BY <1>2, <1>3, <1>7 DEF At
<1>9. Missing(loader', store'.cat, Held)
  <2> SUFFICES ASSUME NEW j \in DOMAIN loader'.found, loader'.found[j] = NoRef, At(store.cat, j, loader.snap)
               PROVE  loader.snap[j].ref \notin Held
    BY <1>1, <1>6 DEF Missing
  <2>1. CASE j = i
    BY <1>5, <1>6, <1>8, <2>1
  <2>2. CASE j # i
    BY <1>5, <1>6, <1>7, <2>2 DEF Missing
  <2> QED BY <2>1, <2>2
<1>10. disk'.cat = disk.cat /\ backup' = {} /\ ~disk'.legacy /\ OwnRefs(disk'.cat, DOMAIN disk'.cat) /\ Held' = Held
  BY <1>1, SafeRests DEF SecretsTraced
<1> QED BY <1>1, <1>6, <1>7, <1>9, <1>10, TracedFile

\* The startup thread clears only flags of references that hold nothing.
LEMMA Traced_LoaderEnds ==
  ASSUME CacheInv, SecretsTraced, NEW ok \in BOOLEAN, LoaderEnds(ok)
  PROVE  SecretsTraced'
<1>1. w' = w /\ loader' = NoLoader /\ UNCHANGED <<vault, intents, purged>>
  BY LoaderIs
<1>2. Held' = Held
  BY <1>1, SafeRests
<1>3. PICK c, Z : /\ Z \subseteq LoaderTakes /\ c = Marked(Z) /\ backup' \in {backup, MigrationBackup}
                  /\ disk' = disk \/ (store.cat = disk.cat /\ disk'.cat = c /\ ~disk'.legacy)
  BY LoaderIs
<1>4. backup' = {} /\ ~disk.legacy /\ OwnRefs(disk.cat, DOMAIN disk.cat) /\ Missing(loader, store.cat, Held)
  BY <1>3, NoMigration DEF SecretsTraced
<1>5. /\ SameRefs(c, store.cat) /\ (\A i \in DOMAIN c : c[i].flag # "none" => store.cat[i].flag # "none")
      /\ \A i \in DOMAIN c : c[i] = store.cat[i] \/ (i \in Z /\ c[i] = [store.cat[i] EXCEPT !.flag = LoaderFlag(i)])
  BY <1>3, LoaderCat
<1>6. CASE disk' = disk
  BY <1>1, <1>2, <1>4, <1>6, NoLoaderTraced, TracedFile
<1>7. CASE store.cat = disk.cat /\ disk'.cat = c /\ ~disk'.legacy
  <2>1. OwnRefs(disk'.cat, DOMAIN disk'.cat)
    BY <1>4, <1>5, <1>7 DEF OwnRefs, SameRefs
  <2>2. Held \cap References(disk.cat) \subseteq References(c)
    <3> SUFFICES ASSUME NEW r \in Held, r \in References(disk.cat) PROVE r \in References(c)
      OBVIOUS
    <3>1. PICK i \in DOMAIN disk.cat : disk.cat[i].flag # "none" /\ r = RefOf(i, disk.cat[i])
      BY DEF References
    <3>2. i \in DOMAIN c /\ c[i].ref = disk.cat[i].ref /\ disk.cat[i].ref # NoRef /\ r = disk.cat[i].ref
      BY <1>4, <1>5, <1>7, <3>1 DEF SameRefs, OwnRefs, RefOf
    <3>3. c[i].flag # "none"
      <4> SUFFICES ASSUME c[i].flag = "none" PROVE FALSE
        OBVIOUS
      <4>1. i \in Z /\ c[i] = [store.cat[i] EXCEPT !.flag = LoaderFlag(i)]
        BY <1>5, <1>7, <3>1, <3>2
      <4>2. store.cat[i] \in Entry
        BY <1>7, <3>1, StoreFields, Parts DEF CacheInv
      <4>3. LoaderFlag(i) = "none"
        BY <4>1, <4>2 DEF Entry
      <4>4. i \in DOMAIN loader.found /\ StillCurrent(i) /\ loader.found[i] = NoRef
        BY <1>3, <4>1, <4>3 DEF LoaderTakes, LoaderFlag
      <4>5. At(store.cat, i, loader.snap)
        BY <4>4 DEF StillCurrent, At
      <4>6. store.cat[i].ref \notin Held
        BY <1>4, <4>4, <4>5 DEF Missing, At
      <4> QED BY <1>7, <3>2, <4>6
    <3> QED BY <3>2, <3>3 DEF References, RefOf
  <2> QED BY <1>1, <1>2, <1>4, <1>7, <2>1, <2>2, NoLoaderTraced, TracedFile
<1> QED BY <1>3, <1>6, <1>7

\* clear_missing_stored_password gives up a reference that holds nothing.
LEMMA Traced_ClearMissing ==
  ASSUME CacheInv, SecretsTraced, NEW i \in ProfileIds, NEW ok \in BOOLEAN, ClearMissing(i, ok)
  PROVE  SecretsTraced'
<1>1. /\ w' = w /\ UNCHANGED <<vault, intents, purged, loader>> /\ ~Present(conn[i].ref) /\ i \in DOMAIN store.cat
      /\ Current(i, conn[i].ref, store.cat) /\ conn[i].ref \in AllRefs /\ store.cat \in Metadata
  BY MissingIs, StoreFields DEF CacheInv
<1>2. Held' = Held
  BY <1>1, SafeRests
<1>3. PICK c : /\ c = [store.cat EXCEPT ![i].flag = "none"] /\ store'.cat \in {store.cat, c}
               /\ backup' \in {backup, MigrationBackup}
               /\ disk' = disk \/ (store.cat = disk.cat /\ store.cat[i].flag = "stored" /\ disk'.cat = c /\ ~disk'.legacy)
  BY MissingIs
<1>4. /\ backup' = {} /\ ~disk.legacy /\ OwnRefs(disk.cat, DOMAIN disk.cat) /\ Missing(loader, store.cat, Held)
      /\ OwnRefs(loader'.snap, DOMAIN loader'.snap)
  BY <1>1, <1>3, NoMigration DEF SecretsTraced
<1>5. c \in Metadata /\ SameRefs(c, store.cat) /\ c[i].flag = "none" /\ \A j \in DOMAIN store.cat : j # i => c[j] = store.cat[j]
  BY <1>1, <1>3, Cleared
<1>6. Missing(loader', store'.cat, Held)
  <2>1. \A j \in DOMAIN loader.found : At(store'.cat, j, loader.snap) => At(store.cat, j, loader.snap)
    BY <1>3, <1>5 DEF At, SameRefs
  <2> QED BY <1>1, <1>4, <2>1, StillMissing
<1>7. CASE disk' = disk
  BY <1>1, <1>2, <1>4, <1>6, <1>7, TracedFile
<1>8. CASE store.cat = disk.cat /\ store.cat[i].flag = "stored" /\ disk'.cat = c /\ ~disk'.legacy
  <2>1. OwnRefs(disk'.cat, DOMAIN disk'.cat)
    BY <1>4, <1>5, <1>8 DEF OwnRefs, SameRefs
  <2>2. store.cat[i].ref = conn[i].ref /\ store.cat[i].ref # NoRef /\ store.cat[i].ref \notin Held
    BY <1>1, <1>4, <1>8 DEF Current, OwnRefs, Held
  <2>3. Held \cap References(disk.cat) \subseteq References(c)
    <3> SUFFICES ASSUME NEW r \in Held, r \in References(disk.cat) PROVE r \in References(c)
      OBVIOUS
    <3>1. PICK j \in DOMAIN disk.cat : disk.cat[j].flag # "none" /\ r = RefOf(j, disk.cat[j])
      BY DEF References
    <3>2. j # i
      BY <1>8, <2>2, <3>1 DEF RefOf
    <3>3. j \in DOMAIN c /\ c[j] = disk.cat[j]
      BY <1>5, <1>8, <3>1, <3>2 DEF SameRefs
    <3> QED BY <3>1, <3>3 DEF References
  <2> QED BY <1>1, <1>2, <1>4, <1>6, <1>8, <2>1, <2>3, TracedFile
<1> QED BY <1>3, <1>7, <1>8

\* The threads outside the transaction.
LEMMA Traced_Threads ==
  ASSUME CacheInv, SecretsTraced, Threads
  PROVE  SecretsTraced'
<1>1. CASE \E i \in ProfileIds : StartConnection(i) \/ Resolve(i) \/ ConnectionEnds(i)
  <2>1. UNCHANGED <<disk, backup, vault, purged, intents, loader, w>>
    BY <1>1 DEF StartConnection, Resolve, ConnectionEnds, records
  <2>2. store'.cat = store.cat
    BY <1>1, StoreFields DEF StartConnection, Resolve, ConnectionEnds, CacheInv, Caches
  <2>3. Held' = Held /\ backup' = {} /\ ~disk'.legacy /\ OwnRefs(disk'.cat, DOMAIN disk'.cat)
    BY <2>1, SafeRests DEF SecretsTraced
  <2> QED BY <2>1, <2>2, <2>3, SameMissing, TracedFile
<1> QED BY <1>1, Traced_LoaderReads, Traced_LoaderEnds, Traced_ClearMissing DEF Threads

\* Every step.
LEMMA TracedSteps ==
  ASSUME CacheInv, CacheInv', SecretsTraced, ~(PowerLoss /\ UnsyncedFault), StoreNext
  PROVE  SecretsTraced'
<1>1. CASE \E k \in Worker : Edit(k)
  <2>1. PICK k \in Worker : Edit(k)
    BY <1>1
  <2>2. CASE \/ \E i \in ProfileIds, op \in {"save", "delete"} : Reserve(k, op, i)
             \/ \E op \in {"restore", "recover"} : ReserveAll(k, op)
             \/ RefuseEdit(k) \/ Publish(k) \/ \E ok \in BOOLEAN : Recover(k, ok)
    BY <2>2, Traced_Quiet
  <2>3. CASE Open(k) \/ Recovered(k)
    BY <2>3, Traced_Open, Traced_Recovered
  <2>4. CASE Plans(k)
    BY <2>4, Traced_Plan
  <2>5. CASE \E i \in ProfileIds : BeginIntent(k, i)
    BY <2>5, Traced_BeginIntent
  <2>6. CASE WriteSecret(k) \/ StageFails(k)
    BY <2>6, Traced_WriteSecret, Traced_StageFails
  <2>7. CASE \E ok \in BOOLEAN : Commit(k, ok)
    BY <2>7, Traced_Commit
  <2> QED BY <2>1, <2>2, <2>3, <2>4, <2>5, <2>6, <2>7 DEF Edit, Plans
<1>2. CASE \E k \in Commands : Collector(k)
  <2>1. PICK k \in Commands, t \in intents :
          \/ CollectLoads(k, t) \/ CollectEnds(k, t) \/ CollectFails(k, t)
          \/ \E r \in AllRefs : CollectDeletes(k, t, r)
    BY <1>2 DEF Collector
  <2>2. CASE \E r \in AllRefs : CollectDeletes(k, t, r)
    BY <2>2, Traced_Deletes DEF CollectDeletes, records, memory
  <2> QED BY <2>1, <2>2, Traced_CollectLoads, Traced_CollectEnds, Traced_CollectFails
<1>3. CASE Threads
  BY <1>3, Traced_Threads
<1>4. CASE Start \/ Started
  BY <1>4, Traced_Start, Traced_Started
<1>5. CASE AppCrash(FALSE) \/ (PowerLoss /\ AppCrash(TRUE))
  BY <1>5, Traced_AppCrash
<1>6. CASE \E r \in AllRefs : Purge(r)
  BY <1>6, Traced_Deletes DEF Purge, records, memory
<1> QED BY <1>1, <1>2, <1>3, <1>4, <1>5, <1>6 DEF StoreNext

\* No step.
LEMMA TracedRests ==
  ASSUME SecretsTraced, UNCHANGED storeVars
  PROVE  SecretsTraced'
<1>1. UNCHANGED <<disk, backup, vault, purged, intents, loader, store, w>>
  BY DEF storeVars, records, memory
<1>2. Held' = Held /\ backup' = {} /\ ~disk'.legacy /\ OwnRefs(disk'.cat, DOMAIN disk'.cat)
  BY <1>1, SafeRests DEF SecretsTraced
<1> QED BY <1>1, <1>2, SameMissing, TracedFile

\* A repository with no schema-0 file behind it.
LEMMA TracedStarts ==
  ASSUME StoreInit, Legacy = {}
  PROVE  SecretsTraced
<1>1. /\ disk = [cat |-> [i \in {} |-> [rev |-> 0, ref |-> NoRef, flag |-> "unknown", life |-> 1]], legacy |-> FALSE]
      /\ vault = [r \in AllRefs |-> 0] /\ w = [k \in Commands |-> NoEdit] /\ loader = NoLoader /\ backup = {}
  BY DEF StoreInit
<1>2. Held = {}
  BY <1>1 DEF Held, Present
<1>3. DOMAIN disk.cat = {} /\ ~disk.legacy
  BY <1>1
<1>4. \A k \in Commands : EditTraced(w[k], disk.cat, intents, Held)
  BY <1>1, NoEditTyped, WaitsTraced
<1>5. OwnRefs(loader.snap, DOMAIN loader.snap) /\ Missing(loader, store.cat, Held)
  BY <1>1, NoProfilesIs DEF NoLoader, OwnRefs, Missing
<1>6. SecretAccountedFor
  BY <1>1 DEF SecretAccountedFor, Present
<1> QED BY <1>1, <1>2, <1>3, <1>4, <1>5, <1>6 DEF SecretsTraced, OwnRefs

\* What a reader of the metadata sees.
LEMMA KeptIs ==
  ASSUME CacheInv, SecretsBacked
  PROVE  StoreTypeOK /\ LiveCredentialKept
<1>1. StoreTypeOK
  BY StoreFields, EditTyped DEF CacheInv, StoreTyped, StoreTypeOK, Intents
<1>2. LiveCredentialKept
  BY DEF SecretsBacked, Backed, Safe, Held, LiveCredentialKept
<1> QED BY <1>1, <1>2

\* LiveCredentialKept for any profiles, references, threads, crashes and failures, schema-0
\* repositories included: credential_gc deletes no secret that the metadata says is stored.
THEOREM LiveCredentialsKept ==
  ASSUME ~(PowerLoss /\ UnsyncedFault) PROVE StoreSpec => []LiveCredentialKept
<1>1. CacheInv /\ SecretsBacked => LiveCredentialKept
  BY KeptIs
<1> QED BY <1>1, RepositoryCorrect, CredentialsBacked, PTL

\* CredentialsKept for any profiles, threads, crashes and failures of a repository without a
\* schema-0 past: moreover no secret is lost track of, by a command, by its failure, by a crash
\* between its steps, by the collectors or by the threads that clear flags (commit_referenced,
\* credential_gc, load_startup_credentials, clear_missing_stored_password).
THEOREM CredentialsAccounted ==
  ASSUME ~(PowerLoss /\ UnsyncedFault), Legacy = {} PROVE StoreSpec => []CredentialsKept
<1>1. CacheInv /\ CacheInv' /\ SecretsTraced /\ [StoreNext]_storeVars => SecretsTraced'
  BY TracedSteps, TracedRests
<1>2. CacheInv /\ SecretsBacked /\ SecretsTraced => CredentialsKept
  BY KeptIs DEF CredentialsKept, SecretsTraced
<1> QED BY <1>1, <1>2, TracedStarts, RepositoryCorrect, CredentialsBacked, PTL DEF StoreSpec
=============================================================================

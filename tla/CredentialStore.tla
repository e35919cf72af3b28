-------------------------- MODULE CredentialStore --------------------------
(***************************************************************************)
(* The desktop's profile repository: a metadata file, a credential store   *)
(* outside it (keychain or credentials.json) and a journal of intents that *)
(* ties the two together, under crashes at every step, failed writes and   *)
(* a loss of power that undoes what was never flushed.                     *)
(*                                                                         *)
(* A credential reference is "credential:<uuid>", or for profiles written  *)
(* by older versions the profile's own id.  A secret is modelled by the    *)
(* life of the profile it was saved for: a profile deleted and created     *)
(* again under the same id begins another life.                            *)
(***************************************************************************)
EXTENDS Naturals, FiniteSets

CONSTANTS
  ProfileIds,   \* profile ids, each also its own legacy reference
  Refs,         \* bound: references that can be alive together
  Worker,       \* threads that run repository commands
  Legacy,       \* ids in the schema-0 file the program starts with
  MaxStoreRevision, \* bound: saves of a profile
  MaxLife,      \* bound: times a profile id is created
  MaxAppCrash,  \* bound: crashes
  MaxStoreFault, \* bound: failed writes, reads and deletions
  UnsyncedFault,\* can the flush after a rename fail?
  PowerLoss     \* can a crash also lose what was not flushed?

ASSUME StoreAssumption ==
  /\ ProfileIds \cap Refs = {} /\ Legacy \subseteq ProfileIds
  /\ {"no reference", "typed", "error"} \cap (ProfileIds \cup Refs) = {}
  /\ {"nobody", "boot"} \cap Worker = {}
  /\ {MaxStoreRevision, MaxLife, MaxAppCrash, MaxStoreFault} \subseteq Nat /\ MaxLife > 0
  /\ {UnsyncedFault, PowerLoss} \subseteq BOOLEAN

VARIABLES
  disk,      \* the metadata file as a reader sees it
  durable,   \* the metadata file as a loss of power leaves it
  backup,    \* references in .profiles-schema0-backup.json
  vault,     \* the credential store: reference -> life, absent: no entry
  intents,   \* the .credential-intent files
  store,     \* RuntimeStore
  w,         \* the repository commands in progress
  lock,      \* CREDENTIAL_TRANSACTIONS
  loader,    \* the thread of load_startup_credentials
  conn,      \* starting_profiles and their threads
  life,      \* lives each id has had
  purged,    \* references deleted by someone else
  appCrashes, storeFaults

memory == <<store, w, lock, loader, conn>>
records == <<disk, durable, backup>>
tallies == <<appCrashes, storeFaults>>
storeVars == <<records, vault, intents, memory, life, purged, tallies>>

NoRef == "no reference"
Typed == "typed"
Unlocked == "nobody"
Boot == "boot"
AllRefs == ProfileIds \cup Refs
Commands == Worker \cup {Boot}

\* A catalogue: profiles by id; flag is passwordStored, "unknown" if not recorded.
Entry == [rev : 0..MaxStoreRevision, ref : Refs \cup {NoRef},
          flag : {"stored", "none", "unknown"}, life : 1..MaxLife]
Metadata == UNION {[S -> Entry] : S \in SUBSET ProfileIds}

RefOf(i, p) == IF p.ref = NoRef THEN i ELSE p.ref

\* credential_references.
References(c) == {RefOf(i, c[i]) : i \in {j \in DOMAIN c : c[j].flag # "none"}}

Put(c, i, p) == [j \in DOMAIN c \cup {i} |-> IF j = i THEN p ELSE c[j]]
Drop(c, i) == [j \in DOMAIN c \ {i} |-> c[j]]

Present(r) == vault[r] # 0

\* allocate_reference: a uuid nobody mentions.
Mentioned(r) ==
  \/ Present(r) \/ r \in backup
  \/ \E c \in {disk.cat, durable.cat, store.cat, loader.snap}
              \cup {w[k].cur : k \in Commands} \cup {w[k].next : k \in Commands} :
       \E i \in DOMAIN c : c[i].ref = r
  \/ \E t \in intents : r \in {t.old, t.new}
  \/ \E i \in ProfileIds : r \in {store.session[i], conn[i].ref}
  \/ \E i \in DOMAIN loader.found : loader.found[i] = r

Fresh == {r \in Refs : ~Mentioned(r)}

NoProfiles == [i \in {} |-> 0]
NoEdit == [pc |-> "idle", op |-> "none", id |-> NoRef, cur |-> NoProfiles, next |-> NoProfiles,
           todo |-> NoProfiles, new |-> NoRef, mine |-> {}, item |-> {}, live |-> {},
           typed |-> "keep"]
NoLoader == [pc |-> "none", snap |-> NoProfiles, found |-> NoProfiles]
NoConn == [pc |-> "none", ref |-> NoRef]

\* RuntimeStore::default: the process has just started.
NewStore(c, up) ==
  [cat |-> c, up |-> up, recovery |-> FALSE, restoring |-> FALSE, mutating |-> {},
   session |-> [i \in ProfileIds |-> NoRef]]

Fault == storeFaults < MaxStoreFault /\ storeFaults' = storeFaults + 1

-----------------------------------------------------------------------------
\* Writing the metadata

\* persist_profiles keeps the old file of a schema-0 repository once.
MigrationBackup == IF disk.legacy /\ backup = {} THEN References(disk.cat) ELSE backup

\* commit_profile_metadata with persist_profiles: the write succeeds, fails
\* before the rename, or fails to flush after it.
Written(c) ==
  /\ disk' = [cat |-> c, legacy |-> FALSE] /\ durable' = disk'
  /\ backup' = MigrationBackup
  /\ UNCHANGED storeFaults

NotWritten(c) ==
  /\ Fault
  /\ backup' \in {backup, MigrationBackup}
  /\ \/ UNCHANGED <<disk, durable>>
     \/ /\ UnsyncedFault /\ backup' = MigrationBackup
        /\ disk' = [cat |-> c, legacy |-> FALSE] /\ UNCHANGED durable

-----------------------------------------------------------------------------
\* Commands: reservations

Ready == store.up /\ ~store.recovery

Busy(i) == i \in store.mutating \/ conn[i].pc # "none"

\* reserve_profile_mutation, for save and delete.
Reserve(k, op, i) ==
  /\ w[k].pc = "idle" /\ Ready /\ ~store.restoring /\ ~Busy(i)
  /\ op = "delete" => i \in DOMAIN store.cat
  /\ store' = [store EXCEPT !.mutating = @ \cup {i}]
  /\ w' = [w EXCEPT ![k] = [NoEdit EXCEPT !.pc = "reserved", !.op = op, !.id = i]]
  /\ UNCHANGED <<records, vault, intents, lock, loader, conn, life, purged, tallies>>

\* repository_is_idle.
RepositoryIdle == ~store.restoring /\ \A i \in ProfileIds : ~Busy(i)

\* restore, and recover_profile_repository, which also serves a repository
\* that is not ready.
ReserveAll(k, op) ==
  /\ w[k].pc = "idle" /\ store.up /\ RepositoryIdle
  /\ op = "restore" => Ready
  /\ store' = [store EXCEPT !.restoring = TRUE]
  /\ w' = [w EXCEPT ![k] = [NoEdit EXCEPT !.pc = "reserved", !.op = op]]
  /\ UNCHANGED <<records, vault, intents, lock, loader, conn, life, purged, tallies>>

\* release_profile_mutation, RestoreGuard and the end of the transaction.
Unreserved(k, s) ==
  [s EXCEPT !.mutating = @ \ {w[k].id}, !.restoring = @ /\ w[k].op \notin {"restore", "recover"}]

Abort(k) ==
  /\ w' = [w EXCEPT ![k] = NoEdit]
  /\ lock' = IF lock = k THEN Unlocked ELSE lock
  /\ store' = Unreserved(k, store)

\* DesktopRepository::new.
Open(k) ==
  /\ w[k].pc = "reserved" /\ w[k].op # "recover" /\ lock = Unlocked
  /\ IF Ready
     THEN /\ lock' = k /\ UNCHANGED store
          /\ w' = [w EXCEPT ![k].pc = "plan", ![k].cur = store.cat]
     ELSE Abort(k)
  /\ UNCHANGED <<records, vault, intents, loader, conn, life, purged, tallies>>

-----------------------------------------------------------------------------
\* Commands: what they change

\* has_stored_secret refreshes the snapshot's flag from the credential store.
Refreshed(c, i) ==
  [c EXCEPT ![i].flag = IF Present(RefOf(i, c[i])) THEN "stored" ELSE "none"]

Stage(k, cur, next, todo, typed) ==
  /\ w' = [w EXCEPT ![k].pc = "stage", ![k].cur = cur, ![k].next = next, ![k].todo = todo,
                    ![k].typed = typed]
  /\ UNCHANGED <<records, vault, intents, store, lock, loader, conn, purged, tallies>>

RevisionOf(c, i) == IF i \in DOMAIN c THEN c[i].rev ELSE 0

\* A new profile begins a life when its save is staged.
Saved(c, i) ==
  IF i \in DOMAIN c THEN [c[i] EXCEPT !.rev = @ + 1]
  ELSE [rev |-> 1, ref |-> NoRef, flag |-> "none", life |-> life[i] + 1]

\* profile_service::save with RequireWhenRemembering; password: one was given.
PlanSave(k, password, remember) ==
  LET i == w[k].id
      c == IF remember /\ ~password THEN Refreshed(w[k].cur, i) ELSE w[k].cur
      p == Saved(c, i)
  IN  /\ w[k].pc = "plan" /\ w[k].op = "save"
      /\ RevisionOf(w[k].cur, i) < MaxStoreRevision
      /\ i \in DOMAIN w[k].cur \/ life[i] < MaxLife
      /\ remember /\ ~password => i \in DOMAIN w[k].cur /\ c[i].flag = "stored"
      /\ life' = [life EXCEPT ![i] = p.life]
      /\ IF remember
         THEN Stage(k, c, Put(c, i, p), IF password THEN [j \in {i} |-> "replace"] ELSE NoProfiles,
                    "forget")
         ELSE Stage(k, c, Put(c, i, [p EXCEPT !.ref = NoRef]), [j \in {i} |-> "remove"],
                    IF password THEN "typed" ELSE "keep")

\* profile_service::delete.
PlanDelete(k) ==
  LET i == w[k].id
  IN  /\ w[k].pc = "plan" /\ w[k].op = "delete" /\ i \in DOMAIN w[k].cur
      /\ Stage(k, w[k].cur, Drop(w[k].cur, i), [j \in {i} |-> "remove"], "forget")
      /\ UNCHANGED life

\* The restored profiles: their revisions pass the current ones.  A profile
\* that was deleted comes back to the life it had.
RestoredFrom(c, S) ==
  [i \in S |-> [rev |-> RevisionOf(c, i) + 1, ref |-> NoRef, flag |-> "none",
                life |-> IF i \in DOMAIN c THEN c[i].life
                         ELSE IF life[i] = 0 THEN 1 ELSE life[i]]]

\* capture: every secret the metadata names can be read.
Capturable == \A r \in References(store.cat) : Present(r)

\* write_restore_backup captures, then profile_service::restore
\* replaces the catalogue; S and T: the archive's profiles and secrets.
PlanRestore(k, S, T) ==
  LET c == w[k].cur
  IN  /\ w[k].pc = "plan" /\ w[k].op = "restore"
      /\ Capturable
      /\ \A i \in S : RevisionOf(c, i) < MaxStoreRevision
      /\ life' = [i \in ProfileIds |-> IF i \in S THEN RestoredFrom(c, S)[i].life ELSE life[i]]
      /\ Stage(k, c, RestoredFrom(c, S),
               [i \in DOMAIN c \cup S |-> IF i \in T THEN "replace" ELSE "remove"], "forget")

\* Validation, a revision conflict, a missing password, a credential that
\* cannot be read: the command ends before anything is written.
RefuseEdit(k) ==
  /\ w[k].pc = "plan"
  /\ Abort(k)
  /\ UNCHANGED <<records, vault, intents, loader, conn, life, purged, tallies>>

-----------------------------------------------------------------------------
\* commit_referenced

\* The reference an intent gives up: only one that may have a secret.
OldRef(k, i) ==
  IF i \in DOMAIN w[k].cur /\ w[k].cur[i].flag # "none" THEN RefOf(i, w[k].cur[i]) ELSE NoRef

\* The new reference is in the metadata before its secret is written.
Referenced(c, i, r) ==
  IF i \in DOMAIN c
  THEN [c EXCEPT ![i].ref = r, ![i].flag = IF r = NoRef THEN "none" ELSE "stored"]
  ELSE c

\* begin: the intent, and with its directory the metadata, is durable before the
\* secret it announces.
BeginIntent(k, i) ==
  /\ w[k].pc = "stage" /\ i \in DOMAIN w[k].todo
  /\ w[k].todo[i] = "replace" => Fresh # {}
  /\ LET r == IF w[k].todo[i] = "replace" THEN CHOOSE x \in Refs : x \in Fresh ELSE NoRef
         t == [id |-> i, old |-> OldRef(k, i), new |-> r]
     IN  /\ intents' = intents \cup {t}
         /\ w' = [w EXCEPT ![k].pc = IF r = NoRef THEN "stage" ELSE "secret",
                           ![k].todo = Drop(@, i), ![k].new = r,
                           ![k].next = Referenced(@, i, r), ![k].mine = @ \cup {t}]
  /\ durable' = disk
  /\ UNCHANGED <<disk, backup, vault, store, lock, loader, conn, life, purged, tallies>>

\* The life the new secret is saved for.
Owner(k) ==
  LET i == CHOOSE j \in DOMAIN w[k].next : w[k].next[j].ref = w[k].new
  IN  w[k].next[i].life

\* write_secret, or a failure of begin or of the store that may have happened
\* after the entry was written; then the intents stay for recovery.
WriteSecret(k) ==
  /\ w[k].pc = "secret"
  /\ vault' = [vault EXCEPT ![w[k].new] = Owner(k)]
  /\ w' = [w EXCEPT ![k].pc = "stage", ![k].new = NoRef]
  /\ UNCHANGED <<records, intents, store, lock, loader, conn, life, purged, tallies>>

StageFails(k) ==
  /\ w[k].pc \in {"stage", "secret"} /\ Fault
  /\ w[k].pc = "stage" => w[k].todo # NoProfiles
  /\ \/ UNCHANGED vault
     \/ w[k].pc = "secret" /\ vault' = [vault EXCEPT ![w[k].new] = Owner(k)]
  /\ Abort(k)
  /\ UNCHANGED <<records, intents, loader, conn, life, purged, appCrashes>>

\* Mutant: a failed metadata write is only reported.
CommitForgives(k, ok) ==
  /\ w[k].pc = "stage" /\ w[k].todo = NoProfiles
  /\ IF ok
     THEN /\ Written(w[k].next)
          /\ store' = [store EXCEPT !.cat = w[k].next]
          /\ w' = [w EXCEPT ![k].pc = "collect"] /\ UNCHANGED lock
     ELSE NotWritten(w[k].next) /\ Abort(k)
  /\ UNCHANGED <<vault, intents, loader, conn, life, purged, appCrashes>>

\* commit_metadata: a failed write makes the repository wait for recovery.
\* A recovery cannot run here: it needs an idle repository.
Commit(k, ok) ==
  /\ w[k].pc = "stage" /\ w[k].todo = NoProfiles
  /\ IF store.recovery
     THEN ~ok /\ Abort(k) /\ UNCHANGED <<records, storeFaults>>
     ELSE IF ok
     THEN /\ Written(w[k].next)
          /\ store' = [store EXCEPT !.cat = w[k].next]
          /\ w' = [w EXCEPT ![k].pc = "collect"] /\ UNCHANGED lock
     ELSE /\ NotWritten(w[k].next)
          /\ w' = [w EXCEPT ![k] = NoEdit] /\ lock' = Unlocked
          /\ store' = [Unreserved(k, store) EXCEPT !.recovery = TRUE]
  /\ UNCHANGED <<vault, intents, loader, conn, life, purged, appCrashes>>

-----------------------------------------------------------------------------
\* Collecting the references an intent names

Candidates(t) == {t.old, t.new} \ {NoRef}

\* Mutant: the live references are not spared.
GarbageAnyway(t, live) == Candidates(t) \ backup

\* credential_gc.
Garbage(t, live) == (Candidates(t) \ live) \ backup
Deferred(t, live) == (Candidates(t) \ live) \cap backup # {}

\* A commit loads the metadata for each of its intents; recovery loads it once.
CollectLoads(k, t) ==
  /\ w[k].pc = "collect" /\ t \in w[k].mine
  /\ w' = [w EXCEPT ![k].pc = "gc", ![k].item = {t},
                    ![k].live = IF w[k].op \in {"recover", "boot"} THEN @
                                ELSE References(disk.cat)]
  /\ UNCHANGED <<records, vault, intents, store, lock, loader, conn, life, purged, tallies>>

CollectDeletes(k, t, r) ==
  /\ w[k].pc = "gc" /\ w[k].item = {t} /\ r \in Garbage(t, w[k].live) /\ Present(r)
  /\ vault' = [vault EXCEPT ![r] = 0]
  /\ UNCHANGED <<records, intents, memory, life, purged, tallies>>

\* Deleting an entry that is not there succeeds; the intent goes last, and its
\* directory, which is that of the metadata, is flushed.
CollectEnds(k, t) ==
  /\ w[k].pc = "gc" /\ w[k].item = {t} /\ \A r \in Garbage(t, w[k].live) : ~Present(r)
  /\ IF Deferred(t, w[k].live) THEN UNCHANGED <<intents, durable>>
     ELSE intents' = intents \ {t} /\ durable' = disk
  /\ w' = [w EXCEPT ![k].pc = "collect", ![k].item = {}, ![k].mine = @ \ {t}]
  /\ UNCHANGED <<disk, backup, vault, store, lock, loader, conn, life, purged, tallies>>

\* A deletion fails: a commit leaves this intent, recovery gives up.
CollectFails(k, t) ==
  /\ w[k].pc = "gc" /\ w[k].item = {t} /\ Fault
  /\ IF w[k].op \in {"recover", "boot"}
     THEN Abort(k)
     ELSE /\ w' = [w EXCEPT ![k].pc = "collect", ![k].item = {}, ![k].mine = @ \ {t}]
          /\ UNCHANGED <<lock, store>>
  /\ UNCHANGED <<records, vault, intents, loader, conn, life, purged, appCrashes>>

\* The session passwords follow the durable commit.
Publish(k) ==
  /\ w[k].pc = "collect" /\ w[k].mine = {} /\ w[k].op \notin {"recover", "boot"}
  /\ LET session == [i \in ProfileIds |->
           IF w[k].op = "restore" THEN NoRef
           ELSE IF i # w[k].id \/ w[k].typed = "keep" THEN store.session[i]
           ELSE IF w[k].typed = "typed" THEN Typed ELSE NoRef]
     IN  store' = [Unreserved(k, store) EXCEPT !.session = session]
  /\ w' = [w EXCEPT ![k] = NoEdit] /\ lock' = Unlocked
  /\ UNCHANGED <<records, vault, intents, loader, conn, life, purged, tallies>>

-----------------------------------------------------------------------------
\* Recovery

\* recover_profile_repository: load, flush, collect with what was loaded.
Recover(k, ok) ==
  /\ w[k].pc = "reserved" /\ w[k].op = "recover" /\ lock = Unlocked
  /\ IF ok
     THEN /\ durable' = disk /\ lock' = k /\ UNCHANGED <<store, storeFaults>>
          /\ w' = [w EXCEPT ![k].pc = "collect", ![k].mine = intents, ![k].next = disk.cat,
                            ![k].live = References(disk.cat)]
     ELSE Fault /\ Abort(k) /\ UNCHANGED durable
  /\ UNCHANGED <<disk, backup, vault, intents, loader, conn, life, purged, appCrashes>>

\* apply_recovered_profiles.
Recovered(k) ==
  /\ w[k].pc = "collect" /\ w[k].mine = {} /\ w[k].op = "recover"
  /\ store' = NewStore(w[k].next, TRUE)
  /\ w' = [w EXCEPT ![k] = NoEdit] /\ lock' = Unlocked
  /\ UNCHANGED <<records, vault, intents, loader, conn, life, purged, tallies>>

\* The process starts: the metadata is loaded and the intents are collected.
Start ==
  /\ ~store.up /\ w[Boot].pc = "idle"
  /\ w' = [w EXCEPT ![Boot] = [NoEdit EXCEPT !.pc = "collect", !.op = "boot", !.mine = intents,
                                           !.next = disk.cat, !.live = References(disk.cat)]]
  /\ UNCHANGED <<records, vault, intents, store, lock, loader, conn, life, purged, tallies>>

\* The rest of setup: the cache, and the thread that loads the credentials.
Started ==
  /\ w[Boot].pc = "collect" /\ w[Boot].mine = {}
  /\ store' = NewStore(w[Boot].next, TRUE)
  /\ loader' = [pc |-> "read", snap |-> w[Boot].next, found |-> NoProfiles]
  /\ w' = [w EXCEPT ![Boot] = NoEdit]
  /\ UNCHANGED <<records, vault, intents, lock, conn, life, purged, tallies>>

Stopped ==
  /\ store' = NewStore(NoProfiles, FALSE) /\ lock' = Unlocked /\ loader' = NoLoader
  /\ w' = [k \in Commands |-> NoEdit] /\ conn' = [i \in ProfileIds |-> NoConn]

\* The process, or the machine, stops at any point.
AppCrash(power) ==
  /\ appCrashes < MaxAppCrash /\ appCrashes' = appCrashes + 1
  /\ store.up \/ w[Boot].pc # "idle"
  /\ disk' = IF power THEN durable ELSE disk
  /\ Stopped
  /\ UNCHANGED <<durable, backup, vault, intents, life, purged, storeFaults>>

-----------------------------------------------------------------------------
\* Threads that read credentials outside the transaction

\* What read_usable_stored_password is asked for: the reference now in memory.
AskedFor(i) == IF i \in DOMAIN store.cat THEN RefOf(i, store.cat[i]) ELSE i

\* load_startup_credentials reads for profiles whose flag is unknown, and for
\* stored ones that connect at start (any of them may).
LoaderReads(i, ok) ==
  /\ loader.pc = "read" /\ i \in DOMAIN loader.snap \ DOMAIN loader.found
  /\ loader.snap[i].flag # "none"
  /\ LET r == AskedFor(i)
         found == IF ~ok THEN "error" ELSE IF Present(r) THEN r ELSE NoRef
     IN  loader' = [loader EXCEPT !.found = Put(@, i, found)]
  /\ IF ok THEN UNCHANGED storeFaults ELSE Fault
  /\ UNCHANGED <<records, vault, intents, store, w, lock, conn, life, purged, appCrashes>>

\* Mutant: any profile that still exists takes the result.
StillExists(i) == i \in DOMAIN store.cat

\* startup_credential_result_is_current.
StillCurrent(i) ==
  /\ i \in DOMAIN store.cat
  /\ store.cat[i].rev = loader.snap[i].rev /\ store.cat[i].ref = loader.snap[i].ref
  /\ store.cat[i].flag = loader.snap[i].flag

LoaderFlag(i) ==
  IF loader.found[i] = "error" THEN "stored"
  ELSE IF loader.found[i] = NoRef THEN "none" ELSE "stored"

LoaderTakes == {i \in DOMAIN loader.found : StillCurrent(i)}

\* The results that are still current are kept, and the flags written back.
LoaderEnds(ok) ==
  LET S == IF store.recovery \/ store.restoring THEN {} ELSE LoaderTakes
      c == [i \in DOMAIN store.cat |->
              IF i \in S THEN [store.cat[i] EXCEPT !.flag = LoaderFlag(i)] ELSE store.cat[i]]
      session == [i \in ProfileIds |-> IF i \in S /\ loader.found[i] \notin {"error", NoRef}
                                THEN loader.found[i] ELSE store.session[i]]
  IN  /\ loader.pc = "read"
      /\ \A i \in DOMAIN loader.snap \ DOMAIN loader.found : loader.snap[i].flag # "unknown"
      /\ loader' = NoLoader
      /\ store' = [store EXCEPT !.cat = c, !.session = session, !.recovery = @ \/ ~ok]
      /\ IF c = store.cat THEN ok /\ UNCHANGED <<records, storeFaults>>
         ELSE IF ok THEN Written(c) ELSE NotWritten(c)
      /\ UNCHANGED <<vault, intents, w, lock, conn, life, purged, appCrashes>>

\* start_profile_impl: admission, and the password of the session if there is one.
StartConnection(i) ==
  /\ Ready /\ ~store.restoring /\ ~Busy(i) /\ i \in DOMAIN store.cat
  /\ LET s == store.session[i]
     IN  conn' = [conn EXCEPT ![i] =
           IF s # NoRef THEN [pc |-> "ready", ref |-> s]
           ELSE IF store.cat[i].flag = "stored" THEN [pc |-> "read", ref |-> AskedFor(i)]
           ELSE NoConn]
  /\ UNCHANGED <<records, vault, intents, store, w, lock, loader, life, purged, tallies>>

\* resolve_profile_password: the secret is read and kept for the session.
Resolve(i) ==
  /\ conn[i].pc = "read" /\ Present(conn[i].ref)
  /\ IF i \in DOMAIN store.cat /\ store.cat[i].flag = "stored"
     THEN /\ store' = [store EXCEPT !.session[i] = conn[i].ref]
          /\ conn' = [conn EXCEPT ![i].pc = "ready"]
     ELSE conn' = [conn EXCEPT ![i] = NoConn] /\ UNCHANGED store
  /\ UNCHANGED <<records, vault, intents, w, lock, loader, life, purged, tallies>>

\* clear_missing_stored_password.
ClearMissing(i, ok) ==
  /\ conn[i].pc = "read" /\ ~Present(conn[i].ref)
  /\ conn' = [conn EXCEPT ![i] = NoConn]
  /\ IF i \notin DOMAIN store.cat \/ store.cat[i].flag # "stored" \/ store.recovery
     THEN ok /\ UNCHANGED <<records, store, storeFaults>>
     ELSE LET c == [store.cat EXCEPT ![i].flag = "none"]
          IN  IF ok THEN Written(c) /\ store' = [store EXCEPT !.cat = c, !.session[i] = NoRef]
              ELSE NotWritten(c) /\ store' = [store EXCEPT !.recovery = TRUE]
  /\ UNCHANGED <<vault, intents, w, lock, loader, life, purged, appCrashes>>

\* The attempt ends (or fails to spawn); its own life is DesktopManager's.
ConnectionEnds(i) ==
  /\ conn[i].pc = "ready"
  /\ conn' = [conn EXCEPT ![i] = NoConn]
  /\ UNCHANGED <<records, vault, intents, store, w, lock, loader, life, purged, tallies>>

\* Somebody deletes an entry of the keychain by hand.
Purge(r) ==
  /\ Present(r) /\ Fault
  /\ vault' = [vault EXCEPT ![r] = 0] /\ purged' = purged \cup {r}
  /\ UNCHANGED <<records, intents, memory, life, appCrashes>>

-----------------------------------------------------------------------------
StoreInit ==
  \E S \in {{}, Legacy} :
    /\ disk = [cat |-> [i \in S |-> [rev |-> 0, ref |-> NoRef, flag |-> "unknown", life |-> 1]],
               legacy |-> S # {}]
    /\ durable = disk /\ backup = {} /\ intents = {} /\ purged = {}
    /\ vault = [r \in AllRefs |-> IF r \in S THEN 1 ELSE 0]
    /\ store = NewStore(NoProfiles, FALSE) /\ w = [k \in Commands |-> NoEdit] /\ lock = Unlocked
    /\ loader = NoLoader /\ conn = [i \in ProfileIds |-> NoConn]
    /\ life = [i \in ProfileIds |-> IF i \in S THEN 1 ELSE 0]
    /\ appCrashes = 0 /\ storeFaults = 0

Edit(k) ==
  \/ \E i \in ProfileIds, op \in {"save", "delete"} : Reserve(k, op, i)
  \/ \E op \in {"restore", "recover"} : ReserveAll(k, op)
  \/ Open(k)
  \/ \E password, remember \in BOOLEAN : PlanSave(k, password, remember)
  \/ PlanDelete(k)
  \/ \E S \in SUBSET ProfileIds : \E T \in SUBSET S : PlanRestore(k, S, T)
  \/ RefuseEdit(k)
  \/ \E i \in ProfileIds : BeginIntent(k, i)
  \/ WriteSecret(k) \/ StageFails(k)
  \/ \E ok \in BOOLEAN : Commit(k, ok) \/ Recover(k, ok)
  \/ Publish(k) \/ Recovered(k)

Collector(k) ==
  \E t \in intents :
    \/ CollectLoads(k, t) \/ CollectEnds(k, t) \/ CollectFails(k, t)
    \/ \E r \in AllRefs : CollectDeletes(k, t, r)

Threads ==
  \/ \E i \in ProfileIds, ok \in BOOLEAN : LoaderReads(i, ok) \/ ClearMissing(i, ok)
  \/ \E ok \in BOOLEAN : LoaderEnds(ok)
  \/ \E i \in ProfileIds : StartConnection(i) \/ Resolve(i) \/ ConnectionEnds(i)

StoreNext ==
  \/ \E k \in Worker : Edit(k)
  \/ \E k \in Commands : Collector(k)
  \/ Start \/ Started \/ Threads
  \/ AppCrash(FALSE) \/ (PowerLoss /\ AppCrash(TRUE))
  \/ \E r \in AllRefs : Purge(r)

StoreSpec == StoreInit /\ [][StoreNext]_storeVars

-----------------------------------------------------------------------------
\* Properties

StoreTypeOK ==
  /\ disk \in [cat : Metadata, legacy : BOOLEAN] /\ durable \in [cat : Metadata, legacy : BOOLEAN]
  /\ backup \subseteq AllRefs /\ vault \in [AllRefs -> 0..MaxLife] /\ purged \subseteq AllRefs
  /\ store.cat \in Metadata /\ store.mutating \subseteq ProfileIds
  /\ lock \in Worker \cup {Unlocked} /\ life \in [ProfileIds -> 0..MaxLife]
  /\ \A k \in Commands : w[k].mine \subseteq
       [id : ProfileIds, old : AllRefs \cup {NoRef}, new : Refs \cup {NoRef}]

\* The metadata never says that a password is stored under a reference whose
\* secret the manager itself has deleted or never wrote.
LiveCredentialKept ==
  \A i \in DOMAIN disk.cat :
    disk.cat[i].flag = "stored" =>
      Present(RefOf(i, disk.cat[i])) \/ RefOf(i, disk.cat[i]) \in purged

\* Every secret in the credential store can be found again: the metadata, the
\* migration backup or a recovery intent names its reference.
SecretAccountedFor ==
  \A r \in AllRefs : Present(r) =>
    \/ r \in References(disk.cat) \/ r \in backup
    \/ \E t \in intents : r \in Candidates(t)

\* A connection never uses a password read from a credential that a finished
\* save, delete or restore has replaced; giving up "remember" without a new
\* password replaces nothing, and the session keeps the password.  (For a
\* credential with a reference of its own: a legacy reference can come back.)
UsesCurrentSecret ==
  \A i \in ProfileIds :
    conn[i].pc = "ready" /\ conn[i].ref \in AllRefs =>
      /\ i \in DOMAIN store.cat
      /\ store.cat[i].flag = "stored" => store.cat[i].ref \in {NoRef, conn[i].ref}

\* No writer puts an older revision of a profile over a newer one: after a write
\* that failed but is visible, the stale cache is never written back.  Only a
\* loss of power takes a revision back, to the last one that was flushed.
NoRevisionLost ==
  [][\/ appCrashes' > appCrashes /\ disk' = durable
     \/ \A i \in DOMAIN disk.cat \cap DOMAIN disk'.cat :
          disk'.cat[i].rev >= disk.cat[i].rev]_storeVars

\* "A v1 password-less create must not adopt an orphan whose key happens to
\* match the client-selected profile ID" (profile_service.rs): the secret a
\* profile uses was saved for this profile, not for a deleted one of its id.
NoOrphanAdopted ==
  \A i \in DOMAIN disk.cat :
    disk.cat[i].flag = "stored" /\ Present(RefOf(i, disk.cat[i])) =>
      vault[RefOf(i, disk.cat[i])] = disk.cat[i].life

\* Metadata, credential store and intents account for one another at every step:
\* no credential in use is collected, and none is lost track of.
CredentialsKept == StoreTypeOK /\ LiveCredentialKept /\ SecretAccountedFor
-----------------------------------------------------------------------------
\* The inductive strengthening

Intents == [id : ProfileIds, old : AllRefs \cup {NoRef}, new : Refs \cup {NoRef}]
Todos == UNION {[S -> {"replace", "remove"}] : S \in SUBSET ProfileIds}
Found == UNION {[S -> AllRefs \cup {NoRef, "error"}] : S \in SUBSET ProfileIds}
Edits ==
  [pc : {"idle", "reserved", "plan", "stage", "secret", "collect", "gc"},
   op : {"none", "save", "delete", "restore", "recover", "boot"}, id : ProfileIds \cup {NoRef},
   cur : Metadata, next : Metadata, todo : Todos, new : Refs \cup {NoRef}, mine : SUBSET Intents,
   item : SUBSET Intents, live : SUBSET AllRefs, typed : {"keep", "forget", "typed"}]
Caches ==
  [cat : Metadata, up : BOOLEAN, recovery : BOOLEAN, restoring : BOOLEAN,
   mutating : SUBSET ProfileIds, session : [ProfileIds -> AllRefs \cup {NoRef, Typed}]]

StoreTyped ==
  /\ disk \in [cat : Metadata, legacy : BOOLEAN] /\ durable \in [cat : Metadata, legacy : BOOLEAN]
  /\ backup \subseteq AllRefs /\ vault \in [AllRefs -> 0..MaxLife] /\ purged \subseteq AllRefs
  /\ intents \subseteq Intents /\ store \in Caches /\ w \in [Commands -> Edits]
  /\ lock \in Worker \cup {Unlocked} /\ life \in [ProfileIds -> 0..MaxLife]
  /\ loader \in [pc : {"none", "read"}, snap : Metadata, found : Found]
  /\ conn \in [ProfileIds -> [pc : {"none", "read", "ready"}, ref : AllRefs \cup {NoRef, Typed}]]
  /\ appCrashes \in Nat /\ storeFaults \in Nat

\* One command at a time edits, and what it edits nobody else edits or uses.
Whole == {"restore", "recover"}
Editing(e) == e.pc \notin {"idle", "reserved"}
Drafting(e) == e.pc \in {"stage", "secret"}
Collecting(e) == e.pc \in {"collect", "gc"}

Exclusive ==
  /\ ~store.up => /\ loader = NoLoader /\ \A k \in Worker : w[k].pc = "idle"
                  /\ \A i \in ProfileIds : conn[i].pc = "none"
  /\ w[Boot].pc # "idle" => ~store.up /\ w[Boot].op = "boot" /\ Collecting(w[Boot])
  /\ \A k \in Worker :
       /\ Editing(w[k]) <=> lock = k
       /\ w[k].pc # "idle" => w[k].op \in {"save", "delete"} \cup Whole
       /\ w[k].pc # "idle" /\ w[k].op \in {"save", "delete"} => w[k].id \in store.mutating
       /\ w[k].pc # "idle" /\ w[k].op \in Whole => store.restoring
       /\ Editing(w[k]) /\ w[k].op = "recover" => Collecting(w[k])
  /\ \A k, l \in Worker :
       k # l /\ w[k].pc # "idle" /\ w[l].pc # "idle" => w[k].op \notin Whole /\ w[k].id # w[l].id
  /\ store.restoring => store.mutating = {} /\ \A i \in ProfileIds : conn[i].pc = "none"
  /\ \A i \in store.mutating : conn[i].pc = "none"

\* The cache is the file, unless a write failed.
CacheCurrent ==
  /\ store.up /\ ~store.recovery => store.cat = disk.cat
  /\ ~UnsyncedFault => durable = disk

\* While a command works on a copy of the cache, only flags change in the cache.
Follows(cache, c) ==
  /\ DOMAIN cache = DOMAIN c
  /\ \A i \in DOMAIN c : /\ cache[i].rev = c[i].rev /\ cache[i].ref = c[i].ref
                         /\ cache[i].flag # "none" => c[i].flag # "none"

\* What is staged differs from that copy only where the command says.
Draft(e) ==
  /\ \A i \in DOMAIN e.cur \cap DOMAIN e.next : e.next[i].rev >= e.cur[i].rev
  /\ e.op \in {"save", "delete"} =>
       /\ DOMAIN e.todo \subseteq {e.id}
       /\ \A i \in ProfileIds \ {e.id} : /\ i \in DOMAIN e.next <=> i \in DOMAIN e.cur
                                         /\ i \in DOMAIN e.next => e.next[i] = e.cur[i]
  /\ \A i \in DOMAIN e.todo : e.todo[i] = "replace" => i \in DOMAIN e.next
  /\ e.typed = "keep" =>
       /\ e.op = "save" /\ e.id \in DOMAIN e.next /\ e.next[e.id].ref = NoRef
       /\ \A i \in DOMAIN e.todo : e.todo[i] = "remove"
  /\ e.pc = "secret" => e.new \in Refs /\ \E i \in DOMAIN e.next : e.next[i].ref = e.new

\* Where c names the reference the startup thread set out with, so does the cache.
At(c, i, snap) == i \in DOMAIN c /\ c[i].ref = snap[i].ref
Remembers(snap, cache, c) ==
  \A i \in DOMAIN snap : snap[i].ref # NoRef /\ At(c, i, snap) => At(cache, i, snap)

\* A command against the file, the cache and the catalogue of the startup thread.
Sound(e, file, cache, snap) ==
  /\ Collecting(e) /\ e.op \in {"recover", "boot"} => e.next = file /\ e.live = References(file)
  /\ e.pc = "plan" \/ Drafting(e) => Follows(cache, e.cur)
  /\ Drafting(e) => Draft(e) /\ Remembers(snap, cache, e.next)
  /\ e.pc = "secret" => \A i \in DOMAIN snap : snap[i].ref # e.new
  /\ Collecting(e) /\ e.op \in {"save", "delete"} /\ e.typed = "keep" =>
       e.id \in DOMAIN cache /\ cache[e.id].ref = NoRef
CommandsSound == \A k \in Commands : Sound(w[k], disk.cat, store.cat, loader.snap)

\* What the startup thread found is of the reference it set out with, or that one is gone.
Reading(ld, cache) ==
  /\ DOMAIN ld.found \subseteq DOMAIN ld.snap
  /\ \A i \in DOMAIN ld.found : ld.snap[i].flag # "none"
  /\ \A i \in DOMAIN ld.found :
       ld.snap[i].ref # NoRef /\ ld.found[i] \in AllRefs \ {ld.snap[i].ref} => ~At(cache, i, ld.snap)
LoaderSound == Reading(loader, store.cat) /\ Remembers(loader.snap, store.cat, disk.cat)

\* Passwords of the session, and of connections, are of the reference in memory.
Changes(e, i) ==
  Collecting(e) /\ (e.op = "restore" \/ (e.op \in {"save", "delete"} /\ e.id = i))
Current(i, r, cache) == r \in AllRefs => i \in DOMAIN cache /\ cache[i].ref \in {NoRef, r}
SessionsSound ==
  \A i \in ProfileIds :
    /\ (\A k \in Worker : ~Changes(w[k], i)) => Current(i, store.session[i], store.cat)
    /\ conn[i].pc # "none" => i \in DOMAIN store.cat /\ Current(i, conn[i].ref, store.cat)
    /\ conn[i].pc = "read" => conn[i].ref \in AllRefs

\* Everything but the secrets themselves.
CacheInv ==
  StoreTyped /\ Exclusive /\ CacheCurrent /\ CommandsSound /\ LoaderSound /\ SessionsSound

\* The metadata, and what will become of it, names no secret that was collected.
Held == {r \in AllRefs : Present(r)}
Safe == Held \cup purged
Backed(c, S, safe) == \A i \in S : c[i].flag # "none" => RefOf(i, c[i]) \in safe
Coming(e) == IF e.pc = "secret" THEN {e.new} ELSE {}
EditBacked(e, file, safe) ==
  /\ e.pc = "plan" \/ Drafting(e) => Backed(e.cur, DOMAIN e.cur, safe)
  /\ Drafting(e) => Backed(e.next, DOMAIN e.next \ DOMAIN e.todo, safe \cup Coming(e))
  /\ e.pc = "gc" => References(file) \subseteq e.live
SecretsBacked ==
  /\ Backed(disk.cat, DOMAIN disk.cat, Safe)
  /\ \A k \in Commands : EditBacked(w[k], disk.cat, Safe)

\* Without references of older versions: what the metadata gives up is in an intent.
OwnRefs(c, S) == \A i \in S : c[i].flag # "none" => c[i].ref # NoRef
Kept(e, i) ==
  \/ i \in DOMAIN e.todo \/ \E t \in e.mine : t.old = RefOf(i, e.cur[i])
  \/ i \in DOMAIN e.next /\ e.next[i].flag # "none" /\ e.next[i].ref = e.cur[i].ref
EditTraced(e, file, ts, held) ==
  /\ e.pc \in {"reserved", "plan"} => e.mine = {}
  /\ e.pc = "plan" \/ Drafting(e) => OwnRefs(e.cur, DOMAIN e.cur)
  /\ Drafting(e) => /\ e.mine \subseteq ts /\ Coming(e) \subseteq {t.new : t \in e.mine}
                    /\ \A i \in DOMAIN e.cur : e.cur[i].flag # "none" => Kept(e, i)
                    /\ OwnRefs(e.next, DOMAIN e.next \ DOMAIN e.todo)
  /\ e.pc = "gc" => held \cap e.live \subseteq References(file)
Missing(ld, cache, held) ==
  \A i \in DOMAIN ld.found : ld.found[i] = NoRef /\ At(cache, i, ld.snap) => ld.snap[i].ref \notin held
SecretsTraced ==
  /\ SecretAccountedFor
  /\ backup = {} /\ ~disk.legacy /\ OwnRefs(disk.cat, DOMAIN disk.cat) /\ Held \cap ProfileIds = {}
  /\ \A k \in Commands : EditTraced(w[k], disk.cat, intents, Held)
  /\ OwnRefs(loader.snap, DOMAIN loader.snap) /\ Missing(loader, store.cat, Held)
=============================================================================

------------------------------ MODULE MCProfiles ------------------------------
(* The two profile repositories, which share no state: in a behaviour either   *)
(* the headless one (ProfileStorage) or the desktop's (CredentialStore) moves. *)
EXTENDS ProfileStorage, CredentialStore, TLC

VARIABLE part

MCInit ==
  /\ part \in {"threads", "command line", "windows", "long lives"}
  /\ Init /\ StoreInit
  /\ Idle.id \in DOMAIN profiles
  /\ part \in {"threads", "command line"} => ~disk.legacy
  /\ part \in {"windows", "long lives"} => ~legacy

MCNext ==
  \/ part \in {"threads", "command line"} /\ Next /\ UNCHANGED <<part, storeVars>>
  \/ part \in {"windows", "long lives"} /\ StoreNext /\ UNCHANGED <<part, vars>>

MCSpec == MCInit /\ [][MCNext]_<<part, vars, storeVars>>

Moving(f, idle) == {k \in DOMAIN f : f[k] # idle}
OneWorker == CHOOSE k \in Worker : TRUE

\* The request threads are interchangeable.
Interchangeable == Permutations(Thread)

\* Bounds.  The headless repository: two threads with two profiles, or
\* with one and a crash or a failure; or one thread beside the command line
\* with one profile and a crash or a failure.
\* The desktop's: two commands with two profiles, or one command at a
\* time with longer histories of one profile and a crash, which may lose power,
\* or a failure (then both, and no further command); its second life has one
\* revision.
Bounds ==
  CASE part = "threads" ->
         /\ Moving(p, Idle) \subseteq Thread
         /\ crashes + faults <= (IF \A k \in Proc : p[k].id = Idle.id THEN 1 ELSE 0)
    [] part = "command line" ->
         /\ Cardinality(Moving(p, Idle) \cap Thread) <= 1
         /\ \A k \in Proc : p[k].id = Idle.id
         /\ crashes + faults <= 1
    [] part = "windows" ->
         /\ appCrashes = 0 /\ storeFaults = 0 /\ \A i \in ProfileIds : life[i] <= 1
         /\ \A k \in Worker : \A i \in DOMAIN w[k].next : w[k].next[i].rev <= 1
    [] part = "long lives" ->
         /\ Moving(w, NoEdit) \subseteq {OneWorker, Boot}
         /\ \A k \in Worker : w[k].id \in {NoRef, "a"} /\ life["b"] = 0
         /\ appCrashes + storeFaults <= 1 \/ Moving(w, NoEdit) \subseteq {Boot}
         /\ life["a"] <= 1 \/ \A i \in DOMAIN store.cat : store.cat[i].rev <= 1
=============================================================================

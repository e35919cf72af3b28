-------------------------- MODULE NetworkTxnProofs --------------------------
(***************************************************************************)
(* For any number of attempts, resources and plans: the journal never      *)
(* claims somebody else's resource (OwnershipSound), every resource this   *)
(* program created is accounted for in the journal (NoOrphan), and leases  *)
(* are honoured (LeasesSafe), as long as nobody else alters the gateway    *)
(* routes it created (Hostile = FALSE).  For the Linux worker, whose plans *)
(* have no gateway routes, on any machine: journal, bindings and machine   *)
(* agree (JournalAnchored) and jobs answer the truth (JobsHonest).         *)
(***************************************************************************)
EXTENDS NetworkWorker, TLAPS

USE DEF Absent

-----------------------------------------------------------------------------
\* What the operators on snapshots do, field by field.

\* Snapshots t and s differ only in phases and in uncertain flags that t has set.
Reflagged(s, t) ==
  \A a \in Attempt :
    /\ t.records[a].entries = s.records[a].entries
    /\ t.records[a].plan = s.records[a].plan
    /\ s.records[a].uncertain => t.records[a].uncertain
    /\ t.records[a].phase = "Active" => s.records[a].phase = "Active"

\* t is s with another phase and flag in the record of attempt a.
Rephased(s, t, a, ph, u) ==
  /\ \A b \in Attempt \ {a} : t.records[b] = s.records[b]
  /\ \A b \in Attempt : /\ t.records[b].plan = s.records[b].plan
                        /\ t.records[b].entries = s.records[b].entries
  /\ t.records[a].phase = ph /\ t.records[a].uncertain = u
  /\ t.records[a] # NoRecord

\* t is s with fingerprint id in entry k of attempt a.
Refingerprinted(s, t, a, k, id) ==
  \A b \in Attempt :
    /\ (t.records[b] = NoRecord) = (s.records[b] = NoRecord)
    /\ b # a => t.records[b] = s.records[b]
    /\ DOMAIN t.records[b].entries = DOMAIN s.records[b].entries
    /\ Len(t.records[b].entries) = Len(s.records[b].entries)
    /\ t.records[b].plan = s.records[b].plan
    /\ t.records[b].phase = s.records[b].phase
    /\ t.records[b].uncertain = s.records[b].uncertain
    /\ \A i \in DOMAIN s.records[b].entries :
         /\ t.records[b].entries[i].borrowed = s.records[b].entries[i].borrowed
         /\ t.records[b].entries[i].fingerprint =
              IF b = a /\ i = k THEN id ELSE s.records[b].entries[i].fingerprint

\* A record is never mistaken for its absence: NoRecord has no phase of Phase.
LEMMA NoRecordFacts ==
  /\ NoRecord \notin Record
  /\ NoRecord.entries = <<>>
  /\ NoRecord.uncertain = FALSE
  /\ NoRecord.phase = "None"
BY DEF NoRecord, Record, Phase

\* Only a gateway exception route is shareable, and only with its equal.
LEMMA ShareableFacts ==
  \A x, y : Shareable(x, y) <=> x = y /\ Shareable(x, x)
BY DEF Shareable

\* The fields of a record in a well-formed snapshot (what FileJournal::load checks).
LEMMA RecordFacts ==
  ASSUME NEW s, WellFormed(s), NEW a \in Attempt
  PROVE  /\ s.records[a] # NoRecord =>
              /\ s.records[a] \in Record
              /\ s.records[a].entries \in Seq(Entry)
              /\ s.records[a].plan \in Plan
              /\ s.records[a].plan.request.resources \in Seq(Resource)
              /\ DOMAIN s.records[a].entries = DOMAIN s.records[a].plan.request.resources
         /\ s.records[a] = NoRecord => DOMAIN s.records[a].entries = {}
         /\ \A i \in DOMAIN s.records[a].entries :
              /\ s.records[a] # NoRecord
              /\ s.records[a].entries[i] \in Entry
              /\ ResourceOf(s.records[a], i) \in Resource
<1>1. CASE s.records[a] = NoRecord
  BY <1>1, NoRecordFacts
<1>2. CASE s.records[a] # NoRecord
  <2>1. s.records[a] \in Record
    BY <1>2 DEF WellFormed
  <2>2. /\ s.records[a].entries \in Seq(Entry) /\ s.records[a].plan \in Plan
    BY <2>1 DEF Record
  <2>3. s.records[a].plan.request.resources \in Seq(Resource)
    BY <2>2, RequestAssumption DEF Plan
  <2>4. Len(s.records[a].entries) = Len(s.records[a].plan.request.resources)
    BY <1>2 DEF WellFormed
  <2>5. DOMAIN s.records[a].entries = DOMAIN s.records[a].plan.request.resources
    BY <2>2, <2>3, <2>4
  <2> QED BY <1>2, <2>1, <2>2, <2>3, <2>5 DEF ResourceOf
<1> QED BY <1>1, <1>2

\* SetPhase changes the phase and the flag of one record and nothing else.
LEMMA SetPhaseFacts ==
  ASSUME NEW s, WellFormed(s), NEW a \in Attempt, s.records[a] # NoRecord,
         NEW ph \in Phase, NEW u \in BOOLEAN, NEW t, t = SetPhase(s, a, ph, u)
  PROVE  WellFormed(t) /\ Rephased(s, t, a, ph, u)
<1>1. s.records[a] \in Record
  BY DEF WellFormed
<1> DEFINE rec == [s.records[a] EXCEPT !.phase = ph, !.uncertain = u]
<1>2. /\ rec \in Record
      /\ rec.plan = s.records[a].plan /\ rec.entries = s.records[a].entries
      /\ rec.phase = ph /\ rec.uncertain = u
  BY <1>1 DEF Record
<1>3. t = [s EXCEPT !.records = [s.records EXCEPT ![a] = rec]]
  BY DEF SetPhase, WellFormed
<1>4. t.records = [s.records EXCEPT ![a] = rec] /\ t.epoch = s.epoch
  BY <1>3 DEF WellFormed
<1>5. t.records[a] = rec /\ \A b \in Attempt \ {a} : t.records[b] = s.records[b]
  BY <1>4 DEF WellFormed
<1>6. rec # NoRecord
  BY <1>2, NoRecordFacts
<1> HIDE DEF rec
<1>7. t \in [epoch : 0..MaxEpoch, records : [Attempt -> Record \cup {NoRecord}]]
  BY <1>2, <1>3, <1>4 DEF WellFormed
<1> QED
  BY <1>2, <1>5, <1>6, <1>7 DEF WellFormed, Rephased

\* SetFingerprint changes one fingerprint of one record and nothing else.
LEMMA SetFingerprintFacts ==
  ASSUME NEW s, WellFormed(s), NEW a \in Attempt,
         NEW k \in DOMAIN s.records[a].entries, NEW id \in Identity,
         NEW t, t = SetFingerprint(s, a, k, id)
  PROVE  WellFormed(t) /\ Refingerprinted(s, t, a, k, id)
<1> DEFINE old == s.records[a].entries
           new == [old EXCEPT ![k].fingerprint = id]
           rec == [s.records[a] EXCEPT !.entries = new]
<1>1. /\ s.records[a] \in Record /\ old \in Seq(Entry) /\ s.records[a] # NoRecord
      /\ old[k] \in Entry
  BY RecordFacts
<1>2. /\ new \in Seq(Entry) /\ DOMAIN new = DOMAIN old /\ Len(new) = Len(old)
      /\ \A i \in DOMAIN old : /\ new[i].borrowed = old[i].borrowed
                               /\ new[i].fingerprint = IF i = k THEN id ELSE old[i].fingerprint
  <2>1. [old[k] EXCEPT !.fingerprint = id] \in Entry
    BY <1>1 DEF Entry
  <2>2. new = [old EXCEPT ![k] = [old[k] EXCEPT !.fingerprint = id]]
    BY <1>1
  <2>3. new \in Seq(Entry) /\ DOMAIN new = DOMAIN old /\ Len(new) = Len(old)
    BY <1>1, <2>1, <2>2
  <2>4. \A i \in DOMAIN old : new[i] = IF i = k THEN [old[k] EXCEPT !.fingerprint = id] ELSE old[i]
    BY <1>1, <2>2
  <2>5. [old[k] EXCEPT !.fingerprint = id].borrowed = old[k].borrowed
        /\ [old[k] EXCEPT !.fingerprint = id].fingerprint = id
    BY <1>1 DEF Entry
  <2> QED BY <2>3, <2>4, <2>5
<1> HIDE DEF new
<1>3. /\ rec \in Record /\ rec.entries = new
      /\ rec.plan = s.records[a].plan /\ rec.phase = s.records[a].phase
      /\ rec.uncertain = s.records[a].uncertain
  BY <1>1, <1>2 DEF Record
<1>4. t = [s EXCEPT !.records = [s.records EXCEPT ![a] = rec]]
  BY DEF SetFingerprint, WellFormed, new
<1>5. t.records = [s.records EXCEPT ![a] = rec] /\ t.epoch = s.epoch
  BY <1>4 DEF WellFormed
<1>6. t.records[a] = rec /\ \A b \in Attempt \ {a} : t.records[b] = s.records[b]
  BY <1>5 DEF WellFormed
<1>7. rec # NoRecord
  BY <1>3, NoRecordFacts
<1> HIDE DEF rec, old
<1>8. t \in [epoch : 0..MaxEpoch, records : [Attempt -> Record \cup {NoRecord}]]
  BY <1>3, <1>4, <1>5 DEF WellFormed
<1>9. WellFormed(t)
  BY <1>1, <1>2, <1>3, <1>6, <1>8 DEF WellFormed, old
<1> QED
  BY <1>1, <1>2, <1>3, <1>6, <1>7, <1>9, SMTT(30) DEF old, Refingerprinted

\* SetRecord replaces one record and nothing else.
LEMMA SetRecordFacts ==
  ASSUME NEW s, WellFormed(s), NEW a \in Attempt, NEW rec,
         \/ rec = NoRecord
         \/ /\ rec \in Record /\ rec.plan.request.attempt = a
            /\ Len(rec.entries) = Len(rec.plan.request.resources),
         NEW t, t = SetRecord(s, a, rec)
  PROVE  /\ WellFormed(t)
         /\ t.records[a] = rec
         /\ \A b \in Attempt \ {a} : t.records[b] = s.records[b]
<1>1. t = [s EXCEPT !.records = [s.records EXCEPT ![a] = rec]]
  BY DEF SetRecord, WellFormed
<1>2. t.records = [s.records EXCEPT ![a] = rec] /\ t.epoch = s.epoch
  BY <1>1 DEF WellFormed
<1>3. t.records[a] = rec /\ \A b \in Attempt \ {a} : t.records[b] = s.records[b]
  BY <1>2 DEF WellFormed
<1>4. t \in [epoch : 0..MaxEpoch, records : [Attempt -> Record \cup {NoRecord}]]
  BY <1>1, <1>2 DEF WellFormed
<1> QED BY <1>3, <1>4 DEF WellFormed

\* Loading marks interrupted applies and changes nothing else (from_snapshot).
LEMMA FromSnapshotFacts ==
  ASSUME NEW s, WellFormed(s), NEW t, t = FromSnapshot(s)
  PROVE  WellFormed(t) /\ Reflagged(s, t)
<1> DEFINE Load(rec) == IF rec.phase = "Applying"
                        THEN [rec EXCEPT !.phase = "RecoveryRequired", !.uncertain = TRUE]
                        ELSE rec
<1>1. t.records = [a \in Attempt |-> Load(s.records[a])] /\ t.epoch = s.epoch
  BY DEF FromSnapshot, WellFormed
<1>2. ASSUME NEW a \in Attempt
      PROVE  /\ Load(s.records[a]) \in Record \cup {NoRecord}
             /\ Load(s.records[a]).entries = s.records[a].entries
             /\ Load(s.records[a]).plan = s.records[a].plan
             /\ s.records[a].uncertain => Load(s.records[a]).uncertain
             /\ Load(s.records[a]).phase = "Active" => s.records[a].phase = "Active"
             /\ Load(s.records[a]) # NoRecord => s.records[a] # NoRecord
  <2>1. s.records[a] \in Record \cup {NoRecord}
    BY DEF WellFormed
  <2>2. CASE s.records[a] = NoRecord
    BY <2>2, NoRecordFacts
  <2>3. CASE s.records[a] \in Record
    BY <2>3, NoRecordFacts DEF Record, Phase
  <2> QED BY <2>1, <2>2, <2>3
<1> HIDE DEF Load
<1>3. \A a \in Attempt : t.records[a] = Load(s.records[a])
  BY <1>1
<1>4. t \in [epoch : 0..MaxEpoch, records : [Attempt -> Record \cup {NoRecord}]]
  <2>1. t = [s EXCEPT !.records = [a \in Attempt |-> Load(s.records[a])]]
    BY DEF FromSnapshot, WellFormed, Load
  <2> QED BY <1>2, <2>1 DEF WellFormed
<1>5. WellFormed(t)
  BY <1>2, <1>3, <1>4 DEF WellFormed
<1> QED BY <1>2, <1>3, <1>5 DEF Reflagged

\* A network change marks every record and starts a new epoch.
LEMMA InvalidatedFacts ==
  ASSUME NEW s, WellFormed(s), NEW t, t = Invalidated(s)
  PROVE  WellFormed(t) /\ Reflagged(s, t)
<1> DEFINE Void(rec) == IF rec = NoRecord THEN NoRecord
                        ELSE [rec EXCEPT !.phase = "RecoveryRequired", !.uncertain = TRUE]
           epoch == IF s.epoch = MaxEpoch THEN MaxEpoch ELSE s.epoch + 1
<1>1. t = [epoch |-> epoch, records |-> [a \in Attempt |-> Void(s.records[a])]]
  BY DEF Invalidated
<1>2. epoch \in 0..MaxEpoch
  BY BoundAssumption DEF WellFormed
<1>3. ASSUME NEW a \in Attempt
      PROVE  /\ Void(s.records[a]) \in Record \cup {NoRecord}
             /\ Void(s.records[a]).entries = s.records[a].entries
             /\ Void(s.records[a]).plan = s.records[a].plan
             /\ s.records[a].uncertain => Void(s.records[a]).uncertain
             /\ Void(s.records[a]).phase # "Active"
             /\ Void(s.records[a]) # NoRecord => s.records[a] # NoRecord
  <2>1. s.records[a] \in Record \cup {NoRecord}
    BY DEF WellFormed
  <2>2. CASE s.records[a] = NoRecord
    BY <2>2, NoRecordFacts
  <2>3. CASE s.records[a] \in Record
    BY <2>3, NoRecordFacts DEF Record, Phase
  <2> QED BY <2>1, <2>2, <2>3
<1> HIDE DEF Void, epoch
<1>4. \A a \in Attempt : t.records[a] = Void(s.records[a])
  BY <1>1
<1>5. t \in [epoch : 0..MaxEpoch, records : [Attempt -> Record \cup {NoRecord}]]
  BY <1>1, <1>2, <1>3
<1>6. WellFormed(t)
  BY <1>3, <1>4, <1>5 DEF WellFormed
<1> QED BY <1>3, <1>4, <1>6 DEF Reflagged

-----------------------------------------------------------------------------
\* How the parts of the invariant survive each kind of change.

\* The records of t have the plans and entries of those of s.
SameEntries(s, t) ==
  \A a \in Attempt : /\ t.records[a].entries = s.records[a].entries
                     /\ t.records[a].plan = s.records[a].plan

\* What depends only on plans and entries survives a change of phases and flags.
LEMMA SameEntriesInv ==
  ASSUME NEW s, NEW t, NEW o, SameEntries(s, t), Pure(s), BorrowedOwn(s, o)
  PROVE  Pure(t) /\ BorrowedOwn(t, o)
<1>1. Pure(t)
  BY DEF SameEntries, Pure
<1>2. BorrowedOwn(t, o)
  <2>1. \A a \in Attempt : /\ t.records[a].entries = s.records[a].entries
                           /\ \A i : ResourceOf(t.records[a], i) = ResourceOf(s.records[a], i)
    BY DEF SameEntries, ResourceOf
  <2>3. SUFFICES ASSUME NEW a \in Attempt, NEW i \in DOMAIN t.records[a].entries,
                        t.records[a].entries[i].borrowed,
                        t.records[a].entries[i].fingerprint = Own,
                        Shareable(ResourceOf(t.records[a], i), ResourceOf(t.records[a], i))
                 PROVE  /\ o[ResourceOf(t.records[a], i)] = Own
                        /\ \A b \in Attempt : \A j \in DOMAIN t.records[b].entries :
                             /\ ResourceOf(t.records[b], j) = ResourceOf(t.records[a], i)
                             /\ ~t.records[b].entries[j].borrowed
                             => t.records[b].entries[j].fingerprint # Own
    BY Zenon DEF BorrowedOwn
  <2>4. /\ i \in DOMAIN s.records[a].entries
        /\ s.records[a].entries[i].borrowed
        /\ s.records[a].entries[i].fingerprint = Own
        /\ ResourceOf(t.records[a], i) = ResourceOf(s.records[a], i)
    BY <2>1, <2>3
  <2>5. /\ o[ResourceOf(s.records[a], i)] = Own
        /\ \A b \in Attempt : \A j \in DOMAIN s.records[b].entries :
             /\ ResourceOf(s.records[b], j) = ResourceOf(s.records[a], i)
             /\ ~s.records[b].entries[j].borrowed
             => s.records[b].entries[j].fingerprint # Own
    BY <2>3, <2>4 DEF BorrowedOwn
  <2> QED BY <2>1, <2>4, <2>5
<1> QED BY <1>1, <1>2

\* Changing phases (never to Active) and raising flags keeps every part.
LEMMA ReflaggedInv ==
  ASSUME NEW s, NEW t, NEW o, Reflagged(s, t), SnapshotInv(s, o)
  PROVE  SnapshotInv(t, o) /\ (Covered(s, o) => Covered(t, o))
<1>1. SameEntries(s, t)
  BY DEF Reflagged, SameEntries
<1>2. Pure(t) /\ BorrowedOwn(t, o)
  BY <1>1, SameEntriesInv DEF SnapshotInv
<1>3. Complete(t)
  BY DEF Reflagged, SnapshotInv, Complete
<1>4. Covered(s, o) => Covered(t, o)
  BY DEF Reflagged, Covered, Answers, ResourceOf
<1> QED BY <1>2, <1>3, <1>4 DEF SnapshotInv

\* Dropping a record keeps what is said about the others.
LEMMA RemoveInv ==
  ASSUME NEW s, WellFormed(s), NEW o, NEW a \in Attempt, SnapshotInv(s, o),
         NEW t, t = SetRecord(s, a, NoRecord)
  PROVE  SnapshotInv(t, o)
<1>1. /\ t.records[a].entries = <<>>
      /\ \A b \in Attempt \ {a} : t.records[b] = s.records[b]
  BY SetRecordFacts, NoRecordFacts
<1>2. \A b \in Attempt : \A i \in DOMAIN t.records[b].entries :
        b # a /\ t.records[b] = s.records[b] /\ i \in DOMAIN s.records[b].entries
  BY <1>1
<1>3. Pure(t)
  BY <1>2 DEF SnapshotInv, Pure
<1>4. Complete(t)
  BY <1>2 DEF SnapshotInv, Complete
<1>5. BorrowedOwn(t, o)
  BY <1>2 DEF SnapshotInv, BorrowedOwn
<1> QED BY <1>3, <1>4, <1>5 DEF SnapshotInv

\* The operating system loses some of our resources, but no shareable one.
LEMMA LossInv ==
  ASSUME NEW s, WellFormed(s), NEW o, NEW p, SnapshotInv(s, o),
         \A r \in Resource : Shareable(r, r) /\ o[r] = Own => p[r] = Own
  PROVE  SnapshotInv(s, p)
<1>1. BorrowedOwn(s, p)
  BY RecordFacts DEF SnapshotInv, BorrowedOwn
<1> QED BY <1>1 DEF SnapshotInv

\* Fewer resources of ours need no more answers.
LEMMA LossCovered ==
  ASSUME NEW s, NEW o, NEW p, Covered(s, o),
         \A r \in Resource : p[r] = Own => o[r] = Own
  PROVE  Covered(s, p)
BY DEF Covered

\* A prepared record borrows what exists unless a record already owns it.
LEMMA PreparedInv ==
  ASSUME NEW s, WellFormed(s), NEW o \in [Resource -> Identity], SnapshotInv(s, o),
         NEW plan \in Plan, s.records[plan.request.attempt] = NoRecord,
         NEW t, t = SetRecord(s, plan.request.attempt, PreparedRecord(s, o, plan))
  PROVE  /\ WellFormed(t) /\ SnapshotInv(t, o)
         /\ Covered(s, o) => Covered(t, o)
<1> DEFINE a == plan.request.attempt
           rs == plan.request.resources
           rec == PreparedRecord(s, o, plan)
           Lent(r) == o[r] # Absent /\ ~\E b \in Attempt : Created(s.records[b], r, o[r])
<1>1. a \in Attempt /\ rs \in Seq(Resource)
  BY RequestAssumption DEF Plan
<1>2. /\ rec.plan = plan /\ rec.phase = "Prepared" /\ rec.uncertain = FALSE
      /\ rec.entries = [i \in 1..Len(rs) |-> [fingerprint |-> o[rs[i]], borrowed |-> Lent(rs[i])]]
  BY DEF PreparedRecord
<1>3. /\ rec.entries \in Seq(Entry) /\ Len(rec.entries) = Len(rs)
      /\ DOMAIN rec.entries = 1..Len(rs)
      /\ \A i \in DOMAIN rec.entries : /\ rec.entries[i].fingerprint = o[rs[i]]
                                       /\ rec.entries[i].borrowed = Lent(rs[i])
  <2>1. \A i \in 1..Len(rs) : /\ o[rs[i]] \in Identity
                              /\ Lent(rs[i]) \in BOOLEAN
    BY <1>1
  <2> HIDE DEF Lent, rec, rs
  <2>2. Len(rs) \in Nat
    BY <1>1
  <2>3. rec.entries \in [1..Len(rs) -> Entry]
    BY <1>2, <2>1 DEF Entry
  <2>4. rec.entries \in Seq(Entry) /\ Len(rec.entries) = Len(rs)
    BY <2>2, <2>3
  <2> QED BY <1>2, <2>3, <2>4
<1>4. rec = [plan |-> plan, phase |-> "Prepared", uncertain |-> FALSE, entries |-> rec.entries]
  BY DEF PreparedRecord
<1> HIDE DEF rec, Lent
<1>5. rec \in Record
  <2>1. ASSUME NEW es \in Seq(Entry)
        PROVE  [plan |-> plan, phase |-> "Prepared", uncertain |-> FALSE, entries |-> es] \in Record
    BY DEF Record, Phase
  <2> QED BY <1>3, <1>4, <2>1
<1>6. /\ WellFormed(t) /\ t.records[a] = rec
      /\ \A b \in Attempt \ {a} : t.records[b] = s.records[b]
  BY <1>1, <1>2, <1>3, <1>5, SetRecordFacts DEF rec
<1>7. ASSUME NEW b \in Attempt, NEW i \in DOMAIN t.records[b].entries
      PROVE  \/ /\ b = a /\ t.records[b] = rec /\ rs[i] = ResourceOf(t.records[b], i)
                /\ i \in DOMAIN rec.entries
             \/ /\ b # a /\ t.records[b] = s.records[b]
                /\ i \in DOMAIN s.records[b].entries
  BY <1>2, <1>6 DEF ResourceOf
<1>8. ASSUME NEW i \in DOMAIN rec.entries
      PROVE  /\ rec.entries[i].fingerprint = o[rs[i]]
             /\ rec.entries[i].fingerprint # Absent /\ ~rec.entries[i].borrowed =>
                  \E b \in Attempt : \E j \in DOMAIN s.records[b].entries :
                    /\ ResourceOf(s.records[b], j) = rs[i] /\ Shareable(rs[i], rs[i])
                    /\ ~s.records[b].entries[j].borrowed
                    /\ s.records[b].entries[j].fingerprint = o[rs[i]]
             /\ rec.entries[i].borrowed =>
                  \A b \in Attempt : \A j \in DOMAIN s.records[b].entries :
                    /\ ResourceOf(s.records[b], j) = rs[i] /\ Shareable(rs[i], rs[i])
                    /\ ~s.records[b].entries[j].borrowed
                    => s.records[b].entries[j].fingerprint # o[rs[i]]
  <2>1. rec.entries[i].fingerprint = o[rs[i]] /\ rec.entries[i].borrowed = Lent(rs[i])
    BY <1>3
  <2>2. ASSUME o[rs[i]] # Absent, ~Lent(rs[i])
        PROVE  \E b \in Attempt : \E j \in DOMAIN s.records[b].entries :
                 /\ ResourceOf(s.records[b], j) = rs[i] /\ Shareable(rs[i], rs[i])
                 /\ ~s.records[b].entries[j].borrowed
                 /\ s.records[b].entries[j].fingerprint = o[rs[i]]
    BY <2>2, ShareableFacts DEF Lent, Created
  <2>3. ASSUME Lent(rs[i]), NEW b \in Attempt, NEW j \in DOMAIN s.records[b].entries,
               ResourceOf(s.records[b], j) = rs[i], Shareable(rs[i], rs[i]),
               ~s.records[b].entries[j].borrowed
        PROVE  s.records[b].entries[j].fingerprint # o[rs[i]]
    <3>1. o[rs[i]] # Absent /\ ~Created(s.records[b], rs[i], o[rs[i]])
      BY <2>3 DEF Lent
    <3> QED BY <2>3, <3>1 DEF Created
  <2> QED BY <2>1, <2>2, <2>3
<1>9. Pure(t)
  <2> SUFFICES ASSUME NEW b \in Attempt, NEW i \in DOMAIN t.records[b].entries,
                      ~t.records[b].entries[i].borrowed
               PROVE  t.records[b].entries[i].fingerprint \in {Own, Absent}
    BY DEF Pure
  <2> QED BY <1>7, <1>8 DEF SnapshotInv, Pure
<1>10. Complete(t)
  <2> SUFFICES ASSUME NEW b \in Attempt, NEW i \in DOMAIN t.records[b].entries,
                      t.records[b].phase = "Active", ~t.records[b].entries[i].borrowed
               PROVE  t.records[b].entries[i].fingerprint = Own
    BY DEF Complete
  <2> QED BY <1>2, <1>7 DEF SnapshotInv, Complete
<1>11. BorrowedOwn(t, o)
  <2> SUFFICES ASSUME NEW b \in Attempt, NEW i \in DOMAIN t.records[b].entries,
                      t.records[b].entries[i].borrowed,
                      t.records[b].entries[i].fingerprint = Own,
                      Shareable(ResourceOf(t.records[b], i), ResourceOf(t.records[b], i))
               PROVE  /\ o[ResourceOf(t.records[b], i)] = Own
                      /\ \A c \in Attempt : \A j \in DOMAIN t.records[c].entries :
                           /\ ResourceOf(t.records[c], j) = ResourceOf(t.records[b], i)
                           /\ ~t.records[c].entries[j].borrowed
                           => t.records[c].entries[j].fingerprint # Own
    BY ZenonT(60) DEF BorrowedOwn
  <2>1. SUFFICES ASSUME NEW r, r = ResourceOf(t.records[b], i), Shareable(r, r)
                 PROVE  /\ o[r] = Own
                        /\ \A c \in Attempt : \A j \in DOMAIN t.records[c].entries :
                             ResourceOf(t.records[c], j) = r /\ ~t.records[c].entries[j].borrowed
                               => t.records[c].entries[j].fingerprint # Own
    BY Zenon
  <2>2. \/ /\ b = a /\ t.records[b] = rec /\ rs[i] = r /\ i \in DOMAIN rec.entries
        \/ /\ b # a /\ t.records[b] = s.records[b] /\ i \in DOMAIN s.records[b].entries
    BY <1>7, <2>1
  <2>3. /\ o[r] = Own
        /\ \A c \in Attempt : \A j \in DOMAIN s.records[c].entries :
             ResourceOf(s.records[c], j) = r /\ ~s.records[c].entries[j].borrowed
               => s.records[c].entries[j].fingerprint # Own
    <3>1. CASE b = a
      <4>1. t.records[b] = rec /\ rs[i] = r /\ i \in DOMAIN rec.entries
        BY <2>2, <3>1
      <4>2. rec.entries[i].fingerprint = Own /\ rec.entries[i].borrowed
        BY <4>1
      <4>3. o[r] = Own
        BY <1>8, <4>1, <4>2
      <4> QED BY <1>8, <2>1, <4>1, <4>2, <4>3
    <3>2. CASE b # a
      BY <2>1, <2>2, <3>2, SMTT(30) DEF SnapshotInv, BorrowedOwn
    <3> QED BY <3>1, <3>2
  <2>4. ASSUME NEW c \in Attempt, NEW j \in DOMAIN t.records[c].entries,
               ResourceOf(t.records[c], j) = r, ~t.records[c].entries[j].borrowed
        PROVE  t.records[c].entries[j].fingerprint # Own
    <3>1. CASE c # a
      BY <1>7, <2>3, <2>4, <3>1, SMTT(30)
    <3>2. CASE c = a
      <4>1. t.records[c] = rec /\ rs[j] = r /\ j \in DOMAIN rec.entries
        BY <1>7, <2>4, <3>2
      <4>2. rec.entries[j].fingerprint = Own => FALSE
        BY <1>8, <2>3, <2>4, <4>1, IdentityAssumption, SMTT(30)
      <4> QED BY <4>1, <4>2
    <3> QED BY <3>1, <3>2
  <2> QED BY <2>3, <2>4
<1>12. ASSUME Covered(s, o) PROVE Covered(t, o)
  <2> SUFFICES ASSUME NEW r \in Resource, o[r] = Own
               PROVE  \E b \in Attempt : Answers(t.records[b], r)
    BY DEF Covered
  <2>1. PICK b \in Attempt : Answers(s.records[b], r)
    BY <1>12 DEF Covered
  <2>2. b # a
    BY <2>1, NoRecordFacts DEF Answers
  <2> QED BY <1>6, <2>1, <2>2
<1> QED BY <1>6, <1>9, <1>10, <1>11, <1>12 DEF SnapshotInv

\* Recording a fingerprint of a resource this program created, or its removal.
LEMMA FingerprintInv ==
  ASSUME NEW s, WellFormed(s), NEW o, SnapshotInv(s, o), NEW a \in Attempt,
         NEW k \in DOMAIN s.records[a].entries, ~s.records[a].entries[k].borrowed,
         NEW id \in {Own, Absent}, NEW t, t = SetFingerprint(s, a, k, id),
         s.records[a].phase # "Active",
         NEW r, r = ResourceOf(s.records[a], k),
         id = Own => \A b \in Attempt : \A j \in DOMAIN s.records[b].entries :
                       /\ ResourceOf(s.records[b], j) = r /\ Shareable(r, r)
                       /\ s.records[b].entries[j].borrowed
                       => s.records[b].entries[j].fingerprint # Own
  PROVE  /\ WellFormed(t) /\ SnapshotInv(t, o)
         /\ Covered(s, o) /\ (id = Own \/ o[r] # Own) => Covered(t, o)
<1>0. id \in Identity
  BY DEF Identity
<1>1. WellFormed(t) /\ Refingerprinted(s, t, a, k, id)
  BY <1>0, SetFingerprintFacts
<1>2. \A b \in Attempt :
        /\ DOMAIN t.records[b].entries = DOMAIN s.records[b].entries
        /\ t.records[b].phase = s.records[b].phase
        /\ t.records[b].uncertain = s.records[b].uncertain
        /\ \A i \in DOMAIN s.records[b].entries :
             /\ ResourceOf(t.records[b], i) = ResourceOf(s.records[b], i)
             /\ t.records[b].entries[i].borrowed = s.records[b].entries[i].borrowed
             /\ t.records[b].entries[i].fingerprint =
                  IF b = a /\ i = k THEN id ELSE s.records[b].entries[i].fingerprint
  BY <1>1 DEF Refingerprinted, ResourceOf
<1>3. Pure(t)
  BY <1>2 DEF SnapshotInv, Pure
<1>4. Complete(t)
  BY <1>2 DEF SnapshotInv, Complete
<1>5. BorrowedOwn(t, o)
  <2> SUFFICES ASSUME NEW b \in Attempt, NEW i \in DOMAIN t.records[b].entries,
                      t.records[b].entries[i].borrowed,
                      t.records[b].entries[i].fingerprint = Own,
                      Shareable(ResourceOf(t.records[b], i), ResourceOf(t.records[b], i))
               PROVE  /\ o[ResourceOf(t.records[b], i)] = Own
                      /\ \A c \in Attempt : \A j \in DOMAIN t.records[c].entries :
                           /\ ResourceOf(t.records[c], j) = ResourceOf(t.records[b], i)
                           /\ ~t.records[c].entries[j].borrowed
                           => t.records[c].entries[j].fingerprint # Own
    BY Zenon DEF BorrowedOwn
  <2>1. SUFFICES ASSUME NEW q, q = ResourceOf(t.records[b], i), Shareable(q, q)
                 PROVE  /\ o[q] = Own
                        /\ \A c \in Attempt : \A j \in DOMAIN t.records[c].entries :
                             ResourceOf(t.records[c], j) = q /\ ~t.records[c].entries[j].borrowed
                               => t.records[c].entries[j].fingerprint # Own
    BY Zenon
  <2>2. /\ i \in DOMAIN s.records[b].entries
        /\ s.records[b].entries[i].borrowed /\ ~(b = a /\ i = k)
        /\ s.records[b].entries[i].fingerprint = Own
        /\ q = ResourceOf(s.records[b], i)
    BY <1>2, <2>1
  <2>3. /\ o[q] = Own
        /\ \A c \in Attempt : \A j \in DOMAIN s.records[c].entries :
             ResourceOf(s.records[c], j) = q /\ ~s.records[c].entries[j].borrowed
               => s.records[c].entries[j].fingerprint # Own
    BY <2>1, <2>2 DEF SnapshotInv, BorrowedOwn
  <2>4. id = Own => q # r
    BY <2>1, <2>2
  <2> QED BY <1>2, <2>3, <2>4, IdentityAssumption
<1>6. ASSUME Covered(s, o), id = Own \/ o[r] # Own
      PROVE  Covered(t, o)
  <2>1. SUFFICES ASSUME NEW q \in Resource, o[q] = Own
                 PROVE  \E b \in Attempt : Answers(t.records[b], q)
    BY DEF Covered
  <2>2. PICK b \in Attempt : Answers(s.records[b], q)
    BY <1>6, <2>1 DEF Covered
  <2>3. PICK i \in DOMAIN s.records[b].entries :
          /\ ResourceOf(s.records[b], i) = q /\ ~s.records[b].entries[i].borrowed
          /\ \/ s.records[b].entries[i].fingerprint = Own
             \/ s.records[b].entries[i].fingerprint = Absent /\ s.records[b].uncertain
    BY <2>2 DEF Answers
  <2>4. id = Own \/ ~(b = a /\ i = k)
    BY <1>6, <2>1, <2>3
  <2>5. /\ i \in DOMAIN t.records[b].entries
        /\ ResourceOf(t.records[b], i) = q /\ ~t.records[b].entries[i].borrowed
        /\ \/ t.records[b].entries[i].fingerprint = Own
           \/ t.records[b].entries[i].fingerprint = Absent /\ t.records[b].uncertain
    BY <1>2, <2>3, <2>4
  <2> QED BY <2>5 DEF Answers
<1> QED BY <1>1, <1>3, <1>4, <1>5, <1>6 DEF SnapshotInv

\* A new phase other than Active, with the flag kept or raised.
LEMMA SetPhaseInv ==
  ASSUME NEW s, WellFormed(s), NEW a \in Attempt, s.records[a] # NoRecord,
         NEW ph \in Phase \ {"Active"}, NEW u \in BOOLEAN, s.records[a].uncertain => u,
         NEW t, t = SetPhase(s, a, ph, u), NEW o, SnapshotInv(s, o)
  PROVE  WellFormed(t) /\ SnapshotInv(t, o) /\ (Covered(s, o) => Covered(t, o))
<1>1. WellFormed(t) /\ Rephased(s, t, a, ph, u)
  BY SetPhaseFacts
<1>2. Reflagged(s, t)
  BY <1>1 DEF Reflagged, Rephased
<1> QED BY <1>1, <1>2, ReflaggedInv

\* Every resource the record does not borrow is recorded as created.
AllOwn(rec) ==
  \A i \in DOMAIN rec.entries : ~rec.entries[i].borrowed => rec.entries[i].fingerprint = Own

\* Committing an apply whose every creation is recorded.
LEMMA CommitInv ==
  ASSUME NEW s, WellFormed(s), NEW a \in Attempt, s.records[a] # NoRecord,
         NEW o, SnapshotInv(s, o), AllOwn(s.records[a]),
         NEW t, t = SetPhase(s, a, "Active", FALSE)
  PROVE  WellFormed(t) /\ SnapshotInv(t, o) /\ (Covered(s, o) => Covered(t, o))
<1>0. "Active" \in Phase
  BY DEF Phase
<1>1. WellFormed(t) /\ Rephased(s, t, a, "Active", FALSE)
  BY <1>0, SetPhaseFacts
<1>2. SameEntries(s, t) /\ \A b \in Attempt \ {a} : t.records[b] = s.records[b]
  BY <1>1 DEF Rephased, SameEntries
<1>3. Pure(t) /\ BorrowedOwn(t, o)
  BY <1>2, SameEntriesInv DEF SnapshotInv
<1>4. Complete(t)
  <2>1. AllOwn(t.records[a])
    BY <1>2 DEF SameEntries, AllOwn
  <2>2. SUFFICES ASSUME NEW b \in Attempt, NEW i \in DOMAIN t.records[b].entries,
                        t.records[b].phase = "Active", ~t.records[b].entries[i].borrowed
                 PROVE  t.records[b].entries[i].fingerprint = Own
    BY DEF Complete
  <2>3. CASE b = a
    BY <2>1, <2>2, <2>3 DEF AllOwn
  <2>4. CASE b # a
    BY <1>2, <2>2, <2>4 DEF SnapshotInv, Complete
  <2> QED BY <2>3, <2>4
<1>5. ASSUME Covered(s, o) PROVE Covered(t, o)
  <2>1. ASSUME NEW r, Answers(s.records[a], r)
        PROVE  Answers(t.records[a], r)
    BY <1>2, <2>1 DEF SameEntries, AllOwn, Answers, ResourceOf
  <2> QED BY <1>2, <1>5, <2>1 DEF Covered
<1> QED BY <1>1, <1>3, <1>4, <1>5 DEF SnapshotInv

-----------------------------------------------------------------------------
\* IInv is kept by every action.

\* open_locked loads the journal and marks interrupted applies.
LEMMA OpenStep ==
  ASSUME IInv, Open
  PROVE  IInv'
<1>1. WellFormed(mem') /\ Reflagged(disk, mem')
  BY FromSnapshotFacts DEF IInv, TypeOK, Open
<1>2. SnapshotInv(mem', os) /\ Covered(mem', os)
  BY <1>1, ReflaggedInv DEF IInv
<1>3. TypeOK'
  BY <1>1 DEF IInv, TypeOK, Open
<1>4. ControlInv'
  BY DEF Open, ControlInv, InCall
<1> QED BY <1>2, <1>3, <1>4 DEF IInv, Open

\* Leaving the store forgets only memory, wherever the process dies.
LEMMA LeaveStep ==
  ASSUME IInv, Leave
  PROVE  IInv'
<1>1. WellFormed(mem')
  BY BoundAssumption DEF Leave, EmptySnapshot, WellFormed
<1>2. \A a \in Attempt : mem'.records[a].entries = <<>>
  BY NoRecordFacts DEF Leave, EmptySnapshot
<1>3. SnapshotInv(mem', os')
  BY <1>2 DEF SnapshotInv, Pure, Complete, BorrowedOwn
<1>4. TypeOK'
  BY <1>1 DEF IInv, TypeOK, Leave
<1>5. ControlInv'
  BY DEF Leave, ControlInv, InCall
<1> QED BY <1>3, <1>4, <1>5 DEF IInv, Leave

\* A call that changes nothing returns.
LEMMA ReturnStep ==
  ASSUME IInv, pc = "open", NEW res \in {"ok", "err"}, Return(res),
         UNCHANGED <<store, os, touched>>
  PROVE  IInv'
<1>1. TypeOK'
  BY DEF IInv, TypeOK, Return, store
<1>2. ControlInv'
  BY DEF Return, ControlInv, InCall
<1> QED BY <1>1, <1>2 DEF IInv, Return, store

\* network_changed invalidates memory, and the journal unless its save failed.
LEMMA NetworkChangedStep ==
  ASSUME IInv, NEW outcome \in SaveOutcome, NetworkChanged(outcome)
  PROVE  IInv'
<1>1. WellFormed(mem') /\ Reflagged(mem, mem')
  BY InvalidatedFacts DEF IInv, TypeOK, NetworkChanged
<1>2. SnapshotInv(mem', os) /\ Covered(mem', os)
  BY <1>1, ReflaggedInv DEF IInv, NetworkChanged
<1>3. (disk' = disk \/ disk' = mem') /\ os' = os /\ touched' = touched /\ pc' = "open"
  BY DEF NetworkChanged, Save, Return
<1>4. TypeOK'
  BY <1>1, <1>3 DEF IInv, TypeOK, NetworkChanged, Return
<1>5. ControlInv'
  BY <1>3 DEF ControlInv, InCall
<1> QED BY <1>2, <1>3, <1>4, <1>5 DEF IInv

\* prepare adds a record to the journal, even when it reports an error.
LEMMA PrepareStep ==
  ASSUME IInv, NEW plan \in Plan, NEW outcome \in SaveOutcome, Prepare(plan, outcome)
  PROVE  IInv'
<1> DEFINE added == SetRecord(mem, plan.request.attempt, PreparedRecord(mem, os, plan))
<1>1. plan.request.attempt \in Attempt
  BY RequestAssumption DEF Plan
<1>2. mem.records[plan.request.attempt] = NoRecord
  BY <1>1 DEF Prepare, Present
<1>3. WellFormed(added) /\ SnapshotInv(added, os) /\ Covered(added, os)
  <2>1. /\ WellFormed(mem) /\ os \in [Resource -> Identity]
        /\ SnapshotInv(mem, os) /\ Covered(mem, os)
    BY DEF IInv, TypeOK, Prepare
  <2> QED BY <1>2, <2>1, PreparedInv
<1> HIDE DEF added
<1>4. /\ disk' = disk \/ disk' = added
      /\ mem' = mem \/ mem' = added
      /\ os' = os /\ touched' = touched /\ pc' = "open"
  BY DEF Save, Prepare, Return, added
<1>5. TypeOK'
  BY <1>3, <1>4 DEF IInv, TypeOK, Prepare, Return
<1>6. ControlInv'
  BY <1>4 DEF ControlInv, InCall
<1> QED BY <1>3, <1>4, <1>5, <1>6 DEF IInv, Prepare

\* apply refuses a record that is not Prepared and goes to the rollback.
LEMMA ApplyRefusedStep ==
  ASSUME IInv, NEW a \in Attempt, ApplyRefused(a)
  PROVE  IInv'
<1>1. mem.records[a] # NoRecord
  BY NoRecordFacts DEF ApplyRefused
<1>2. TypeOK'
  BY DEF IInv, TypeOK, ApplyRefused, store
<1>3. ControlInv'
  BY <1>1 DEF ApplyRefused, store, ControlInv, InCall, CurRecord
<1> QED BY <1>2, <1>3 DEF IInv, ApplyRefused, store

\* apply makes the record Applying and uncertain before any backend call.
LEMMA ApplyBeginStep ==
  ASSUME IInv, NEW a \in Attempt, NEW outcome \in SaveOutcome, ApplyBegin(a, outcome)
  PROVE  IInv'
<1>1. WellFormed(mem) /\ mem.records[a] # NoRecord
  BY NoRecordFacts DEF IInv, TypeOK, ApplyBegin
<1>2. WellFormed(mem') /\ SnapshotInv(mem', os) /\ Covered(mem', os)
  BY <1>1, SetPhaseInv, ZenonT(60) DEF IInv, ApplyBegin, Phase
<1>3. /\ mem'.records[a] # NoRecord
      /\ mem'.records[a].phase = "Applying" /\ mem'.records[a].uncertain
  <2>1. "Applying" \in Phase /\ mem' = SetPhase(mem, a, "Applying", TRUE)
    BY DEF ApplyBegin, Phase
  <2>2. Rephased(mem, mem', a, "Applying", TRUE)
    BY <1>1, <2>1, SetPhaseFacts
  <2> QED BY <2>2 DEF Rephased
<1>4. /\ disk' = disk \/ disk' = mem'
      /\ os' = os /\ touched' = touched /\ cur' = a
      /\ call' = "apply" /\ failed' = failed /\ result' = "none"
      /\ \/ pc' = "rollback" /\ idx' = 0
         \/ pc' = "applyEntry" /\ idx' = 1 /\ disk' = mem'
  BY DEF ApplyBegin, Save
<1>5. \A j \in DOMAIN mem'.records[a].entries : ~(j < 1)
  <2>1. mem'.records[a].entries \in Seq(Entry)
    BY <1>2, <1>3, RecordFacts
  <2> QED BY <2>1
<1>6. TypeOK'
  BY <1>2, <1>4 DEF IInv, TypeOK
<1>7. ControlInv'
  <2>1. CASE pc' = "rollback"
    BY <1>3, <1>4, <2>1 DEF ControlInv, InCall, CurRecord
  <2>2. CASE pc' = "applyEntry" /\ idx' = 1 /\ disk' = mem'
    <3>1. ApplyProgress'
      BY <1>3, <1>4, <1>5, <2>2 DEF ApplyProgress, CurRecord
    <3> QED BY <1>3, <1>4, <2>2, <3>1 DEF ControlInv, InCall, CurRecord
  <2> QED BY <1>4, <2>1, <2>2
<1> QED BY <1>2, <1>4, <1>6, <1>7 DEF IInv

\* The current record inside a call, and the entry a loop of apply is at.
LEMMA InCallFacts ==
  ASSUME IInv, InCall
  PROVE  /\ cur \in Attempt /\ CurRecord # NoRecord /\ WellFormed(mem)
         /\ CurRecord.entries \in Seq(Entry)
         /\ CurRecord.uncertain \in BOOLEAN
         /\ SnapshotInv(mem, os) /\ Covered(mem, os)
         /\ idx \in Nat
<1>1. cur \in Attempt /\ CurRecord # NoRecord /\ WellFormed(mem)
  BY DEF IInv, TypeOK, ControlInv
<1>2. CurRecord \in Record /\ CurRecord.entries \in Seq(Entry)
  BY <1>1, RecordFacts DEF CurRecord
<1>3. CurRecord.uncertain \in BOOLEAN
  BY <1>2 DEF Record
<1> QED BY <1>1, <1>2, <1>3 DEF IInv, TypeOK, InCall

\* The entry the loop of apply is at, its resource and its record.
LEMMA ApplyLoopFacts ==
  ASSUME IInv, InApplyLoop
  PROVE  /\ InCall /\ pc = "applyEntry"
         /\ idx \in DOMAIN CurRecord.entries
         /\ CurEntry \in Entry /\ CurResource \in Resource
         /\ CurRecord.phase = "Applying" /\ CurRecord.uncertain
         /\ disk = mem
<1>1. InCall /\ pc = "applyEntry"
  BY DEF InApplyLoop, InCall
<1>2. idx \in DOMAIN CurRecord.entries
  <2>1. idx >= 1 /\ idx <= Len(CurRecord.entries)
    BY <1>1 DEF IInv, ControlInv, InApplyLoop, ApplyProgress
  <2> QED BY <1>1, <2>1, InCallFacts
<1>3. CurEntry \in Entry /\ CurResource \in Resource
  BY <1>1, <1>2, InCallFacts, RecordFacts DEF CurEntry, CurResource, CurRecord
<1> QED BY <1>1, <1>2, <1>3 DEF IInv, ControlInv, ApplyProgress

\* A failed inspection leaves the record Applying and goes to the rollback.
LEMMA ApplyInspectFailsStep ==
  ASSUME IInv, ApplyInspectFails
  PROVE  IInv'
<1>1. cur \in Attempt /\ CurRecord # NoRecord
  BY ApplyLoopFacts, InCallFacts DEF ApplyInspectFails
<1>2. TypeOK'
  BY DEF IInv, TypeOK, ApplyInspectFails, store
<1>3. ControlInv'
  BY <1>1 DEF ApplyInspectFails, store, ControlInv, InCall, CurRecord
<1> QED BY <1>2, <1>3, ApplyLoopFacts DEF IInv, ApplyInspectFails, store

\* A borrowed entry is only compared with what is installed.
LEMMA ApplyBorrowedStep ==
  ASSUME IInv, ApplyBorrowed
  PROVE  IInv'
<1>1. /\ cur \in Attempt /\ CurRecord # NoRecord /\ idx \in Nat
      /\ CurRecord.entries \in Seq(Entry) /\ CurEntry.borrowed
      /\ pc = "applyEntry" /\ disk = mem /\ ApplyProgress
      /\ Covered(mem, os)
  BY ApplyLoopFacts, InCallFacts DEF ApplyBorrowed, IInv, ControlInv
<1>2. /\ UNCHANGED <<disk, mem, os, touched, cur, call, failed, result>>
      /\ \/ pc' = "applyEntry" /\ idx' = idx + 1
         \/ pc' = "applyFailed" /\ idx' = idx
  BY <1>1 DEF ApplyBorrowed, store
<1>3. TypeOK'
  BY <1>1, <1>2 DEF IInv, TypeOK
<1>4. ControlInv'
  <2>1. CASE pc' = "applyFailed"
    BY <1>1, <1>2, <2>1 DEF ControlInv, InCall, CurRecord
  <2>2. CASE pc' = "applyEntry" /\ idx' = idx + 1
    <3>1. ApplyProgress'
      BY <1>1, <1>2, <2>2 DEF ApplyProgress, CurEntry, CurRecord
    <3> QED BY <1>1, <1>2, <2>2, <3>1 DEF ControlInv, InCall, CurRecord
  <2> QED BY <1>2, <2>1, <2>2
<1> QED BY <1>1, <1>2, <1>3, <1>4 DEF IInv

\* Recording a creation leads from the loop to the save of its entry.
LEMMA FingerprintStep ==
  ASSUME IInv, InApplyLoop, ~CurEntry.borrowed,
         mem' = SetFingerprint(mem, cur, idx, Own), pc' = "applySave",
         UNCHANGED <<disk, touched, local>>, os' \in [Resource -> Identity],
         SnapshotInv(mem, os'), Covered(mem, os'),
         \A b \in Attempt : \A j \in DOMAIN mem.records[b].entries :
           /\ ResourceOf(mem.records[b], j) = CurResource
           /\ Shareable(CurResource, CurResource) /\ mem.records[b].entries[j].borrowed
           => mem.records[b].entries[j].fingerprint # Own
  PROVE  IInv'
<1>1. /\ cur \in Attempt /\ WellFormed(mem) /\ idx \in DOMAIN CurRecord.entries
      /\ disk = mem /\ ApplyProgress /\ idx \in Nat
  BY ApplyLoopFacts, InCallFacts DEF IInv, ControlInv
<1>2. WellFormed(mem') /\ SnapshotInv(mem', os') /\ Covered(mem', os')
  <2>1. /\ ~mem.records[cur].entries[idx].borrowed
        /\ mem.records[cur].phase # "Active"
        /\ idx \in DOMAIN mem.records[cur].entries
        /\ CurResource = ResourceOf(mem.records[cur], idx)
    BY <1>1 DEF CurEntry, CurRecord, CurResource, ApplyProgress
  <2> QED BY <1>1, <2>1, FingerprintInv
<1>3. Refingerprinted(mem, mem', cur, idx, Own)
  BY <1>1, SetFingerprintFacts DEF CurRecord, Identity
<1>4. cur' = cur /\ call' = call /\ idx' = idx /\ failed' = failed /\ result' = result
  BY DEF local
<1>5. TypeOK'
  BY <1>2, <1>4 DEF IInv, TypeOK
<1>6. /\ mem'.records[cur] # NoRecord /\ mem'.records[cur].phase = "Applying"
      /\ mem'.records[cur].uncertain
      /\ idx \in DOMAIN mem'.records[cur].entries
      /\ mem'.records[cur].entries[idx].fingerprint = Own
      /\ DOMAIN mem'.records[cur].entries = DOMAIN CurRecord.entries
      /\ \A j \in DOMAIN CurRecord.entries :
           /\ mem'.records[cur].entries[j].borrowed = CurRecord.entries[j].borrowed
           /\ CurRecord.entries[j].fingerprint = Own
                => mem'.records[cur].entries[j].fingerprint = Own
  <2>1. CurRecord # NoRecord
    BY ApplyLoopFacts, InCallFacts
  <2> QED BY <1>1, <1>3, <2>1 DEF Refingerprinted, CurRecord, ApplyProgress
<1>7. ApplyProgress'
  BY <1>1, <1>4, <1>6 DEF ApplyProgress, CurRecord
<1>8. ControlInv'
  BY <1>1, <1>4, <1>6, <1>7 DEF ControlInv, InCall, CurRecord, CurEntry
<1>9. SnapshotInv(disk', os') /\ Covered(disk', os')
  BY <1>1
<1> QED BY <1>2, <1>5, <1>8, <1>9 DEF IInv

\* Giving up in the loop of apply, with nothing recorded.
LEMMA ApplyGiveUp ==
  ASSUME IInv, InApplyLoop, mem' = mem, pc' = "applyFailed",
         UNCHANGED <<disk, touched, local>>, os' \in [Resource -> Identity],
         SnapshotInv(mem, os'), Covered(mem, os')
  PROVE  IInv'
<1>1. cur \in Attempt /\ CurRecord # NoRecord /\ disk = mem
  BY ApplyLoopFacts, InCallFacts
<1>2. cur' = cur /\ call' = call /\ idx' = idx /\ failed' = failed /\ result' = result
  BY DEF local
<1>3. TypeOK'
  BY <1>2 DEF IInv, TypeOK
<1>4. ControlInv'
  BY <1>1, <1>2 DEF ControlInv, InCall, CurRecord
<1> QED BY <1>1, <1>3, <1>4 DEF IInv

\* A resource another active attempt created is recorded, not created again.
LEMMA ApplySharedStep ==
  ASSUME IInv, ApplyShared
  PROVE  IInv'
<1>1. /\ InApplyLoop /\ ~CurEntry.borrowed /\ UNCHANGED <<disk, touched, local>>
      /\ os' = os /\ os \in [Resource -> Identity]
      /\ SnapshotInv(mem, os) /\ Covered(mem, os)
  BY ApplyLoopFacts, InCallFacts DEF ApplyShared, local, IInv, TypeOK
<1>2. PICK b \in Attempt : \E j \in DOMAIN mem.records[b].entries :
        LET id == mem.records[b].entries[j].fingerprint
        IN  /\ Sharer(b, j)
            /\ IF os[CurResource] = id
               THEN mem' = SetFingerprint(mem, cur, idx, id) /\ pc' = "applySave"
               ELSE mem' = mem /\ pc' = "applyFailed"
  BY DEF ApplyShared
<1>3. PICK j \in DOMAIN mem.records[b].entries :
        LET id == mem.records[b].entries[j].fingerprint
        IN  /\ Sharer(b, j)
            /\ IF os[CurResource] = id
               THEN mem' = SetFingerprint(mem, cur, idx, id) /\ pc' = "applySave"
               ELSE mem' = mem /\ pc' = "applyFailed"
  BY <1>2
<1>4. /\ mem.records[b].phase = "Active" /\ ~mem.records[b].entries[j].borrowed
      /\ Shareable(CurResource, ResourceOf(mem.records[b], j))
  BY <1>3 DEF Sharer
<1>5. mem.records[b].entries[j].fingerprint = Own
  BY <1>1, <1>4 DEF SnapshotInv, Complete
<1>6. \A c \in Attempt : \A k \in DOMAIN mem.records[c].entries :
           /\ ResourceOf(mem.records[c], k) = CurResource
           /\ Shareable(CurResource, CurResource) /\ mem.records[c].entries[k].borrowed
           => mem.records[c].entries[k].fingerprint # Own
  <2>1. CurResource = ResourceOf(mem.records[b], j)
    BY <1>4, ShareableFacts
  <2> QED BY <1>1, <1>4, <1>5, <2>1 DEF SnapshotInv, BorrowedOwn
<1>7. CASE os[CurResource] = Own
  BY <1>1, <1>3, <1>5, <1>6, <1>7, FingerprintStep
<1>8. CASE os[CurResource] # Own
  BY <1>1, <1>3, <1>5, <1>8, ApplyGiveUp
<1> QED BY <1>7, <1>8

\* backend.apply creates the resource, reports it or fails after creating it.
LEMMA ApplyCreateStep ==
  ASSUME IInv, NEW ok \in BOOLEAN, NEW created \in BOOLEAN, ApplyCreate(ok, created)
  PROVE  IInv'
<1>1. /\ InApplyLoop /\ ~CurEntry.borrowed /\ UNCHANGED <<disk, touched, local>>
      /\ os \in [Resource -> Identity] /\ CurResource \in Resource /\ WellFormed(mem)
      /\ SnapshotInv(mem, os) /\ Covered(mem, os)
  BY ApplyLoopFacts, InCallFacts DEF ApplyCreate, local, IInv, TypeOK
<1>2. CASE os[CurResource] # Absent
  <2>1. os' = os /\ mem' = mem /\ pc' = "applyFailed"
    BY <1>2 DEF ApplyCreate
  <2> QED BY <1>1, <2>1, ApplyGiveUp
<1>3. CASE os[CurResource] = Absent
  <2>1. /\ os' = os \/ os' = [os EXCEPT ![CurResource] = Own]
        /\ \/ mem' = mem /\ pc' = "applyFailed"
           \/ mem' = SetFingerprint(mem, cur, idx, Own) /\ pc' = "applySave"
    BY <1>3 DEF ApplyCreate
  <2>2. os' \in [Resource -> Identity]
    BY <1>1, <2>1 DEF Identity
  <2>3. \A r \in Resource : os[r] = Own => os'[r] = Own
    BY <1>1, <2>1
  <2>4. SnapshotInv(mem, os')
    BY <1>1, <2>3, LossInv
  <2>5. Answers(mem.records[cur], CurResource)
    <3>1. /\ CurRecord.uncertain /\ idx \in DOMAIN CurRecord.entries /\ cur \in Attempt
      BY <1>1, ApplyLoopFacts, InCallFacts
    <3>2. CurEntry.fingerprint \in {Own, Absent}
      BY <1>1, <3>1 DEF SnapshotInv, Pure, CurEntry, CurRecord
    <3> QED BY <1>1, <3>1, <3>2 DEF Answers, CurEntry, CurRecord, CurResource
  <2>6. Covered(mem, os')
    <3>1. cur \in Attempt
      BY <1>1, ApplyLoopFacts, InCallFacts
    <3>2. \A r \in Resource : os'[r] = Own => os[r] = Own \/ r = CurResource
      BY <1>1, <2>1
    <3> QED BY <1>1, <2>5, <3>1, <3>2 DEF Covered
  <2>7. \A b \in Attempt : \A j \in DOMAIN mem.records[b].entries :
           /\ ResourceOf(mem.records[b], j) = CurResource
           /\ Shareable(CurResource, CurResource) /\ mem.records[b].entries[j].borrowed
           => mem.records[b].entries[j].fingerprint # Own
    BY <1>1, <1>3, IdentityAssumption DEF SnapshotInv, BorrowedOwn
  <2>8. CASE mem' = mem /\ pc' = "applyFailed"
    BY <1>1, <2>2, <2>4, <2>6, <2>8, ApplyGiveUp
  <2>9. CASE mem' = SetFingerprint(mem, cur, idx, Own) /\ pc' = "applySave"
    BY <1>1, <2>2, <2>4, <2>6, <2>7, <2>9, FingerprintStep
  <2> QED BY <2>1, <2>8, <2>9
<1> QED BY <1>2, <1>3

\* The save that records a fingerprint succeeds or leads to the rollback.
LEMMA ApplySaveStep ==
  ASSUME IInv, NEW outcome \in SaveOutcome, ApplySave(outcome)
  PROVE  IInv'
<1>1. /\ cur \in Attempt /\ CurRecord # NoRecord /\ idx \in Nat /\ ApplyProgress
      /\ CurRecord.entries \in Seq(Entry)
      /\ CurEntry.fingerprint = Own /\ pc = "applySave"
      /\ SnapshotInv(mem, os) /\ Covered(mem, os)
  <2>1. InCall /\ pc = "applySave"
    BY DEF InCall, ApplySave
  <2> QED BY <2>1, InCallFacts DEF IInv, ControlInv
<1>2. /\ UNCHANGED <<mem, os, touched, cur, call, failed, result>>
      /\ disk' = disk \/ disk' = mem
      /\ \/ pc' = "rollback" /\ idx' = 0
         \/ pc' = "applyEntry" /\ idx' = idx + 1 /\ disk' = mem
  BY DEF ApplySave, Save
<1>3. TypeOK'
  BY <1>1, <1>2 DEF IInv, TypeOK
<1>4. ControlInv'
  <2>1. CASE pc' = "rollback"
    BY <1>1, <1>2, <2>1 DEF ControlInv, InCall, CurRecord
  <2>2. CASE pc' = "applyEntry" /\ idx' = idx + 1 /\ disk' = mem
    <3>1. ApplyProgress'
      BY <1>1, <1>2, <2>2 DEF ApplyProgress, CurEntry, CurRecord
    <3> QED BY <1>1, <1>2, <2>2, <3>1 DEF ControlInv, InCall, CurRecord
  <2> QED BY <1>2, <2>1, <2>2
<1> QED BY <1>1, <1>2, <1>3, <1>4 DEF IInv

\* failed() leaves the record answerable for what may have been created.
LEMMA ApplyFailedStep ==
  ASSUME IInv, NEW outcome \in SaveOutcome, ApplyFailed(outcome)
  PROVE  IInv'
<1>1. /\ cur \in Attempt /\ CurRecord # NoRecord /\ WellFormed(mem)
      /\ CurRecord.uncertain \in BOOLEAN
      /\ SnapshotInv(mem, os) /\ Covered(mem, os)
  <2>1. InCall
    BY DEF InCall, ApplyFailed
  <2> QED BY <2>1, InCallFacts
<1>2. "RecoveryRequired" \in Phase \ {"Active"}
  BY DEF Phase
<1>3. /\ mem' = SetPhase(mem, cur, "RecoveryRequired", CurRecord.uncertain)
      /\ UNCHANGED <<os, touched, cur, call, failed, result>>
      /\ disk' = disk \/ disk' = mem'
      /\ pc' = "rollback" /\ idx' = 0
  BY DEF ApplyFailed, Save
<1>4. WellFormed(mem') /\ SnapshotInv(mem', os) /\ Covered(mem', os)
  BY <1>1, <1>2, <1>3, SetPhaseInv DEF CurRecord
<1>5. mem'.records[cur] # NoRecord
  <2>1. Rephased(mem, mem', cur, "RecoveryRequired", CurRecord.uncertain)
    BY <1>1, <1>2, <1>3, SetPhaseFacts DEF CurRecord
  <2> QED BY <2>1 DEF Rephased
<1>6. TypeOK'
  BY <1>3, <1>4 DEF IInv, TypeOK
<1>7. ControlInv'
  BY <1>1, <1>3, <1>5 DEF ControlInv, InCall, CurRecord
<1> QED BY <1>3, <1>4, <1>6, <1>7 DEF IInv

\* The commit of apply ends the uncertainty once every creation is recorded.
LEMMA ApplyCommitStep ==
  ASSUME IInv, NEW outcome \in SaveOutcome, ApplyCommit(outcome)
  PROVE  IInv'
<1> DEFINE active == SetPhase(mem, cur, "Active", FALSE)
           lost == SetPhase(mem, cur, "RecoveryRequired", TRUE)
<1>1. /\ cur \in Attempt /\ CurRecord # NoRecord /\ WellFormed(mem)
      /\ CurRecord.entries \in Seq(Entry) /\ idx \in Nat /\ ApplyProgress
      /\ SnapshotInv(mem, os) /\ Covered(mem, os)
  <2>1. InCall /\ pc = "applyEntry"
    BY DEF InCall, ApplyCommit
  <2> QED BY <2>1, InCallFacts DEF IInv, ControlInv
<1>2. AllOwn(CurRecord)
  BY <1>1 DEF ApplyCommit, ApplyProgress, AllOwn
<1>3. WellFormed(active) /\ SnapshotInv(active, os) /\ Covered(active, os)
  BY <1>1, <1>2, CommitInv DEF CurRecord
<1>4. "RecoveryRequired" \in Phase \ {"Active"}
  BY DEF Phase
<1>5. WellFormed(lost) /\ SnapshotInv(lost, os) /\ Covered(lost, os)
  BY <1>1, <1>4, SetPhaseInv, ZenonT(60) DEF CurRecord
<1>6. lost.records[cur] # NoRecord
  <2>1. Rephased(mem, lost, cur, "RecoveryRequired", TRUE)
    BY <1>1, <1>4, SetPhaseFacts DEF CurRecord
  <2> QED BY <2>1 DEF Rephased
<1> HIDE DEF active, lost
<1>7. /\ os' = os /\ touched' = touched
      /\ disk' = disk \/ disk' = active
      /\ \/ /\ mem' = active /\ pc' = "open" /\ result' = "ok"
            /\ cur' = NoAttempt /\ call' = "none" /\ idx' = 0 /\ failed' = FALSE
         \/ /\ mem' = lost /\ pc' = "rollback" /\ idx' = 0
            /\ cur' = cur /\ call' = call /\ failed' = failed /\ result' = result
  BY DEF ApplyCommit, Save, Return, active, lost
<1>8. TypeOK'
  <2>1. WellFormed(disk') /\ WellFormed(mem')
    BY <1>1, <1>3, <1>5, <1>7 DEF IInv, TypeOK
  <2>2. failed' \in BOOLEAN
    BY <1>1, <1>3, <1>5, <1>7, Zenon DEF IInv, TypeOK
  <2>3. /\ os' \in [Resource -> Identity] /\ touched' \subseteq Resource
        /\ cur' \in Attempt \cup {NoAttempt} /\ idx' \in Nat
    BY <1>1, <1>3, <1>5, <1>7 DEF IInv, TypeOK
  <2>4. /\ pc' \in {"open", "rollback", "releaseEntry"}
        /\ call' \in {"none", "apply", "release"} /\ result' \in {"none", "ok", "err"}
    BY <1>1, <1>3, <1>5, <1>7 DEF IInv, TypeOK
  <2> QED BY <2>1, <2>2, <2>3, <2>4 DEF TypeOK
<1>9. ControlInv'
  BY <1>1, <1>6, <1>7 DEF ControlInv, InCall, CurRecord
<1> QED BY <1>3, <1>5, <1>7, <1>8, <1>9 DEF IInv

\* release keeps the uncertainty of an interrupted apply when it starts.
LEMMA ReleaseBeginStep ==
  ASSUME IInv, NEW a \in Attempt, NEW outcome \in SaveOutcome, ReleaseBegin(a, outcome)
  PROVE  IInv'
<1> DEFINE u == StillUncertain(mem.records[a])
<1>1. /\ mem.records[a] # NoRecord /\ WellFormed(mem) /\ pc # "closed"
      /\ SnapshotInv(mem, os) /\ Covered(mem, os)
  BY DEF ReleaseBegin, IInv, TypeOK
<1>2. mem.records[a] \in Record /\ mem.records[a].entries \in Seq(Entry)
  BY <1>1, RecordFacts
<1>3. "Releasing" \in Phase \ {"Active"} /\ u \in BOOLEAN /\ (mem.records[a].uncertain => u)
  BY <1>2 DEF Phase, Record, StillUncertain
<1>4. mem' = SetPhase(mem, a, "Releasing", u)
  BY DEF ReleaseBegin
<1> HIDE DEF u
<1>5. WellFormed(mem') /\ SnapshotInv(mem', os) /\ Covered(mem', os)
  BY <1>1, <1>3, <1>4, SetPhaseInv
<1>6. Rephased(mem, mem', a, "Releasing", u)
  BY <1>1, <1>3, <1>4, SetPhaseFacts
<1>7. /\ mem'.records[a] # NoRecord /\ mem'.records[a].phase = "Releasing"
      /\ mem'.records[a].entries = mem.records[a].entries
  BY <1>6 DEF Rephased
<1>8. /\ os' = os /\ touched' = touched
      /\ disk' = disk \/ disk' = mem'
      /\ \/ /\ pc' = "open" /\ result' = "err"
            /\ cur' = NoAttempt /\ call' = "none" /\ idx' = 0 /\ failed' = FALSE
         \/ /\ pc' = "releaseEntry" /\ idx' = Len(mem.records[a].entries) /\ disk' = mem'
            /\ cur' = a /\ call' \in {"release", call} /\ failed' = FALSE /\ result' = "none"
  BY DEF ReleaseBegin, Save, Return
<1>9. TypeOK'
  <2>1. WellFormed(disk') /\ WellFormed(mem')
    BY <1>2, <1>5, <1>8 DEF IInv, TypeOK
  <2>2. failed' \in BOOLEAN
    BY <1>2, <1>5, <1>8, Zenon DEF IInv, TypeOK
  <2>3. /\ os' \in [Resource -> Identity] /\ touched' \subseteq Resource
        /\ cur' \in Attempt \cup {NoAttempt} /\ idx' \in Nat
    BY <1>2, <1>5, <1>8 DEF IInv, TypeOK
  <2>4. /\ pc' \in {"open", "rollback", "releaseEntry"}
        /\ call' \in {"none", "apply", "release"} /\ result' \in {"none", "ok", "err"}
    BY <1>2, <1>5, <1>8 DEF IInv, TypeOK
  <2> QED BY <2>1, <2>2, <2>3, <2>4 DEF TypeOK
<1>10. ControlInv'
  <2>1. CASE pc' = "open"
    BY <2>1 DEF ControlInv, InCall
  <2>2. CASE pc' = "releaseEntry" /\ idx' = Len(mem.records[a].entries) /\ disk' = mem' /\ cur' = a
    <3>1. \A j \in DOMAIN mem'.records[a].entries : ~(j > idx')
      BY <1>2, <1>7, <2>2
    <3>2. idx' <= Len(mem'.records[a].entries)
      BY <1>2, <1>7, <2>2
    <3>3. ReleaseProgress'
      BY <1>7, <2>2, <3>1, <3>2 DEF ReleaseProgress, CurRecord
    <3> QED BY <1>7, <2>2, <3>3 DEF ControlInv, InCall, CurRecord
  <2> QED BY <1>8, <2>1, <2>2
<1> QED BY <1>5, <1>8, <1>9, <1>10 DEF IInv

\* The entry the loop of release is at.
LEMMA ReleaseLoopFacts ==
  ASSUME IInv, InReleaseLoop
  PROVE  /\ InCall /\ pc = "releaseEntry"
         /\ idx \in DOMAIN CurRecord.entries
         /\ CurEntry \in Entry /\ CurResource \in Resource
         /\ ReleaseProgress
         /\ disk = mem
<1>1. InCall /\ pc = "releaseEntry"
  BY DEF InReleaseLoop, InCall
<1>2. ReleaseProgress /\ disk = mem
  BY <1>1 DEF IInv, ControlInv
<1>3. idx \in DOMAIN CurRecord.entries
  <2>1. idx > 0 /\ idx <= Len(CurRecord.entries)
    BY <1>2 DEF InReleaseLoop, ReleaseProgress
  <2> QED BY <1>1, <2>1, InCallFacts
<1>4. CurEntry \in Entry /\ CurResource \in Resource
  BY <1>1, <1>3, InCallFacts, RecordFacts DEF CurEntry, CurResource, CurRecord
<1> QED BY <1>1, <1>2, <1>3, <1>4

\* The loop of release goes on to the next entry.
LEMMA ReleaseOn ==
  ASSUME IInv, InReleaseLoop, idx' = idx - 1,
         UNCHANGED <<store, os, touched, pc, cur, call, result>>,
         failed' \in BOOLEAN, failed => failed',
         ~failed' /\ MustAnswer(CurRecord, idx) =>
           \E b \in Attempt \ {cur} : Answers(mem.records[b], CurResource)
  PROVE  IInv'
<1>1. /\ cur \in Attempt /\ CurRecord # NoRecord /\ CurRecord.entries \in Seq(Entry)
      /\ idx \in Nat /\ idx > 0 /\ disk = mem /\ ReleaseProgress
      /\ pc = "releaseEntry" /\ disk = mem
      /\ SnapshotInv(mem, os) /\ Covered(mem, os)
  BY ReleaseLoopFacts, InCallFacts DEF InReleaseLoop
<1>2. TypeOK'
  BY <1>1 DEF IInv, TypeOK, store
<1>3. ReleaseProgress'
  <2>1. CurRecord' = CurRecord /\ cur' = cur /\ mem' = mem /\ os' = os
    BY DEF CurRecord, store
  <2>2. idx' <= Len(CurRecord.entries) /\ CurRecord.phase = "Releasing"
    BY <1>1 DEF ReleaseProgress
  <2>3. ASSUME NEW j \in DOMAIN CurRecord.entries,
               ~failed', j > idx', MustAnswer(CurRecord, j)
        PROVE  \E b \in Attempt \ {cur} : Answers(mem.records[b], ResourceOf(CurRecord, j))
    <3>1. j > idx \/ j = idx
      BY <1>1, <2>3
    <3>2. CASE j > idx
      BY <1>1, <2>3, <3>2 DEF ReleaseProgress
    <3>3. CASE j = idx
      BY <2>3, <3>3 DEF CurResource
    <3> QED BY <3>1, <3>2, <3>3
  <2> QED BY <2>1, <2>2, <2>3 DEF ReleaseProgress, MustAnswer
<1>4. ControlInv'
  BY <1>1, <1>3 DEF ControlInv, InCall, CurRecord, store
<1> QED BY <1>1, <1>2, <1>4 DEF IInv, store

\* What release skips is not ours, was never created, or has another owner.
LEMMA ReleaseSkipStep ==
  ASSUME IInv, ReleaseSkip
  PROVE  IInv'
<1>1. /\ InReleaseLoop /\ idx' = idx - 1
      /\ UNCHANGED <<store, os, touched, pc, cur, call, failed, result>>
      /\ failed' \in BOOLEAN
  BY DEF ReleaseSkip, IInv, TypeOK
<1>2. /\ cur \in Attempt /\ idx \in DOMAIN CurRecord.entries
      /\ SnapshotInv(mem, os)
  BY <1>1, ReleaseLoopFacts, InCallFacts
<1>3. ASSUME MustAnswer(CurRecord, idx)
      PROVE  \E b \in Attempt \ {cur} : Answers(mem.records[b], CurResource)
  <2>1. ~CurEntry.borrowed /\ ~(CurEntry.fingerprint = Absent /\ ~CurRecord.uncertain)
    BY <1>3, IdentityAssumption DEF MustAnswer, CurEntry
  <2>2. CurEntry.fingerprint # Absent /\ SharedElsewhere
    BY <2>1 DEF ReleaseSkip
  <2>3. CurEntry.fingerprint = Own
    BY <1>3, <2>2 DEF MustAnswer, CurEntry
  <2>4. PICK b \in Attempt \ {cur} : \E j \in DOMAIN mem.records[b].entries :
          /\ Shareable(CurResource, ResourceOf(mem.records[b], j))
          /\ mem.records[b].entries[j].fingerprint = Own
    BY <2>2, <2>3 DEF SharedElsewhere
  <2>5. PICK j \in DOMAIN mem.records[b].entries :
          /\ Shareable(CurResource, ResourceOf(mem.records[b], j))
          /\ mem.records[b].entries[j].fingerprint = Own
    BY <2>4
  <2>6. ResourceOf(mem.records[b], j) = CurResource /\ Shareable(CurResource, CurResource)
    BY <2>5, ShareableFacts
  <2>7. ~mem.records[b].entries[j].borrowed
    <3>1. /\ ~mem.records[cur].entries[idx].borrowed
          /\ mem.records[cur].entries[idx].fingerprint = Own
          /\ ResourceOf(mem.records[cur], idx) = CurResource
          /\ idx \in DOMAIN mem.records[cur].entries
      BY <1>2, <2>1, <2>3 DEF CurEntry, CurRecord, CurResource
    <3> QED BY <1>2, <2>5, <2>6, <3>1 DEF SnapshotInv, BorrowedOwn
  <2> QED BY <2>5, <2>6, <2>7 DEF Answers
<1> QED BY <1>1, <1>3, ReleaseOn

\* Without a fingerprint release goes on only if the resource is missing.
LEMMA ReleaseUncertainStep ==
  ASSUME IInv, NEW inspected \in BOOLEAN, ReleaseUncertain(inspected)
  PROVE  IInv'
<1>1. /\ InReleaseLoop /\ idx' = idx - 1
      /\ UNCHANGED <<store, os, touched, pc, cur, call, result>>
      /\ failed \in BOOLEAN
      /\ failed' = (failed \/ ~inspected \/ os[CurResource] # Absent)
  BY DEF ReleaseUncertain, Unconfirmed, IInv, TypeOK
<1>2. failed' \in BOOLEAN /\ (failed => failed')
  BY <1>1
<1>3. ~failed' => os[CurResource] = Absent
  BY <1>1
<1>4. ~failed' => ~MustAnswer(CurRecord, idx)
  BY <1>3, IdentityAssumption DEF MustAnswer, CurResource
<1> QED BY <1>1, <1>2, <1>4, ReleaseOn

\* The fingerprint is dropped only after the resource went away.
LEMMA ReleaseRemoveStep ==
  ASSUME IInv, NEW ok \in BOOLEAN, NEW removed \in BOOLEAN,
         ReleaseRemove(ok, removed)
  PROVE  IInv'
<1>1. /\ InReleaseLoop /\ cur \in Attempt /\ CurRecord # NoRecord
      /\ CurRecord.entries \in Seq(Entry) /\ idx \in DOMAIN CurRecord.entries
      /\ idx \in Nat /\ WellFormed(mem) /\ disk = mem /\ ReleaseProgress
      /\ SnapshotInv(mem, os) /\ Covered(mem, os) /\ pc = "releaseEntry"
      /\ CurResource \in Resource /\ os \in [Resource -> Identity]
  <2>1. InReleaseLoop
    BY DEF ReleaseRemove
  <2> QED BY <2>1, ReleaseLoopFacts, InCallFacts DEF IInv, TypeOK
<1>2. CurEntry.fingerprint = Own /\ ~CurEntry.borrowed
  BY <1>1 DEF ReleaseRemove, SnapshotInv, Pure, CurEntry, CurRecord
<1>3. os' = os \/ os' = [os EXCEPT ![CurResource] = Absent]
  BY DEF ReleaseRemove
<1>4. os' \in [Resource -> Identity] /\ \A r \in Resource : os'[r] = Own => os[r] = Own
  BY <1>1, <1>3, IdentityAssumption DEF Identity
<1>5. \A r \in Resource : r # CurResource => os'[r] = os[r]
  BY <1>1, <1>3
<1>6. SnapshotInv(mem, os')
  <2>1. BorrowedOwn(mem, os')
    <3> SUFFICES ASSUME NEW a \in Attempt, NEW i \in DOMAIN mem.records[a].entries,
                        mem.records[a].entries[i].borrowed,
                        mem.records[a].entries[i].fingerprint = Own,
                        Shareable(ResourceOf(mem.records[a], i), ResourceOf(mem.records[a], i))
                 PROVE  /\ os'[ResourceOf(mem.records[a], i)] = Own
                        /\ \A b \in Attempt : \A j \in DOMAIN mem.records[b].entries :
                             /\ ResourceOf(mem.records[b], j) = ResourceOf(mem.records[a], i)
                             /\ ~mem.records[b].entries[j].borrowed
                             => mem.records[b].entries[j].fingerprint # Own
      BY Zenon DEF BorrowedOwn
    <3>1. SUFFICES ASSUME NEW r, r = ResourceOf(mem.records[a], i), Shareable(r, r)
                   PROVE  /\ os'[r] = Own
                          /\ \A b \in Attempt : \A j \in DOMAIN mem.records[b].entries :
                               ResourceOf(mem.records[b], j) = r /\ ~mem.records[b].entries[j].borrowed
                                 => mem.records[b].entries[j].fingerprint # Own
      BY Zenon
    <3>2. /\ os[r] = Own
          /\ \A b \in Attempt : \A j \in DOMAIN mem.records[b].entries :
               ResourceOf(mem.records[b], j) = r /\ ~mem.records[b].entries[j].borrowed
                 => mem.records[b].entries[j].fingerprint # Own
      BY <1>1, <3>1 DEF SnapshotInv, BorrowedOwn
    <3>3. r # CurResource
      BY <1>1, <1>2, <3>2 DEF CurResource, CurEntry, CurRecord
    <3>4. r \in Resource
      BY <1>1, <3>1, RecordFacts
    <3> QED BY <1>5, <3>2, <3>3, <3>4
  <2> QED BY <1>1, <2>1 DEF SnapshotInv
<1>7. Covered(mem, os')
  BY <1>1, <1>4, LossCovered
<1>8. \A j \in DOMAIN CurRecord.entries : ResourceOf(CurRecord, j) \in Resource
  BY <1>1, RecordFacts DEF CurRecord
<1>9. CASE ok
  <2>1. /\ mem' = SetFingerprint(mem, cur, idx, Absent) /\ pc' = "releaseSave"
        /\ UNCHANGED <<disk, touched, cur, call, idx, failed, result>>
    BY <1>9 DEF ReleaseRemove
  <2>2. os'[CurResource] = Absent
    BY <1>1, <1>9 DEF ReleaseRemove
  <2>3. /\ idx \in DOMAIN mem.records[cur].entries
        /\ ~mem.records[cur].entries[idx].borrowed
        /\ mem.records[cur].phase # "Active"
        /\ CurResource = ResourceOf(mem.records[cur], idx)
    BY <1>1, <1>2 DEF CurEntry, CurRecord, CurResource, ReleaseProgress
  <2>4. WellFormed(mem') /\ SnapshotInv(mem', os') /\ Covered(mem', os')
    BY <1>1, <1>6, <1>7, <2>1, <2>2, <2>3, FingerprintInv, IdentityAssumption
  <2>5. Refingerprinted(mem, mem', cur, idx, Absent)
    BY <1>1, <2>1, <2>3, SetFingerprintFacts DEF Identity
  <2>6. TypeOK'
    BY <1>4, <2>1, <2>4 DEF IInv, TypeOK
  <2>7. /\ CurRecord' = mem'.records[cur] /\ CurRecord' # NoRecord
        /\ DOMAIN CurRecord'.entries = DOMAIN CurRecord.entries
        /\ Len(CurRecord'.entries) = Len(CurRecord.entries)
        /\ CurRecord'.phase = "Releasing"
        /\ CurRecord'.uncertain = CurRecord.uncertain
        /\ \A j \in DOMAIN CurRecord.entries :
             /\ ResourceOf(CurRecord', j) = ResourceOf(CurRecord, j)
             /\ CurRecord'.entries[j].borrowed = CurRecord.entries[j].borrowed
             /\ j # idx => CurRecord'.entries[j].fingerprint = CurRecord.entries[j].fingerprint
        /\ \A b \in Attempt \ {cur} : mem'.records[b] = mem.records[b]
    BY <1>1, <2>1, <2>5 DEF Refingerprinted, CurRecord, ResourceOf, ReleaseProgress
  <2>8. ReleaseProgress'
    <3>1. idx' <= Len(CurRecord'.entries)
      BY <1>1, <2>1, <2>7 DEF ReleaseProgress
    <3>2. ASSUME NEW j \in DOMAIN CurRecord'.entries,
                 ~failed', j > idx', MustAnswer(CurRecord, j)'
          PROVE  \E b \in Attempt \ {cur'} :
                   Answers(mem'.records[b], ResourceOf(CurRecord', j))
      <4>1. j \in DOMAIN CurRecord.entries /\ j # idx
        BY <1>1, <2>1, <2>7, <3>2
      <4>2. MustAnswer(CurRecord, j)
        BY <1>4, <1>8, <2>7, <3>2, <4>1 DEF MustAnswer
      <4>3. \E b \in Attempt \ {cur} : Answers(mem.records[b], ResourceOf(CurRecord, j))
        BY <1>1, <2>1, <3>2, <4>1, <4>2 DEF ReleaseProgress
      <4> QED BY <2>1, <2>7, <4>1, <4>3
    <3> QED BY <2>7, <3>1, <3>2 DEF ReleaseProgress
  <2>9. ControlInv'
    <3>1. CurResource' = CurResource
      BY <1>1, <2>1, <2>7 DEF CurResource
    <3> QED BY <1>1, <2>1, <2>2, <2>7, <2>8, <3>1, IdentityAssumption DEF ControlInv, InCall
  <2>10. SnapshotInv(disk', os') /\ Covered(disk', os')
    BY <1>1, <1>6, <1>7, <2>1
  <2> QED BY <2>4, <2>6, <2>9, <2>10 DEF IInv
<1>10. CASE ~ok
  <2>1. /\ UNCHANGED <<disk, mem, touched, pc, cur, call, result>>
        /\ idx' = idx - 1 /\ failed' = TRUE
    BY <1>10 DEF ReleaseRemove
  <2>2. idx' \in Nat /\ idx' <= Len(CurRecord.entries)
    BY <1>1, <2>1 DEF InReleaseLoop, ReleaseProgress
  <2>3. TypeOK'
    BY <1>4, <2>1, <2>2 DEF IInv, TypeOK
  <2>4. ReleaseProgress'
    BY <1>1, <2>1, <2>2 DEF ReleaseProgress, CurRecord
  <2>5. ControlInv'
    BY <1>1, <2>1, <2>4 DEF ControlInv, InCall, CurRecord
  <2> QED BY <1>1, <1>6, <1>7, <2>1, <2>3, <2>5 DEF IInv
<1> QED BY <1>9, <1>10

\* The save after a removal succeeds or ends the call with an error.
LEMMA ReleaseSaveStep ==
  ASSUME IInv, NEW outcome \in SaveOutcome, ReleaseSave(outcome)
  PROVE  IInv'
<1>1. /\ cur \in Attempt /\ CurRecord # NoRecord /\ CurRecord.entries \in Seq(Entry)
      /\ idx \in DOMAIN CurRecord.entries /\ os[CurResource] # Own /\ ReleaseProgress
      /\ pc = "releaseSave" /\ SnapshotInv(mem, os) /\ Covered(mem, os)
  <2>1. InCall /\ pc = "releaseSave"
    BY DEF InCall, ReleaseSave
  <2> QED BY <2>1, InCallFacts DEF IInv, ControlInv
<1>2. /\ mem' = mem /\ os' = os /\ touched' = touched
      /\ disk' = disk \/ disk' = mem
      /\ \/ /\ pc' = "open" /\ result' = "err"
            /\ cur' = NoAttempt /\ call' = "none" /\ idx' = 0 /\ failed' = FALSE
         \/ /\ pc' = "releaseEntry" /\ idx' = idx - 1 /\ disk' = mem
            /\ cur' = cur /\ call' = call /\ failed' = failed /\ result' = result
  BY DEF ReleaseSave, Save, Return
<1>3. idx - 1 \in Nat /\ idx - 1 <= Len(CurRecord.entries)
  BY <1>1
<1>4. TypeOK'
  <2>1. WellFormed(disk') /\ WellFormed(mem')
    BY <1>2 DEF IInv, TypeOK
  <2>2. failed' \in BOOLEAN
    BY <1>2, Zenon DEF IInv, TypeOK
  <2> QED BY <1>2, <1>3, <2>1, <2>2 DEF IInv, TypeOK
<1>5. ControlInv'
  <2>1. CASE pc' = "open"
    BY <2>1 DEF ControlInv, InCall
  <2>2. CASE /\ pc' = "releaseEntry" /\ idx' = idx - 1 /\ disk' = mem
             /\ cur' = cur /\ call' = call /\ failed' = failed
    <3>1. CurRecord' = CurRecord
      BY <1>2, <2>2 DEF CurRecord
    <3>2. ASSUME NEW j \in DOMAIN CurRecord.entries,
                 ~failed, j > idx - 1, MustAnswer(CurRecord, j)
          PROVE  \E b \in Attempt \ {cur} : Answers(mem.records[b], ResourceOf(CurRecord, j))
      <4>1. j > idx
        BY <1>1, <3>2 DEF MustAnswer, CurResource
      <4> QED BY <1>1, <3>2, <4>1 DEF ReleaseProgress
    <3>3. ReleaseProgress'
      BY <1>1, <1>2, <1>3, <2>2, <3>1, <3>2 DEF ReleaseProgress, MustAnswer
    <3> QED BY <1>1, <1>2, <2>2, <3>1, <3>3 DEF ControlInv, InCall
  <2> QED BY <1>2, <2>1, <2>2
<1> QED BY <1>1, <1>2, <1>4, <1>5 DEF IInv

\* A release that could not confirm every removal keeps its record.
LEMMA ReleaseFailedStep ==
  ASSUME IInv, NEW outcome \in SaveOutcome, ReleaseFailed(outcome)
  PROVE  IInv'
<1>1. /\ cur \in Attempt /\ CurRecord # NoRecord /\ WellFormed(mem)
      /\ CurRecord.uncertain \in BOOLEAN
      /\ SnapshotInv(mem, os) /\ Covered(mem, os)
  <2>1. InCall
    BY DEF InCall, ReleaseFailed
  <2> QED BY <2>1, InCallFacts
<1>2. "RecoveryRequired" \in Phase \ {"Active"}
  BY DEF Phase
<1>3. /\ mem' = SetPhase(mem, cur, "RecoveryRequired", CurRecord.uncertain)
      /\ os' = os /\ touched' = touched
      /\ disk' = disk \/ disk' = mem'
      /\ pc' = "open" /\ result' = "err"
      /\ cur' = NoAttempt /\ call' = "none" /\ idx' = 0 /\ failed' = FALSE
  BY DEF ReleaseFailed, Save, Return
<1>4. WellFormed(mem') /\ SnapshotInv(mem', os) /\ Covered(mem', os)
  BY <1>1, <1>2, <1>3, SetPhaseInv DEF CurRecord
<1>5. TypeOK'
  BY <1>3, <1>4 DEF IInv, TypeOK
<1>6. ControlInv'
  BY <1>3 DEF ControlInv, InCall
<1> QED BY <1>3, <1>4, <1>5, <1>6 DEF IInv

\* The record is dropped only when nothing of ours depends on it.
LEMMA ReleaseCommitStep ==
  ASSUME IInv, NEW outcome \in SaveOutcome, ReleaseCommit(outcome)
  PROVE  IInv'
<1> DEFINE without == SetRecord(mem, cur, NoRecord)
<1>1. /\ cur \in Attempt /\ WellFormed(mem) /\ CurRecord.entries \in Seq(Entry)
      /\ SnapshotInv(mem, os) /\ Covered(mem, os) /\ ReleaseProgress
      /\ idx = 0 /\ ~failed
  <2>1. InCall /\ pc = "releaseEntry" /\ idx = 0 /\ ~failed
    BY DEF InCall, ReleaseCommit
  <2> QED BY <2>1, InCallFacts DEF IInv, ControlInv
<1>2. SnapshotInv(without, os)
  BY <1>1, RemoveInv
<1>3. WellFormed(without) /\ \A b \in Attempt \ {cur} : without.records[b] = mem.records[b]
  BY <1>1, SetRecordFacts
<1> HIDE DEF without
<1>4. Covered(without, os)
  <2>1. SUFFICES ASSUME NEW r \in Resource, os[r] = Own
                 PROVE  \E b \in Attempt \ {cur} : Answers(mem.records[b], r)
    BY <1>3 DEF Covered
  <2>2. PICK b \in Attempt : Answers(mem.records[b], r)
    BY <1>1, <2>1 DEF Covered
  <2>3. CASE b = cur
    <3>1. PICK j \in DOMAIN CurRecord.entries :
            /\ ResourceOf(CurRecord, j) = r /\ ~CurRecord.entries[j].borrowed
            /\ \/ CurRecord.entries[j].fingerprint = Own
               \/ CurRecord.entries[j].fingerprint = Absent /\ CurRecord.uncertain
      BY <2>2, <2>3 DEF Answers, CurRecord
    <3>2. j > idx
      BY <1>1, <3>1
    <3> QED BY <1>1, <2>1, <3>1, <3>2 DEF ReleaseProgress, MustAnswer
  <2> QED BY <2>2, <2>3
<1>5. /\ os' = os /\ touched' = touched
      /\ disk' = disk \/ disk' = without
      /\ mem' = mem \/ mem' = without
      /\ pc' = "open" /\ result' \in {"ok", "err"}
      /\ cur' = NoAttempt /\ call' = "none" /\ idx' = 0 /\ failed' = FALSE
  BY DEF ReleaseCommit, Save, Return, Outcome, without
<1>6. TypeOK'
  BY <1>3, <1>5 DEF IInv, TypeOK
<1>7. ControlInv'
  BY <1>5 DEF ControlInv, InCall
<1> QED BY <1>1, <1>2, <1>4, <1>5, <1>6, <1>7 DEF IInv

\* No record of s names a gateway exception.
Unshared(s) ==
  \A a \in Attempt : \A i \in DOMAIN s.records[a].entries :
    ~Shareable(ResourceOf(s.records[a], i), ResourceOf(s.records[a], i))

\* Nobody else alters a shareable resource we created, or we create none.
Undisturbed == ~Hostile \/ (Unshared(mem) /\ Unshared(disk))

\* Others take nothing from us but a route or scope that cannot be shared, and
\* never make a resource look like ours, so every answer stays good.
LEMMA ExternalStep ==
  ASSUME IInv, Undisturbed, NEW r \in Resource, NEW id \in Foreign \cup {Absent},
         External(r, id)
  PROVE  IInv'
<1>1. os \in [Resource -> Identity] /\ WellFormed(mem) /\ WellFormed(disk)
  BY DEF IInv, TypeOK
<1>2. /\ os' \in [Resource -> Identity]
      /\ \A q \in Resource : os'[q] = Own => os[q] = Own
  BY <1>1, IdentityAssumption DEF External, Identity
<1>3. SnapshotInv(mem, os') /\ SnapshotInv(disk, os')
  <2>1. CASE ~Hostile
    <3>1. \A q \in Resource : Shareable(q, q) /\ os[q] = Own => os'[q] = Own
      BY <1>1, <2>1 DEF External
    <3> QED BY <1>1, <3>1, LossInv DEF IInv
  <2>2. CASE Unshared(mem) /\ Unshared(disk)
    BY <2>2 DEF IInv, SnapshotInv, BorrowedOwn, Unshared
  <2> QED BY <2>1, <2>2 DEF Undisturbed
<1>4. Covered(disk, os') /\ (pc # "closed" => Covered(mem, os'))
  BY <1>2, LossCovered DEF IInv
<1>5. /\ disk' = disk /\ mem' = mem /\ pc' = pc /\ cur' = cur /\ call' = call
      /\ idx' = idx /\ failed' = failed /\ result' = result
      /\ touched' = touched \cup {r}
  BY DEF External, store, local
<1>6. TypeOK'
  BY <1>2, <1>5 DEF IInv, TypeOK
<1>7. ControlInv'
  <2>1. ControlInv
    BY DEF IInv
  <2>2. InCall' = InCall /\ CurRecord' = CurRecord /\ CurEntry' = CurEntry
        /\ CurResource' = CurResource
    BY <1>5 DEF InCall, CurRecord, CurEntry, CurResource
  <2>3. InCall => \A j \in DOMAIN CurRecord.entries : ResourceOf(CurRecord, j) \in Resource
    BY InCallFacts, RecordFacts, <1>1 DEF IInv, CurRecord
  <2>4. pc \in {"releaseEntry", "releaseSave"} => ReleaseProgress'
    <3>1. SUFFICES ASSUME pc \in {"releaseEntry", "releaseSave"}
                   PROVE  ReleaseProgress'
      OBVIOUS
    <3>2. InCall /\ ReleaseProgress
      BY <2>1, <3>1 DEF InCall, ControlInv
    <3>3. \A j \in DOMAIN CurRecord.entries :
            MustAnswer(CurRecord, j)' => MustAnswer(CurRecord, j)
      BY <1>2, <2>2, <2>3, <3>2 DEF MustAnswer
    <3> QED BY <1>5, <2>2, <3>2, <3>3 DEF ReleaseProgress
  <2>5. pc \in {"applyEntry", "applySave"} => ApplyProgress'
    BY <1>5, <2>1, <2>2 DEF ControlInv, ApplyProgress
  <2>6. pc = "releaseSave" => os'[CurResource] # Own
    BY <1>2, <2>1, <2>3 DEF ControlInv, InCall, CurResource
  <2> QED BY <1>5, <2>1, <2>2, <2>4, <2>5, <2>6 DEF ControlInv
<1> QED BY <1>3, <1>4, <1>5, <1>6, <1>7 DEF IInv

-----------------------------------------------------------------------------

\* The empty journal of a machine on which this program created nothing.
LEMMA InitIInv == Init => IInv
<1> SUFFICES ASSUME Init PROVE IInv
  OBVIOUS
<1>1. WellFormed(EmptySnapshot)
  BY BoundAssumption DEF EmptySnapshot, WellFormed
<1>2. \A a \in Attempt : EmptySnapshot.records[a].entries = <<>>
  BY NoRecordFacts DEF EmptySnapshot
<1>3. SnapshotInv(EmptySnapshot, os)
  BY <1>2 DEF SnapshotInv, Pure, Complete, BorrowedOwn
<1>4. TypeOK
  BY <1>1 DEF Init, TypeOK, Identity
<1>5. ControlInv
  BY DEF Init, ControlInv, InCall
<1>6. Covered(disk, os)
  BY IdentityAssumption DEF Init, Covered
<1> QED BY <1>3, <1>4, <1>5, <1>6 DEF Init, IInv

\* Every step of the store and of the machine around it keeps IInv.
LEMMA NextIInv ==
  ASSUME Undisturbed, IInv, [Next]_vars
  PROVE  IInv'
<1>1. CASE UNCHANGED vars
  <2>1. TypeOK'
    BY <1>1 DEF IInv, TypeOK, vars
  <2>2. ControlInv'
    BY <1>1 DEF IInv, ControlInv, InCall, CurRecord, CurEntry, CurResource,
       ApplyProgress, ReleaseProgress, MustAnswer, vars
  <2> QED BY <1>1, <2>1, <2>2 DEF IInv, vars
<1>2. CASE Open \/ Close \/ Crash
  BY <1>2, OpenStep, LeaveStep DEF Close, Crash
<1>3. CASE ApplyInspectFails \/ ApplyBorrowed \/ ApplyShared \/ ReleaseSkip
  BY <1>3, ApplyInspectFailsStep, ApplyBorrowedStep, ApplySharedStep, ReleaseSkipStep
<1>4. CASE \E o \in SaveOutcome :
             \/ NetworkChanged(o)
             \/ ApplySave(o) \/ ApplyFailed(o) \/ ApplyCommit(o)
             \/ ReleaseSave(o) \/ ReleaseFailed(o) \/ ReleaseCommit(o)
  BY <1>4, NetworkChangedStep, ApplySaveStep, ApplyFailedStep, ApplyCommitStep,
     ReleaseSaveStep, ReleaseFailedStep, ReleaseCommitStep
<1>5. CASE \E o \in SaveOutcome, plan \in Plan : Prepare(plan, o)
  BY <1>5, PrepareStep
<1>6. CASE \E o \in SaveOutcome, a \in Attempt : ApplyBegin(a, o) \/ ReleaseBegin(a, o)
  BY <1>6, ApplyBeginStep, ReleaseBeginStep
<1>7. CASE \E plan \in Plan : PrepareRefused(plan) \/ PrepareRepeated(plan)
  BY <1>7, ReturnStep DEF PrepareRefused, PrepareRepeated
<1>8. CASE \E a \in Attempt : ApplyNothing(a) \/ ApplyRefused(a) \/ ReleaseNothing(a)
  <2>1. PICK a \in Attempt : ApplyNothing(a) \/ ApplyRefused(a) \/ ReleaseNothing(a)
    BY <1>8
  <2>2. CASE ApplyNothing(a)
    <3>1. CASE mem.records[a].phase = "Active"
      BY <2>2, <3>1, ReturnStep DEF ApplyNothing
    <3>2. CASE mem.records[a].phase # "Active"
      BY <2>2, <3>2, ReturnStep DEF ApplyNothing
    <3> QED BY <3>1, <3>2
  <2>3. CASE ApplyRefused(a)
    BY <2>3, ApplyRefusedStep
  <2>4. CASE ReleaseNothing(a)
    BY <2>4, ReturnStep DEF ReleaseNothing
  <2> QED BY <2>1, <2>2, <2>3, <2>4
<1>9. CASE \E ok, done \in BOOLEAN : ApplyCreate(ok, done) \/ ReleaseRemove(ok, done)
  <2>1. PICK ok \in BOOLEAN, done \in BOOLEAN :
          ApplyCreate(ok, done) \/ ReleaseRemove(ok, done)
    BY <1>9
  <2>2. CASE ApplyCreate(ok, done)
    BY <2>2, ApplyCreateStep
  <2>3. CASE ReleaseRemove(ok, done)
    BY <2>3, ReleaseRemoveStep
  <2> QED BY <2>1, <2>2, <2>3
<1>10. CASE \E ok \in BOOLEAN : ReleaseUncertain(ok)
  BY <1>10, ReleaseUncertainStep
<1>11. CASE \E r \in Resource, id \in Foreign \cup {Absent} : External(r, id)
  BY <1>11, ExternalStep
<1> QED BY <1>1, <1>2, <1>3, <1>4, <1>5, <1>6, <1>7, <1>8, <1>9, <1>10, <1>11 DEF Next

\* The inductive invariant holds throughout, as long as nobody else alters the
\* gateway exception routes this program created.
THEOREM Inductive == ASSUME ~Hostile PROVE Spec => []IInv
<1>1. IInv /\ [Next]_vars => IInv'
  BY NextIInv DEF Undisturbed
<1> QED BY <1>1, InitIInv, PTL DEF Spec

\* Type correctness: in particular every journal ever written passes the
\* consistency checks of FileJournal::load.
THEOREM TypeCorrect == ASSUME ~Hostile PROVE Spec => []TypeOK
<1>1. IInv => TypeOK
  BY DEF IInv
<1> QED BY <1>1, Inductive, PTL

\* For all attempts, plans and failures, the journal never claims somebody
\* else's resource, so release never removes one.
THEOREM OwnershipSafe == ASSUME ~Hostile PROVE Spec => []OwnershipSound
<1>1. IInv => OwnershipSound
  BY DEF IInv, SnapshotInv, Pure, OwnershipSound
<1> QED BY <1>1, Inductive, PTL

\* For all attempts, plans, crashes and failed writes, whatever this program
\* installed is accounted for by a record in the journal.
THEOREM NoOrphanSafe == ASSUME ~Hostile PROVE Spec => []NoOrphan
<1>1. IInv => NoOrphan
  BY DEF IInv, Covered, NoOrphan
<1> QED BY <1>1, Inductive, PTL

-----------------------------------------------------------------------------
\* Leases.

\* The conflict relation is symmetric, and nothing stands beside itself unless
\* it can be shared.
LEMMA ConflictsFacts ==
  ASSUME NEW r \in Resource, NEW q \in Resource
  PROVE  /\ Conflicts(r, r)
         /\ Conflicts(r, q) => Conflicts(q, r)
<1>1. ASSUME NEW x \in Resource, NEW y \in Resource, x.kind = "route", y.kind = "route"
      PROVE  Overlaps(x, y) => Overlaps(y, x)
  <2>1. x.bits \in Nat /\ y.bits \in Nat
    BY <1>1, ResourceAssumption
  <2>2. (IF x.bits < y.bits THEN x.bits ELSE y.bits) = (IF y.bits < x.bits THEN y.bits ELSE x.bits)
    BY <2>1
  <2> QED BY <2>2 DEF Overlaps
<1>2. Overlaps(r, r)
  BY DEF Overlaps
<1>3. ASSUME NEW d \in Seq(STRING) PROVE DomainOverlaps(d, d)
  <2>1. Reverse(d) \in Seq(STRING)
    BY DEF Reverse
  <2>2. Len(Reverse(d)) \in Nat
    BY <2>1
  <2> QED BY <2>2 DEF DomainOverlaps, IsSuffix, IsPrefix
<1>4. Conflicts(r, r)
  <2>1. CASE r.kind = "route"
    BY <1>2, <2>1 DEF Conflicts
  <2>2. CASE r.kind = "dns"
    BY <1>3, <2>2, ResourceAssumption DEF Conflicts
  <2> QED BY <2>1, <2>2, ResourceAssumption
<1>5. ASSUME Conflicts(r, q) PROVE Conflicts(q, r)
  <2>1. CASE r.kind = "route" /\ q.kind = "route"
    BY <1>1, <1>5, <2>1 DEF Conflicts
  <2>2. CASE r.kind = "dns" /\ q.kind = "dns"
    <3>1. \A x, y : DomainOverlaps(x, y) => DomainOverlaps(y, x)
      BY DEF DomainOverlaps
    <3> QED BY <1>5, <2>2, <3>1 DEF Conflicts
  <2> QED BY <1>5, <2>1, <2>2 DEF Conflicts
<1> QED BY <1>4, <1>5

\* Every record of t is one of s, with the same plan and borrowed resources, and
\* no more current than it was.
Narrowed(s, t) ==
  \A a \in Attempt : t.records[a] # NoRecord =>
    /\ s.records[a] # NoRecord
    /\ t.records[a].plan = s.records[a].plan
    /\ DOMAIN t.records[a].entries = DOMAIN s.records[a].entries
    /\ \A i \in DOMAIN s.records[a].entries :
         t.records[a].entries[i].borrowed =>
           /\ s.records[a].entries[i].borrowed
           /\ t.records[a].entries[i].fingerprint = s.records[a].entries[i].fingerprint
    /\ t.records[a].phase \in {"Prepared", "Applying", "Active"} =>
         /\ s.records[a].phase \in {"Prepared", "Applying", "Active"}
         /\ t.epoch = s.epoch

\* What leases are kept apart by survives every change but a new plan.
LEMMA NarrowedLease ==
  ASSUME NEW s, NEW t, LeaseSnapshot(s), Narrowed(s, t)
  PROVE  LeaseSnapshot(t)
<1>1. Apart(t)
  <2> SUFFICES ASSUME NEW a \in Attempt, NEW b \in Attempt, a # b,
                      t.records[a] # NoRecord, t.records[b] # NoRecord
               PROVE  /\ t.records[a].plan.request.profile # t.records[b].plan.request.profile
                      /\ \A i \in DOMAIN t.records[a].entries, j \in DOMAIN t.records[b].entries :
                           Conflicts(ResourceOf(t.records[a], i), ResourceOf(t.records[b], j)) =>
                             Shareable(ResourceOf(t.records[a], i), ResourceOf(t.records[b], j))
    BY DEF Apart
  <2>1. /\ s.records[a] # NoRecord /\ s.records[b] # NoRecord
        /\ t.records[a].plan = s.records[a].plan /\ t.records[b].plan = s.records[b].plan
        /\ DOMAIN t.records[a].entries = DOMAIN s.records[a].entries
        /\ DOMAIN t.records[b].entries = DOMAIN s.records[b].entries
    BY DEF Narrowed
  <2>2. /\ s.records[a].plan.request.profile # s.records[b].plan.request.profile
        /\ \A i \in DOMAIN s.records[a].entries, j \in DOMAIN s.records[b].entries :
             Conflicts(ResourceOf(s.records[a], i), ResourceOf(s.records[b], j)) =>
               Shareable(ResourceOf(s.records[a], i), ResourceOf(s.records[b], j))
    BY <2>1 DEF LeaseSnapshot, Apart
  <2> QED BY <2>1, <2>2 DEF ResourceOf
<1>2. Timely(t)
  BY NoRecordFacts DEF Narrowed, LeaseSnapshot, Timely
<1>3. BorrowedSeen(t)
  <2> SUFFICES ASSUME NEW a \in Attempt, NEW i \in DOMAIN t.records[a].entries,
                      t.records[a].entries[i].borrowed
               PROVE  t.records[a].entries[i].fingerprint # Absent
    BY DEF BorrowedSeen
  <2>1. t.records[a] # NoRecord
    BY NoRecordFacts
  <2> QED BY <2>1 DEF Narrowed, LeaseSnapshot, BorrowedSeen
<1> QED BY <1>1, <1>2, <1>3 DEF LeaseSnapshot

\* Loading keeps an active record as it is and marks an interrupted one.
LEMMA LoadLease ==
  ASSUME NEW s, WellFormed(s), NEW t, t = FromSnapshot(s)
  PROVE  /\ Narrowed(s, t)
         /\ \A a \in Attempt :
              /\ t.records[a].phase = "Active" => t.records[a] = s.records[a]
              /\ s.records[a].uncertain => t.records[a].uncertain
              /\ (t.records[a] = NoRecord) = (s.records[a] = NoRecord)
              /\ t.records[a].plan = s.records[a].plan
<1> DEFINE Load(rec) == IF rec.phase = "Applying"
                        THEN [rec EXCEPT !.phase = "RecoveryRequired", !.uncertain = TRUE]
                        ELSE rec
<1>1. t.records = [a \in Attempt |-> Load(s.records[a])] /\ t.epoch = s.epoch
  BY DEF FromSnapshot, WellFormed
<1>2. ASSUME NEW a \in Attempt
      PROVE  /\ t.records[a].entries = s.records[a].entries
             /\ t.records[a].plan = s.records[a].plan
             /\ (t.records[a] = NoRecord) = (s.records[a] = NoRecord)
             /\ s.records[a].uncertain => t.records[a].uncertain
             /\ t.records[a].phase \in {"Prepared", "Applying", "Active"} => t.records[a] = s.records[a]
  <2>1. s.records[a] \in Record \cup {NoRecord} /\ t.records[a] = Load(s.records[a])
    BY <1>1 DEF WellFormed
  <2>2. CASE s.records[a] = NoRecord
    BY <2>1, <2>2, NoRecordFacts
  <2>3. CASE s.records[a] \in Record
    BY <2>1, <2>3, NoRecordFacts DEF Record, Phase
  <2> QED BY <2>1, <2>2, <2>3
<1> HIDE DEF Load
<1> QED BY <1>1, <1>2 DEF Narrowed

\* A network change leaves no current record.
LEMMA InvalidatedLease ==
  ASSUME NEW s, WellFormed(s), NEW t, t = Invalidated(s)
  PROVE  /\ Narrowed(s, t)
         /\ \A a \in Attempt : /\ t.records[a].phase \notin {"Prepared", "Applying", "Active"}
                               /\ t.records[a] # NoRecord => t.records[a].uncertain
                               /\ (t.records[a] = NoRecord) = (s.records[a] = NoRecord)
<1>1. ASSUME NEW a \in Attempt
      PROVE  /\ t.records[a] = IF s.records[a] = NoRecord THEN NoRecord
                               ELSE [s.records[a] EXCEPT !.phase = "RecoveryRequired", !.uncertain = TRUE]
             /\ s.records[a] \in Record \cup {NoRecord}
  BY DEF Invalidated, WellFormed
<1>2. ASSUME NEW a \in Attempt
      PROVE  /\ t.records[a].entries = s.records[a].entries
             /\ t.records[a] # NoRecord => t.records[a].plan = s.records[a].plan
             /\ t.records[a].phase \notin {"Prepared", "Applying", "Active"}
             /\ t.records[a] # NoRecord => t.records[a].uncertain
             /\ (t.records[a] = NoRecord) = (s.records[a] = NoRecord)
  <2>1. CASE s.records[a] = NoRecord
    BY <1>1, <2>1, NoRecordFacts
  <2>2. CASE s.records[a] \in Record
    BY <1>1, <2>2, NoRecordFacts DEF Record, Phase
  <2> QED BY <1>1, <2>1, <2>2
<1> QED BY <1>2 DEF Narrowed

\* The setters leave the epoch alone.
LEMMA EpochFacts ==
  ASSUME NEW s, WellFormed(s), NEW a
  PROVE  /\ \A ph, u : SetPhase(s, a, ph, u).epoch = s.epoch
         /\ \A i, id : SetFingerprint(s, a, i, id).epoch = s.epoch
         /\ \A rec : SetRecord(s, a, rec).epoch = s.epoch
BY DEF WellFormed, SetPhase, SetFingerprint, SetRecord

\* One phase is changed: the record is no more current than it was.
LEMMA RephasedLease ==
  ASSUME NEW s, WellFormed(s), NEW a \in Attempt, s.records[a] # NoRecord,
         NEW ph \in Phase, NEW u \in BOOLEAN, NEW t, t = SetPhase(s, a, ph, u),
         ph \in {"Prepared", "Applying", "Active"} =>
           s.records[a].phase \in {"Prepared", "Applying", "Active"}
  PROVE  Narrowed(s, t) /\ Rephased(s, t, a, ph, u) /\ WellFormed(t)
<1>1. Rephased(s, t, a, ph, u) /\ WellFormed(t)
  BY SetPhaseFacts
<1>2. t.epoch = s.epoch
  BY EpochFacts
<1> QED BY <1>1, <1>2 DEF Rephased, Narrowed

\* A step that leaves the system alone and saves memory, or does not.
LEMMA SaveLease ==
  ASSUME LeaseInv, pc # "closed", UNCHANGED <<os, touched>>,
         Narrowed(mem, mem'), disk' = disk \/ disk' = mem',
         \A a \in Attempt :
           /\ mem'.records[a].phase = "Active" => mem'.records[a] = mem.records[a]
           /\ mem.records[a].uncertain => mem'.records[a].uncertain,
         pc' \in {"applyEntry", "applySave"} => AppliedInPlace'
  PROVE  LeaseInv'
<1>1. LeaseSnapshot(mem') /\ LeaseSnapshot(disk')
  BY NarrowedLease DEF LeaseInv
<1>2. \A a \in Attempt : disk'.records[a].phase = "Active" => disk'.records[a] = disk.records[a]
  BY DEF LeaseInv, ActiveSaved
<1>3. ActiveInstalled'
  BY <1>2 DEF LeaseInv, ActiveInstalled, InPlace
<1>4. ActiveSaved'
  BY DEF LeaseInv, ActiveSaved
<1>5. DoubtKept'
  BY DEF LeaseInv, DoubtKept
<1> QED BY <1>1, <1>3, <1>4, <1>5 DEF LeaseInv

\* A step that changes neither snapshots nor the system.
LEMMA IdleLease ==
  ASSUME LeaseInv, pc # "closed", UNCHANGED <<disk, mem, os, touched>>,
         pc' \in {"applyEntry", "applySave"} => AppliedInPlace'
  PROVE  LeaseInv'
<1>1. Narrowed(mem, mem)
  BY DEF Narrowed
<1> QED BY <1>1, SaveLease

LEMMA OpenLease ==
  ASSUME IInv, LeaseInv, Open
  PROVE  LeaseInv'
<1>1. /\ mem' = FromSnapshot(disk) /\ WellFormed(disk) /\ disk' = disk
      /\ os' = os /\ touched' = touched /\ pc' = "open"
  BY DEF Open, IInv, TypeOK
<1>2. LeaseSnapshot(mem')
  BY <1>1, LoadLease, NarrowedLease DEF LeaseInv
<1>3. ActiveInstalled'
  BY <1>1 DEF LeaseInv, ActiveInstalled, InPlace
<1>4. ActiveSaved' /\ DoubtKept'
  BY <1>1, LoadLease DEF ActiveSaved, DoubtKept
<1> QED BY <1>1, <1>2, <1>3, <1>4 DEF LeaseInv

LEMMA EmptyLease ==
  /\ LeaseSnapshot(EmptySnapshot)
  /\ \A a \in Attempt : EmptySnapshot.records[a] = NoRecord
BY NoRecordFacts DEF EmptySnapshot, LeaseSnapshot, Apart, Timely, BorrowedSeen

LEMMA LeaveLease ==
  ASSUME LeaseInv, Leave
  PROVE  LeaseInv'
<1>1. ActiveInstalled'
  BY DEF Leave, LeaseInv, ActiveInstalled, InPlace
<1>2. ActiveSaved'
  BY EmptyLease, NoRecordFacts DEF Leave, ActiveSaved
<1> QED BY <1>1, <1>2, EmptyLease DEF Leave, LeaseInv

LEMMA NetworkChangedLease ==
  ASSUME IInv, LeaseInv, NEW outcome \in SaveOutcome, NetworkChanged(outcome)
  PROVE  LeaseInv'
<1>1. /\ mem' = Invalidated(mem) /\ WellFormed(mem) /\ UNCHANGED <<os, touched>>
      /\ pc = "open" /\ pc' = "open" /\ (disk' = disk \/ disk' = mem')
  BY DEF NetworkChanged, Save, Return, IInv, TypeOK
<1>2. /\ Narrowed(mem, mem')
      /\ \A a \in Attempt : /\ mem'.records[a].phase # "Active"
                            /\ mem'.records[a] # NoRecord => mem'.records[a].uncertain
                            /\ mem'.records[a] = NoRecord => mem.records[a] = NoRecord
  BY <1>1, InvalidatedLease
<1>3. \A a \in Attempt : mem.records[a].uncertain => mem'.records[a].uncertain
  <2> SUFFICES ASSUME NEW a \in Attempt, mem.records[a].uncertain
               PROVE  mem'.records[a].uncertain
    OBVIOUS
  <2>1. mem.records[a] # NoRecord
    BY NoRecordFacts
  <2> QED BY <1>2, <2>1
<1>4. pc # "closed" /\ ~(pc' \in {"applyEntry", "applySave"})
  BY <1>1
<1>5. UNCHANGED <<os, touched>> /\ (disk' = disk \/ disk' = mem')
  BY <1>1
<1> QED BY <1>2, <1>3, <1>4, <1>5, SaveLease

\* A new record was compared with every other (preview).
LEMMA PrepareLease ==
  ASSUME IInv, LeaseInv, NEW plan \in Plan, NEW outcome \in SaveOutcome, Prepare(plan, outcome)
  PROVE  LeaseInv'
<1> DEFINE a == plan.request.attempt
           rec == PreparedRecord(mem, os, plan)
           added == SetRecord(mem, a, rec)
<1>1. /\ WellFormed(mem) /\ UNCHANGED <<os, touched>> /\ os \in [Resource -> Identity]
      /\ pc = "open" /\ pc' = "open" /\ (disk' = disk \/ disk' = added)
      /\ mem' = mem \/ (mem' = added /\ disk' = added)
      /\ mem.records[a] = NoRecord /\ Preview(mem, plan) /\ a \in Attempt
      /\ plan.request.resources \in Seq(Resource)
  <2>1. plan.request \in Request
    BY DEF Plan
  <2>2. a \in Attempt /\ plan.request.resources \in Seq(Resource)
    BY <2>1, RequestAssumption
  <2>3. outcome = "ok" => disk' = added
    BY DEF Prepare, Save
  <2>4. mem' = mem \/ (mem' = added /\ outcome = "ok")
    BY DEF Prepare
  <2> QED BY <2>2, <2>3, <2>4 DEF Prepare, Save, Return, IInv, TypeOK, Present
<1>2. /\ rec.plan = plan /\ rec.phase = "Prepared" /\ rec.uncertain = FALSE
      /\ DOMAIN rec.entries = 1..Len(plan.request.resources)
      /\ \A i \in DOMAIN rec.entries : rec.entries[i].borrowed => rec.entries[i].fingerprint # Absent
  BY DEF PreparedRecord
<1>3. rec # NoRecord
  BY <1>2, NoRecordFacts
<1>4. /\ added.epoch = mem.epoch /\ added.records[a] = rec
      /\ \A b \in Attempt \ {a} : added.records[b] = mem.records[b]
  <2>1. added.epoch = mem.epoch
    BY <1>1, EpochFacts
  <2>2. added.records = [mem.records EXCEPT ![a] = rec]
    BY <1>1 DEF SetRecord, WellFormed
  <2> QED BY <1>1, <2>1, <2>2 DEF WellFormed
<1> HIDE DEF added, rec
<1>5. ASSUME NEW b \in Attempt, b # a, mem.records[b] # NoRecord
      PROVE  /\ mem.records[b].plan.request.profile # plan.request.profile
             /\ \A i \in DOMAIN rec.entries, j \in DOMAIN mem.records[b].entries :
                  LET r == ResourceOf(rec, i)
                      q == ResourceOf(mem.records[b], j)
                  IN  /\ Conflicts(r, q) => Shareable(r, q)
                      /\ Conflicts(q, r) => Shareable(q, r)
  <2>1. Compatible(mem.records[b], plan)
    BY <1>1, <1>5 DEF Preview, Present
  <2>2. ASSUME NEW i \in DOMAIN rec.entries, NEW j \in DOMAIN mem.records[b].entries,
               NEW r, r = ResourceOf(rec, i), NEW q, q = ResourceOf(mem.records[b], j)
        PROVE  /\ Conflicts(r, q) => Shareable(r, q)
               /\ Conflicts(q, r) => Shareable(q, r)
    <3>1. i \in DOMAIN plan.request.resources /\ r = plan.request.resources[i] /\ r \in Resource
      BY <1>1, <1>2, <2>2 DEF ResourceOf
    <3>2. q \in Resource
      BY <1>1, <2>2, RecordFacts
    <3>3. Conflicts(r, q) => Shareable(r, q)
      BY <2>1, <2>2, <3>1 DEF Compatible
    <3> QED BY <3>1, <3>2, <3>3, ConflictsFacts, ShareableFacts
  <2> QED BY <2>1, <2>2 DEF Compatible
<1>6. Apart(added)
  <2> SUFFICES ASSUME NEW b \in Attempt, NEW c \in Attempt, b # c,
                      added.records[b] # NoRecord, added.records[c] # NoRecord
               PROVE  /\ added.records[b].plan.request.profile # added.records[c].plan.request.profile
                      /\ \A i \in DOMAIN added.records[b].entries, j \in DOMAIN added.records[c].entries :
                           Conflicts(ResourceOf(added.records[b], i), ResourceOf(added.records[c], j)) =>
                             Shareable(ResourceOf(added.records[b], i), ResourceOf(added.records[c], j))
    BY DEF Apart
  <2>1. CASE b = a
    BY <1>2, <1>4, <1>5, <2>1
  <2>2. CASE c = a
    BY <1>2, <1>4, <1>5, <2>2
  <2>3. CASE b # a /\ c # a
    BY <1>4, <2>3 DEF LeaseInv, LeaseSnapshot, Apart
  <2> QED BY <2>1, <2>2, <2>3
<1>7. Timely(added)
  BY <1>1, <1>2, <1>4 DEF Preview, LeaseInv, LeaseSnapshot, Timely
<1>8. BorrowedSeen(added)
  <2> SUFFICES ASSUME NEW b \in Attempt, NEW i \in DOMAIN added.records[b].entries,
                      added.records[b].entries[i].borrowed
               PROVE  added.records[b].entries[i].fingerprint # Absent
    BY DEF BorrowedSeen
  <2>1. CASE b = a
    BY <1>2, <1>4, <2>1
  <2>2. CASE b # a
    BY <1>4, <2>2 DEF LeaseInv, LeaseSnapshot, BorrowedSeen
  <2> QED BY <2>1, <2>2
<1>9. LeaseSnapshot(mem') /\ LeaseSnapshot(disk')
  BY <1>1, <1>6, <1>7, <1>8 DEF LeaseInv, LeaseSnapshot
<1>10. \A b \in Attempt : disk'.records[b].phase = "Active" => disk'.records[b] = disk.records[b]
  BY <1>1, <1>2, <1>4 DEF LeaseInv, ActiveSaved
<1>11. ActiveInstalled'
  BY <1>1, <1>10 DEF LeaseInv, ActiveInstalled, InPlace
<1>12. ActiveSaved'
  BY <1>1, <1>2, <1>4, NoRecordFacts DEF LeaseInv, ActiveSaved
<1>13. DoubtKept'
  BY <1>1, <1>2, <1>4, NoRecordFacts DEF LeaseInv, DoubtKept
<1> QED BY <1>1, <1>9, <1>11, <1>12, <1>13 DEF LeaseInv

\* A step that changes the system and leaves the journal alone.
LEMMA ChangeLease ==
  ASSUME LeaseInv, pc # "closed", UNCHANGED <<disk, touched>>, Narrowed(mem, mem'),
         \A a \in Attempt :
           /\ mem'.records[a].phase = "Active" => mem'.records[a] = mem.records[a]
           /\ mem.records[a].uncertain => mem'.records[a].uncertain,
         \A a \in Attempt : \A i \in DOMAIN disk.records[a].entries :
           LET r == ResourceOf(disk.records[a], i)
           IN  disk.records[a].phase = "Active" /\ r \notin touched => os'[r] = os[r],
         pc' \in {"applyEntry", "applySave"} => AppliedInPlace'
  PROVE  LeaseInv'
<1>1. LeaseSnapshot(mem') /\ LeaseSnapshot(disk')
  BY NarrowedLease DEF LeaseInv
<1>2. ActiveInstalled'
  BY DEF LeaseInv, ActiveInstalled, InPlace
<1>3. ActiveSaved'
  BY DEF LeaseInv, ActiveSaved
<1>4. DoubtKept'
  BY DEF LeaseInv, DoubtKept
<1> QED BY <1>1, <1>2, <1>3, <1>4 DEF LeaseInv

LEMMA ApplyBeginLease ==
  ASSUME IInv, IInv', LeaseInv, NEW a \in Attempt, NEW outcome \in SaveOutcome,
         ApplyBegin(a, outcome)
  PROVE  LeaseInv'
<1>1. /\ mem.records[a].phase = "Prepared" /\ WellFormed(mem) /\ WellFormed(mem')
      /\ mem' = SetPhase(mem, a, "Applying", TRUE)
      /\ UNCHANGED <<os, touched>> /\ (disk' = disk \/ disk' = mem')
      /\ pc = "open" /\ cur' = a
      /\ \/ pc' = "rollback"
         \/ pc' = "applyEntry" /\ idx' = 1
  BY DEF ApplyBegin, Save, IInv, TypeOK
<1>2. mem.records[a] # NoRecord
  BY <1>1, NoRecordFacts
<1>3. Narrowed(mem, mem') /\ Rephased(mem, mem', a, "Applying", TRUE)
  BY <1>1, <1>2, RephasedLease DEF Phase
<1>4. \A b \in Attempt :
        /\ mem'.records[b].phase = "Active" => mem'.records[b] = mem.records[b]
        /\ mem.records[b].uncertain => mem'.records[b].uncertain
  BY <1>3 DEF Rephased
<1>5. pc' \in {"applyEntry", "applySave"} => AppliedInPlace'
  <2> SUFFICES ASSUME pc' = "applyEntry", idx' = 1, NEW i \in DOMAIN CurRecord'.entries
               PROVE  ~(i < 1)
    BY <1>1 DEF AppliedInPlace
  <2>1. CurRecord' = mem'.records[a] /\ mem'.records[a] # NoRecord
    BY <1>1, <1>3 DEF CurRecord, Rephased
  <2>2. CurRecord'.entries \in Seq(Entry)
    BY <1>1, <2>1, RecordFacts
  <2> QED BY <2>2
<1>6. pc # "closed"
  BY <1>1
<1> QED BY <1>1, <1>3, <1>4, <1>5, <1>6, SaveLease

LEMMA ApplyBorrowedLease ==
  ASSUME IInv, LeaseInv, ApplyBorrowed
  PROVE  LeaseInv'
<1>1. /\ cur \in Attempt /\ idx \in DOMAIN CurRecord.entries /\ idx \in Nat
      /\ CurRecord.entries \in Seq(Entry) /\ CurEntry.borrowed
      /\ pc = "applyEntry"
      /\ UNCHANGED <<disk, mem, os, touched, cur>>
  BY ApplyLoopFacts, InCallFacts DEF ApplyBorrowed, store
<1>2. \/ pc' = "applyFailed"
      \/ pc' = "applyEntry" /\ idx' = idx + 1 /\ os[CurResource] = CurEntry.fingerprint
  BY <1>1 DEF ApplyBorrowed
<1>3. CurEntry.fingerprint # Absent
  BY <1>1 DEF LeaseInv, LeaseSnapshot, BorrowedSeen, CurEntry, CurRecord
<1>4. pc' \in {"applyEntry", "applySave"} => AppliedInPlace'
  <2> SUFFICES ASSUME pc' = "applyEntry", idx' = idx + 1, os[CurResource] = CurEntry.fingerprint,
                      NEW i \in DOMAIN CurRecord.entries, i < idx + 1
               PROVE  InPlace(CurRecord, i)
    BY <1>1, <1>2 DEF AppliedInPlace, CurRecord, InPlace
  <2>1. CASE i < idx
    BY <1>1, <2>1 DEF LeaseInv, AppliedInPlace
  <2>2. CASE i = idx
    BY <1>3, <2>2 DEF InPlace, CurResource, CurEntry
  <2>3. i \in Nat
    BY <1>1
  <2> QED BY <1>1, <2>1, <2>2, <2>3
<1> QED BY <1>1, <1>4, IdleLease

\* One fingerprint of a record that is not active, which was not borrowed.
LEMMA FingerprintLease ==
  ASSUME NEW s, WellFormed(s), NEW a \in Attempt, NEW k \in DOMAIN s.records[a].entries,
         ~s.records[a].entries[k].borrowed, NEW id \in Identity, s.records[a].phase # "Active",
         NEW t, t = SetFingerprint(s, a, k, id)
  PROVE  /\ Narrowed(s, t) /\ Refingerprinted(s, t, a, k, id)
         /\ \A b \in Attempt :
              /\ t.records[b].phase = "Active" => t.records[b] = s.records[b]
              /\ s.records[b].uncertain => t.records[b].uncertain
<1>1. Refingerprinted(s, t, a, k, id)
  BY SetFingerprintFacts
<1>2. t.epoch = s.epoch
  BY EpochFacts
<1>3. Narrowed(s, t)
  <2> SUFFICES ASSUME NEW b \in Attempt, t.records[b] # NoRecord
               PROVE  /\ s.records[b] # NoRecord
                      /\ t.records[b].plan = s.records[b].plan
                      /\ DOMAIN t.records[b].entries = DOMAIN s.records[b].entries
                      /\ \A i \in DOMAIN s.records[b].entries :
                           t.records[b].entries[i].borrowed =>
                             /\ s.records[b].entries[i].borrowed
                             /\ t.records[b].entries[i].fingerprint = s.records[b].entries[i].fingerprint
                      /\ t.records[b].phase = s.records[b].phase
    BY <1>2 DEF Narrowed
  <2> QED BY <1>1 DEF Refingerprinted
<1>4. \A b \in Attempt :
        /\ t.records[b].phase = "Active" => t.records[b] = s.records[b]
        /\ s.records[b].uncertain => t.records[b].uncertain
  BY <1>1 DEF Refingerprinted
<1> QED BY <1>1, <1>3, <1>4

\* The entry the loop is at gets the identity that is there, which is ours.
LEMMA RecordedLease ==
  ASSUME IInv, LeaseInv, InApplyLoop, ~CurEntry.borrowed,
         mem' = SetFingerprint(mem, cur, idx, Own), pc' = "applySave",
         UNCHANGED <<disk, touched, local>>, os'[CurResource] = Own,
         \A r \in Resource : r # CurResource => os'[r] = os[r],
         os[CurResource] \in {Own, Absent}
  PROVE  LeaseInv'
<1>1. /\ cur \in Attempt /\ idx \in DOMAIN CurRecord.entries /\ idx \in Nat
      /\ CurRecord.entries \in Seq(Entry) /\ CurRecord # NoRecord
      /\ CurRecord.phase = "Applying" /\ pc = "applyEntry" /\ disk = mem
      /\ WellFormed(mem) /\ CurResource \in Resource
      /\ cur' = cur /\ idx' = idx
  BY ApplyLoopFacts, InCallFacts DEF local
<1>2. Own \in Identity /\ Own # Absent
  BY IdentityAssumption DEF Identity
<1>3. /\ Narrowed(mem, mem') /\ Refingerprinted(mem, mem', cur, idx, Own)
      /\ \A b \in Attempt :
           /\ mem'.records[b].phase = "Active" => mem'.records[b] = mem.records[b]
           /\ mem.records[b].uncertain => mem'.records[b].uncertain
  BY <1>1, <1>2, FingerprintLease DEF CurRecord, CurEntry
<1>4. \A a \in Attempt : \A i \in DOMAIN disk.records[a].entries :
        LET r == ResourceOf(disk.records[a], i)
        IN  disk.records[a].phase = "Active" /\ r \notin touched => os'[r] = os[r]
  <2> SUFFICES ASSUME NEW a \in Attempt, NEW i \in DOMAIN disk.records[a].entries,
                      disk.records[a].phase = "Active", ResourceOf(disk.records[a], i) \notin touched
               PROVE  os'[ResourceOf(disk.records[a], i)] = os[ResourceOf(disk.records[a], i)]
    OBVIOUS
  <2>1. os[ResourceOf(disk.records[a], i)] # Absent
    BY DEF LeaseInv, ActiveInstalled, InPlace
  <2>2. ResourceOf(disk.records[a], i) \in Resource
    BY <1>1, RecordFacts
  <2> QED BY <2>1, <2>2
<1>5. AppliedInPlace'
  <2>1. CurRecord' = mem'.records[cur]
    BY <1>1 DEF CurRecord
  <2>2. /\ DOMAIN CurRecord'.entries = DOMAIN CurRecord.entries /\ CurRecord'.plan = CurRecord.plan
        /\ \A i \in DOMAIN CurRecord.entries :
             CurRecord'.entries[i].fingerprint = IF i = idx THEN Own ELSE CurRecord.entries[i].fingerprint
    BY <1>1, <1>3, <2>1 DEF Refingerprinted, CurRecord
  <2> SUFFICES ASSUME NEW i \in DOMAIN CurRecord.entries, i < idx \/ i = idx,
                      NEW r, r = ResourceOf(CurRecord, i)
               PROVE  r \in touched \/ (os'[r] = CurRecord'.entries[i].fingerprint /\ os'[r] # Absent)
    BY <1>1, <2>2 DEF AppliedInPlace, InPlace, ResourceOf
  <2>3. CASE i = idx
    BY <1>2, <2>2, <2>3 DEF CurResource
  <2>4. CASE i < idx
    <3>1. r \in touched \/ (os[r] = CurRecord.entries[i].fingerprint /\ os[r] # Absent)
      BY <1>1, <2>4 DEF LeaseInv, AppliedInPlace, InPlace
    <3>2. r \in Resource /\ i # idx
      BY <1>1, <2>4, RecordFacts DEF CurRecord
    <3> QED BY <2>2, <3>1, <3>2
  <2> QED BY <2>3, <2>4
<1>6. pc # "closed"
  BY <1>1
<1> QED BY <1>3, <1>4, <1>5, <1>6, ChangeLease

LEMMA ApplySharedLease ==
  ASSUME IInv, LeaseInv, ApplyShared
  PROVE  LeaseInv'
<1>1. /\ InApplyLoop /\ ~CurEntry.borrowed /\ UNCHANGED <<disk, touched, local>> /\ os' = os
      /\ pc = "applyEntry"
  BY DEF ApplyShared, InApplyLoop
<1>2. PICK b \in Attempt : \E j \in DOMAIN mem.records[b].entries :
        LET id == mem.records[b].entries[j].fingerprint
        IN  /\ Sharer(b, j)
            /\ IF os[CurResource] = id
               THEN mem' = SetFingerprint(mem, cur, idx, id) /\ pc' = "applySave"
               ELSE mem' = mem /\ pc' = "applyFailed"
  BY DEF ApplyShared
<1>3. PICK j \in DOMAIN mem.records[b].entries :
        LET id == mem.records[b].entries[j].fingerprint
        IN  /\ Sharer(b, j)
            /\ IF os[CurResource] = id
               THEN mem' = SetFingerprint(mem, cur, idx, id) /\ pc' = "applySave"
               ELSE mem' = mem /\ pc' = "applyFailed"
  BY <1>2
<1>4. mem.records[b].entries[j].fingerprint = Own
  <2>1. mem.records[b].phase = "Active" /\ ~mem.records[b].entries[j].borrowed
    BY <1>3 DEF Sharer
  <2> QED BY <2>1 DEF IInv, SnapshotInv, Complete
<1>5. CASE os[CurResource] = Own
  <2>1. mem' = SetFingerprint(mem, cur, idx, Own) /\ pc' = "applySave"
    BY <1>3, <1>4, <1>5
  <2> QED BY <1>1, <1>5, <2>1, RecordedLease
<1>6. CASE os[CurResource] # Own
  <2>1. mem' = mem /\ pc' = "applyFailed"
    BY <1>3, <1>4, <1>6
  <2>2. pc # "closed" /\ ~(pc' \in {"applyEntry", "applySave"})
    BY <1>1, <2>1
  <2> QED BY <1>1, <2>1, <2>2, IdleLease
<1> QED BY <1>5, <1>6

LEMMA ApplyCreateLease ==
  ASSUME IInv, LeaseInv, NEW ok \in BOOLEAN, NEW created \in BOOLEAN, ApplyCreate(ok, created)
  PROVE  LeaseInv'
<1>1. /\ InApplyLoop /\ ~CurEntry.borrowed /\ UNCHANGED <<disk, touched, local>>
      /\ pc = "applyEntry" /\ CurResource \in Resource /\ os \in [Resource -> Identity]
      /\ disk = mem /\ WellFormed(disk)
  BY ApplyLoopFacts DEF ApplyCreate, InApplyLoop, IInv, TypeOK
<1>2. CASE pc' = "applySave"
  <2>1. /\ os[CurResource] = Absent /\ ok /\ created
        /\ mem' = SetFingerprint(mem, cur, idx, Own)
        /\ os' = [os EXCEPT ![CurResource] = Own]
    BY <1>2 DEF ApplyCreate
  <2>2. os'[CurResource] = Own /\ \A r \in Resource : r # CurResource => os'[r] = os[r]
    BY <1>1, <2>1
  <2> QED BY <1>1, <1>2, <2>1, <2>2, RecordedLease
<1>3. CASE pc' # "applySave"
  <2>1. pc' = "applyFailed" /\ mem' = mem
    BY <1>3 DEF ApplyCreate
  <2>2. \A r \in Resource : os[r] # Absent => os'[r] = os[r]
    BY <1>1 DEF ApplyCreate
  <2>3. \A a \in Attempt : \A i \in DOMAIN disk.records[a].entries :
          LET r == ResourceOf(disk.records[a], i)
          IN  disk.records[a].phase = "Active" /\ r \notin touched => os'[r] = os[r]
    <3> SUFFICES ASSUME NEW a \in Attempt, NEW i \in DOMAIN disk.records[a].entries,
                        disk.records[a].phase = "Active", ResourceOf(disk.records[a], i) \notin touched
                 PROVE  os'[ResourceOf(disk.records[a], i)] = os[ResourceOf(disk.records[a], i)]
      OBVIOUS
    <3>1. os[ResourceOf(disk.records[a], i)] # Absent
      BY DEF LeaseInv, ActiveInstalled, InPlace
    <3>2. ResourceOf(disk.records[a], i) \in Resource
      BY <1>1, RecordFacts
    <3> QED BY <2>2, <3>1, <3>2
  <2>4. Narrowed(mem, mem')
    BY <2>1 DEF Narrowed
  <2>5. pc # "closed" /\ ~(pc' \in {"applyEntry", "applySave"})
    BY <1>1, <2>1
  <2> QED BY <1>1, <2>1, <2>3, <2>4, <2>5, ChangeLease
<1> QED BY <1>2, <1>3

LEMMA ApplySaveLease ==
  ASSUME IInv, LeaseInv, NEW outcome \in SaveOutcome, ApplySave(outcome)
  PROVE  LeaseInv'
<1>1. InCall /\ pc = "applySave"
  BY DEF ApplySave, InCall
<1>2. /\ UNCHANGED <<mem, os, touched, cur>> /\ (disk' = disk \/ disk' = mem')
      /\ \/ pc' = "rollback"
         \/ pc' = "applyEntry" /\ idx' = idx + 1
  BY DEF ApplySave, Save
<1>3. cur \in Attempt /\ CurRecord.entries \in Seq(Entry) /\ idx \in Nat
  BY <1>1, InCallFacts
<1>4. pc' \in {"applyEntry", "applySave"} => AppliedInPlace'
  <2> SUFFICES ASSUME pc' = "applyEntry", idx' = idx + 1,
                      NEW i \in DOMAIN CurRecord.entries, i < idx + 1
               PROVE  InPlace(CurRecord, i)
    BY <1>2 DEF AppliedInPlace, CurRecord, InPlace
  <2>1. i < idx \/ i = idx
    BY <1>3
  <2> QED BY <1>1, <2>1 DEF LeaseInv, AppliedInPlace
<1>5. Narrowed(mem, mem') /\ pc # "closed"
  BY <1>1, <1>2 DEF Narrowed
<1> QED BY <1>2, <1>4, <1>5, SaveLease

\* The record of the call under way is given a phase that is not current.
LEMMA SetBackLease ==
  ASSUME IInv, LeaseInv, NEW a \in Attempt, mem.records[a] # NoRecord,
         NEW ph \in {"RecoveryRequired", "Releasing"}, NEW u \in BOOLEAN,
         mem.records[a].uncertain => u, mem' = SetPhase(mem, a, ph, u),
         pc # "closed", pc' \notin {"applyEntry", "applySave"},
         UNCHANGED <<os, touched>>, disk' = disk \/ disk' = mem'
  PROVE  LeaseInv'
<1>1. WellFormed(mem)
  BY DEF IInv, TypeOK
<1>2. ph \in Phase
  BY DEF Phase
<1>3. Narrowed(mem, mem') /\ Rephased(mem, mem', a, ph, u)
  BY <1>1, <1>2, RephasedLease
<1>4. \A b \in Attempt :
        /\ mem'.records[b].phase = "Active" => mem'.records[b] = mem.records[b]
        /\ mem.records[b].uncertain => mem'.records[b].uncertain
  BY <1>3 DEF Rephased
<1> QED BY <1>3, <1>4, SaveLease

LEMMA ApplyFailedLease ==
  ASSUME IInv, LeaseInv, NEW outcome \in SaveOutcome, ApplyFailed(outcome)
  PROVE  LeaseInv'
<1>1. InCall /\ pc = "applyFailed"
  BY DEF ApplyFailed, InCall
<1>2. /\ mem' = SetPhase(mem, cur, "RecoveryRequired", CurRecord.uncertain)
      /\ UNCHANGED <<os, touched>> /\ (disk' = disk \/ disk' = mem') /\ pc' = "rollback"
  BY DEF ApplyFailed, Save
<1>3. cur \in Attempt /\ CurRecord # NoRecord /\ CurRecord.uncertain \in BOOLEAN
  BY <1>1, InCallFacts
<1> QED BY <1>1, <1>2, <1>3, SetBackLease DEF CurRecord

LEMMA ApplyCommitLease ==
  ASSUME IInv, LeaseInv, NEW outcome \in SaveOutcome, ApplyCommit(outcome)
  PROVE  LeaseInv'
<1> DEFINE active == SetPhase(mem, cur, "Active", FALSE)
           lost == SetPhase(mem, cur, "RecoveryRequired", TRUE)
<1>1. InCall /\ pc = "applyEntry" /\ idx > Len(CurRecord.entries)
  BY DEF ApplyCommit, InCall
<1>2. /\ cur \in Attempt /\ CurRecord # NoRecord /\ WellFormed(mem)
      /\ CurRecord.entries \in Seq(Entry) /\ idx \in Nat
      /\ disk = mem /\ CurRecord.phase = "Applying" /\ AppliedInPlace
  BY <1>1, InCallFacts DEF IInv, ControlInv, ApplyProgress, LeaseInv
<1>3. /\ UNCHANGED <<os, touched>> /\ (disk' = disk \/ disk' = active)
      /\ \/ mem' = active /\ disk' = active /\ pc' = "open"
         \/ mem' = lost /\ pc' = "rollback"
  <2>1. CASE outcome = "ok"
    BY <2>1 DEF ApplyCommit, Save, Return
  <2>2. CASE outcome # "ok"
    BY <2>2 DEF ApplyCommit, Save
  <2> QED BY <2>1, <2>2
<1>4. /\ Narrowed(mem, active) /\ Rephased(mem, active, cur, "Active", FALSE)
      /\ Narrowed(mem, lost) /\ Rephased(mem, lost, cur, "RecoveryRequired", TRUE)
  <2>1. Narrowed(mem, active) /\ Rephased(mem, active, cur, "Active", FALSE)
    BY <1>2, RephasedLease DEF Phase, CurRecord
  <2>2. Narrowed(mem, lost) /\ Rephased(mem, lost, cur, "RecoveryRequired", TRUE)
    BY <1>2, RephasedLease DEF Phase, CurRecord
  <2> QED BY <2>1, <2>2
<1> HIDE DEF active, lost
<1>5. LeaseSnapshot(mem') /\ LeaseSnapshot(disk')
  BY <1>3, <1>4, NarrowedLease DEF LeaseInv
<1>6. ActiveInstalled'
  <2> SUFFICES ASSUME NEW a \in Attempt, disk'.records[a].phase = "Active",
                      NEW i \in DOMAIN disk'.records[a].entries
               PROVE  InPlace(disk.records[a], i)'
    BY DEF ActiveInstalled
  <2>1. CASE disk'.records[a] = disk.records[a]
    BY <1>3, <2>1 DEF LeaseInv, ActiveInstalled, InPlace
  <2>2. CASE disk'.records[a] # disk.records[a]
    <3>1. disk' = active /\ a = cur
      BY <1>2, <1>3, <1>4, <2>2 DEF Rephased
    <3>2. disk'.records[a].entries = CurRecord.entries /\ disk'.records[a].plan = CurRecord.plan
      BY <1>2, <1>4, <3>1 DEF Rephased, CurRecord
    <3>3. i \in DOMAIN CurRecord.entries /\ i < idx
      BY <1>1, <1>2, <3>2
    <3>4. InPlace(CurRecord, i)
      BY <1>2, <3>3 DEF AppliedInPlace
    <3> QED BY <1>3, <3>2, <3>4 DEF InPlace, ResourceOf
  <2> QED BY <2>1, <2>2
<1>7. ActiveSaved'
  <2>1. CASE mem' = active /\ disk' = active
    BY <2>1 DEF ActiveSaved
  <2>2. CASE mem' = lost
    <3>1. \A b \in Attempt : b # cur => disk'.records[b] = mem'.records[b]
      BY <1>2, <1>3, <1>4, <2>2 DEF Rephased
    <3> QED BY <1>4, <2>2, <3>1 DEF ActiveSaved, Rephased
  <2> QED BY <1>3, <2>1, <2>2
<1>8. DoubtKept'
  <2>1. CASE mem' = active /\ disk' = active
    BY <2>1 DEF DoubtKept
  <2>2. CASE mem' = lost
    <3>1. \A b \in Attempt : b # cur => disk'.records[b] = mem'.records[b]
      BY <1>2, <1>3, <1>4, <2>2 DEF Rephased
    <3> QED BY <1>4, <2>2, <3>1 DEF DoubtKept, Rephased
  <2> QED BY <1>3, <2>1, <2>2
<1>9. pc' \notin {"applyEntry", "applySave"}
  BY <1>3
<1> QED BY <1>5, <1>6, <1>7, <1>8, <1>9 DEF LeaseInv

LEMMA ReleaseBeginLease ==
  ASSUME IInv, LeaseInv, NEW a \in Attempt, NEW outcome \in SaveOutcome, ReleaseBegin(a, outcome)
  PROVE  LeaseInv'
<1>1. /\ mem.records[a] # NoRecord /\ WellFormed(mem)
      /\ mem' = SetPhase(mem, a, "Releasing", StillUncertain(mem.records[a]))
      /\ UNCHANGED <<os, touched>> /\ (disk' = disk \/ disk' = mem')
      /\ pc \in {"open", "rollback"} /\ pc' \in {"releaseEntry", "open"}
  BY DEF ReleaseBegin, Save, Return, IInv, TypeOK
<1>2. /\ StillUncertain(mem.records[a]) \in BOOLEAN
      /\ mem.records[a].uncertain => StillUncertain(mem.records[a])
  BY DEF StillUncertain
<1> HIDE DEF StillUncertain
<1>3. pc # "closed" /\ pc' \notin {"applyEntry", "applySave"}
  BY <1>1
<1> QED BY <1>1, <1>2, <1>3, SetBackLease

LEMMA ReleaseSkipLease ==
  ASSUME IInv, LeaseInv, InReleaseLoop, UNCHANGED <<store, os, touched, pc>>
  PROVE  LeaseInv'
<1>1. pc = "releaseEntry" /\ UNCHANGED <<disk, mem, os, touched, pc>>
  BY DEF InReleaseLoop, store
<1>2. pc # "closed" /\ ~(pc' \in {"applyEntry", "applySave"})
  BY <1>1
<1> QED BY <1>1, <1>2, IdleLease

\* What an active lease has is not removed: whoever else names it with the same
\* identity shares it.
LEMMA ReleaseRemoveLease ==
  ASSUME IInv, LeaseInv, NEW ok \in BOOLEAN, NEW removed \in BOOLEAN, ReleaseRemove(ok, removed)
  PROVE  LeaseInv'
<1>1. /\ InReleaseLoop /\ ~CurEntry.borrowed /\ ~SharedElsewhere
      /\ UNCHANGED <<disk, touched, cur>>
      /\ removed => os[CurResource] = CurEntry.fingerprint
      /\ os' = IF removed THEN [os EXCEPT ![CurResource] = Absent] ELSE os
      /\ \/ mem' = SetFingerprint(mem, cur, idx, Absent)
         \/ mem' = mem
      /\ pc' = "releaseSave" \/ pc' = pc
  BY DEF ReleaseRemove
<1>2. /\ pc = "releaseEntry" /\ idx \in DOMAIN CurRecord.entries /\ CurResource \in Resource
      /\ disk = mem /\ cur \in Attempt /\ CurRecord # NoRecord /\ WellFormed(mem)
      /\ CurRecord.phase = "Releasing" /\ os \in [Resource -> Identity]
  BY <1>1, ReleaseLoopFacts, InCallFacts DEF ReleaseProgress, IInv, TypeOK
<1>3. /\ Narrowed(mem, mem')
      /\ \A b \in Attempt :
           /\ mem'.records[b].phase = "Active" => mem'.records[b] = mem.records[b]
           /\ mem.records[b].uncertain => mem'.records[b].uncertain
  <2>1. CASE mem' = mem
    BY <2>1 DEF Narrowed
  <2>2. CASE mem' = SetFingerprint(mem, cur, idx, Absent)
    <3>1. Absent \in Identity
      BY DEF Identity
    <3> QED BY <1>1, <1>2, <2>2, <3>1, FingerprintLease DEF CurRecord, CurEntry
  <2> QED BY <1>1, <2>1, <2>2
<1>4. \A a \in Attempt : \A i \in DOMAIN disk.records[a].entries :
        LET r == ResourceOf(disk.records[a], i)
        IN  disk.records[a].phase = "Active" /\ r \notin touched => os'[r] = os[r]
  <2> SUFFICES ASSUME NEW a \in Attempt, NEW i \in DOMAIN mem.records[a].entries,
                      NEW r, r = ResourceOf(mem.records[a], i),
                      mem.records[a].phase = "Active", r \notin touched, os'[r] # os[r]
               PROVE  FALSE
    BY <1>2
  <2>1. r \in Resource /\ mem.records[a] # NoRecord
    BY <1>2, RecordFacts
  <2>2. r = CurResource /\ removed /\ os[r] = CurEntry.fingerprint
    BY <1>1, <1>2, <2>1
  <2>3. a # cur
    BY <1>2 DEF CurRecord
  <2>4. os[r] = mem.records[a].entries[i].fingerprint
    BY <1>2 DEF LeaseInv, ActiveInstalled, InPlace
  <2>5. Shareable(CurResource, r)
    <3>1. Conflicts(CurResource, r)
      BY <2>1, <2>2, ConflictsFacts
    <3> QED BY <1>2, <2>1, <2>3, <3>1 DEF LeaseInv, LeaseSnapshot, Apart, CurRecord, CurResource
  <2> QED BY <1>1, <2>2, <2>3, <2>4, <2>5 DEF SharedElsewhere
<1>5. pc # "closed" /\ ~(pc' \in {"applyEntry", "applySave"})
  BY <1>1, <1>2
<1> QED BY <1>1, <1>3, <1>4, <1>5, ChangeLease

LEMMA ReleaseSaveLease ==
  ASSUME IInv, LeaseInv, NEW outcome \in SaveOutcome, ReleaseSave(outcome)
  PROVE  LeaseInv'
<1>1. /\ pc = "releaseSave" /\ pc' \in {"releaseEntry", "open"}
      /\ UNCHANGED <<mem, os, touched>> /\ (disk' = disk \/ disk' = mem')
  BY DEF ReleaseSave, Save, Return
<1>2. Narrowed(mem, mem')
  BY <1>1 DEF Narrowed
<1>3. pc # "closed" /\ ~(pc' \in {"applyEntry", "applySave"})
  BY <1>1
<1> QED BY <1>1, <1>2, <1>3, SaveLease

LEMMA ReleaseFailedLease ==
  ASSUME IInv, LeaseInv, NEW outcome \in SaveOutcome, ReleaseFailed(outcome)
  PROVE  LeaseInv'
<1>1. InCall /\ pc = "releaseEntry"
  BY DEF ReleaseFailed, InCall
<1>2. /\ mem' = SetPhase(mem, cur, "RecoveryRequired", CurRecord.uncertain)
      /\ UNCHANGED <<os, touched>> /\ (disk' = disk \/ disk' = mem') /\ pc' = "open"
  BY DEF ReleaseFailed, Save, Return
<1>3. cur \in Attempt /\ CurRecord # NoRecord /\ CurRecord.uncertain \in BOOLEAN
  BY <1>1, InCallFacts
<1> QED BY <1>1, <1>2, <1>3, SetBackLease DEF CurRecord

LEMMA ReleaseCommitLease ==
  ASSUME IInv, LeaseInv, NEW outcome \in SaveOutcome, ReleaseCommit(outcome)
  PROVE  LeaseInv'
<1> DEFINE without == SetRecord(mem, cur, NoRecord)
<1>1. InCall /\ pc = "releaseEntry"
  BY DEF ReleaseCommit, InCall
<1>2. /\ cur \in Attempt /\ WellFormed(mem) /\ disk = mem /\ CurRecord.phase = "Releasing"
  BY <1>1, InCallFacts DEF IInv, ControlInv, ReleaseProgress
<1>3. /\ UNCHANGED <<os, touched>> /\ pc' = "open" /\ (disk' = disk \/ disk' = without)
      /\ \/ mem' = mem
         \/ mem' = without /\ disk' = without
  <2>1. CASE outcome = "ok"
    BY <2>1 DEF ReleaseCommit, Save, Return
  <2>2. CASE outcome # "ok"
    BY <2>2 DEF ReleaseCommit, Save, Return
  <2> QED BY <2>1, <2>2
<1>4. /\ without.records[cur] = NoRecord /\ without.epoch = mem.epoch
      /\ \A b \in Attempt \ {cur} : without.records[b] = mem.records[b]
  <2>1. without.epoch = mem.epoch
    BY <1>2, EpochFacts
  <2> QED BY <1>2, <2>1, SetRecordFacts
<1> HIDE DEF without
<1>5. Narrowed(mem, without)
  BY <1>4 DEF Narrowed
<1>6. LeaseSnapshot(mem') /\ LeaseSnapshot(disk')
  BY <1>3, <1>5, NarrowedLease DEF LeaseInv
<1>7. ActiveInstalled'
  <2>1. \A a \in Attempt : disk'.records[a].phase = "Active" => disk'.records[a] = disk.records[a]
    BY <1>2, <1>3, <1>4, NoRecordFacts
  <2> QED BY <1>3, <2>1 DEF LeaseInv, ActiveInstalled, InPlace
<1>8. ActiveSaved'
  BY <1>2, <1>3, <1>4 DEF ActiveSaved, CurRecord
<1>9. DoubtKept'
  BY <1>2, <1>3, <1>4, NoRecordFacts DEF DoubtKept
<1> QED BY <1>3, <1>6, <1>7, <1>8, <1>9 DEF LeaseInv

\* Others only make us say less.
LEMMA ExternalLease ==
  ASSUME IInv, LeaseInv, NEW r \in Resource, NEW id, External(r, id)
  PROVE  LeaseInv'
<1>1. /\ UNCHANGED <<disk, mem, pc, cur, idx>> /\ touched' = touched \cup {r}
      /\ \A q : q # r => os'[q] = os[q]
  <2>1. os' = [os EXCEPT ![r] = id] /\ os \in [Resource -> Identity]
    BY DEF External, IInv, TypeOK
  <2>2. \A q : q # r => os'[q] = os[q]
    BY <2>1
  <2> QED BY <2>2 DEF External, store, local
<1>2. \A rec, i : InPlace(rec, i) => InPlace(rec, i)'
  BY <1>1 DEF InPlace
<1>3. ActiveInstalled' /\ ActiveSaved' /\ (pc # "closed" => DoubtKept')
  BY <1>1, <1>2 DEF LeaseInv, ActiveInstalled, ActiveSaved, DoubtKept
<1>4. pc \in {"applyEntry", "applySave"} => AppliedInPlace'
  BY <1>1, <1>2 DEF LeaseInv, AppliedInPlace, CurRecord
<1> QED BY <1>1, <1>3, <1>4 DEF LeaseInv

LEMMA InitLease == Init => LeaseInv
<1> SUFFICES ASSUME Init PROVE LeaseInv
  OBVIOUS
<1> QED
  BY EmptyLease, NoRecordFacts DEF Init, LeaseInv, ActiveInstalled, ActiveSaved

\* Every step of the store and of the machine around it keeps LeaseInv.
LEMMA NextLease ==
  ASSUME IInv, IInv', LeaseInv, [Next]_vars
  PROVE  LeaseInv'
<1>1. CASE UNCHANGED vars
  BY <1>1 DEF vars, LeaseInv, ActiveInstalled, InPlace, ActiveSaved, DoubtKept,
     AppliedInPlace, CurRecord
<1>2. CASE Open \/ Close \/ Crash
  BY <1>2, OpenLease, LeaveLease DEF Close, Crash
<1>3. CASE \/ \E plan \in Plan : PrepareRefused(plan) \/ PrepareRepeated(plan)
           \/ \E a \in Attempt : ApplyNothing(a) \/ ApplyRefused(a) \/ ReleaseNothing(a)
           \/ ApplyInspectFails
  <2>1. /\ pc # "closed" /\ UNCHANGED <<disk, mem, os, touched>>
        /\ pc' \in {"open", "rollback"}
    BY <1>3 DEF PrepareRefused, PrepareRepeated, ApplyNothing, ApplyRefused, ReleaseNothing,
       ApplyInspectFails, InApplyLoop, Return, store
  <2>2. ~(pc' \in {"applyEntry", "applySave"})
    BY <2>1
  <2> QED BY <2>1, <2>2, IdleLease
<1>4. CASE ApplyBorrowed \/ ApplyShared
  BY <1>4, ApplyBorrowedLease, ApplySharedLease
<1>5. CASE ReleaseSkip \/ \E ok \in BOOLEAN : ReleaseUncertain(ok)
  BY <1>5, ReleaseSkipLease DEF ReleaseSkip, ReleaseUncertain
<1>6. CASE \E o \in SaveOutcome :
             \/ NetworkChanged(o)
             \/ ApplySave(o) \/ ApplyFailed(o) \/ ApplyCommit(o)
             \/ ReleaseSave(o) \/ ReleaseFailed(o) \/ ReleaseCommit(o)
  BY <1>6, NetworkChangedLease, ApplySaveLease, ApplyFailedLease, ApplyCommitLease,
     ReleaseSaveLease, ReleaseFailedLease, ReleaseCommitLease
<1>7. CASE \E o \in SaveOutcome, plan \in Plan : Prepare(plan, o)
  BY <1>7, PrepareLease
<1>8. CASE \E o \in SaveOutcome, a \in Attempt : ApplyBegin(a, o) \/ ReleaseBegin(a, o)
  BY <1>8, ApplyBeginLease, ReleaseBeginLease
<1>9. CASE \E ok, done \in BOOLEAN : ApplyCreate(ok, done) \/ ReleaseRemove(ok, done)
  BY <1>9, ApplyCreateLease, ReleaseRemoveLease
<1>10. CASE \E r \in Resource, id \in Foreign \cup {Absent} : External(r, id)
  BY <1>10, ExternalLease
<1> QED BY <1>1, <1>2, <1>3, <1>4, <1>5, <1>6, <1>7, <1>8, <1>9, <1>10 DEF Next

\* Doubt about an attempt ends with its record or the commit of its apply.
DoubtStays ==
  \A a \in Attempt :
    disk.records[a].uncertain /\ ~disk'.records[a].uncertain =>
      disk'.records[a] = NoRecord \/ pc = "applyEntry"

\* A journal written from memory that doubts as much.
LEMMA SavedDoubt ==
  ASSUME LeaseInv, pc # "closed", NEW saved, disk' = disk \/ disk' = saved,
         \A a \in Attempt : mem.records[a].uncertain =>
           saved.records[a].uncertain \/ saved.records[a] = NoRecord \/ pc = "applyEntry"
  PROVE  DoubtStays
BY DEF LeaseInv, DoubtKept, DoubtStays

LEMMA NextDoubt ==
  ASSUME IInv, LeaseInv, Next
  PROVE  DoubtStays
<1> USE DEF SaveOutcome
<1>1. CASE UNCHANGED disk
  BY <1>1 DEF DoubtStays
<1>2. ASSUME NEW o \in SaveOutcome, NetworkChanged(o)
      PROVE  DoubtStays
  <2>1. /\ pc = "open" /\ (disk' = disk \/ disk' = Invalidated(mem)) /\ WellFormed(mem)
    BY <1>2 DEF NetworkChanged, Save, IInv, TypeOK
  <2>2. \A a \in Attempt : Invalidated(mem).records[a].uncertain \/ Invalidated(mem).records[a] = NoRecord
    BY <2>1, InvalidatedLease
  <2> QED BY <2>1, <2>2, SavedDoubt
<1>3. ASSUME NEW o \in SaveOutcome, NEW plan \in Plan, Prepare(plan, o)
      PROVE  DoubtStays
  <2> DEFINE a == plan.request.attempt
             added == SetRecord(mem, a, PreparedRecord(mem, os, plan))
  <2>1. /\ pc = "open" /\ (disk' = disk \/ disk' = added) /\ WellFormed(mem)
        /\ a \in Attempt /\ mem.records[a] = NoRecord
    <3>1. a \in Attempt
      BY RequestAssumption DEF Plan
    <3> QED BY <1>3, <3>1 DEF Prepare, Save, Present, IInv, TypeOK
  <2>2. \A b \in Attempt : mem.records[b].uncertain => b # a /\ added.records[b] = mem.records[b]
    BY <2>1, NoRecordFacts DEF SetRecord, WellFormed
  <2> HIDE DEF added
  <2> QED BY <2>1, <2>2, SavedDoubt
<1>4. ASSUME NEW a \in Attempt, mem.records[a] # NoRecord, pc # "closed",
             NEW ph \in Phase, NEW u \in BOOLEAN, mem.records[a].uncertain => u \/ pc = "applyEntry",
             disk' = disk \/ disk' = SetPhase(mem, a, ph, u)
      PROVE  DoubtStays
  <2>1. WellFormed(mem)
    BY DEF IInv, TypeOK
  <2>2. Rephased(mem, SetPhase(mem, a, ph, u), a, ph, u)
    BY <1>4, <2>1, SetPhaseFacts
  <2>3. \A b \in Attempt : mem.records[b].uncertain =>
          SetPhase(mem, a, ph, u).records[b].uncertain \/ pc = "applyEntry"
    BY <1>4, <2>2 DEF Rephased
  <2> QED BY <1>4, <2>3, SavedDoubt
<1>5. ASSUME NEW o \in SaveOutcome, NEW a \in Attempt, ApplyBegin(a, o)
      PROVE  DoubtStays
  <2>1. /\ mem.records[a] # NoRecord /\ pc # "closed"
        /\ disk' = disk \/ disk' = SetPhase(mem, a, "Applying", TRUE)
    BY <1>5, NoRecordFacts DEF ApplyBegin, Save
  <2> QED BY <1>4, <2>1 DEF Phase
<1>6. ASSUME NEW o \in SaveOutcome, NEW a \in Attempt, ReleaseBegin(a, o)
      PROVE  DoubtStays
  <2> DEFINE u == StillUncertain(mem.records[a])
  <2>1. /\ mem.records[a] # NoRecord /\ pc # "closed"
        /\ disk' = disk \/ disk' = SetPhase(mem, a, "Releasing", u)
    BY <1>6 DEF ReleaseBegin, Save
  <2>2. u \in BOOLEAN /\ (mem.records[a].uncertain => u)
    BY DEF StillUncertain
  <2> HIDE DEF u
  <2> QED BY <1>4, <2>1, <2>2 DEF Phase
<1>7. ASSUME NEW o \in SaveOutcome, ApplyFailed(o) \/ ReleaseFailed(o)
      PROVE  DoubtStays
  <2>1. /\ InCall /\ (disk' = disk \/ disk' = SetPhase(mem, cur, "RecoveryRequired", CurRecord.uncertain))
    BY <1>7 DEF ApplyFailed, ReleaseFailed, Save, InCall
  <2>2. /\ cur \in Attempt /\ mem.records[cur] # NoRecord /\ CurRecord.uncertain \in BOOLEAN
        /\ pc # "closed"
    BY <2>1, InCallFacts DEF CurRecord, InCall
  <2> QED BY <1>4, <2>1, <2>2 DEF Phase, CurRecord
<1>8. ASSUME NEW o \in SaveOutcome, ApplyCommit(o)
      PROVE  DoubtStays
  BY <1>8 DEF ApplyCommit, DoubtStays
<1>9. ASSUME NEW o \in SaveOutcome, ApplySave(o) \/ ReleaseSave(o)
      PROVE  DoubtStays
  <2>1. pc # "closed" /\ (disk' = disk \/ disk' = mem)
    BY <1>9 DEF ApplySave, ReleaseSave, Save
  <2> QED BY <2>1, SavedDoubt
<1>10. ASSUME NEW o \in SaveOutcome, ReleaseCommit(o)
       PROVE  DoubtStays
  <2> DEFINE without == SetRecord(mem, cur, NoRecord)
  <2>1. InCall /\ (disk' = disk \/ disk' = without)
    BY <1>10 DEF ReleaseCommit, Save, InCall
  <2>2. cur \in Attempt /\ WellFormed(mem) /\ pc # "closed"
    BY <2>1, InCallFacts DEF InCall
  <2>3. \A b \in Attempt : without.records[b] = NoRecord \/ without.records[b] = mem.records[b]
    BY <2>2, SetRecordFacts
  <2> HIDE DEF without
  <2> QED BY <2>1, <2>2, <2>3, SavedDoubt
<1>11. \/ UNCHANGED disk
       \/ \E o \in SaveOutcome :
            \/ NetworkChanged(o) \/ ApplySave(o) \/ ApplyFailed(o) \/ ApplyCommit(o)
            \/ ReleaseSave(o) \/ ReleaseFailed(o) \/ ReleaseCommit(o)
            \/ \E plan \in Plan : Prepare(plan, o)
            \/ \E a \in Attempt : ApplyBegin(a, o) \/ ReleaseBegin(a, o)
  BY DEF Next, Open, Close, Crash, Leave, ApplyInspectFails, ApplyBorrowed, ApplyShared, ReleaseSkip,
     PrepareRefused, PrepareRepeated, ApplyNothing, ApplyRefused, ReleaseNothing,
     ApplyCreate, ReleaseRemove, ReleaseUncertain, External, store
<1> QED BY <1>1, <1>2, <1>3, <1>5, <1>6, <1>7, <1>8, <1>9, <1>10, <1>11

\* For all attempts, plans, crashes and failed writes: an active lease has what
\* it asked for, no two leases compete, none is current after a network change,
\* and an interrupted apply is not forgotten.
THEOREM LeasesKept == ASSUME ~Hostile PROVE Spec => LeasesSafe
<1>1. IInv /\ IInv' /\ LeaseInv /\ [Next]_vars => LeaseInv'
  BY NextLease
<1>2. LeaseInv => ActiveInstalled /\ Exclusive /\ EpochCurrent
  BY DEF LeaseInv, LeaseSnapshot, Exclusive, Timely, EpochCurrent
<1>3. IInv /\ LeaseInv /\ [Next]_vars => [DoubtStays]_vars
  BY NextDoubt
<1>4. Spec => []LeaseInv
  BY <1>1, InitLease, Inductive, PTL DEF Spec
<1>5. Spec => [][DoubtStays]_vars
  BY <1>3, <1>4, Inductive, PTL DEF Spec
<1>6. Spec => UncertaintySticks
  BY <1>5 DEF UncertaintySticks, DoubtStays
<1> QED BY <1>2, <1>4, <1>6, PTL DEF LeasesSafe

-----------------------------------------------------------------------------
\* The Linux worker.

\* A job's plan is a plan of its attempt, routes first.
LEMMA JobFacts ==
  ASSUME NEW j \in Job
  PROVE  /\ j # NoJob /\ j.attempt \in Attempt /\ j.kind \in {"apply", "release"}
         /\ j.kind = "apply" =>
              /\ j.plan \in Plan /\ j.plan.request.attempt = j.attempt
              /\ \A i, k \in DOMAIN j.plan.request.resources :
                   /\ j.plan.request.resources[i].kind = "route"
                   /\ j.plan.request.resources[k].kind = "dns"
                   => i < k
<1>1. CASE j \in [kind : {"release"}, attempt : Attempt]
  BY <1>1 DEF NoJob
<1>2. CASE j \in {[kind |-> "apply", attempt |-> q.attempt, plan |-> [request |-> DnsLast(q), epoch |-> e]] :
                    q \in Submission, e \in 0..MaxEpoch}
  <2>1. PICK q \in Submission, e \in 0..MaxEpoch :
          j = [kind |-> "apply", attempt |-> q.attempt, plan |-> [request |-> DnsLast(q), epoch |-> e]]
    BY <1>2
  <2>2. DnsLast(q) \in Request /\ q \in Request
    BY SubmissionAssumption
  <2>3. DnsLast(q).attempt = q.attempt /\ q.attempt \in Attempt
    BY <2>2, RequestAssumption DEF DnsLast
  <2>4. \A i, k \in DOMAIN DnsLast(q).resources :
          DnsLast(q).resources[i].kind = "route" /\ DnsLast(q).resources[k].kind = "dns" => i < k
    BY SortAssumption
  <2>5. /\ j.kind = "apply" /\ j.attempt = q.attempt
        /\ j.plan = [request |-> DnsLast(q), epoch |-> e] /\ j.plan.request = DnsLast(q)
    BY <2>1
  <2>6. j # NoJob
    BY <2>5 DEF NoJob
  <2>7. j.plan \in Plan
    BY <2>2, <2>5 DEF Plan
  <2> QED BY <2>3, <2>4, <2>5, <2>6, <2>7
<1> QED BY <1>1, <1>2 DEF Job

\* NoPlan is not a plan.
LEMMA NoPlanFacts == NoPlan \notin Plan
BY DEF NoPlan, Plan

\* A worker's plan names no gateway exception.
LEMMA AnchoredUnshared ==
  ASSUME NEW s, WellFormed(s), Anchored(s), BindingsValid
  PROVE  Unshared(s)
<1> SUFFICES ASSUME NEW a \in Attempt, NEW i \in DOMAIN s.records[a].entries,
                    NEW r, r = ResourceOf(s.records[a], i)
             PROVE  ~Shareable(r, r)
  BY DEF Unshared
<1>1. /\ s.records[a] # NoRecord /\ s.records[a].plan \in Plan
      /\ i \in DOMAIN s.records[a].plan.request.resources
  BY RecordFacts
<1>2. ValidLinux(s.records[a].plan)
  BY <1>1, NoPlanFacts DEF Anchored, Present, BindingsValid
<1> QED BY <1>1, <1>2 DEF ValidLinux, ResourceOf, Shareable

\* The records of t were in s, with their plans.
PlansFrom(s, t) ==
  \A a \in Attempt : t.records[a] # NoRecord =>
    s.records[a] # NoRecord /\ t.records[a].plan = s.records[a].plan

LEMMA SetPhasePlans ==
  ASSUME IInv, NEW a \in Attempt, mem.records[a] # NoRecord, NEW ph \in Phase, NEW u \in BOOLEAN
  PROVE  PlansFrom(mem, SetPhase(mem, a, ph, u))
<1>1. WellFormed(mem)
  BY DEF IInv, TypeOK
<1>2. Rephased(mem, SetPhase(mem, a, ph, u), a, ph, u)
  BY <1>1, SetPhaseFacts
<1> QED BY <1>2 DEF Rephased, PlansFrom

LEMMA SetFingerprintPlans ==
  ASSUME IInv, NEW a \in Attempt, NEW k \in DOMAIN mem.records[a].entries, NEW id \in Identity
  PROVE  PlansFrom(mem, SetFingerprint(mem, a, k, id))
<1>1. WellFormed(mem)
  BY DEF IInv, TypeOK
<1>2. Refingerprinted(mem, SetFingerprint(mem, a, k, id), a, k, id)
  BY <1>1, SetFingerprintFacts
<1> QED BY <1>2 DEF Refingerprinted, PlansFrom

\* A call that adds no record: what it writes are plans memory has.
SamePlans == PlansFrom(mem, mem') /\ (disk' = disk \/ PlansFrom(mem, disk'))

LEMMA ApplyBeginPlans ==
  ASSUME IInv, NEW a \in Attempt, NEW o \in SaveOutcome, ApplyBegin(a, o)
  PROVE  SamePlans
<1>1. mem.records[a] # NoRecord
  BY NoRecordFacts DEF ApplyBegin
<1>2. PlansFrom(mem, mem')
  BY <1>1, SetPhasePlans DEF ApplyBegin, Phase
<1> QED BY <1>2 DEF ApplyBegin, Save, SamePlans

LEMMA ReleaseBeginPlans ==
  ASSUME IInv, NEW a \in Attempt, NEW o \in SaveOutcome, ReleaseBegin(a, o)
  PROVE  SamePlans
<1>1. StillUncertain(mem.records[a]) \in BOOLEAN
  BY DEF StillUncertain
<1>2. PlansFrom(mem, mem')
  BY <1>1, SetPhasePlans DEF ReleaseBegin, Phase
<1> QED BY <1>2 DEF ReleaseBegin, Save, SamePlans

LEMMA TransactionPlans ==
  ASSUME IInv, Transaction, job.attempt \in Attempt
  PROVE  SamePlans
<1>1. PlansFrom(mem, mem)
  BY DEF PlansFrom
<1>2. CASE ApplyInspectFails \/ ApplyBorrowed \/ ReleaseSkip \/ \E ok \in BOOLEAN : ReleaseUncertain(ok)
  BY <1>1, <1>2 DEF ApplyInspectFails, ApplyBorrowed, ReleaseSkip, ReleaseUncertain, store, SamePlans
<1>3. CASE ApplyShared
  <2>1. cur \in Attempt /\ idx \in DOMAIN mem.records[cur].entries /\ disk' = disk
    BY <1>3, ApplyLoopFacts, InCallFacts DEF ApplyShared, CurRecord
  <2>2. PICK b \in Attempt : \E j \in DOMAIN mem.records[b].entries :
          mem' = mem \/ mem' = SetFingerprint(mem, cur, idx, mem.records[b].entries[j].fingerprint)
    BY <1>3 DEF ApplyShared
  <2>3. PICK j \in DOMAIN mem.records[b].entries :
          mem' = mem \/ mem' = SetFingerprint(mem, cur, idx, mem.records[b].entries[j].fingerprint)
    BY <2>2
  <2>4. mem.records[b].entries[j].fingerprint \in Identity
    BY RecordFacts DEF IInv, TypeOK, Entry
  <2> QED BY <1>1, <2>1, <2>3, <2>4, SetFingerprintPlans DEF SamePlans
<1>4. ASSUME NEW ok \in BOOLEAN, NEW done \in BOOLEAN, ApplyCreate(ok, done) \/ ReleaseRemove(ok, done)
      PROVE  SamePlans
  <2>1. cur \in Attempt /\ idx \in DOMAIN mem.records[cur].entries /\ disk' = disk
    BY <1>4, ApplyLoopFacts, ReleaseLoopFacts, InCallFacts DEF ApplyCreate, ReleaseRemove, CurRecord
  <2>2. mem' = mem \/ \E id \in {Own, Absent} : mem' = SetFingerprint(mem, cur, idx, id)
    BY <1>4 DEF ApplyCreate, ReleaseRemove
  <2>3. {Own, Absent} \subseteq Identity
    BY DEF Identity
  <2> QED BY <1>1, <2>1, <2>2, <2>3, SetFingerprintPlans DEF SamePlans
<1>5. ASSUME NEW o \in SaveOutcome, ApplySave(o) \/ ReleaseSave(o)
      PROVE  SamePlans
  BY <1>1, <1>5 DEF ApplySave, ReleaseSave, Save, SamePlans
<1>6. ASSUME NEW o \in SaveOutcome, ApplyFailed(o) \/ ReleaseFailed(o)
      PROVE  SamePlans
  <2>1. InCall /\ (disk' = disk \/ disk' = mem')
        /\ mem' = SetPhase(mem, cur, "RecoveryRequired", CurRecord.uncertain)
    BY <1>6 DEF ApplyFailed, ReleaseFailed, Save, InCall
  <2> QED BY <2>1, InCallFacts, SetPhasePlans DEF CurRecord, Phase, SamePlans
<1>7. ASSUME NEW o \in SaveOutcome, ApplyCommit(o)
      PROVE  SamePlans
  <2> DEFINE active == SetPhase(mem, cur, "Active", FALSE)
             lost == SetPhase(mem, cur, "RecoveryRequired", TRUE)
  <2>1. InCall /\ (disk' = disk \/ disk' = active) /\ (mem' = active \/ mem' = lost)
    BY <1>7 DEF ApplyCommit, Save, InCall
  <2>2. cur \in Attempt /\ mem.records[cur] # NoRecord
    BY <2>1, InCallFacts DEF CurRecord
  <2>3. PlansFrom(mem, active) /\ PlansFrom(mem, lost)
    BY <2>2, SetPhasePlans DEF Phase
  <2> HIDE DEF active, lost
  <2> QED BY <2>1, <2>3 DEF SamePlans
<1>8. ASSUME NEW o \in SaveOutcome, ReleaseBegin(job.attempt, o)
      PROVE  SamePlans
  BY <1>8, ReleaseBeginPlans
<1>9. ASSUME NEW o \in SaveOutcome, ReleaseCommit(o)
      PROVE  SamePlans
  <2> DEFINE without == SetRecord(mem, cur, NoRecord)
  <2>1. InCall /\ (disk' = disk \/ disk' = without) /\ (mem' = mem \/ mem' = without)
    BY <1>9 DEF ReleaseCommit, Save, InCall
  <2>2. cur \in Attempt /\ WellFormed(mem)
    BY <2>1, InCallFacts
  <2>3. /\ without.records[cur] = NoRecord
        /\ \A b \in Attempt \ {cur} : without.records[b] = mem.records[b]
    BY <2>2, SetRecordFacts
  <2>4. PlansFrom(mem, without)
    BY <2>3 DEF PlansFrom
  <2> HIDE DEF without
  <2> QED BY <1>1, <2>1, <2>4 DEF SamePlans
<1> QED BY <1>2, <1>3, <1>4, <1>5, <1>6, <1>7, <1>8, <1>9 DEF Transaction

\* What a call writes stays bound.
LEMMA SamePlansAnchored ==
  ASSUME Anchored(mem), Anchored(disk), SamePlans, UNCHANGED bindings
  PROVE  Anchored(mem)' /\ Anchored(disk)'
BY DEF SamePlans, PlansFrom, Anchored, Present

\* Where a step of the transaction can take the store: the call is the same one,
\* and Ok is the answer of a release, or of an apply that committed.
LEMMA TransactionControl ==
  ASSUME IInv, Transaction
  PROVE  /\ InCall /\ pc' # "closed"
         /\ InCall' => cur' \in {cur, job.attempt} /\ call' = call
         /\ pc' \in {"applyEntry", "applySave"} => pc \in {"applyEntry", "applySave"}
         /\ ~InCall' /\ result' = "ok" =>
              call # "apply" \/ disk'.records[cur].phase = "Active"
<1> USE DEF InCall
<1>1. CASE ApplyInspectFails
  BY <1>1 DEF ApplyInspectFails, InApplyLoop
<1>2. CASE ApplyBorrowed
  BY <1>2 DEF ApplyBorrowed, InApplyLoop
<1>3. CASE ApplyShared
  <2>1. pc = "applyEntry" /\ pc' \in {"applySave", "applyFailed"} /\ UNCHANGED local
    BY <1>3 DEF ApplyShared, InApplyLoop
  <2> QED BY <2>1 DEF local
<1>4. CASE ReleaseSkip
  BY <1>4 DEF ReleaseSkip, InReleaseLoop
<1>5. ASSUME NEW o \in SaveOutcome, ApplySave(o) \/ ApplyFailed(o)
      PROVE  /\ InCall /\ InCall' /\ pc' # "closed" /\ cur' = cur /\ call' = call
             /\ pc' \in {"applyEntry", "applySave"} => pc \in {"applyEntry", "applySave"}
  BY <1>5 DEF ApplySave, ApplyFailed
<1>6. ASSUME NEW o \in SaveOutcome, ApplyCommit(o)
      PROVE  /\ pc = "applyEntry" /\ pc' \in {"open", "rollback"}
             /\ pc' = "rollback" => cur' = cur /\ call' = call
             /\ pc' = "open" => disk'.records[cur].phase = "Active"
  <2>1. pc = "applyEntry" /\ InCall
    BY <1>6 DEF ApplyCommit
  <2>2. cur \in Attempt /\ CurRecord # NoRecord /\ WellFormed(mem)
    BY <2>1, InCallFacts
  <2>3. SetPhase(mem, cur, "Active", FALSE).records[cur].phase = "Active"
    <3>1. Rephased(mem, SetPhase(mem, cur, "Active", FALSE), cur, "Active", FALSE)
      BY <2>2, SetPhaseFacts DEF CurRecord, Phase
    <3> QED BY <2>2, <3>1 DEF Rephased
  <2>4. CASE o = "ok"
    BY <1>6, <2>1, <2>3, <2>4 DEF ApplyCommit, Return, Save
  <2>5. CASE o # "ok"
    BY <1>6, <2>1, <2>5 DEF ApplyCommit
  <2> QED BY <2>4, <2>5
<1>7. ASSUME NEW o \in SaveOutcome, pc = "rollback" /\ ReleaseBegin(job.attempt, o)
      PROVE  /\ pc = "rollback" /\ pc' \in {"open", "releaseEntry"}
             /\ pc' = "releaseEntry" => cur' = job.attempt /\ call' = call
             /\ pc' = "open" => result' = "err"
  BY <1>7 DEF ReleaseBegin, Return
<1>8. ASSUME NEW o \in SaveOutcome, ReleaseSave(o)
      PROVE  /\ pc = "releaseSave" /\ pc' \in {"open", "releaseEntry"}
             /\ pc' = "releaseEntry" => cur' = cur /\ call' = call
             /\ pc' = "open" => result' = "err"
  BY <1>8 DEF ReleaseSave, Return
<1>9. ASSUME NEW o \in SaveOutcome, ReleaseFailed(o) \/ ReleaseCommit(o)
      PROVE  /\ pc = "releaseEntry" /\ pc' = "open"
             /\ result' = "ok" => call # "apply"
  BY <1>9 DEF ReleaseFailed, ReleaseCommit, Return, Outcome
<1>10. ASSUME NEW ok \in BOOLEAN, NEW done \in BOOLEAN, ApplyCreate(ok, done)
       PROVE  /\ pc = "applyEntry" /\ pc' \in {"applySave", "applyFailed"}
              /\ cur' = cur /\ call' = call
  BY <1>10 DEF ApplyCreate, InApplyLoop, local
<1>11. ASSUME NEW ok \in BOOLEAN, NEW done \in BOOLEAN, ReleaseRemove(ok, done)
       PROVE  /\ pc = "releaseEntry" /\ pc' \in {"releaseEntry", "releaseSave"}
              /\ cur' = cur /\ call' = call
  BY <1>11 DEF ReleaseRemove, InReleaseLoop
<1>12. ASSUME NEW ok \in BOOLEAN, ReleaseUncertain(ok)
       PROVE  /\ pc = "releaseEntry" /\ pc' = pc /\ cur' = cur /\ call' = call
  BY <1>12 DEF ReleaseUncertain, InReleaseLoop
<1>13. CASE \E o \in SaveOutcome : ApplySave(o) \/ ApplyFailed(o)
  BY <1>5, <1>13
<1>14. CASE \E o \in SaveOutcome : ApplyCommit(o)
  BY <1>6, <1>14
<1>15. CASE \E o \in SaveOutcome : pc = "rollback" /\ ReleaseBegin(job.attempt, o)
  BY <1>7, <1>15
<1>16. CASE \E o \in SaveOutcome : ReleaseSave(o) \/ ReleaseFailed(o) \/ ReleaseCommit(o)
  BY <1>8, <1>9, <1>16
<1>17. CASE \E ok, done \in BOOLEAN : ApplyCreate(ok, done) \/ ReleaseRemove(ok, done)
  BY <1>10, <1>11, <1>17
<1>18. CASE \E ok \in BOOLEAN : ReleaseUncertain(ok)
  BY <1>12, <1>18
<1> QED BY <1>1, <1>2, <1>3, <1>4, <1>13, <1>14, <1>15, <1>16, <1>17, <1>18 DEF Transaction

\* The job a worker has is one of Job.
LEMMA WorkerJob ==
  ASSUME WorkerInv, step # "idle"
  PROVE  job \in Job /\ job # NoJob /\ job.attempt \in Attempt /\ pc # "closed"
<1>1. job \in Job
  BY DEF WorkerInv, WorkerTypeOK, Places
<1> QED BY <1>1, JobFacts DEF WorkerInv, Places

\* Whatever the worker does to the store is a step of the store.
LEMMA WorkerSteps ==
  ASSUME WorkerInv, [WorkerNext]_wvars
  PROVE  [Next]_vars
<1>1. CASE UNCHANGED vars
  BY <1>1
<1>2. CASE \E j \in Job : Begin(j)
  BY <1>2 DEF Begin, Next
<1>3. CASE \/ \E verified \in BOOLEAN : ApplyRejected(verified) \/ ReleaseRejected(verified)
           \/ \E readable \in BOOLEAN : ReleaseUnbound(readable)
           \/ \E o \in RemoveOutcome : Finish(o)
           \/ WorkerCrash
  BY <1>3 DEF ApplyRejected, ReleaseRejected, ReleaseUnbound, Finish, WorkerCrash, Quit, Next
<1>4. CASE \E o \in SaveOutcome : ApplyBind(o)
  BY <1>4 DEF ApplyBind, Quit, Next
<1>5. CASE ApplyNoBackend
  BY <1>5 DEF ApplyNoBackend
<1>6. CASE ApplyPrepare
  <2>1. step # "idle" /\ job.kind = "apply"
    BY <1>6 DEF ApplyPrepare, WorkerInv, Places
  <2>2. job.plan \in Plan
    BY <2>1, WorkerJob, JobFacts
  <2> QED BY <1>6, <2>2 DEF ApplyPrepare, Next
<1>7. CASE ApplyCall
  <2>1. step # "idle"
    BY <1>7 DEF ApplyCall
  <2>2. job.attempt \in Attempt
    BY <2>1, WorkerJob
  <2> QED BY <1>7, <2>2 DEF ApplyCall, Next
<1>8. CASE ReleaseCall
  <2>1. step # "idle"
    BY <1>8 DEF ReleaseCall
  <2>2. job.attempt \in Attempt
    BY <2>1, WorkerJob
  <2> QED BY <1>8, <2>2 DEF ReleaseCall, Next
<1>9. CASE Transaction
  <2>1. step # "idle"
    BY <1>9 DEF Transaction
  <2>2. job.attempt \in Attempt
    BY <2>1, WorkerJob
  <2> QED BY <1>9, <2>2 DEF Transaction, Next
<1>10. CASE Outside
  BY <1>10 DEF Outside, Next
<1>11. CASE UNCHANGED wvars
  BY <1>11 DEF wvars
<1> QED BY <1>1, <1>2, <1>3, <1>4, <1>5, <1>6, <1>7, <1>8, <1>9, <1>10, <1>11 DEF WorkerNext

\* The store's own invariants survive the worker, on a machine as hostile as it likes.
LEMMA StoreKept ==
  ASSUME WorkerInv, [Next]_vars
  PROVE  IInv' /\ LeaseInv'
<1>1. Undisturbed
  BY AnchoredUnshared DEF WorkerInv, IInv, TypeOK, Undisturbed
<1>2. IInv'
  BY <1>1, NextIInv DEF WorkerInv
<1> QED BY <1>2, NextLease DEF WorkerInv

LEMMA InitWorker == WorkerInit => WorkerInv
<1> SUFFICES ASSUME WorkerInit PROVE WorkerInv
  OBVIOUS
<1>1. IInv /\ LeaseInv
  BY InitIInv, InitLease DEF WorkerInit
<1>2. Present(mem) = {} /\ Present(disk) = {}
  BY EmptyLease DEF WorkerInit, Init, Present
<1>3. WorkerTypeOK
  BY <1>1 DEF IInv, WorkerInit, WorkerTypeOK
<1>4. BindingsValid
  BY DEF WorkerInit, BindingsValid
<1>5. Places
  BY DEF WorkerInit, Init, Places, InCall
<1> QED BY <1>1, <1>2, <1>3, <1>4, <1>5 DEF WorkerInv, Anchored

\* A job starts from the journal: its records are bound.
LEMMA BeginWorker ==
  ASSUME WorkerInv, IInv', LeaseInv', NEW j \in Job, Begin(j)
  PROVE  WorkerInv'
<1>1. /\ WellFormed(disk) /\ mem' = FromSnapshot(disk) /\ disk' = disk /\ bindings' = bindings
      /\ pc' = "open" /\ result' = "none" /\ job' = j /\ step' = "opened" /\ answer' = "none"
  BY DEF WorkerInv, IInv, TypeOK, Begin, Open
<1>2. \A a \in Attempt : /\ (mem'.records[a] = NoRecord) = (disk.records[a] = NoRecord)
                         /\ mem'.records[a].plan = disk.records[a].plan
  BY <1>1, LoadLease
<1>3. Anchored(mem)' /\ Anchored(disk)' /\ BindingsValid'
  BY <1>1, <1>2 DEF WorkerInv, Anchored, Present, BindingsValid
<1>4. Places'
  <2>1. j # NoJob
    BY JobFacts
  <2>2. Present(mem') = Present(disk')
    BY <1>1, <1>2 DEF Present
  <2> QED BY <1>1, <2>1, <2>2 DEF Places, InCall
<1>5. WorkerTypeOK'
  BY <1>1 DEF WorkerInv, WorkerTypeOK, IInv
<1> QED BY <1>3, <1>4, <1>5 DEF WorkerInv

\* A job that ends leaves the journal bound.
LEMMA LeaveWorker ==
  ASSUME WorkerInv, IInv', LeaseInv', Leave, job' = NoJob, step' = "idle",
         answer' \in {"none", "ok", "err"}, bindings' \in [Attempt -> Plan \cup {NoPlan}],
         Anchored(disk)', BindingsValid'
  PROVE  WorkerInv'
<1>1. Anchored(mem)'
  BY EmptyLease DEF Leave, Anchored, Present
<1>2. Places'
  BY DEF Places, Leave, InCall
<1>3. WorkerTypeOK'
  BY DEF WorkerTypeOK, IInv
<1> QED BY <1>1, <1>2, <1>3 DEF WorkerInv

\* The bindings are as they were.
LEMMA LeaveBound ==
  ASSUME WorkerInv, IInv', LeaseInv', Leave, job' = NoJob, step' = "idle",
         answer' \in {"none", "ok", "err"}, bindings' = bindings
  PROVE  WorkerInv'
<1>1. bindings' \in [Attempt -> Plan \cup {NoPlan}]
  BY DEF WorkerInv, WorkerTypeOK
<1>2. Anchored(disk)' /\ BindingsValid'
  BY DEF WorkerInv, Leave, Anchored, Present, BindingsValid
<1> QED BY <1>1, <1>2, LeaveWorker

LEMMA RejectedWorker ==
  ASSUME WorkerInv, IInv', LeaseInv', NEW v,
         ApplyRejected(v) \/ ReleaseRejected(v) \/ ReleaseUnbound(v) \/ WorkerCrash
  PROVE  WorkerInv'
<1>1. /\ Leave /\ job' = NoJob /\ step' = "idle" /\ bindings' = bindings
      /\ answer' \in {"none", "ok", "err"}
  BY DEF ApplyRejected, ReleaseRejected, ReleaseUnbound, WorkerCrash, Quit, Close, Crash
<1> QED BY <1>1, LeaveBound

\* The binding is written before the journal: it agrees with a record already there.
LEMMA ApplyBindWorker ==
  ASSUME WorkerInv, IInv', LeaseInv', NEW o \in SaveOutcome, ApplyBind(o)
  PROVE  WorkerInv'
<1>1. /\ step = "opened" /\ job.kind = "apply" /\ ValidLinux(job.plan)
      /\ bindings[job.attempt] \in {NoPlan, job.plan}
      /\ bindings' = bindings \/ bindings' = [bindings EXCEPT ![job.attempt] = job.plan]
      /\ o = "ok" => bindings' = [bindings EXCEPT ![job.attempt] = job.plan]
  BY DEF ApplyBind, Acceptable
<1>2. /\ job.attempt \in Attempt /\ job.plan \in Plan /\ job.plan.request.attempt = job.attempt
      /\ pc = "open" /\ result = "none" /\ answer = "none" /\ job # NoJob
  BY <1>1, WorkerJob, JobFacts DEF WorkerInv, Places
<1>3. /\ bindings \in [Attempt -> Plan \cup {NoPlan}]
      /\ bindings' \in [Attempt -> Plan \cup {NoPlan}]
  BY <1>1, <1>2 DEF WorkerInv, WorkerTypeOK
<1>4. \A a \in Attempt : bindings'[a] # bindings[a] =>
        a = job.attempt /\ bindings[a] = NoPlan /\ bindings'[a] = job.plan
  BY <1>1, <1>3
<1>5. BindingsValid'
  BY <1>1, <1>2, <1>4 DEF WorkerInv, BindingsValid
<1>6. ASSUME NEW s, WellFormed(s), Anchored(s), NEW a \in Present(s)
      PROVE  bindings'[a] = s.records[a].plan
  <2>1. a \in Attempt /\ s.records[a].plan \in Plan /\ bindings[a] = s.records[a].plan
    BY <1>6, RecordFacts DEF Present, Anchored
  <2> QED BY <1>4, <2>1, NoPlanFacts
<1>7. \A a \in Present(disk) : bindings'[a] = disk.records[a].plan
  BY <1>6 DEF WorkerInv, IInv, TypeOK
<1>8. \A a \in Present(mem) : bindings'[a] = mem.records[a].plan
  BY <1>6 DEF WorkerInv, IInv, TypeOK
<1>9. CASE o = "ok"
  <2>1. /\ step' = "bound" /\ UNCHANGED <<vars, job, answer>>
        /\ bindings'[job.attempt] = job.plan
    BY <1>1, <1>2, <1>3, <1>9 DEF ApplyBind, BindSucceeds
  <2>2. Anchored(disk)' /\ Anchored(mem)'
    BY <1>7, <1>8, <2>1 DEF Anchored, Present, vars
  <2>3. Places'
    BY <1>1, <1>2, <2>1, NoPlanFacts DEF Places, InCall, vars
  <2>4. WorkerTypeOK'
    BY <1>3, <2>1 DEF WorkerTypeOK, WorkerInv, IInv
  <2> QED BY <1>5, <2>2, <2>3, <2>4 DEF WorkerInv
<1>10. CASE o # "ok"
  <2>1. Leave /\ job' = NoJob /\ step' = "idle" /\ answer' = "err"
    BY <1>10 DEF ApplyBind, BindSucceeds, Quit, Close
  <2>2. Anchored(disk)'
    BY <1>7, <2>1 DEF Leave, Anchored, Present
  <2> QED BY <1>3, <1>5, <2>1, <2>2, LeaveWorker
<1> QED BY <1>9, <1>10

\* The binding goes when the journal no longer has the attempt.
LEMMA FinishWorker ==
  ASSUME WorkerInv, IInv', LeaseInv', NEW o \in RemoveOutcome, Finish(o)
  PROVE  WorkerInv'
<1>1. step = "called" /\ Leave /\ job' = NoJob /\ step' = "idle" /\ answer' \in {"ok", "err"}
  BY DEF Finish, Quit, Close
<1>2. job.attempt \in Attempt
  BY <1>1, WorkerJob
<1>3. CASE bindings' = bindings
  BY <1>1, <1>3, LeaveBound
<1>4. CASE bindings' # bindings
  <2>1. disk.records[job.attempt] = NoRecord /\ bindings' = [bindings EXCEPT ![job.attempt] = NoPlan]
    BY <1>4 DEF Finish, DurableAbsent
  <2>2. bindings \in [Attempt -> Plan \cup {NoPlan}]
    BY DEF WorkerInv, WorkerTypeOK
  <2>3. /\ bindings' \in [Attempt -> Plan \cup {NoPlan}]
        /\ \A a \in Attempt : bindings'[a] = IF a = job.attempt THEN NoPlan ELSE bindings[a]
    BY <1>2, <2>1, <2>2
  <2>4. BindingsValid'
    BY <2>3 DEF WorkerInv, BindingsValid
  <2>5. disk' = disk
    BY <1>1 DEF Leave
  <2>6. Anchored(disk)'
    BY <2>1, <2>3, <2>5 DEF WorkerInv, Anchored, Present
  <2> QED BY <1>1, <2>3, <2>4, <2>6, LeaveWorker
<1> QED BY <1>3, <1>4

\* A step of the job that keeps its records and its binding.
LEMMA CallWorker ==
  ASSUME WorkerInv, IInv', LeaseInv', Anchored(mem)', Anchored(disk)', Places',
         UNCHANGED <<bindings, job, answer>>,
         step' \in {"idle", "opened", "bound", "prepared", "called"}
  PROVE  WorkerInv'
<1>1. WorkerTypeOK'
  BY DEF WorkerInv, WorkerTypeOK, IInv
<1>2. BindingsValid'
  BY DEF WorkerInv, BindingsValid
<1> QED BY <1>1, <1>2 DEF WorkerInv

LEMMA ApplyNoBackendWorker ==
  ASSUME WorkerInv, IInv', LeaseInv', ApplyNoBackend
  PROVE  WorkerInv'
<1>1. UNCHANGED <<vars, bindings, job, answer>> /\ step = "bound" /\ step' = "called"
  BY DEF ApplyNoBackend
<1>2. Anchored(mem)' /\ Anchored(disk)'
  BY <1>1 DEF WorkerInv, Anchored, Present, vars
<1>3. Places'
  BY <1>1 DEF WorkerInv, Places, InCall, vars
<1> QED BY <1>1, <1>2, <1>3, CallWorker

\* prepare adds a record of the plan that was bound.
LEMMA ApplyPrepareWorker ==
  ASSUME WorkerInv, IInv', LeaseInv', ApplyPrepare
  PROVE  WorkerInv'
<1>1. /\ UNCHANGED <<bindings, job, answer>> /\ step = "bound"
      /\ step' = IF result' = "ok" THEN "prepared" ELSE "called"
  BY DEF ApplyPrepare
<1>2. /\ job.kind = "apply" /\ bindings[job.attempt] = job.plan /\ bindings[job.attempt] # NoPlan
      /\ answer = "none" /\ job # NoJob
  BY <1>1, WorkerJob DEF WorkerInv, Places
<1>3. job.attempt \in Attempt /\ job.plan \in Plan /\ job.plan.request.attempt = job.attempt
  BY <1>1, <1>2, WorkerJob, JobFacts
<1>4. pc' = "open" /\ result' \in {"ok", "err"}
  BY DEF ApplyPrepare, PrepareRefused, PrepareRepeated, Prepare, Return
<1>5. Places'
  BY <1>1, <1>2, <1>4 DEF Places, InCall
<1>6. CASE PrepareRefused(job.plan) \/ PrepareRepeated(job.plan)
  <2>1. mem' = mem /\ disk' = disk
    BY <1>6 DEF PrepareRefused, PrepareRepeated, store
  <2>2. Anchored(mem)' /\ Anchored(disk)'
    BY <1>1, <2>1 DEF WorkerInv, Anchored, Present
  <2> QED BY <1>1, <1>5, <2>2, CallWorker
<1>7. ASSUME NEW o \in SaveOutcome, Prepare(job.plan, o)
      PROVE  WorkerInv'
  <2> DEFINE rec == PreparedRecord(mem, os, job.plan)
             added == SetRecord(mem, job.attempt, rec)
  <2>1. (mem' = mem \/ mem' = added) /\ (disk' = disk \/ disk' = added)
    BY <1>3, <1>7 DEF Prepare, Save
  <2>2. rec.plan = job.plan
    BY DEF PreparedRecord
  <2>3. WellFormed(mem)
    BY DEF WorkerInv, IInv, TypeOK
  <2>4. /\ added.records[job.attempt] = rec
        /\ \A b \in Attempt \ {job.attempt} : added.records[b] = mem.records[b]
    <3> HIDE DEF rec
    <3> QED BY <1>3, <2>3 DEF SetRecord, WellFormed
  <2> HIDE DEF added, rec
  <2>5. Anchored(mem) /\ Anchored(disk) /\ bindings' = bindings
    BY <1>1 DEF WorkerInv
  <2>6. \A a \in Present(added) : bindings[a] = added.records[a].plan
    BY <1>2, <2>2, <2>4, <2>5 DEF Anchored, Present
  <2>7. Anchored(mem)' /\ Anchored(disk)'
    BY <2>1, <2>5, <2>6 DEF Anchored, Present
  <2> QED BY <1>1, <1>5, <2>7, CallWorker
<1> QED BY <1>6, <1>7 DEF ApplyPrepare

LEMMA ApplyCallWorker ==
  ASSUME WorkerInv, IInv', LeaseInv', ApplyCall
  PROVE  WorkerInv'
<1>1. UNCHANGED <<bindings, job, answer>> /\ step = "prepared" /\ step' = "called"
  BY DEF ApplyCall
<1>2. /\ job.kind = "apply" /\ bindings[job.attempt] = job.plan /\ bindings[job.attempt] # NoPlan
      /\ answer = "none" /\ job # NoJob /\ job.attempt \in Attempt
  BY <1>1, WorkerJob DEF WorkerInv, Places
<1>3. IInv /\ Anchored(mem) /\ Anchored(disk)
  BY DEF WorkerInv
<1>4. CASE ApplyNothing(job.attempt)
  <2>1. /\ mem' = mem /\ disk' = disk /\ pc' = "open"
        /\ result' = "ok" => mem.records[job.attempt].phase = "Active"
    BY <1>4 DEF ApplyNothing, Return, store
  <2>2. result' = "ok" => disk'.records[job.attempt].phase = "Active"
    BY <1>2, <2>1 DEF WorkerInv, LeaseInv, ActiveSaved
  <2>3. Anchored(mem)' /\ Anchored(disk)'
    BY <1>1, <1>3, <2>1 DEF Anchored, Present
  <2>4. Places'
    BY <1>1, <1>2, <2>1, <2>2 DEF Places, InCall
  <2> QED BY <1>1, <2>3, <2>4, CallWorker
<1>5. CASE ApplyRefused(job.attempt)
  <2>1. mem' = mem /\ disk' = disk /\ pc' = "rollback" /\ cur' = job.attempt /\ call' = "apply"
    BY <1>5 DEF ApplyRefused, store
  <2>2. Anchored(mem)' /\ Anchored(disk)'
    BY <1>1, <1>3, <2>1 DEF Anchored, Present
  <2>3. Places'
    BY <1>1, <1>2, <2>1 DEF Places, InCall
  <2> QED BY <1>1, <2>2, <2>3, CallWorker
<1>6. ASSUME NEW o \in SaveOutcome, ApplyBegin(job.attempt, o)
      PROVE  WorkerInv'
  <2>1. Anchored(mem)' /\ Anchored(disk)'
    BY <1>1, <1>2, <1>3, <1>6, ApplyBeginPlans, SamePlansAnchored
  <2>2. pc' \in {"applyEntry", "rollback"} /\ cur' = job.attempt /\ call' = "apply"
    BY <1>6 DEF ApplyBegin
  <2>3. Places'
    BY <1>1, <1>2, <2>2 DEF Places, InCall
  <2> QED BY <1>1, <2>1, <2>3, CallWorker
<1> QED BY <1>4, <1>5, <1>6 DEF ApplyCall

LEMMA ReleaseCallWorker ==
  ASSUME WorkerInv, IInv', LeaseInv', ReleaseCall
  PROVE  WorkerInv'
<1>1. /\ UNCHANGED <<bindings, job, answer>> /\ step = "opened" /\ step' = "called"
      /\ job.kind = "release" /\ bindings[job.attempt] # NoPlan
  BY DEF ReleaseCall
<1>2. answer = "none" /\ job # NoJob /\ job.attempt \in Attempt /\ pc = "open"
  BY <1>1, WorkerJob DEF WorkerInv, Places
<1>3. IInv /\ Anchored(mem) /\ Anchored(disk)
  BY DEF WorkerInv
<1>4. CASE ReleaseNothing(job.attempt)
  <2>1. mem' = mem /\ disk' = disk /\ pc' = "open"
    BY <1>4 DEF ReleaseNothing, Return, store
  <2>2. Anchored(mem)' /\ Anchored(disk)'
    BY <1>1, <1>3, <2>1 DEF Anchored, Present
  <2>3. Places'
    BY <1>1, <1>2, <2>1 DEF Places, InCall
  <2> QED BY <1>1, <2>2, <2>3, CallWorker
<1>5. ASSUME NEW o \in SaveOutcome, ReleaseBegin(job.attempt, o)
      PROVE  WorkerInv'
  <2>1. Anchored(mem)' /\ Anchored(disk)'
    BY <1>1, <1>2, <1>3, <1>5, ReleaseBeginPlans, SamePlansAnchored
  <2>2. \/ pc' = "releaseEntry" /\ cur' = job.attempt /\ call' = "release"
        \/ pc' = "open"
    BY <1>2, <1>5 DEF ReleaseBegin, Return
  <2>3. Places'
    BY <1>1, <1>2, <2>2 DEF Places, InCall
  <2> QED BY <1>1, <2>1, <2>3, CallWorker
<1> QED BY <1>4, <1>5 DEF ReleaseCall

LEMMA TransactionWorker ==
  ASSUME WorkerInv, IInv', LeaseInv', Transaction
  PROVE  WorkerInv'
<1>1. UNCHANGED <<bindings, job, answer>> /\ step = "called" /\ step' = "called"
  BY DEF Transaction, worker
<1>2. /\ job # NoJob /\ job.attempt \in Attempt /\ answer = "none"
      /\ bindings[job.attempt] # NoPlan
      /\ job.kind = "apply" => bindings[job.attempt] = job.plan
  BY <1>1, WorkerJob DEF WorkerInv, Places
<1>3. IInv /\ Anchored(mem) /\ Anchored(disk)
  BY DEF WorkerInv
<1>4. Anchored(mem)' /\ Anchored(disk)'
  BY <1>1, <1>2, <1>3, TransactionPlans, SamePlansAnchored
<1>5. /\ InCall /\ pc' # "closed"
      /\ InCall' => cur' \in {cur, job.attempt} /\ call' = call
      /\ pc' \in {"applyEntry", "applySave"} => pc \in {"applyEntry", "applySave"}
      /\ ~InCall' /\ result' = "ok" => call # "apply" \/ disk'.records[cur].phase = "Active"
  BY <1>3, TransactionControl
<1>6. /\ cur = job.attempt /\ call = job.kind
      /\ pc \in {"applyEntry", "applySave"} => job.kind = "apply"
  BY <1>5 DEF WorkerInv, Places
<1>7. Places'
  BY <1>1, <1>2, <1>5, <1>6 DEF Places, InCall
<1> QED BY <1>1, <1>4, <1>7, CallWorker

LEMMA OutsideWorker ==
  ASSUME WorkerInv, IInv', LeaseInv', Outside \/ UNCHANGED wvars
  PROVE  WorkerInv'
<1>1. UNCHANGED <<bindings, job, answer, step, disk, mem, pc, cur, call, result>>
  BY DEF Outside, External, worker, wvars, vars, store, local
<1>2. Anchored(mem)' /\ Anchored(disk)'
  BY <1>1 DEF WorkerInv, Anchored, Present
<1>3. Places'
  BY <1>1 DEF WorkerInv, Places, InCall, Present
<1>4. step' \in {"idle", "opened", "bound", "prepared", "called"}
  BY <1>1 DEF WorkerInv, WorkerTypeOK
<1> QED BY <1>1, <1>2, <1>3, <1>4, CallWorker

\* Every step of the worker, its crashes and the machine around it keep WorkerInv.
LEMMA NextWorker ==
  ASSUME WorkerInv, [WorkerNext]_wvars
  PROVE  WorkerInv'
<1>1. IInv' /\ LeaseInv'
  BY WorkerSteps, StoreKept
<1>2. CASE \E j \in Job : Begin(j)
  BY <1>1, <1>2, BeginWorker
<1>3. CASE \/ \E verified \in BOOLEAN : ApplyRejected(verified) \/ ReleaseRejected(verified)
           \/ \E readable \in BOOLEAN : ReleaseUnbound(readable)
           \/ WorkerCrash
  BY <1>1, <1>3, RejectedWorker
<1>4. CASE \E o \in SaveOutcome : ApplyBind(o)
  BY <1>1, <1>4, ApplyBindWorker
<1>5. CASE ApplyNoBackend \/ ApplyPrepare \/ ApplyCall \/ ReleaseCall \/ Transaction
  BY <1>1, <1>5, ApplyNoBackendWorker, ApplyPrepareWorker, ApplyCallWorker, ReleaseCallWorker,
     TransactionWorker
<1>6. CASE \E o \in RemoveOutcome : Finish(o)
  BY <1>1, <1>6, FinishWorker
<1>7. CASE Outside \/ UNCHANGED wvars
  BY <1>1, <1>7, OutsideWorker
<1> QED BY <1>2, <1>3, <1>4, <1>5, <1>6, <1>7 DEF WorkerNext

\* The answer of a step that ends a job, and what it left behind.
Honest ==
  step # "idle" /\ answer' = "ok" =>
    LET a == job.attempt
    IN  IF job.kind = "release"
        THEN disk'.records[a] = NoRecord /\ bindings'[a] = NoPlan
        ELSE /\ disk'.records[a].phase = "Active"
             /\ disk'.records[a].plan = job.plan /\ bindings'[a] = job.plan
             /\ \A i \in DOMAIN job.plan.request.resources :
                  LET r == job.plan.request.resources[i]
                  IN  r \in touched' \/ os'[r] # Absent

LEMMA FinishHonest ==
  ASSUME WorkerInv, NEW o \in RemoveOutcome, Finish(o)
  PROVE  Honest
<1> SUFFICES ASSUME answer' = "ok" PROVE Honest
  BY DEF Honest
<1>1. /\ step = "called" /\ pc = "open" /\ o = "ok" /\ result = "ok"
      /\ disk' = disk /\ os' = os /\ touched' = touched
  BY DEF Finish, Quit, Close, Leave
<1>2. job \in Job /\ job.attempt \in Attempt /\ job.kind \in {"apply", "release"}
  BY <1>1, WorkerJob, JobFacts
<1>3. CASE job.kind = "release"
  <2>1. /\ disk.records[job.attempt] = NoRecord
        /\ bindings' = [bindings EXCEPT ![job.attempt] = NoPlan]
    BY <1>1, <1>3 DEF Finish, DurableAbsent, Quit
  <2> QED BY <1>1, <1>2, <1>3, <2>1 DEF Honest, WorkerInv, WorkerTypeOK
<1>4. CASE job.kind = "apply"
  <2> DEFINE rec == disk.records[job.attempt]
  <2>1. rec.phase = "Active" /\ bindings[job.attempt] = job.plan
    BY <1>1, <1>4 DEF WorkerInv, Places
  <2>2. rec # NoRecord /\ bindings' = bindings
    BY <1>1, <2>1, NoRecordFacts DEF Finish, DurableAbsent
  <2>3. rec.plan = job.plan
    BY <1>2, <2>1, <2>2 DEF WorkerInv, Anchored, Present
  <2>4. DOMAIN rec.entries = DOMAIN job.plan.request.resources
    BY <1>2, <2>2, <2>3, RecordFacts DEF WorkerInv, IInv, TypeOK
  <2>5. \A i \in DOMAIN rec.entries : InPlace(rec, i)
    BY <1>2, <2>1 DEF WorkerInv, LeaseInv, ActiveInstalled
  <2>6. \A i \in DOMAIN job.plan.request.resources :
          job.plan.request.resources[i] \in touched \/ os[job.plan.request.resources[i]] # Absent
    BY <2>3, <2>4, <2>5 DEF InPlace, ResourceOf
  <2> HIDE DEF rec
  <2> QED BY <1>1, <1>4, <2>1, <2>2, <2>3, <2>6 DEF Honest, rec
<1> QED BY <1>2, <1>3, <1>4

LEMMA NextHonest ==
  ASSUME WorkerInv, [WorkerNext]_wvars
  PROVE  Honest
<1>1. step # "idle" => answer = "none"
  BY DEF WorkerInv, Places
<1>2. CASE \E o \in RemoveOutcome : Finish(o)
  BY <1>2, FinishHonest
<1>3. CASE \E readable \in BOOLEAN : ReleaseUnbound(readable)
  <2>1. /\ step = "opened" /\ job.kind = "release" /\ bindings[job.attempt] = NoPlan
        /\ bindings' = bindings /\ disk' = disk
        /\ answer' = "ok" => job.attempt \notin Present(disk)
    BY <1>3 DEF ReleaseUnbound, Quit, Close, Leave
  <2>2. job.attempt \in Attempt
    BY <2>1, WorkerJob
  <2> QED BY <2>1, <2>2 DEF Honest, Present
<1>4. CASE \/ \E j \in Job : Begin(j)
           \/ \E verified \in BOOLEAN : ApplyRejected(verified) \/ ReleaseRejected(verified)
           \/ WorkerCrash
  BY <1>4 DEF Honest, Begin, ApplyRejected, ReleaseRejected, WorkerCrash, Quit
<1>5. CASE \E o \in SaveOutcome : ApplyBind(o)
  BY <1>1, <1>5 DEF Honest, ApplyBind, Quit
<1>6. CASE ApplyNoBackend \/ ApplyPrepare \/ ApplyCall \/ ReleaseCall \/ Transaction \/ Outside
  BY <1>1, <1>6 DEF Honest, ApplyNoBackend, ApplyPrepare, ApplyCall, ReleaseCall, Transaction,
     Outside, worker
<1>7. CASE UNCHANGED wvars
  BY <1>1, <1>7 DEF Honest, wvars, worker
<1> QED BY <1>2, <1>3, <1>4, <1>5, <1>6, <1>7 DEF WorkerNext

\* Only apply creates.
LEMMA OnlyCreate ==
  ASSUME IInv, [Next]_vars, NEW d \in Resource, os[d] # Own, os'[d] = Own
  PROVE  \E ok, done \in BOOLEAN : ApplyCreate(ok, done) /\ d = CurResource
<1>1. os # os'
  OBVIOUS
<1>2. ASSUME NEW ok \in BOOLEAN, NEW done \in BOOLEAN, ApplyCreate(ok, done)
      PROVE  d = CurResource
  <2>1. os \in [Resource -> Identity] /\ CurResource \in Resource
    BY <1>2, ApplyLoopFacts DEF ApplyCreate, IInv, TypeOK
  <2> QED BY <1>2, <2>1 DEF ApplyCreate
<1>3. ASSUME NEW ok \in BOOLEAN, NEW done \in BOOLEAN, ReleaseRemove(ok, done)
      PROVE  FALSE
  <2>1. os \in [Resource -> Identity]
    BY DEF IInv, TypeOK
  <2>2. os' = [os EXCEPT ![CurResource] = Absent]
    BY <1>1, <1>3 DEF ReleaseRemove
  <2> QED BY <2>1, <2>2, IdentityAssumption
<1>4. ASSUME NEW r \in Resource, NEW id \in Foreign \cup {Absent}, External(r, id)
      PROVE  FALSE
  <2>1. os \in [Resource -> Identity] /\ os' = [os EXCEPT ![r] = id]
    BY <1>4 DEF IInv, TypeOK, External
  <2> QED BY <2>1, IdentityAssumption
<1>5. Next
  BY <1>1 DEF vars
<1>6. ~(Open \/ Close \/ Crash)
  BY <1>1 DEF Open, Close, Crash, Leave
<1>7. ~(ApplyInspectFails \/ ApplyBorrowed \/ ApplyShared \/ ReleaseSkip)
  BY <1>1 DEF ApplyInspectFails, ApplyBorrowed, ApplyShared, ReleaseSkip
<1>8. ASSUME NEW o \in SaveOutcome
      PROVE  ~(NetworkChanged(o)
               \/ ApplySave(o) \/ ApplyFailed(o) \/ ApplyCommit(o)
               \/ ReleaseSave(o) \/ ReleaseFailed(o) \/ ReleaseCommit(o)
               \/ (\E plan \in Plan : Prepare(plan, o))
               \/ (\E a \in Attempt : ApplyBegin(a, o) \/ ReleaseBegin(a, o)))
  BY <1>1 DEF NetworkChanged, ApplySave, ApplyFailed, ApplyCommit, ReleaseSave, ReleaseFailed,
     ReleaseCommit, Prepare, ApplyBegin, ReleaseBegin
<1>9. ~(\E plan \in Plan : PrepareRefused(plan) \/ PrepareRepeated(plan))
  BY <1>1 DEF PrepareRefused, PrepareRepeated
<1>10. ~(\E a \in Attempt : ApplyNothing(a) \/ ApplyRefused(a) \/ ReleaseNothing(a))
  BY <1>1 DEF ApplyNothing, ApplyRefused, ReleaseNothing
<1>11. ~(\E ok \in BOOLEAN : ReleaseUncertain(ok))
  BY <1>1 DEF ReleaseUncertain
<1> QED BY <1>2, <1>3, <1>4, <1>5, <1>6, <1>7, <1>8, <1>9, <1>10, <1>11 DEF Next

\* A scope is created when the routes of its plan are in place.
RoutesFirst ==
  \A d \in Resource :
    d.kind = "dns" /\ os[d] # Own /\ os'[d] = Own =>
      \A i \in DOMAIN job.plan.request.resources :
        LET r == job.plan.request.resources[i]
        IN  r.kind = "route" => r \in touched \/ os[r] # Absent

LEMMA NextRoutesFirst ==
  ASSUME WorkerInv, [WorkerNext]_wvars
  PROVE  RoutesFirst
<1> SUFFICES ASSUME NEW d \in Resource, d.kind = "dns", os[d] # Own, os'[d] = Own,
                    NEW i \in DOMAIN job.plan.request.resources,
                    job.plan.request.resources[i].kind = "route"
             PROVE  \/ job.plan.request.resources[i] \in touched
                    \/ os[job.plan.request.resources[i]] # Absent
  BY DEF RoutesFirst
<1>1. IInv /\ [Next]_vars
  BY WorkerSteps DEF WorkerInv
<1>2. PICK ok, done \in BOOLEAN : ApplyCreate(ok, done) /\ d = CurResource
  BY <1>1, OnlyCreate
<1>3. InApplyLoop /\ pc = "applyEntry" /\ InCall
  BY <1>1, <1>2, ApplyLoopFacts DEF ApplyCreate
<1>4. cur \in Attempt /\ CurRecord # NoRecord /\ idx \in DOMAIN CurRecord.entries
  BY <1>1, <1>3, ApplyLoopFacts, InCallFacts
<1>5. step \notin {"idle", "opened", "bound", "prepared"} /\ step = "called"
  BY <1>3 DEF WorkerInv, WorkerTypeOK, Places, InCall
<1>6. cur = job.attempt /\ job.kind = "apply" /\ bindings[job.attempt] = job.plan
  BY <1>3, <1>5 DEF WorkerInv, Places
<1>7. CurRecord.plan = job.plan
  BY <1>4, <1>6 DEF WorkerInv, Anchored, Present, CurRecord
<1>8. DOMAIN CurRecord.entries = DOMAIN job.plan.request.resources
  BY <1>4, <1>7, RecordFacts DEF WorkerInv, IInv, TypeOK, CurRecord
<1>9. i < idx
  <2>1. job.plan.request.resources[idx].kind = "dns"
    BY <1>2, <1>7 DEF CurResource, ResourceOf
  <2>2. job \in Job
    BY <1>5, WorkerJob
  <2> QED BY <1>4, <1>6, <1>8, <2>1, <2>2, JobFacts
<1>10. InPlace(CurRecord, i)
  BY <1>3, <1>8, <1>9 DEF WorkerInv, LeaseInv, AppliedInPlace
<1> QED BY <1>7, <1>10 DEF InPlace, ResourceOf

\* Whatever the machine does to the routes, the journal, the bindings and the machine
\* account for one another after any crash or failed write (apply_with, finish_if_absent).
THEOREM WorkerAnchored == WorkerSpec => []JournalAnchored
<1>1. WorkerInv /\ [WorkerNext]_wvars => WorkerInv'
  BY NextWorker
<1>2. WorkerInv => JournalAnchored
  BY DEF WorkerInv, JournalAnchored, IInv, Covered, NoOrphan, Anchored, BindingAnchors
<1> QED BY <1>1, <1>2, InitWorker, PTL DEF WorkerSpec

\* A job's answer is the truth, and no DNS scope is installed before the routes it needs.
THEOREM WorkerHonest == WorkerSpec => JobsHonest
<1>1. WorkerInv /\ [WorkerNext]_wvars => WorkerInv'
  BY NextWorker
<1>2. WorkerInv /\ [WorkerNext]_wvars => Honest /\ RoutesFirst
  BY NextHonest, NextRoutesFirst
<1>3. WorkerSpec => []WorkerInv
  BY <1>1, InitWorker, PTL DEF WorkerSpec
<1>4. WorkerSpec => AnswersKept
  BY <1>2, <1>3, PTL DEF WorkerSpec, AnswersKept, Honest
<1>5. WorkerSpec => RoutesBeforeDns
  BY <1>2, <1>3, PTL DEF WorkerSpec, RoutesBeforeDns, RoutesFirst
<1> QED BY <1>4, <1>5 DEF JobsHonest
=============================================================================

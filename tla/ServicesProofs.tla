--------------------------- MODULE ServicesProofs ---------------------------
(***************************************************************************)
(* Proofs about three services of a manager that share no state.           *)
(*                                                                         *)
(* Mailbox, for any profiles, commands, channels, capacity and room: the   *)
(* inductive invariant follows a command from the sender its caller        *)
(* cloned, through one channel, to one run.                                *)
(*                                                                         *)
(* WindowsAuthority, for any attempts, process ids and failures: the       *)
(* reservation implements MachineLease.  The argument is that the lock     *)
(* makes one attempt at a time the writer of active.json, and that nothing *)
(* is removed whose engine runs or has left changes.                       *)
(*                                                                         *)
(* SamlBroker, for any browsers and number of tries: a session is of the   *)
(* last browser served, and the verdict travels from the worker to the     *)
(* caller unchanged.                                                       *)
(***************************************************************************)
EXTENDS Mailbox, WindowsAuthority, SamlBroker, SequenceTheorems, FiniteSetTheorems, FunctionTheorems, TLAPS

\* A channel that is not closed is the one its profile's mailbox names, so there is one.
Boxes ==
  /\ \A k \in Channel : state[k] # "closed" => k \in made /\ box[owner[k]] = k
  /\ \A p \in Profile : box[p] # NoChannel => box[p] \in made /\ owner[box[p]] = p

\* A call sends to a channel of its own profile.
Targets ==
  \A c \in Command :
    /\ target[c] # NoChannel => target[c] \in made /\ owner[target[c]] = ProfileOf[c]
    /\ pc[c] \in {"send", "wait"} => target[c] # NoChannel

\* What is queued waits, or was abandoned, in the channel it was sent to; it is there once.
Queues ==
  \A k \in Channel : \A i \in 1..Len(queue[k]) :
    /\ state[k] # "closed"
    /\ target[queue[k][i]] = k /\ pc[queue[k][i]] \in {"wait", "gone"} /\ ran[queue[k][i]] = 0
    /\ \A j \in 1..Len(queue[k]) : queue[k][i] = queue[k][j] => i = j

\* Only an open channel runs a command, and it is one that was sent to it.
Runs ==
  \A k \in Channel : running[k] # NoCommand =>
    /\ state[k] = "open" /\ target[running[k]] = k
    /\ pc[running[k]] \in {"wait", "gone"} /\ ran[running[k]] = 1

\* Answers and runs agree.
Counts ==
  \A c \in Command :
    /\ ran[c] \in {0, 1}
    /\ pc[c] \in {"new", "send", "busy", "expired", "stopped"} => ran[c] = 0
    /\ pc[c] \in {"done", "failed"} => ran[c] = 1

\* The channels whose workers live.
Open == {k \in Channel : state[k] # "closed"}

Counted == IsFiniteSet(Open) /\ Cardinality(Open) <= Capacity

Inv == MailboxTypeOK /\ Boxes /\ Targets /\ Queues /\ Runs /\ Counts

LEMMA InvInit == Init => Inv
<1> SUFFICES ASSUME Init PROVE Inv
  OBVIOUS
<1> USE MailboxAssumption
<1>1. MailboxTypeOK
  <2>1. \A k \in Channel : queue[k] = << >> /\ Len(queue[k]) = 0
    BY DEF Init
  <2> QED BY <2>1 DEF Init, MailboxTypeOK, Places, Results
<1>2. Queues
  BY DEF Init, Queues
<1> QED BY <1>1, <1>2 DEF Init, Inv, Boxes, Targets, Runs, Counts

LEMMA FindStep == ASSUME Inv, NEW c \in Command, Find(c) PROVE Inv'
<1> USE MailboxAssumption
<1>1. MailboxTypeOK'
  BY DEF Inv, MailboxTypeOK, Find, Retained, Live, Places
<1>2. Boxes'
  BY DEF Inv, MailboxTypeOK, Boxes, Find, Retained, Live
<1>3. Targets'
  BY DEF Inv, MailboxTypeOK, Boxes, Targets, Find, Live
<1>4. Queues'
  BY DEF Inv, MailboxTypeOK, Queues, Find
<1>5. Runs'
  BY DEF Inv, MailboxTypeOK, Runs, Find
<1>6. Counts'
  BY DEF Inv, MailboxTypeOK, Counts, Find
<1> QED BY <1>1, <1>2, <1>3, <1>4, <1>5, <1>6 DEF Inv

LEMMA RefuseStep == ASSUME Inv, NEW c \in Command, Refuse(c) PROVE Inv'
<1> USE MailboxAssumption
<1>1. MailboxTypeOK'
  BY DEF Inv, MailboxTypeOK, Refuse, Retained, Live, Places, Results
<1>2. Boxes'
  BY DEF Inv, MailboxTypeOK, Boxes, Refuse, Retained, Live
<1>3. Targets'
  BY DEF Inv, MailboxTypeOK, Boxes, Targets, Refuse, Live
<1>4. Queues'
  BY DEF Inv, MailboxTypeOK, Queues, Refuse
<1>5. Runs'
  BY DEF Inv, MailboxTypeOK, Runs, Refuse
<1>6. Counts'
  BY DEF Inv, MailboxTypeOK, Counts, Refuse
<1> QED BY <1>1, <1>2, <1>3, <1>4, <1>5, <1>6 DEF Inv

LEMMA CreateStep == ASSUME Inv, NEW c \in Command, Create(c) PROVE Inv'
<1> USE MailboxAssumption
<1> PICK k \in Channel \ made :
      /\ made' = made \cup {k}
      /\ box' = [Retained EXCEPT ![ProfileOf[c]] = k]
      /\ owner' = [owner EXCEPT ![k] = ProfileOf[c]]
      /\ state' = [state EXCEPT ![k] = "open"]
      /\ target' = [target EXCEPT ![c] = k]
  BY DEF Create
<1>0. /\ pc[c] = "new" /\ ProfileOf[c] \in Profile /\ ProfileOf[c] \notin Live
      /\ pc' = [pc EXCEPT ![c] = "send"]
      /\ UNCHANGED <<queue, running, ran>>
  BY DEF Create
<1>1. MailboxTypeOK'
  BY <1>0 DEF Inv, MailboxTypeOK, Retained, Places
<1>2. Boxes'
  BY <1>0 DEF Inv, MailboxTypeOK, Boxes, Retained, Live
<1>3. Targets'
  BY <1>0 DEF Inv, MailboxTypeOK, Targets
<1>4. Queues'
  BY <1>0 DEF Inv, MailboxTypeOK, Boxes, Queues
<1>5. Runs'
  BY <1>0 DEF Inv, MailboxTypeOK, Boxes, Runs
<1>6. Counts'
  BY <1>0 DEF Inv, MailboxTypeOK, Counts
<1> QED BY <1>1, <1>2, <1>3, <1>4, <1>5, <1>6 DEF Inv

LEMMA SendStep == ASSUME Inv, NEW c \in Command, Send(c) PROVE Inv'
<1> USE MailboxAssumption
<1> DEFINE k == target[c]
<1>0. /\ k \in Channel /\ state[k] # "closed" /\ queue[k] \in Seq(Command) /\ Len(queue[k]) < Room
      /\ pc[c] = "send" /\ ran[c] = 0
  BY DEF Inv, MailboxTypeOK, Targets, Counts, Send
<1>a. /\ Append(queue[k], c) \in Seq(Command) /\ Len(Append(queue[k], c)) = Len(queue[k]) + 1
      /\ Append(queue[k], c)[Len(queue[k]) + 1] = c /\ Len(queue[k]) \in Nat
      /\ \A i \in 1..Len(queue[k]) : Append(queue[k], c)[i] = queue[k][i]
  BY <1>0, AppendProperties, LenProperties
<1>b. queue' = [queue EXCEPT ![k] = Append(queue[k], c)]
  BY DEF Send
<1> HIDE DEF k
<1>c. /\ queue'[k] = Append(queue[k], c)
      /\ \A j \in Channel : j # k => queue'[j] = queue[j]
  BY <1>0, <1>b DEF Inv, MailboxTypeOK
<1>d. /\ pc' = [pc EXCEPT ![c] = "wait"] /\ k = target[c]
      /\ UNCHANGED <<box, made, owner, state, running, target, ran>>
  BY DEF Send, k
<1>1. MailboxTypeOK'
  <2>1. queue' \in [Channel -> Seq(Command)]
    BY <1>0, <1>a, <1>b DEF Inv, MailboxTypeOK
  <2>2. \A j \in Channel : Len(queue'[j]) <= Room
    <3>1. Len(queue'[k]) <= Room
      BY <1>0, <1>a, <1>c
    <3> QED BY <3>1, <1>c DEF Inv, MailboxTypeOK
  <2> QED BY <2>1, <2>2, <1>d DEF Inv, MailboxTypeOK, Places
<1>2. Boxes'
  BY <1>d DEF Inv, Boxes
<1>3. Targets'
  BY <1>d, <1>0 DEF Inv, MailboxTypeOK, Targets
<1>4. Queues'
  <2> SUFFICES ASSUME NEW j \in Channel, NEW i \in 1..Len(queue'[j])
               PROVE  /\ state'[j] # "closed"
                      /\ target'[queue'[j][i]] = j /\ pc'[queue'[j][i]] \in {"wait", "gone"}
                      /\ ran'[queue'[j][i]] = 0
                      /\ \A h \in 1..Len(queue'[j]) : queue'[j][i] = queue'[j][h] => i = h
    BY DEF Queues
  <2>1. \A g \in Channel : \A h \in 1..Len(queue[g]) : queue[g][h] \in Command /\ queue[g][h] # c
    <3> SUFFICES ASSUME NEW g \in Channel, NEW h \in 1..Len(queue[g])
                 PROVE queue[g][h] \in Command /\ queue[g][h] # c
      OBVIOUS
    <3>1. queue[g][h] \in Command
      BY ElementOfSeq DEF Inv, MailboxTypeOK
    <3> QED BY <3>1, <1>0 DEF Inv, Queues
  <2>2. CASE j # k
    <3>1. queue'[j] = queue[j]
      BY <2>2, <1>c
    <3>2. i \in 1..Len(queue[j])
      BY <3>1
    <3>3. /\ state[j] # "closed" /\ target[queue[j][i]] = j
          /\ pc[queue[j][i]] \in {"wait", "gone"} /\ ran[queue[j][i]] = 0
          /\ \A h \in 1..Len(queue[j]) : queue[j][i] = queue[j][h] => i = h
      BY <3>2 DEF Inv, Queues
    <3>4. pc'[queue[j][i]] = pc[queue[j][i]]
      BY <3>2, <2>1, <1>d DEF Inv, MailboxTypeOK
    <3> QED BY <3>1, <3>3, <3>4, <1>d
  <2>3. CASE j = k /\ i = Len(queue[k]) + 1
    <3>1. queue'[j][i] = c
      BY <2>3, <1>a, <1>c
    <3>2. \A h \in 1..Len(queue'[j]) : h # i => queue'[j][h] # c
      BY <2>1, <2>3, <1>a, <1>c, <1>0
    <3> QED BY <3>1, <3>2, <2>3, <1>0, <1>d DEF Inv, MailboxTypeOK
  <2>4. CASE j = k /\ i \in 1..Len(queue[k])
    <3>1. queue'[j][i] = queue[k][i] /\ queue[k][i] \in Command /\ queue[k][i] # c
      BY <2>4, <2>1, <1>a, <1>c, <1>0
    <3>2. \A h \in 1..Len(queue'[j]) : queue'[j][i] = queue'[j][h] => i = h
      <4> SUFFICES ASSUME NEW h \in 1..Len(queue'[j]), queue'[j][i] = queue'[j][h] PROVE i = h
        OBVIOUS
      <4>0. h # Len(queue[k]) + 1
        BY <3>1, <2>4, <1>a, <1>c
      <4>a. Len(queue'[j]) = Len(queue[k]) + 1
        BY <2>4, <1>a, <1>c
      <4>1. h \in 1..Len(queue[k])
        BY <4>0, <4>a, <1>a
      <4>2. queue'[j][h] = queue[k][h]
        BY <4>1, <2>4, <1>a, <1>c
      <4>3. queue[k][i] = queue[k][h]
        BY <3>1, <4>2
      <4> QED BY <4>1, <4>3, <2>4, <1>0 DEF Inv, Queues
    <3> QED BY <3>1, <3>2, <2>4, <1>0, <1>d DEF Inv, MailboxTypeOK, Queues
  <2>5. j = k => i \in 1..(Len(queue[k]) + 1)
    BY <1>a, <1>c
  <2>6. j = k => i = Len(queue[k]) + 1 \/ i \in 1..Len(queue[k])
    BY <2>5, <1>a
  <2> QED BY <2>2, <2>3, <2>4, <2>6
<1>5. Runs'
  BY <1>d, <1>0 DEF Inv, MailboxTypeOK, Runs
<1>6. Counts'
  BY <1>d DEF Inv, MailboxTypeOK, Counts
<1> QED BY <1>1, <1>2, <1>3, <1>4, <1>5, <1>6 DEF Inv

LEMMA CallEndsStep ==
  ASSUME Inv, NEW c \in Command, SendFails(c) \/ Abandon(c) PROVE Inv'
<1> USE MailboxAssumption
<1>0. \E r \in {"expired", "gone"} :
        /\ pc' = [pc EXCEPT ![c] = r]
        /\ UNCHANGED <<box, made, owner, state, queue, running, target, ran>>
        /\ r = "expired" => pc[c] = "send"
        /\ pc[c] \in {"new", "send", "wait"}
  BY DEF SendFails, Abandon
<1> PICK r \in {"expired", "gone"} :
      /\ pc' = [pc EXCEPT ![c] = r]
      /\ UNCHANGED <<box, made, owner, state, queue, running, target, ran>>
      /\ r = "expired" => pc[c] = "send"
      /\ pc[c] \in {"new", "send", "wait"}
  BY <1>0
<1>1. MailboxTypeOK'
  BY DEF Inv, MailboxTypeOK, Places, Results
<1>2. Boxes'
  BY DEF Inv, Boxes
<1>3. Targets'
  BY DEF Inv, MailboxTypeOK, Targets
<1>4. Queues'
  <2>1. \A k \in Channel : \A i \in 1..Len(queue[k]) : queue[k][i] \in Command
    BY ElementOfSeq DEF Inv, MailboxTypeOK
  <2> QED BY <2>1 DEF Inv, MailboxTypeOK, Queues
<1>5. Runs'
  BY DEF Inv, MailboxTypeOK, Runs
<1>6. Counts'
  BY DEF Inv, MailboxTypeOK, Counts
<1> QED BY <1>1, <1>2, <1>3, <1>4, <1>5, <1>6 DEF Inv

LEMMA ReceiveStep == ASSUME Inv, NEW k \in Channel, Receive(k) PROVE Inv'
<1> USE MailboxAssumption
<1> DEFINE c == Head(queue[k])
<1>0. /\ state[k] = "open" /\ running[k] = NoCommand /\ queue[k] # << >>
      /\ queue[k] \in Seq(Command)
  BY DEF Inv, MailboxTypeOK, Receive
<1>a. /\ c \in Command /\ c = queue[k][1] /\ 1 \in 1..Len(queue[k]) /\ Len(queue[k]) \in Nat
      /\ Tail(queue[k]) \in Seq(Command) /\ Len(Tail(queue[k])) = Len(queue[k]) - 1
      /\ \A i \in 1..Len(Tail(queue[k])) :
           i + 1 \in 1..Len(queue[k]) /\ i + 1 # 1 /\ Tail(queue[k])[i] = queue[k][i + 1]
  <2>1. /\ Head(queue[k]) \in Command /\ Tail(queue[k]) \in Seq(Command)
        /\ Len(Tail(queue[k])) = Len(queue[k]) - 1
        /\ \A i \in 1..Len(Tail(queue[k])) : Tail(queue[k])[i] = queue[k][i + 1]
    BY <1>0, HeadTailProperties
  <2>2. Len(queue[k]) \in Nat /\ Len(queue[k]) # 0
    BY <1>0, LenProperties, EmptySeq
  <2>3. Head(queue[k]) = queue[k][1]
    BY <1>0
  <2> QED BY <2>1, <2>2, <2>3
<1>b. /\ queue'[k] = Tail(queue[k])
      /\ \A j \in Channel : j # k => queue'[j] = queue[j]
      /\ queue' \in [Channel -> Seq(Command)]
  BY <1>a DEF Inv, MailboxTypeOK, Receive
<1>c. /\ ran' = [ran EXCEPT ![c] = ran[c] + 1]
      /\ running' = [running EXCEPT ![k] = c]
      /\ UNCHANGED <<box, made, owner, state, pc, target>>
  BY DEF Receive
<1>d. /\ target[c] = k /\ pc[c] \in {"wait", "gone"} /\ ran[c] = 0
      /\ \A i \in 1..Len(queue[k]) : queue[k][i] = c => i = 1
  BY <1>a DEF Inv, Queues
<1> HIDE DEF c
<1>1. MailboxTypeOK'
  <2>1. \A j \in Channel : Len(queue'[j]) <= Room
    <3>1. Len(queue'[k]) <= Room
      BY <1>a, <1>b DEF Inv, MailboxTypeOK
    <3> QED BY <3>1, <1>b DEF Inv, MailboxTypeOK
  <2> QED BY <2>1, <1>a, <1>b, <1>c DEF Inv, MailboxTypeOK
<1>2. Boxes'
  BY <1>c DEF Inv, Boxes
<1>3. Targets'
  BY <1>c DEF Inv, Targets
<1>4. Queues'
  <2> SUFFICES ASSUME NEW j \in Channel, NEW i \in 1..Len(queue'[j])
               PROVE  /\ state[j] # "closed"
                      /\ target[queue'[j][i]] = j /\ pc[queue'[j][i]] \in {"wait", "gone"}
                      /\ ran'[queue'[j][i]] = 0
                      /\ \A h \in 1..Len(queue'[j]) : queue'[j][i] = queue'[j][h] => i = h
    BY <1>c DEF Queues
  <2>0. \A e \in Command : e # c => ran'[e] = ran[e]
    BY <1>c DEF Inv, MailboxTypeOK
  <2>1. CASE j # k
    <3>1. queue'[j] = queue[j]
      BY <2>1, <1>b
    <3>2. i \in 1..Len(queue[j])
      BY <3>1
    <3>3. /\ state[j] # "closed" /\ target[queue[j][i]] = j
          /\ pc[queue[j][i]] \in {"wait", "gone"} /\ ran[queue[j][i]] = 0
          /\ \A h \in 1..Len(queue[j]) : queue[j][i] = queue[j][h] => i = h
      BY <3>2 DEF Inv, Queues
    <3>4. queue[j][i] \in Command
      BY <3>2, ElementOfSeq DEF Inv, MailboxTypeOK
    <3>5. queue[j][i] # c
      BY <3>3, <2>1, <1>d
    <3> QED BY <3>1, <3>3, <3>4, <3>5, <2>0
  <2>2. CASE j = k
    <3>1. /\ i + 1 \in 1..Len(queue[k]) /\ queue'[j][i] = queue[k][i + 1]
          /\ i + 1 # 1 /\ i \in Int
      BY <2>2, <1>a, <1>b
    <3>2. /\ state[k] # "closed" /\ target[queue[k][i + 1]] = k
          /\ pc[queue[k][i + 1]] \in {"wait", "gone"} /\ ran[queue[k][i + 1]] = 0
          /\ \A h \in 1..Len(queue[k]) : queue[k][i + 1] = queue[k][h] => i + 1 = h
      BY <3>1 DEF Inv, Queues
    <3>3. queue[k][i + 1] \in Command
      BY <3>1, <1>0, ElementOfSeq
    <3>4. queue[k][i + 1] # c
      BY <3>1, <1>d
    <3>5. \A h \in 1..Len(queue'[j]) : queue'[j][i] = queue'[j][h] => i = h
      <4> SUFFICES ASSUME NEW h \in 1..Len(queue'[j]), queue'[j][i] = queue'[j][h] PROVE i = h
        OBVIOUS
      <4>1. h + 1 \in 1..Len(queue[k]) /\ queue'[j][h] = queue[k][h + 1] /\ h \in Int
        BY <2>2, <1>a, <1>b
      <4>2. i + 1 = h + 1
        BY <4>1, <3>1, <3>2
      <4> QED BY <4>1, <4>2, <3>1
    <3> QED BY <3>1, <3>2, <3>3, <3>4, <3>5, <2>0, <2>2
  <2> QED BY <2>1, <2>2
<1>5. Runs'
  <2> SUFFICES ASSUME NEW j \in Channel, running'[j] # NoCommand
               PROVE  /\ state[j] = "open" /\ target[running'[j]] = j
                      /\ pc[running'[j]] \in {"wait", "gone"} /\ ran'[running'[j]] = 1
    BY <1>c DEF Runs
  <2>1. CASE j = k
    BY <2>1, <1>0, <1>a, <1>c, <1>d DEF Inv, MailboxTypeOK
  <2>2. CASE j # k
    <3>1. running'[j] = running[j] /\ running[j] \in Command
      BY <2>2, <1>c DEF Inv, MailboxTypeOK
    <3>2. target[running[j]] = j
      BY <3>1 DEF Inv, Runs
    <3>3. running[j] # c
      BY <3>2, <2>2, <1>d
    <3> QED BY <3>1, <3>3, <1>a, <1>c DEF Inv, MailboxTypeOK, Runs
  <2> QED BY <2>1, <2>2
<1>6. Counts'
  BY <1>a, <1>c, <1>d DEF Inv, MailboxTypeOK, Counts
<1> QED BY <1>1, <1>2, <1>3, <1>4, <1>5, <1>6 DEF Inv

LEMMA FinishStep == ASSUME Inv, NEW k \in Channel, Finish(k) PROVE Inv'
<1> USE MailboxAssumption
<1> DEFINE c == running[k]
<1> PICK outcome \in {"done", "failed"} :
      pc' = [d \in Command |-> IF d = running[k] /\ pc[d] = "wait" THEN outcome ELSE pc[d]]
  BY DEF Finish
<1>0. /\ c \in Command /\ running' = [running EXCEPT ![k] = NoCommand]
      /\ UNCHANGED <<box, made, owner, state, queue, target, ran>>
  BY DEF Inv, MailboxTypeOK, Finish
<1>a. state[k] = "open" /\ target[c] = k /\ pc[c] \in {"wait", "gone"} /\ ran[c] = 1
  BY <1>0 DEF Inv, Runs
<1>b. /\ \A d \in Command : d # c => pc'[d] = pc[d]
      /\ pc'[c] \in {outcome, "gone"}
  BY <1>0, <1>a
<1>1. MailboxTypeOK'
  <2>1. pc' \in [Command -> Places]
    BY DEF Inv, MailboxTypeOK, Places, Results
  <2> QED BY <2>1, <1>0 DEF Inv, MailboxTypeOK
<1>2. Boxes'
  BY <1>0 DEF Inv, Boxes
<1>3. Targets'
  BY <1>0, <1>b DEF Inv, MailboxTypeOK, Targets
<1>4. Queues'
  <2>1. \A j \in Channel : \A i \in 1..Len(queue[j]) : queue[j][i] \in Command
    BY ElementOfSeq DEF Inv, MailboxTypeOK
  <2>2. \A j \in Channel : \A i \in 1..Len(queue[j]) : queue[j][i] # c
    BY <1>a DEF Inv, Queues
  <2> QED BY <2>1, <2>2, <1>0, <1>b DEF Inv, Queues
<1>5. Runs'
  <2> SUFFICES ASSUME NEW j \in Channel, running'[j] # NoCommand
               PROVE  /\ state[j] = "open" /\ target[running'[j]] = j
                      /\ pc'[running'[j]] \in {"wait", "gone"} /\ ran[running'[j]] = 1
    BY <1>0 DEF Runs
  <2>1. j # k /\ running'[j] = running[j] /\ running[j] \in Command
    BY <1>0 DEF Inv, MailboxTypeOK
  <2>2. /\ state[j] = "open" /\ target[running[j]] = j
        /\ pc[running[j]] \in {"wait", "gone"} /\ ran[running[j]] = 1
    BY <2>1 DEF Inv, Runs
  <2> QED BY <2>1, <2>2, <1>a, <1>b
<1>6. Counts'
  <2> SUFFICES ASSUME NEW d \in Command
               PROVE  /\ ran[d] \in {0, 1}
                      /\ pc'[d] \in {"new", "send", "busy", "expired", "stopped"} => ran[d] = 0
                      /\ pc'[d] \in {"done", "failed"} => ran[d] = 1
    BY <1>0 DEF Counts
  <2>1. CASE d = c
    BY <2>1, <1>a, <1>b
  <2>2. CASE d # c
    BY <2>2, <1>b DEF Inv, Counts
  <2> QED BY <2>1, <2>2
<1> QED BY <1>1, <1>2, <1>3, <1>4, <1>5, <1>6 DEF Inv

LEMMA ElapseStep == ASSUME Inv, NEW k \in Channel, Elapse(k) PROVE Inv'
<1> USE MailboxAssumption
<1>1. MailboxTypeOK'
  BY DEF Inv, MailboxTypeOK, Elapse
<1>2. Boxes'
  BY DEF Inv, MailboxTypeOK, Boxes, Elapse
<1>3. Targets'
  BY DEF Inv, Targets, Elapse
<1>4. Queues'
  BY DEF Inv, MailboxTypeOK, Queues, Elapse
<1>5. Runs'
  BY DEF Inv, MailboxTypeOK, Runs, Elapse
<1>6. Counts'
  BY DEF Inv, Counts, Elapse
<1> QED BY <1>1, <1>2, <1>3, <1>4, <1>5, <1>6 DEF Inv

LEMMA CloseStep == ASSUME Inv, NEW k \in Channel, Close(k) PROVE Inv'
<1> USE MailboxAssumption
<1>0. /\ state[k] = "elapsed" /\ state' = [state EXCEPT ![k] = "closed"]
      /\ queue' = [queue EXCEPT ![k] = << >>]
      /\ UNCHANGED <<box, made, owner, running, target, ran>>
      /\ pc' = [c \in Command |-> IF c \in Queued(k) /\ pc[c] = "wait" THEN "stopped" ELSE pc[c]]
  BY DEF Close
<1>a. /\ queue'[k] = << >> /\ Len(queue'[k]) = 0
      /\ \A j \in Channel : j # k => queue'[j] = queue[j] /\ state'[j] = state[j]
  BY <1>0 DEF Inv, MailboxTypeOK
<1>b. \A c \in Command : target[c] # k => pc'[c] = pc[c]
  BY <1>0 DEF Inv, Queues, Queued
<1>c. \A c \in Command : pc'[c] = pc[c] \/ (pc'[c] = "stopped" /\ ran[c] = 0)
  BY <1>0 DEF Inv, Queues, Queued
<1>1. MailboxTypeOK'
  <2>1. pc' \in [Command -> Places]
    BY <1>0 DEF Inv, MailboxTypeOK, Places, Results
  <2>2. queue' \in [Channel -> Seq(Command)] /\ \A j \in Channel : Len(queue'[j]) <= Room
    BY <1>0, <1>a DEF Inv, MailboxTypeOK
  <2> QED BY <2>1, <2>2, <1>0 DEF Inv, MailboxTypeOK
<1>2. Boxes'
  BY <1>0 DEF Inv, MailboxTypeOK, Boxes
<1>3. Targets'
  BY <1>0, <1>c DEF Inv, MailboxTypeOK, Targets
<1>4. Queues'
  <2> SUFFICES ASSUME NEW j \in Channel, NEW i \in 1..Len(queue'[j])
               PROVE  /\ state'[j] # "closed"
                      /\ target[queue'[j][i]] = j /\ pc'[queue'[j][i]] \in {"wait", "gone"}
                      /\ ran[queue'[j][i]] = 0
                      /\ \A h \in 1..Len(queue'[j]) : queue'[j][i] = queue'[j][h] => i = h
    BY <1>0 DEF Queues
  <2>1. j # k
    BY <1>a
  <2>2. queue'[j] = queue[j] /\ i \in 1..Len(queue[j]) /\ state'[j] = state[j]
    BY <2>1, <1>a
  <2>3. /\ state[j] # "closed" /\ target[queue[j][i]] = j
        /\ pc[queue[j][i]] \in {"wait", "gone"} /\ ran[queue[j][i]] = 0
        /\ \A h \in 1..Len(queue[j]) : queue[j][i] = queue[j][h] => i = h
    BY <2>2 DEF Inv, Queues
  <2>4. queue[j][i] \in Command
    BY <2>2, ElementOfSeq DEF Inv, MailboxTypeOK
  <2> QED BY <2>1, <2>2, <2>3, <2>4, <1>b
<1>5. Runs'
  <2> SUFFICES ASSUME NEW j \in Channel, running[j] # NoCommand
               PROVE  /\ state'[j] = "open" /\ target[running[j]] = j
                      /\ pc'[running[j]] \in {"wait", "gone"} /\ ran[running[j]] = 1
    BY <1>0 DEF Runs
  <2>1. /\ state[j] = "open" /\ target[running[j]] = j
        /\ pc[running[j]] \in {"wait", "gone"} /\ ran[running[j]] = 1
    BY DEF Inv, Runs
  <2>2. j # k /\ running[j] \in Command
    BY <2>1, <1>0 DEF Inv, MailboxTypeOK
  <2> QED BY <2>1, <2>2, <1>a, <1>b
<1>6. Counts'
  BY <1>0, <1>c DEF Inv, Counts
<1> QED BY <1>1, <1>2, <1>3, <1>4, <1>5, <1>6 DEF Inv

\* A mailbox that retain keeps is a live channel, and the other way round.
LEMMA LiveIsOpen ==
  ASSUME Inv, IsFiniteSet(Open)
  PROVE  Cardinality(Open) = Cardinality(Live)
<1> DEFINE f == [k \in Open |-> owner[k]]
<1>1. f \in Bijection(Open, Live)
  <2>1. f \in [Open -> Live]
    BY MailboxAssumption DEF Inv, MailboxTypeOK, Boxes, Open, Live
  <2>2. \A j, k \in Open : f[j] = f[k] => j = k
    BY DEF Inv, Boxes, Open
  <2>3. \A p \in Live : \E k \in Open : f[k] = p
    <3> SUFFICES ASSUME NEW p \in Live PROVE \E k \in Open : f[k] = p
      OBVIOUS
    <3>1. box[p] \in Open /\ owner[box[p]] = p
      BY DEF Inv, MailboxTypeOK, Boxes, Open, Live
    <3> QED BY <3>1
  <2> QED BY <2>1, <2>2, <2>3 DEF Bijection, Injection, Surjection, IsInjective
<1> QED BY <1>1, FS_Bijection DEF ExistsBijection

LEMMA CountedStep == ASSUME Inv, Counted, [Next]_vars PROVE Counted'
<1> USE MailboxAssumption
<1>1. CASE \E c \in Command : Create(c)
  <2> PICK c \in Command, k \in Channel \ made :
        Cardinality(Live) < Capacity /\ state' = [state EXCEPT ![k] = "open"]
    BY <1>1 DEF Create
  <2>1. Open' = Open \cup {k}
    BY DEF Open, Inv, MailboxTypeOK
  <2>2. k \notin Open
    BY DEF Open, Inv, Boxes
  <2>3. IsFiniteSet(Open') /\ Cardinality(Open') = Cardinality(Open) + 1
    BY <2>1, <2>2, FS_AddElement DEF Counted
  <2>4. Cardinality(Open) \in Nat
    BY FS_CardinalityType DEF Counted
  <2>5. Cardinality(Open) = Cardinality(Live)
    BY LiveIsOpen DEF Counted
  <2> QED BY <2>3, <2>4, <2>5 DEF Counted
<1>2. CASE ~ \E c \in Command : Create(c)
  <2>1. Open' \subseteq Open
    <3>1. \A k \in Channel : state'[k] # "closed" => state[k] # "closed"
      BY <1>2 DEF Inv, MailboxTypeOK, Next, vars, Call, Worker, Find, Refuse, Send, SendFails,
                  Abandon, Receive, Finish, Close, Elapse
    <3> QED BY <3>1 DEF Open
  <2>2. /\ IsFiniteSet(Open') /\ Cardinality(Open') <= Cardinality(Open)
        /\ Cardinality(Open) \in Nat /\ Cardinality(Open') \in Nat
    BY <2>1, FS_Subset, FS_CardinalityType DEF Counted
  <2> QED BY <2>2 DEF Counted
<1> QED BY <1>1, <1>2

LEMMA InvStep == ASSUME Inv, [Next]_vars PROVE Inv'
<1>1. CASE \E c \in Command : Call(c) \/ Abandon(c)
  BY <1>1, FindStep, RefuseStep, CreateStep, SendStep, CallEndsStep DEF Call
<1>2. CASE \E k \in Channel : Worker(k) \/ Elapse(k)
  BY <1>2, ReceiveStep, FinishStep, CloseStep, ElapseStep DEF Worker
<1>3. CASE UNCHANGED vars
  <2>1. MailboxTypeOK'
    BY <1>3 DEF Inv, MailboxTypeOK, vars
  <2>2. Boxes' /\ Targets' /\ Counts'
    BY <1>3 DEF Inv, Boxes, Targets, Counts, vars
  <2>3. Queues' /\ Runs'
    BY <1>3 DEF Inv, Queues, Runs, vars
  <2> QED BY <2>1, <2>2, <2>3 DEF Inv
<1> QED BY <1>1, <1>2, <1>3 DEF Next

\* The inductive invariant of the mailboxes of actor.rs holds in every state of Spec.
THEOREM MailboxInvariant == Spec => [](Inv /\ Counted)
<1>1. Init => Inv /\ Counted
  <2> SUFFICES ASSUME Init PROVE Inv /\ Counted
    OBVIOUS
  <2>1. Open = {}
    BY DEF Init, Open
  <2> QED BY <2>1, InvInit, FS_EmptySet, MailboxAssumption DEF Counted
<1>2. Inv /\ Counted /\ [Next]_vars => (Inv /\ Counted)'
  BY InvStep, CountedStep
<1> QED BY <1>1, <1>2, PTL DEF Spec

\* Every variable keeps its type, and no channel holds more than its room.
THEOREM MailboxTypes == Spec => []MailboxTypeOK
<1>1. Inv => MailboxTypeOK
  BY DEF Inv
<1> QED BY <1>1, MailboxInvariant, PTL

\* Commands of one profile never overlap, across any number of expirations and new mailboxes.
THEOREM CommandsSerial == Spec => []Serial
<1>1. Inv => Serial
  BY DEF Inv, Boxes, Runs, Serial
<1> QED BY <1>1, MailboxInvariant, PTL

\* A command is run at most once, in a mailbox of its own profile.
THEOREM CommandsOnce == Spec => []Once
<1>1. Inv => Once
  <2> SUFFICES ASSUME Inv, NEW c \in Command
               PROVE  ran[c] <= 1 /\ \A k \in Channel : running[k] = c => owner[k] = ProfileOf[c]
    BY DEF Once
  <2>1. ran[c] <= 1
    BY DEF Inv, Counts
  <2>2. ASSUME NEW k \in Channel, running[k] = c PROVE owner[k] = ProfileOf[c]
    <3>1. target[c] = k /\ target[c] # NoChannel
      BY <2>2, MailboxAssumption DEF Inv, Runs
    <3> QED BY <3>1 DEF Inv, Targets
  <2> QED BY <2>1, <2>2
<1> QED BY <1>1, MailboxInvariant, PTL

\* A refusal means that the command is not run, an outcome that it was.
THEOREM AnswersTrue == Spec => []AnswerTrue
<1>1. Inv => AnswerTrue
  <2> SUFFICES ASSUME Inv, NEW c \in Command
               PROVE  /\ pc[c] \in {"busy", "expired", "stopped"} =>
                           ran[c] = 0 /\ \A k \in Channel : running[k] # c /\ c \notin Queued(k)
                      /\ pc[c] \in {"done", "failed"} => ran[c] = 1
    BY DEF AnswerTrue
  <2>1. pc[c] \in {"busy", "expired", "stopped"} => \A k \in Channel : running[k] # c
    BY MailboxAssumption DEF Inv, Runs
  <2>2. pc[c] \in {"busy", "expired", "stopped"} => \A k \in Channel : c \notin Queued(k)
    BY DEF Inv, Queues, Queued
  <2> QED BY <2>1, <2>2 DEF Inv, Counts
<1> QED BY <1>1, MailboxInvariant, PTL

\* There are never more live workers than the capacity, whatever the number of profiles.
THEOREM WorkersBounded == Spec => []Bounded
<1>1. Counted => Bounded
  BY DEF Counted, Open, Bounded
<1> QED BY <1>1, MailboxInvariant, PTL

\* What dispatch promises, for any profiles, commands, channels and bounds.
THEOREM DispatchSafe == Spec => []DispatchSound
<1>1. MailboxTypeOK /\ Serial /\ Once /\ AnswerTrue /\ Bounded => DispatchSound
  BY DEF DispatchSound
<1> QED BY <1>1, MailboxTypes, CommandsSerial, CommandsOnce, AnswersTrue, WorkersBounded, PTL

-----------------------------------------------------------------------------
\* The machine's reservation on Windows.

\* The lock's holder is the one attempt between lock() and the end of its call or lease.
LockHeld == \A a \in Attempt : at[a] \in Locked <=> lock = a

\* What the lock's holder knows about the files.
FilesKnown ==
  \A a \in Attempt :
    /\ at[a] \in {"write", "move"} /\ mem[a] = "none" => active = NoOwner
    /\ at[a] = "move" => pending = Saved(a)
    /\ at[a] = "check" => active.attempt = a
    /\ at[a] \in {"write", "move"} /\ mem[a] # "none" => active.attempt = a
    /\ at[a] \in {"spawn", "capture", "run"} => active.attempt = a

\* A lease is remembered only behind the lock.
Memories ==
  \A a \in Attempt :
    /\ mem[a] # "none" => at[a] \in Locked
    /\ at[a] \in Saves => mem[a] # "bound"
    /\ at[a] \in {"spawn", "capture"} => mem[a] = "unbound"
    /\ at[a] = "admit" => mem[a] = "none"
    /\ mem[a] # "none" /\ at[a] \in Saves => pid[a] # NoPid
    /\ at[a] = "capture" => pid[a] # NoPid

\* A saved identity is that of a process.
Bound ==
  /\ active.bound => pid[active.attempt] # NoPid
  /\ pending.bound => pid[pending.attempt] # NoPid
  /\ removed.bound => pid[removed.attempt] # NoPid

\* An engine, or what it left, is covered by the reservation.
Covered ==
  \A a \in Attempt :
    /\ engine[a] = "running" \/ changes[a] => active.attempt = a
    /\ at[a] \in {"finish", "remove"} => engine[a] # "running" /\ ~changes[a]
    /\ at[a] \in {"idle", "acquire", "admit", "spawn"} \/ (at[a] \in Saves /\ mem[a] = "none") =>
         engine[a] # "running" /\ ~changes[a]

WinInv == WinTypeOK /\ LockHeld /\ FilesKnown /\ Memories /\ Bound /\ Covered

LEMMA WinInvInit == WinInit => WinInv
<1> SUFFICES ASSUME WinInit PROVE WinInv
  OBVIOUS
<1> USE WindowsAssumption
<1>1. WinTypeOK
  BY DEF WinInit, WinTypeOK, Owner, NoOwner, WinPlaces
<1>2. LockHeld /\ Memories
  BY DEF WinInit, LockHeld, Memories, Locked, Saves
<1>3. FilesKnown /\ Bound
  BY DEF WinInit, FilesKnown, Bound, NoOwner
<1>4. Covered
  BY DEF WinInit, Covered, Saves
<1> QED BY <1>1, <1>2, <1>3, <1>4 DEF WinInv

LEMMA BeginStep == ASSUME WinInv, NEW a \in Attempt, Begin(a) PROVE WinInv'
<1> USE WindowsAssumption DEF files, world, Works, Fails, Goto, Begin
<1>1. WinTypeOK'
  BY DEF WinInv, WinTypeOK, Bound, Memories, WinPlaces, Locked, Saves, Saved, Owner, NoOwner
<1>2. LockHeld'
  BY DEF WinInv, WinTypeOK, LockHeld, Locked, Saves
<1>3. Memories'
  BY DEF WinInv, WinTypeOK, Memories, Bound, Locked, Saves
<1>4. FilesKnown'
  BY DEF WinInv, WinTypeOK, LockHeld, FilesKnown, Memories, Locked, Saves, Saved, NoOwner
<1>5. Bound'
  BY DEF WinInv, WinTypeOK, FilesKnown, Memories, Bound, Saved, Saves, Owner, NoOwner
<1>6. Covered'
  BY DEF WinInv, WinTypeOK, LockHeld, FilesKnown, Memories, Covered, Locked, Saves, Saved, NoOwner
<1> QED BY <1>1, <1>2, <1>3, <1>4, <1>5, <1>6 DEF WinInv

LEMMA LockStep == ASSUME WinInv, NEW a \in Attempt, Lock(a) PROVE WinInv'
<1> USE WindowsAssumption DEF files, world, Works, Fails, Goto, Lock
<1>1. WinTypeOK'
  BY DEF WinInv, WinTypeOK, Bound, Memories, WinPlaces, Locked, Saves, Saved, Owner, NoOwner
<1>2. LockHeld'
  BY DEF WinInv, WinTypeOK, LockHeld, Locked, Saves
<1>3. Memories'
  BY DEF WinInv, WinTypeOK, Memories, Bound, Locked, Saves
<1>4. FilesKnown'
  BY DEF WinInv, WinTypeOK, LockHeld, FilesKnown, Memories, Locked, Saves, Saved, NoOwner
<1>5. Bound'
  BY DEF WinInv, WinTypeOK, FilesKnown, Memories, Bound, Saved, Saves, Owner, NoOwner
<1>6. Covered'
  BY DEF WinInv, WinTypeOK, LockHeld, FilesKnown, Memories, Covered, Locked, Saves, Saved, NoOwner
<1> QED BY <1>1, <1>2, <1>3, <1>4, <1>5, <1>6 DEF WinInv

LEMMA LockFailsStep == ASSUME WinInv, NEW a \in Attempt, LockFails(a) PROVE WinInv'
<1> USE WindowsAssumption DEF files, world, Works, Fails, Goto, LockFails
<1>1. WinTypeOK'
  BY DEF WinInv, WinTypeOK, Bound, Memories, WinPlaces, Locked, Saves, Saved, Owner, NoOwner
<1>2. LockHeld'
  BY DEF WinInv, WinTypeOK, LockHeld, Locked, Saves
<1>3. Memories'
  BY DEF WinInv, WinTypeOK, Memories, Bound, Locked, Saves
<1>4. FilesKnown'
  BY DEF WinInv, WinTypeOK, LockHeld, FilesKnown, Memories, Locked, Saves, Saved, NoOwner
<1>5. Bound'
  BY DEF WinInv, WinTypeOK, FilesKnown, Memories, Bound, Saved, Saves, Owner, NoOwner
<1>6. Covered'
  BY DEF WinInv, WinTypeOK, LockHeld, FilesKnown, Memories, Covered, Locked, Saves, Saved, NoOwner
<1> QED BY <1>1, <1>2, <1>3, <1>4, <1>5, <1>6 DEF WinInv

LEMMA AdmitStep == ASSUME WinInv, NEW a \in Attempt, Admit(a) PROVE WinInv'
<1> USE WindowsAssumption DEF files, world, Works, Fails, Goto, Admit
<1>1. WinTypeOK'
  BY DEF WinInv, WinTypeOK, Bound, Memories, WinPlaces, Locked, Saves, Saved, Owner, NoOwner
<1>2. LockHeld'
  BY DEF WinInv, WinTypeOK, LockHeld, Locked, Saves
<1>3. Memories'
  BY DEF WinInv, WinTypeOK, Memories, Bound, Locked, Saves
<1>4. FilesKnown'
  BY DEF WinInv, WinTypeOK, LockHeld, FilesKnown, Memories, Locked, Saves, Saved, NoOwner
<1>5. Bound'
  BY DEF WinInv, WinTypeOK, FilesKnown, Memories, Bound, Saved, Saves, Owner, NoOwner
<1>6. Covered'
  BY DEF WinInv, WinTypeOK, LockHeld, FilesKnown, Memories, Covered, Locked, Saves, Saved, NoOwner
<1> QED BY <1>1, <1>2, <1>3, <1>4, <1>5, <1>6 DEF WinInv

LEMMA AdmitFailsStep == ASSUME WinInv, NEW a \in Attempt, AdmitFails(a) PROVE WinInv'
<1> USE WindowsAssumption DEF files, world, Works, Fails, Goto, AdmitFails
<1>1. WinTypeOK'
  BY DEF WinInv, WinTypeOK, Bound, Memories, WinPlaces, Locked, Saves, Saved, Owner, NoOwner
<1>2. LockHeld'
  BY DEF WinInv, WinTypeOK, LockHeld, Locked, Saves
<1>3. Memories'
  BY DEF WinInv, WinTypeOK, Memories, Bound, Locked, Saves
<1>4. FilesKnown'
  BY DEF WinInv, WinTypeOK, LockHeld, FilesKnown, Memories, Locked, Saves, Saved, NoOwner
<1>5. Bound'
  BY DEF WinInv, WinTypeOK, FilesKnown, Memories, Bound, Saved, Saves, Owner, NoOwner
<1>6. Covered'
  BY DEF WinInv, WinTypeOK, LockHeld, FilesKnown, Memories, Covered, Locked, Saves, Saved, NoOwner
<1> QED BY <1>1, <1>2, <1>3, <1>4, <1>5, <1>6 DEF WinInv

LEMMA SaveWritesStep == ASSUME WinInv, NEW a \in Attempt, SaveWrites(a) PROVE WinInv'
<1> USE WindowsAssumption DEF files, world, Works, Fails, Goto, SaveWrites
<1>1. WinTypeOK'
  BY DEF WinInv, WinTypeOK, Bound, Memories, WinPlaces, Locked, Saves, Saved, Owner, NoOwner
<1>2. LockHeld'
  BY DEF WinInv, WinTypeOK, LockHeld, Locked, Saves
<1>3. Memories'
  BY DEF WinInv, WinTypeOK, Memories, Bound, Locked, Saves
<1>4. FilesKnown'
  BY DEF WinInv, WinTypeOK, LockHeld, FilesKnown, Memories, Locked, Saves, Saved, NoOwner
<1>5. Bound'
  BY DEF WinInv, WinTypeOK, FilesKnown, Memories, Bound, Saved, Saves, Owner, NoOwner
<1>6. Covered'
  BY DEF WinInv, WinTypeOK, LockHeld, FilesKnown, Memories, Covered, Locked, Saves, Saved, NoOwner
<1> QED BY <1>1, <1>2, <1>3, <1>4, <1>5, <1>6 DEF WinInv

LEMMA SaveMovesStep == ASSUME WinInv, NEW a \in Attempt, SaveMoves(a) PROVE WinInv'
<1> USE WindowsAssumption DEF files, world, Works, Fails, Goto, SaveMoves
<1>1. WinTypeOK'
  BY DEF WinInv, WinTypeOK, Bound, Memories, WinPlaces, Locked, Saves, Saved, Owner, NoOwner
<1>2. LockHeld'
  BY DEF WinInv, WinTypeOK, LockHeld, Locked, Saves
<1>3. Memories'
  BY DEF WinInv, WinTypeOK, Memories, Bound, Locked, Saves
<1>4. FilesKnown'
  BY DEF WinInv, WinTypeOK, LockHeld, FilesKnown, Memories, Locked, Saves, Saved, NoOwner
<1>5. Bound'
  BY DEF WinInv, WinTypeOK, FilesKnown, Memories, Bound, Saved, Saves, Owner, NoOwner
<1>6. Covered'
  BY DEF WinInv, WinTypeOK, LockHeld, FilesKnown, Memories, Covered, Locked, Saves, Saved, NoOwner
<1> QED BY <1>1, <1>2, <1>3, <1>4, <1>5, <1>6 DEF WinInv

LEMMA SaveChecksStep == ASSUME WinInv, NEW a \in Attempt, SaveChecks(a) PROVE WinInv'
<1> USE WindowsAssumption DEF files, world, Works, Fails, Goto, SaveChecks
<1>1. WinTypeOK'
  BY DEF WinInv, WinTypeOK, Bound, Memories, WinPlaces, Locked, Saves, Saved, Owner, NoOwner
<1>2. LockHeld'
  BY DEF WinInv, WinTypeOK, LockHeld, Locked, Saves
<1>3. Memories'
  BY DEF WinInv, WinTypeOK, Memories, Bound, Locked, Saves
<1>4. FilesKnown'
  BY DEF WinInv, WinTypeOK, LockHeld, FilesKnown, Memories, Locked, Saves, Saved, NoOwner
<1>5. Bound'
  BY DEF WinInv, WinTypeOK, FilesKnown, Memories, Bound, Saved, Saves, Owner, NoOwner
<1>6. Covered'
  BY DEF WinInv, WinTypeOK, LockHeld, FilesKnown, Memories, Covered, Locked, Saves, Saved, NoOwner
<1> QED BY <1>1, <1>2, <1>3, <1>4, <1>5, <1>6 DEF WinInv

LEMMA SaveFailsStep == ASSUME WinInv, NEW a \in Attempt, SaveFails(a) PROVE WinInv'
<1> USE WindowsAssumption DEF files, world, Works, Fails, Goto, SaveFails
<1>1. WinTypeOK'
  BY DEF WinInv, WinTypeOK, Bound, Memories, WinPlaces, Locked, Saves, Saved, Owner, NoOwner
<1>2. LockHeld'
  BY DEF WinInv, WinTypeOK, LockHeld, Locked, Saves
<1>3. Memories'
  BY DEF WinInv, WinTypeOK, Memories, Bound, Locked, Saves
<1>4. FilesKnown'
  BY DEF WinInv, WinTypeOK, LockHeld, FilesKnown, Memories, Locked, Saves, Saved, NoOwner
<1>5. Bound'
  BY DEF WinInv, WinTypeOK, FilesKnown, Memories, Bound, Saved, Saves, Owner, NoOwner
<1>6. Covered'
  BY DEF WinInv, WinTypeOK, LockHeld, FilesKnown, Memories, Covered, Locked, Saves, Saved, NoOwner
<1> QED BY <1>1, <1>2, <1>3, <1>4, <1>5, <1>6 DEF WinInv

LEMMA UndoStep == ASSUME WinInv, NEW a \in Attempt, Undo(a) PROVE WinInv'
<1> USE WindowsAssumption DEF files, world, Works, Fails, Goto, Undo
<1>1. WinTypeOK'
  <2>1. record' \in [Attempt -> BOOLEAN]
    BY DEF WinInv, WinTypeOK
  <2>2. at' \in [Attempt -> WinPlaces] /\ budget' \in 0..Failures
    BY DEF WinInv, WinTypeOK, WinPlaces
  <2> QED BY <2>1, <2>2 DEF WinInv, WinTypeOK
<1>2. LockHeld'
  BY DEF WinInv, WinTypeOK, LockHeld, Locked, Saves
<1>3. Memories'
  BY DEF WinInv, WinTypeOK, Memories, Bound, Locked, Saves
<1>4. FilesKnown'
  BY DEF WinInv, WinTypeOK, LockHeld, FilesKnown, Memories, Locked, Saves, Saved, NoOwner
<1>5. Bound'
  BY DEF WinInv, WinTypeOK, FilesKnown, Memories, Bound, Saved, Saves, Owner, NoOwner
<1>6. Covered'
  BY DEF WinInv, WinTypeOK, LockHeld, FilesKnown, Memories, Covered, Locked, Saves, Saved, NoOwner
<1> QED BY <1>1, <1>2, <1>3, <1>4, <1>5, <1>6 DEF WinInv

LEMMA SpawnFailsStep == ASSUME WinInv, NEW a \in Attempt, SpawnFails(a) PROVE WinInv'
<1> USE WindowsAssumption DEF files, world, Works, Fails, Goto, SpawnFails
<1>1. WinTypeOK'
  BY DEF WinInv, WinTypeOK, Bound, Memories, WinPlaces, Locked, Saves, Saved, Owner, NoOwner
<1>2. LockHeld'
  BY DEF WinInv, WinTypeOK, LockHeld, Locked, Saves
<1>3. Memories'
  BY DEF WinInv, WinTypeOK, Memories, Bound, Locked, Saves
<1>4. FilesKnown'
  BY DEF WinInv, WinTypeOK, LockHeld, FilesKnown, Memories, Locked, Saves, Saved, NoOwner
<1>5. Bound'
  BY DEF WinInv, WinTypeOK, FilesKnown, Memories, Bound, Saved, Saves, Owner, NoOwner
<1>6. Covered'
  BY DEF WinInv, WinTypeOK, LockHeld, FilesKnown, Memories, Covered, Locked, Saves, Saved, NoOwner
<1> QED BY <1>1, <1>2, <1>3, <1>4, <1>5, <1>6 DEF WinInv

LEMMA CaptureStep == ASSUME WinInv, NEW a \in Attempt, Capture(a) PROVE WinInv'
<1> USE WindowsAssumption DEF files, world, Works, Fails, Goto, Capture, Remembered
<1>1. WinTypeOK'
  BY DEF WinInv, WinTypeOK, Bound, Memories, WinPlaces, Locked, Saves, Saved, Owner, NoOwner
<1>2. LockHeld'
  BY DEF WinInv, WinTypeOK, LockHeld, Locked, Saves
<1>3. Memories'
  BY DEF WinInv, WinTypeOK, Memories, Bound, Locked, Saves
<1>4. FilesKnown'
  BY DEF WinInv, WinTypeOK, LockHeld, FilesKnown, Memories, Locked, Saves, Saved, NoOwner
<1>5. Bound'
  BY DEF WinInv, WinTypeOK, FilesKnown, Memories, Bound, Saved, Saves, Owner, NoOwner
<1>6. Covered'
  BY DEF WinInv, WinTypeOK, LockHeld, FilesKnown, Memories, Covered, Locked, Saves, Saved, NoOwner
<1> QED BY <1>1, <1>2, <1>3, <1>4, <1>5, <1>6 DEF WinInv

LEMMA ChangeStep == ASSUME WinInv, NEW a \in Attempt, Change(a) PROVE WinInv'
<1> USE WindowsAssumption DEF files, world, Works, Fails, Goto, Change
<1>1. WinTypeOK'
  BY DEF WinInv, WinTypeOK, Bound, Memories, WinPlaces, Locked, Saves, Saved, Owner, NoOwner
<1>2. LockHeld'
  BY DEF WinInv, WinTypeOK, LockHeld, Locked, Saves
<1>3. Memories'
  BY DEF WinInv, WinTypeOK, Memories, Bound, Locked, Saves
<1>4. FilesKnown'
  BY DEF WinInv, WinTypeOK, LockHeld, FilesKnown, Memories, Locked, Saves, Saved, NoOwner
<1>5. Bound'
  BY DEF WinInv, WinTypeOK, FilesKnown, Memories, Bound, Saved, Saves, Owner, NoOwner
<1>6. Covered'
  BY DEF WinInv, WinTypeOK, LockHeld, FilesKnown, Memories, Covered, Locked, Saves, Saved, NoOwner
<1> QED BY <1>1, <1>2, <1>3, <1>4, <1>5, <1>6 DEF WinInv

LEMMA RestoreStep == ASSUME WinInv, NEW a \in Attempt, Restore(a) PROVE WinInv'
<1> USE WindowsAssumption DEF files, world, Works, Fails, Goto, Restore
<1>1. WinTypeOK'
  BY DEF WinInv, WinTypeOK, Bound, Memories, WinPlaces, Locked, Saves, Saved, Owner, NoOwner
<1>2. LockHeld'
  BY DEF WinInv, WinTypeOK, LockHeld, Locked, Saves
<1>3. Memories'
  BY DEF WinInv, WinTypeOK, Memories, Bound, Locked, Saves
<1>4. FilesKnown'
  BY DEF WinInv, WinTypeOK, LockHeld, FilesKnown, Memories, Locked, Saves, Saved, NoOwner
<1>5. Bound'
  BY DEF WinInv, WinTypeOK, FilesKnown, Memories, Bound, Saved, Saves, Owner, NoOwner
<1>6. Covered'
  BY DEF WinInv, WinTypeOK, LockHeld, FilesKnown, Memories, Covered, Locked, Saves, Saved, NoOwner
<1> QED BY <1>1, <1>2, <1>3, <1>4, <1>5, <1>6 DEF WinInv

LEMMA ReapStep == ASSUME WinInv, NEW a \in Attempt, Reap(a) PROVE WinInv'
<1> USE WindowsAssumption DEF files, world, Works, Fails, Goto, Reap
<1>1. WinTypeOK'
  BY DEF WinInv, WinTypeOK, Bound, Memories, WinPlaces, Locked, Saves, Saved, Owner, NoOwner
<1>2. LockHeld'
  BY DEF WinInv, WinTypeOK, LockHeld, Locked, Saves
<1>3. Memories'
  BY DEF WinInv, WinTypeOK, Memories, Bound, Locked, Saves
<1>4. FilesKnown'
  BY DEF WinInv, WinTypeOK, LockHeld, FilesKnown, Memories, Locked, Saves, Saved, NoOwner
<1>5. Bound'
  BY DEF WinInv, WinTypeOK, FilesKnown, Memories, Bound, Saved, Saves, Owner, NoOwner
<1>6. Covered'
  BY DEF WinInv, WinTypeOK, LockHeld, FilesKnown, Memories, Covered, Locked, Saves, Saved, NoOwner
<1> QED BY <1>1, <1>2, <1>3, <1>4, <1>5, <1>6 DEF WinInv

LEMMA ReapFailsStep == ASSUME WinInv, NEW a \in Attempt, ReapFails(a) PROVE WinInv'
<1> USE WindowsAssumption DEF files, world, Works, Fails, Goto, ReapFails
<1>1. WinTypeOK'
  BY DEF WinInv, WinTypeOK, Bound, Memories, WinPlaces, Locked, Saves, Saved, Owner, NoOwner
<1>2. LockHeld'
  BY DEF WinInv, WinTypeOK, LockHeld, Locked, Saves
<1>3. Memories'
  BY DEF WinInv, WinTypeOK, Memories, Bound, Locked, Saves
<1>4. FilesKnown'
  BY DEF WinInv, WinTypeOK, LockHeld, FilesKnown, Memories, Locked, Saves, Saved, NoOwner
<1>5. Bound'
  BY DEF WinInv, WinTypeOK, FilesKnown, Memories, Bound, Saved, Saves, Owner, NoOwner
<1>6. Covered'
  BY DEF WinInv, WinTypeOK, LockHeld, FilesKnown, Memories, Covered, Locked, Saves, Saved, NoOwner
<1> QED BY <1>1, <1>2, <1>3, <1>4, <1>5, <1>6 DEF WinInv

LEMMA FinishChecksStep == ASSUME WinInv, NEW a \in Attempt, FinishChecks(a) PROVE WinInv'
<1> USE WindowsAssumption DEF files, world, Works, Fails, Goto, FinishChecks
<1>1. WinTypeOK'
  BY DEF WinInv, WinTypeOK, Bound, Memories, WinPlaces, Locked, Saves, Saved, Owner, NoOwner
<1>2. LockHeld'
  BY DEF WinInv, WinTypeOK, LockHeld, Locked, Saves
<1>3. Memories'
  BY DEF WinInv, WinTypeOK, Memories, Bound, Locked, Saves
<1>4. FilesKnown'
  BY DEF WinInv, WinTypeOK, LockHeld, FilesKnown, Memories, Locked, Saves, Saved, NoOwner
<1>5. Bound'
  BY DEF WinInv, WinTypeOK, FilesKnown, Memories, Bound, Saved, Saves, Owner, NoOwner
<1>6. Covered'
  BY DEF WinInv, WinTypeOK, LockHeld, FilesKnown, Memories, Covered, Locked, Saves, Saved, NoOwner
<1> QED BY <1>1, <1>2, <1>3, <1>4, <1>5, <1>6 DEF WinInv

LEMMA FinishFailsStep == ASSUME WinInv, NEW a \in Attempt, FinishFails(a) PROVE WinInv'
<1> USE WindowsAssumption DEF files, world, Works, Fails, Goto, FinishFails, Remembered
<1>1. WinTypeOK'
  BY DEF WinInv, WinTypeOK, Bound, Memories, WinPlaces, Locked, Saves, Saved, Owner, NoOwner
<1>2. LockHeld'
  BY DEF WinInv, WinTypeOK, LockHeld, Locked, Saves
<1>3. Memories'
  BY DEF WinInv, WinTypeOK, Memories, Bound, Locked, Saves
<1>4. FilesKnown'
  BY DEF WinInv, WinTypeOK, LockHeld, FilesKnown, Memories, Locked, Saves, Saved, NoOwner
<1>5. Bound'
  BY DEF WinInv, WinTypeOK, FilesKnown, Memories, Bound, Saved, Saves, Owner, NoOwner
<1>6. Covered'
  BY DEF WinInv, WinTypeOK, LockHeld, FilesKnown, Memories, Covered, Locked, Saves, Saved, NoOwner
<1> QED BY <1>1, <1>2, <1>3, <1>4, <1>5, <1>6 DEF WinInv

LEMMA RemoveStep == ASSUME WinInv, NEW a \in Attempt, Remove(a) PROVE WinInv'
<1> USE WindowsAssumption DEF files, world, Works, Fails, Goto, Remove, Remembered
<1>1. WinTypeOK'
  BY DEF WinInv, WinTypeOK, Bound, Memories, WinPlaces, Locked, Saves, Saved, Owner, NoOwner
<1>2. LockHeld'
  BY DEF WinInv, WinTypeOK, LockHeld, Locked, Saves
<1>3. Memories'
  BY DEF WinInv, WinTypeOK, Memories, Bound, Locked, Saves
<1>4. FilesKnown'
  BY DEF WinInv, WinTypeOK, LockHeld, FilesKnown, Memories, Locked, Saves, Saved, NoOwner
<1>5. Bound'
  BY DEF WinInv, WinTypeOK, FilesKnown, Memories, Bound, Saved, Saves, Owner, NoOwner
<1>6. Covered'
  BY DEF WinInv, WinTypeOK, LockHeld, FilesKnown, Memories, Covered, Locked, Saves, Saved, NoOwner
<1> QED BY <1>1, <1>2, <1>3, <1>4, <1>5, <1>6 DEF WinInv

LEMMA UnlinkStep == ASSUME WinInv, NEW a \in Attempt, Unlink(a) PROVE WinInv'
<1> USE WindowsAssumption DEF files, world, Works, Fails, Goto, Unlink
<1>1. WinTypeOK'
  BY DEF WinInv, WinTypeOK, Bound, Memories, WinPlaces, Locked, Saves, Saved, Owner, NoOwner
<1>2. LockHeld'
  BY DEF WinInv, WinTypeOK, LockHeld, Locked, Saves
<1>3. Memories'
  BY DEF WinInv, WinTypeOK, Memories, Bound, Locked, Saves
<1>4. FilesKnown'
  BY DEF WinInv, WinTypeOK, LockHeld, FilesKnown, Memories, Locked, Saves, Saved, NoOwner
<1>5. Bound'
  BY DEF WinInv, WinTypeOK, FilesKnown, Memories, Bound, Saved, Saves, Owner, NoOwner
<1>6. Covered'
  BY DEF WinInv, WinTypeOK, LockHeld, FilesKnown, Memories, Covered, Locked, Saves, Saved, NoOwner
<1> QED BY <1>1, <1>2, <1>3, <1>4, <1>5, <1>6 DEF WinInv

LEMMA AcknowledgeStep == ASSUME WinInv, NEW a \in Attempt, Acknowledge(a) PROVE WinInv'
<1> USE WindowsAssumption DEF files, world, Works, Fails, Goto, Acknowledge
<1>1. WinTypeOK'
  BY DEF WinInv, WinTypeOK, Bound, Memories, WinPlaces, Locked, Saves, Saved, Owner, NoOwner
<1>2. LockHeld'
  BY DEF WinInv, WinTypeOK, LockHeld, Locked, Saves
<1>3. Memories'
  BY DEF WinInv, WinTypeOK, Memories, Bound, Locked, Saves
<1>4. FilesKnown'
  BY DEF WinInv, WinTypeOK, LockHeld, FilesKnown, Memories, Locked, Saves, Saved, NoOwner
<1>5. Bound'
  BY DEF WinInv, WinTypeOK, FilesKnown, Memories, Bound, Saved, Saves, Owner, NoOwner
<1>6. Covered'
  BY DEF WinInv, WinTypeOK, LockHeld, FilesKnown, Memories, Covered, Locked, Saves, Saved, NoOwner
<1> QED BY <1>1, <1>2, <1>3, <1>4, <1>5, <1>6 DEF WinInv

LEMMA AcknowledgeLocalStep == ASSUME WinInv, NEW a \in Attempt, AcknowledgeLocal(a) PROVE WinInv'
<1> USE WindowsAssumption DEF files, world, Works, Fails, Goto, AcknowledgeLocal
<1>1. WinTypeOK'
  BY DEF WinInv, WinTypeOK, Bound, Memories, WinPlaces, Locked, Saves, Saved, Owner, NoOwner
<1>2. LockHeld'
  BY DEF WinInv, WinTypeOK, LockHeld, Locked, Saves
<1>3. Memories'
  BY DEF WinInv, WinTypeOK, Memories, Bound, Locked, Saves
<1>4. FilesKnown'
  BY DEF WinInv, WinTypeOK, LockHeld, FilesKnown, Memories, Locked, Saves, Saved, NoOwner
<1>5. Bound'
  BY DEF WinInv, WinTypeOK, FilesKnown, Memories, Bound, Saved, Saves, Owner, NoOwner
<1>6. Covered'
  BY DEF WinInv, WinTypeOK, LockHeld, FilesKnown, Memories, Covered, Locked, Saves, Saved, NoOwner
<1> QED BY <1>1, <1>2, <1>3, <1>4, <1>5, <1>6 DEF WinInv

LEMMA CrashStep == ASSUME WinInv, NEW a \in Attempt, Crash(a) PROVE WinInv'
<1> USE WindowsAssumption DEF files, world, Works, Fails, Goto, Crash
<1>1. WinTypeOK'
  BY DEF WinInv, WinTypeOK, Bound, Memories, WinPlaces, Locked, Saves, Saved, Owner, NoOwner
<1>2. LockHeld'
  BY DEF WinInv, WinTypeOK, LockHeld, Locked, Saves
<1>3. Memories'
  BY DEF WinInv, WinTypeOK, Memories, Bound, Locked, Saves
<1>4. FilesKnown'
  BY DEF WinInv, WinTypeOK, LockHeld, FilesKnown, Memories, Locked, Saves, Saved, NoOwner
<1>5. Bound'
  BY DEF WinInv, WinTypeOK, FilesKnown, Memories, Bound, Saved, Saves, Owner, NoOwner
<1>6. Covered'
  BY DEF WinInv, WinTypeOK, LockHeld, FilesKnown, Memories, Covered, Locked, Saves, Saved, NoOwner
<1> QED BY <1>1, <1>2, <1>3, <1>4, <1>5, <1>6 DEF WinInv

LEMMA SpawnStep == ASSUME WinInv, NEW a \in Attempt, Spawn(a) PROVE WinInv'
<1> USE WindowsAssumption DEF files, world, Works, Fails, Goto, Spawn
<1>1. WinTypeOK'
  BY DEF WinInv, WinTypeOK, Bound, Memories, WinPlaces, Locked, Saves, Saved, Owner, NoOwner
<1>2. LockHeld'
  BY DEF WinInv, WinTypeOK, LockHeld, Locked, Saves
<1>3. Memories'
  BY DEF WinInv, WinTypeOK, Memories, Bound, Locked, Saves
<1>4. FilesKnown'
  BY DEF WinInv, WinTypeOK, LockHeld, FilesKnown, Memories, Locked, Saves, Saved, NoOwner
<1>5. Bound'
  BY DEF WinInv, WinTypeOK, FilesKnown, Memories, Bound, Saved, Saves, Owner, NoOwner
<1>6. Covered'
  BY DEF WinInv, WinTypeOK, LockHeld, FilesKnown, Memories, Covered, Locked, Saves, Saved, NoOwner
<1> QED BY <1>1, <1>2, <1>3, <1>4, <1>5, <1>6 DEF WinInv

LEMMA AbortStep == ASSUME WinInv, NEW a \in Attempt, Abort(a) PROVE WinInv'
<1> USE WindowsAssumption DEF files, world, Works, Fails, Goto, Abort, Freed
<1>1. WinTypeOK'
  BY DEF WinInv, WinTypeOK, Bound, Memories, WinPlaces, Locked, Saves, Saved, Owner, NoOwner
<1>2. LockHeld'
  BY DEF WinInv, WinTypeOK, LockHeld, Locked, Saves
<1>3. Memories'
  BY DEF WinInv, WinTypeOK, Memories, Bound, Locked, Saves
<1>4. FilesKnown'
  BY DEF WinInv, WinTypeOK, LockHeld, FilesKnown, Memories, Locked, Saves, Saved, NoOwner
<1>5. Bound'
  BY DEF WinInv, WinTypeOK, FilesKnown, Memories, Bound, Saved, Saves, Owner, NoOwner
<1>6. Covered'
  BY DEF WinInv, WinTypeOK, LockHeld, FilesKnown, Memories, Covered, Locked, Saves, Saved, NoOwner
<1> QED BY <1>1, <1>2, <1>3, <1>4, <1>5, <1>6 DEF WinInv

LEMMA EngineEndsStep == ASSUME WinInv, NEW a \in Attempt, EngineEnds(a) PROVE WinInv'
<1> USE WindowsAssumption DEF files, world, Works, Fails, Goto, EngineEnds, Freed
<1>1. WinTypeOK'
  BY DEF WinInv, WinTypeOK, Bound, Memories, WinPlaces, Locked, Saves, Saved, Owner, NoOwner
<1>2. LockHeld'
  BY DEF WinInv, WinTypeOK, LockHeld, Locked, Saves
<1>3. Memories'
  BY DEF WinInv, WinTypeOK, Memories, Bound, Locked, Saves
<1>4. FilesKnown'
  BY DEF WinInv, WinTypeOK, LockHeld, FilesKnown, Memories, Locked, Saves, Saved, NoOwner
<1>5. Bound'
  BY DEF WinInv, WinTypeOK, FilesKnown, Memories, Bound, Saved, Saves, Owner, NoOwner
<1>6. Covered'
  BY DEF WinInv, WinTypeOK, LockHeld, FilesKnown, Memories, Covered, Locked, Saves, Saved, NoOwner
<1> QED BY <1>1, <1>2, <1>3, <1>4, <1>5, <1>6 DEF WinInv

LEMMA ReuseStep == ASSUME WinInv, NEW p \in Pid, Reuse(p) PROVE WinInv'
<1> USE WindowsAssumption DEF files, world, Works, Fails, Goto, Reuse
<1>1. WinTypeOK'
  BY DEF WinInv, WinTypeOK, Bound, Memories, WinPlaces, Locked, Saves, Saved, Owner, NoOwner
<1>2. LockHeld'
  BY DEF WinInv, WinTypeOK, LockHeld, Locked, Saves
<1>3. Memories'
  BY DEF WinInv, WinTypeOK, Memories, Bound, Locked, Saves
<1>4. FilesKnown'
  BY DEF WinInv, WinTypeOK, LockHeld, FilesKnown, Memories, Locked, Saves, Saved, NoOwner
<1>5. Bound'
  BY DEF WinInv, WinTypeOK, FilesKnown, Memories, Bound, Saved, Saves, Owner, NoOwner
<1>6. Covered'
  BY DEF WinInv, WinTypeOK, LockHeld, FilesKnown, Memories, Covered, Locked, Saves, Saved, NoOwner
<1> QED BY <1>1, <1>2, <1>3, <1>4, <1>5, <1>6 DEF WinInv

LEMMA StrangerEndsStep == ASSUME WinInv, NEW p \in Pid, StrangerEnds(p) PROVE WinInv'
<1> USE WindowsAssumption DEF files, world, Works, Fails, Goto, StrangerEnds
<1>1. WinTypeOK'
  BY DEF WinInv, WinTypeOK, Bound, Memories, WinPlaces, Locked, Saves, Saved, Owner, NoOwner
<1>2. LockHeld'
  BY DEF WinInv, WinTypeOK, LockHeld, Locked, Saves
<1>3. Memories'
  BY DEF WinInv, WinTypeOK, Memories, Bound, Locked, Saves
<1>4. FilesKnown'
  BY DEF WinInv, WinTypeOK, LockHeld, FilesKnown, Memories, Locked, Saves, Saved, NoOwner
<1>5. Bound'
  BY DEF WinInv, WinTypeOK, FilesKnown, Memories, Bound, Saved, Saves, Owner, NoOwner
<1>6. Covered'
  BY DEF WinInv, WinTypeOK, LockHeld, FilesKnown, Memories, Covered, Locked, Saves, Saved, NoOwner
<1> QED BY <1>1, <1>2, <1>3, <1>4, <1>5, <1>6 DEF WinInv

LEMMA PowerFailureStep == ASSUME WinInv, PowerFailure PROVE WinInv'
<1> USE WindowsAssumption DEF files, world, Works, Fails, Goto, PowerFailure
<1>1. WinTypeOK'
  BY DEF WinInv, WinTypeOK, Bound, Memories, WinPlaces, Locked, Saves, Saved, Owner, NoOwner
<1>2. LockHeld'
  BY DEF WinInv, WinTypeOK, LockHeld, Locked, Saves
<1>3. Memories'
  BY DEF WinInv, WinTypeOK, Memories, Bound, Locked, Saves
<1>4. FilesKnown'
  BY DEF WinInv, WinTypeOK, LockHeld, FilesKnown, Memories, Locked, Saves, Saved, NoOwner
<1>5. Bound'
  BY DEF WinInv, WinTypeOK, FilesKnown, Memories, Bound, Saved, Saves, Owner, NoOwner
<1>6. Covered'
  BY DEF WinInv, WinTypeOK, LockHeld, FilesKnown, Memories, Covered, Locked, Saves, Saved, NoOwner
<1> QED BY <1>1, <1>2, <1>3, <1>4, <1>5, <1>6 DEF WinInv

LEMMA StutterStep == ASSUME WinInv, UNCHANGED winVars PROVE WinInv'
<1> USE DEF winVars
<1>1. WinTypeOK'
  BY DEF WinInv, WinTypeOK
<1>2. LockHeld' /\ Memories'
  BY DEF WinInv, LockHeld, Memories
<1>3. FilesKnown' /\ Bound'
  BY DEF WinInv, FilesKnown, Bound, Saved
<1>4. Covered'
  BY DEF WinInv, Covered
<1> QED BY <1>1, <1>2, <1>3, <1>4 DEF WinInv

LEMMA WinInvStep == ASSUME WinInv, [WinNext]_winVars PROVE WinInv'
<1>1. CASE \E a \in Attempt : Manager(a)
  BY <1>1, BeginStep, LockStep, LockFailsStep, AdmitStep, AdmitFailsStep, SaveWritesStep,
     SaveMovesStep, SaveChecksStep, SaveFailsStep, UndoStep, SpawnStep, SpawnFailsStep, CaptureStep,
     AbortStep, ReapStep, ReapFailsStep, FinishChecksStep, FinishFailsStep, RemoveStep, UnlinkStep
     DEF Manager
<1>2. CASE \E a \in Attempt : Operator(a) \/ Change(a) \/ EngineEnds(a) \/ Restore(a) \/ Crash(a)
  BY <1>2, AcknowledgeStep, AcknowledgeLocalStep, ChangeStep, EngineEndsStep, RestoreStep, CrashStep
     DEF Operator
<1>3. CASE \E p \in Pid : Reuse(p) \/ StrangerEnds(p)
  BY <1>3, ReuseStep, StrangerEndsStep
<1>4. CASE PowerFailure
  BY <1>4, PowerFailureStep
<1>5. CASE UNCHANGED winVars
  BY <1>5, StutterStep
<1> QED BY <1>1, <1>2, <1>3, <1>4, <1>5 DEF WinNext

\* The inductive invariant of the reservation holds in every state of Spec.
THEOREM WindowsInvariant == WinSpec => []WinInv
<1> QED BY WinInvInit, WinInvStep, PTL DEF WinSpec

\* Every variable keeps its type, and only a spawned engine's identity is ever bound.
THEOREM WindowsTypes == WinSpec => []WinTypeOK
<1>1. WinInv => WinTypeOK
  BY DEF WinInv
<1> QED BY <1>1, WindowsInvariant, PTL

\* No two saves share the temporary, through every crash and interrupted save.
THEOREM TemporaryOwned == WinSpec => []OwnTemporary
<1>1. WinInv => OwnTemporary
  BY DEF WinInv, FilesKnown, OwnTemporary
<1> QED BY <1>1, WindowsInvariant, PTL

----------------------------------------------------------------------------
(* The local record *)

\* The local record is there from before acquire until after finish.
Recorded ==
  \A a \in Attempt :
    /\ at[a] \notin {"idle", "done"} => record[a]
    /\ at[a] \in {"idle", "done", "unlink"} /\ active.attempt = a => active = removed

LEMMA RecordedStep == ASSUME WinInv, Recorded, [WinNext]_winVars PROVE Recorded'
<1> USE WindowsAssumption DEF files, world, Goto, Recorded
<1>1. ASSUME NEW a \in Attempt, Manager(a) PROVE Recorded'
  <2>1. CASE Begin(a) \/ Lock(a) \/ Admit(a) \/ LockFails(a) \/ AdmitFails(a) \/ SaveFails(a)
    BY <2>1 DEF WinInv, WinTypeOK, Begin, Lock, Admit, LockFails, AdmitFails, SaveFails, Saves
  <2>2. CASE SaveWrites(a) \/ SaveChecks(a) \/ Spawn(a) \/ SpawnFails(a) \/ Capture(a) \/ Abort(a)
    BY <2>2 DEF WinInv, WinTypeOK, SaveWrites, SaveChecks, Spawn, SpawnFails, Capture, Abort, Saves
  <2>3. CASE SaveMoves(a)
    BY <2>3 DEF WinInv, WinTypeOK, FilesKnown, SaveMoves, Saved
  <2>4. CASE Undo(a) \/ Unlink(a)
    BY <2>4 DEF WinInv, WinTypeOK, Undo, Unlink
  <2>5. CASE Reap(a) \/ ReapFails(a) \/ FinishChecks(a) \/ FinishFails(a)
    BY <2>5 DEF WinInv, WinTypeOK, Reap, ReapFails, FinishChecks, FinishFails
  <2>6. CASE Remove(a)
    BY <2>6 DEF WinInv, WinTypeOK, Remove, NoOwner
  <2> QED BY <1>1, <2>1, <2>2, <2>3, <2>4, <2>5, <2>6 DEF Manager
<1>2. ASSUME NEW a \in Attempt, Operator(a) \/ Change(a) \/ EngineEnds(a) \/ Restore(a) \/ Crash(a)
      PROVE Recorded'
  BY <1>2 DEF WinInv, WinTypeOK, Operator, Acknowledge, AcknowledgeLocal, Change, EngineEnds, Restore, Crash
<1>3. ASSUME NEW p \in Pid, Reuse(p) \/ StrangerEnds(p) PROVE Recorded'
  BY <1>3 DEF Reuse, StrangerEnds
<1>4. CASE PowerFailure
  BY <1>4 DEF WinInv, WinTypeOK, PowerFailure, NoOwner
<1>5. CASE UNCHANGED winVars
  BY <1>5 DEF winVars
<1> QED BY <1>1, <1>2, <1>3, <1>4, <1>5 DEF WinNext

\* A reservation can be acknowledged from a local record, or was brought back by a power failure.
THEOREM ReservationAnchored == WinSpec => []Anchored
<1>1. WinInit => Recorded
  BY WindowsAssumption DEF WinInit, Recorded, NoOwner
<1>2. WinInv /\ Recorded => Anchored
  BY DEF Recorded, Anchored
<1> QED BY <1>1, <1>2, WindowsInvariant, RecordedStep, PTL DEF WinSpec

----------------------------------------------------------------------------
(* The refinement *)

\* Attempts that run an engine or have left changes: MachineLease's busy.
Busy == {a \in Attempt : engine[a] = "running" \/ changes[a]}

\* The steps of MachineLease under the refinement mapping.
Claims(a) == active.attempt = Nobody /\ active'.attempt = a /\ Busy' = Busy
Toils == active.attempt # Nobody /\ Busy' = Busy \cup {active.attempt} /\ active'.attempt = active.attempt
Rests(a) == Busy' = Busy \ {a} /\ active'.attempt = active.attempt
Yields == active.attempt \notin Busy /\ active'.attempt = Nobody /\ Busy' = Busy
Stutters == active'.attempt = active.attempt /\ Busy' = Busy

LeaseMove == (\E a \in Attempt : Claims(a) \/ Rests(a)) \/ Toils \/ Yields \/ Stutters

LEMMA LeaseMoveMaps == LeaseMove => [Lease!Next]_(Lease!vars)
<1> USE DEF Busy
<1>1. \A a \in Attempt : (Claims(a) => Lease!Claim(a)) /\ (Rests(a) => Lease!Rest(a))
  BY DEF Claims, Rests, Lease!Claim, Lease!Rest
<1>2. (Toils => Lease!Work) /\ (Yields => Lease!Yield)
  BY DEF Toils, Yields, Lease!Work, Lease!Yield
<1>3. Stutters => UNCHANGED Lease!vars
  BY DEF Stutters, Lease!vars
<1> QED BY <1>1, <1>2, <1>3 DEF LeaseMove, Lease!Next

\* Every step of the reservation is one of them.
LEMMA LeaseStep == ASSUME WinInv, [WinNext]_winVars PROVE LeaseMove
<1> USE WindowsAssumption DEF files, world
<1>a. \A b \in Attempt : b \in Busy => active.attempt = b
  BY DEF WinInv, Covered, Busy
<1>b. active \in Owner /\ removed \in Owner
  BY DEF WinInv, WinTypeOK
<1>1. ASSUME NEW a \in Attempt, Manager(a) PROVE LeaseMove
  <2>1. CASE Begin(a) \/ Lock(a) \/ Admit(a) \/ LockFails(a) \/ AdmitFails(a) \/ SaveFails(a)
    <3>1. Stutters
      BY <2>1 DEF Begin, Lock, Admit, LockFails, AdmitFails, SaveFails, Stutters, Busy
    <3> QED BY <3>1 DEF LeaseMove
  <2>2. CASE SaveWrites(a) \/ SaveChecks(a) \/ SpawnFails(a) \/ Capture(a) \/ Undo(a) \/ Unlink(a)
    <3>1. Stutters
      BY <2>2 DEF SaveWrites, SaveChecks, SpawnFails, Capture, Undo, Unlink, Stutters, Busy
    <3> QED BY <3>1 DEF LeaseMove
  <2>3. CASE Reap(a) \/ ReapFails(a) \/ FinishChecks(a) \/ FinishFails(a)
    <3>1. Stutters
      BY <2>3 DEF Reap, ReapFails, FinishChecks, FinishFails, Stutters, Busy
    <3> QED BY <3>1 DEF LeaseMove
  <2>4. CASE SaveMoves(a)
    <3>1. Busy' = Busy
      BY <2>4 DEF SaveMoves, Busy
    <3>2. active'.attempt = a
      BY <2>4 DEF WinInv, FilesKnown, SaveMoves, Saved
    <3>3. active.attempt = Nobody \/ active.attempt = a
      BY <2>4 DEF WinInv, FilesKnown, SaveMoves, NoOwner
    <3> QED BY <3>1, <3>2, <3>3 DEF LeaseMove, Claims, Stutters
  <2>5. CASE Spawn(a)
    <3>1. active.attempt = a /\ active' = active
      BY <2>5 DEF WinInv, FilesKnown, Spawn
    <3>2. Busy' = Busy \cup {a}
      BY <2>5 DEF WinInv, WinTypeOK, Spawn, Busy
    <3> QED BY <3>1, <3>2 DEF LeaseMove, Toils
  <2>6. CASE Abort(a)
    <3>1. active' = active
      BY <2>6 DEF Abort
    <3>2. Busy' = Busy \/ Busy' = Busy \ {a}
      BY <2>6 DEF WinInv, WinTypeOK, Abort, Busy
    <3> QED BY <3>1, <3>2 DEF LeaseMove, Stutters, Rests
  <2>7. CASE Remove(a)
    <3>1. active.attempt = a /\ active'.attempt = Nobody
      BY <2>7 DEF Remove, Remembered, NoOwner
    <3>2. a \notin Busy /\ Busy' = Busy
      BY <2>7 DEF WinInv, Covered, Remove, Busy
    <3> QED BY <3>1, <3>2 DEF LeaseMove, Yields
  <2> QED BY <1>1, <2>1, <2>2, <2>3, <2>4, <2>5, <2>6, <2>7 DEF Manager
<1>2. ASSUME NEW a \in Attempt, Operator(a) \/ Change(a) \/ Crash(a) PROVE LeaseMove
  <2>1. active' = active
    BY <1>2 DEF Operator, Acknowledge, AcknowledgeLocal, Change, Crash
  <2>2. Busy' = Busy
    BY <1>2 DEF WinInv, WinTypeOK, Operator, Acknowledge, AcknowledgeLocal, Change, Crash, Busy
  <2> QED BY <2>1, <2>2 DEF LeaseMove, Stutters
<1>3. ASSUME NEW a \in Attempt, EngineEnds(a) \/ Restore(a) PROVE LeaseMove
  <2>1. active' = active
    BY <1>3 DEF EngineEnds, Restore
  <2>2. Busy' = Busy \/ Busy' = Busy \ {a}
    BY <1>3 DEF WinInv, WinTypeOK, EngineEnds, Restore, Busy
  <2> QED BY <2>1, <2>2 DEF LeaseMove, Stutters, Rests
<1>4. ASSUME NEW p \in Pid, Reuse(p) \/ StrangerEnds(p) PROVE LeaseMove
  BY <1>4 DEF Reuse, StrangerEnds, LeaseMove, Stutters, Busy
<1>5. CASE PowerFailure
  <2>1. Busy' = {}
    BY <1>5 DEF WinInv, WinTypeOK, PowerFailure, Busy
  <2>2. CASE active = NoOwner
    <3>1. Busy = {}
      BY <1>a, <2>2 DEF NoOwner, Busy
    <3>2. active'.attempt = Nobody \/ active'.attempt \in Attempt
      BY <1>5, <1>b, <2>2 DEF PowerFailure, Owner, NoOwner
    <3> QED BY <2>1, <2>2, <3>1, <3>2 DEF LeaseMove, Claims, Stutters, NoOwner
  <2>3. CASE active # NoOwner
    <3>1. active.attempt \in Attempt /\ active' = active
      BY <1>5, <1>b, <2>3 DEF PowerFailure, Owner
    <3>2. Busy \ {active.attempt} = {}
      BY <1>a DEF Busy
    <3> QED BY <2>1, <3>1, <3>2 DEF LeaseMove, Rests
  <2> QED BY <2>2, <2>3
<1>6. CASE UNCHANGED winVars
  BY <1>6 DEF winVars, LeaseMove, Stutters, Busy
<1> QED BY <1>1, <1>2, <1>3, <1>4, <1>5, <1>6 DEF WinNext

\* The Windows reservation implements MachineLease: what the authority promises the machine
\* holds without a launch gate, whatever crashes, fails or comes back.
THEOREM LeaseImplemented == WinSpec => LeaseKept
<1>1. WinInit => Lease!Init
  BY WindowsAssumption DEF WinInit, Lease!Init, NoOwner
<1>2. WinInv /\ [WinNext]_winVars => [Lease!Next]_(Lease!vars)
  BY LeaseStep, LeaseMoveMaps
<1> QED BY <1>1, <1>2, WindowsInvariant, PTL DEF WinSpec, LeaseKept, Lease!Spec

\* The files of the reservation stay in order, for any managers, process ids and failures.
THEOREM ReservationSafe == WinSpec => []ReservationSound
<1>1. WinTypeOK /\ Anchored /\ OwnTemporary => ReservationSound
  BY DEF ReservationSound
<1> QED BY <1>1, WindowsTypes, ReservationAnchored, TemporaryOwned, PTL

-----------------------------------------------------------------------------
\* SamlBroker

\* The worker before and after its verdict.
Serving == {"accept", "read", "reply", "check"}
Closing == {"close", "send", "exit", "gone"}
Closed == {"send", "exit", "gone"}

\* One connection is open at the worker, and a session is of the last one it served.
ServedOne ==
  /\ task \in {"read", "reply"} => cur \in Clients /\ conn[cur].st = "served"
  /\ \A c \in Clients : conn[c].st = "served" => c = cur /\ task \in {"read", "reply"}
  /\ \A c \in Clients : conn[c].st = "ok" => c = cur /\ session = TRUE
  /\ session = TRUE => /\ cur \in Clients /\ conn[cur].req = "callback" /\ consumed = TRUE
                       /\ task \in {"reply", "check"} \cup Closing
                       /\ task # "reply" => conn[cur].st \in {"ok", "reset"}

\* The verdict is given once, the channel carries it, and the caller returns it.
OutcomeGiven ==
  /\ task \in Serving => verdict = "none" /\ tries < TRIES
  /\ task \in Closing => verdict # "none"
  /\ verdict = "ok" => session = TRUE
  /\ result = IF task \in {"exit", "gone"} THEN verdict ELSE "none"
  /\ caller \in {"ok", "err"} => task = "gone" /\ result = caller

\* The listener is closed before the outcome is sent.
ListenerClosed ==
  task \in Closed => /\ listening = FALSE /\ consumed = TRUE
                     /\ \A c \in Clients : conn[c].st # "waiting"

SamlInv == SamlTypeOK /\ ServedOne /\ OutcomeGiven /\ ListenerClosed

\* The invariant holds when the listener is bound.
LEMMA SamlStarts ==
  ASSUME SamlInit
  PROVE  SamlInv
<1>1. SamlTypeOK
  <2>1. conn \in [Clients -> [req : Requests, st : {"new", "waiting", "served", "ok", "bad", "reset"}]]
    BY DEF SamlInit, Requests
  <2>2. {session, consumed, listening, cancel, dropped, taken, late, expired} \subseteq BOOLEAN
    BY DEF SamlInit
  <2>3. tries \in 0..TRIES /\ cur \in Clients \cup {None} /\ {verdict, result} \subseteq {"none", "ok", "err"}
    BY SamlAssumption DEF SamlInit
  <2>4. /\ task \in {"accept", "read", "reply", "check", "close", "send", "exit", "gone"}
        /\ caller \in {"idle", "waiting", "refused", "ok", "err"}
    BY DEF SamlInit
  <2> QED BY <2>1, <2>2, <2>3, <2>4 DEF SamlTypeOK
<1>2. ServedOne /\ OutcomeGiven /\ ListenerClosed
  BY SamlAssumption DEF SamlInit, ServedOne, OutcomeGiven, ListenerClosed, Serving, Closing, Closed
<1> QED BY <1>1, <1>2 DEF SamlInv

\* Every step of the worker keeps it.
LEMMA SamlMoves ==
  ASSUME SamlInv, Task
  PROVE  SamlInv'
<1> USE SamlAssumption DEF SamlInv, SamlTypeOK, ServedOne, OutcomeGiven, ListenerClosed, Requests, Serving, Closing, Closed, user, clocks, net
<1>1. ASSUME NEW c \in Clients, Accept(c) PROVE SamlInv'
  BY <1>1 DEF Accept
<1>2. CASE GiveUp(FALSE)
  BY <1>2 DEF GiveUp, Returns
<1>3. CASE ReadRequest
  BY <1>3 DEF ReadRequest, Acceptable
<1>4. ASSUME NEW written \in BOOLEAN, Reply(written) PROVE SamlInv'
  BY <1>4 DEF Reply
<1>5. CASE Check
  BY <1>5 DEF Check, Returns, Refused, Exhausted
<1>6. CASE CloseListener
  BY <1>6 DEF CloseListener
<1>7. CASE SendOutcome
  BY <1>7 DEF SendOutcome
<1>8. CASE Exit
  BY <1>8 DEF Exit
<1> QED BY <1>1, <1>2, <1>3, <1>4, <1>5, <1>6, <1>7, <1>8 DEF Task

\* And every step of browsers, callers and clocks.
LEMMA SamlSteps ==
  ASSUME SamlInv, [SamlNext]_samlVars
  PROVE  SamlInv'
<1> USE SamlAssumption DEF SamlInv, SamlTypeOK, ServedOne, OutcomeGiven, ListenerClosed, Requests, Serving, Closing, Closed, user, clocks, net, work
<1>1. CASE GiveUp(TRUE)
  BY <1>1 DEF GiveUp, Returns
<1>2. ASSUME NEW c \in Clients, NEW req \in Requests, Connect(c, req) PROVE SamlInv'
  BY <1>2 DEF Connect
<1>3. CASE Cancel \/ Session \/ SessionReturns \/ SessionDropped \/ Drop
  BY <1>3 DEF Cancel, Session, SessionReturns, SessionDropped, Drop, Converged
<1>4. CASE Deadline \/ WallClock
  BY <1>4 DEF Deadline, WallClock
<1>5. CASE UNCHANGED samlVars
  BY <1>5 DEF samlVars
<1> QED BY <1>1, <1>2, <1>3, <1>4, <1>5, SamlMoves DEF SamlNext

\* A cancellation that came before the verdict.
Withdrawn == cancel = TRUE /\ verdict # "ok" /\ caller # "ok"

\* A cancellation in time is never overtaken: Check looks at it after the reply.
LEMMA WithdrawnStays ==
  ASSUME SamlInv, Withdrawn, [SamlNext]_samlVars
  PROVE  Withdrawn'
<1> USE DEF Withdrawn, net, work, user, clocks
<1>1. CASE Check
  BY <1>1 DEF Check, Returns, Refused
<1>2. CASE SessionReturns
  BY <1>2 DEF SessionReturns, SamlInv, OutcomeGiven
<1>3. CASE \/ \E c \in Clients : Accept(c)
           \/ GiveUp(FALSE) \/ GiveUp(TRUE) \/ ReadRequest \/ \E written \in BOOLEAN : Reply(written)
           \/ CloseListener \/ SendOutcome \/ Exit
  BY <1>3 DEF Accept, GiveUp, Returns, ReadRequest, Reply, CloseListener, SendOutcome, Exit
<1>4. CASE \/ \E c \in Clients, req \in Requests : Connect(c, req)
           \/ Cancel \/ Session \/ SessionDropped \/ Drop \/ Deadline \/ WallClock
  BY <1>4 DEF Connect, Cancel, Session, SessionDropped, Drop, Deadline, WallClock
<1>5. CASE UNCHANGED samlVars
  BY <1>5 DEF samlVars
<1> QED BY <1>1, <1>2, <1>3, <1>4, <1>5 DEF SamlNext, Task

\* At most one browser is told, by its callback.
LEMMA OneTold ==
  ASSUME SamlInv
  PROVE  OneSession
<1> DEFINE told == {c \in Clients : conn[c].st = "ok"}
<1> DEFINE used == {c \in Clients : conn[c].req = "callback" /\ conn[c].st \in {"ok", "reset"}}
<1>1. told \subseteq {cur} /\ \A c \in told : conn[c].req = "callback"
  BY DEF SamlInv, ServedOne
<1>2. Cardinality(told) <= 1
  <2>1. IsFiniteSet({cur}) /\ Cardinality({cur}) = 1
    BY FS_Singleton
  <2> QED BY <1>1, <2>1, FS_Subset
<1>3. caller = "ok" => used # {} /\ listening = FALSE
  <2> SUFFICES ASSUME caller = "ok" PROVE used # {} /\ listening = FALSE
    OBVIOUS
  <2>1. task = "gone" /\ verdict = "ok" /\ session = TRUE
    BY DEF SamlInv, OutcomeGiven
  <2>2. cur \in used
    BY <2>1 DEF SamlInv, ServedOne
  <2> QED BY <2>1, <2>2 DEF SamlInv, ListenerClosed, Closed
<1> QED BY <1>1, <1>2, <1>3 DEF OneSession

\* The outcome is sent after the listener is closed, and the task has ended.
LEMMA AllLeft ==
  ASSUME SamlInv
  PROVE  NothingLeft
BY DEF SamlInv, NothingLeft, OutcomeGiven, ListenerClosed, ServedOne, Closed

\* SessionSound for any browsers and any number of tries: one browser at most is told that
\* its authentication was received, session() leaves nothing behind, and a cancellation before
\* the verdict wins over a callback served after it (saml_broker.rs run and session,
\* CallbackBinding::accept).
THEOREM SessionKept == SamlSpec => SessionSound
<1>1. SamlInit => SamlInv
  BY SamlStarts
<1>2. SamlInv /\ [SamlNext]_samlVars => SamlInv'
  BY SamlSteps
<1>3. SamlInv => SamlTypeOK /\ OneSession /\ NothingLeft
  BY OneTold, AllLeft DEF SamlInv
<1>4. SamlInv /\ cancel /\ verdict = "none" => Withdrawn
  BY DEF SamlInv, SamlTypeOK, OutcomeGiven, Withdrawn
<1>5. SamlInv /\ Withdrawn /\ [SamlNext]_samlVars => Withdrawn'
  BY WithdrawnStays
<1>6. Withdrawn => caller # "ok"
  BY DEF Withdrawn
<1> QED BY <1>1, <1>2, <1>3, <1>4, <1>5, <1>6, PTL DEF SamlSpec, SessionSound, CancelWins
=============================================================================

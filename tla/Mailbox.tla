------------------------------ MODULE Mailbox ------------------------------
(***************************************************************************)
(* ProfileActors: one bounded mailbox and one worker task per profile.     *)
(* Callers look the mailbox up under a lock, but send outside it, while    *)
(* the worker of an idle mailbox times out, drops its receiver and with it *)
(* whatever was sent in between.  A caller may give up at any await.       *)
(***************************************************************************)
EXTENDS Naturals, Sequences, FiniteSets

CONSTANTS
  Profile,   \* profiles
  Command,   \* calls of dispatch
  Channel,   \* bound: channels made
  ProfileOf, \* the profile of each command
  Capacity,  \* mailboxes at a time
  Room,      \* commands a channel holds (16)
  NoChannel, NoCommand

ASSUME MailboxAssumption ==
  /\ ProfileOf \in [Command -> Profile]
  /\ Capacity \in Nat /\ Room \in Nat \ {0}
  /\ NoChannel \notin Channel /\ NoCommand \notin Command

VARIABLES
  box,      \* mailboxes: the sender kept for each profile
  made,     \* channels made so far
  owner,    \* the profile a channel was made for
  state,    \* the worker: "open", "elapsed" (its timeout has fired) or "closed"
  queue,    \* commands in a channel
  running,  \* the command a worker runs
  pc,       \* where each call of dispatch is, or its result
  target,   \* the sender each call has cloned
  ran       \* how often each command was run

vars == <<box, made, owner, state, queue, running, pc, target, ran>>

Results == {"done", "failed", "busy", "expired", "stopped"}
Places == {"new", "send", "wait", "gone"} \cup Results

MailboxTypeOK ==
  /\ box \in [Profile -> Channel \cup {NoChannel}]
  /\ made \subseteq Channel
  /\ owner \in [Channel -> Profile]
  /\ state \in [Channel -> {"open", "elapsed", "closed"}]
  /\ queue \in [Channel -> Seq(Command)] /\ \A k \in Channel : Len(queue[k]) <= Room
  /\ running \in [Channel -> Command \cup {NoCommand}]
  /\ pc \in [Command -> Places]
  /\ target \in [Command -> Channel \cup {NoChannel}]
  /\ ran \in [Command -> Nat]

Init ==
  /\ box = [p \in Profile |-> NoChannel] /\ made = {}
  /\ owner \in [Channel -> Profile] /\ \A k \in Channel, j \in Channel : owner[k] = owner[j]
  /\ state = [k \in Channel |-> "closed"] /\ queue = [k \in Channel |-> <<>>]
  /\ running = [k \in Channel |-> NoCommand]
  /\ pc = [c \in Command |-> "new"] /\ target = [c \in Command |-> NoChannel]
  /\ ran = [c \in Command |-> 0]

----------------------------------------------------------------------------
(* dispatch *)

\* The senders that retain leaves: a channel whose timeout has fired is not closed yet.
Live == {p \in Profile : box[p] # NoChannel /\ state[box[p]] # "closed"}

Retained == [p \in Profile |-> IF p \in Live THEN box[p] ELSE NoChannel]

\* The section under the lock finds the sender ...
Find(c) ==
  /\ pc[c] = "new" /\ ProfileOf[c] \in Live
  /\ box' = Retained
  /\ target' = [target EXCEPT ![c] = box[ProfileOf[c]]]
  /\ pc' = [pc EXCEPT ![c] = "send"]
  /\ UNCHANGED <<made, owner, state, queue, running, ran>>

\* ... refuses at the limit ...
Refuse(c) ==
  /\ pc[c] = "new" /\ ProfileOf[c] \notin Live /\ Cardinality(Live) >= Capacity
  /\ box' = Retained
  /\ pc' = [pc EXCEPT ![c] = "busy"]
  /\ UNCHANGED <<made, owner, state, queue, running, target, ran>>

\* ... or makes a channel and spawns its worker.
Create(c) ==
  /\ pc[c] = "new" /\ ProfileOf[c] \notin Live /\ Cardinality(Live) < Capacity
  /\ \E k \in Channel \ made :
       /\ made' = made \cup {k}
       /\ box' = [Retained EXCEPT ![ProfileOf[c]] = k]
       /\ owner' = [owner EXCEPT ![k] = ProfileOf[c]]
       /\ state' = [state EXCEPT ![k] = "open"]
       /\ target' = [target EXCEPT ![c] = k]
  /\ pc' = [pc EXCEPT ![c] = "send"]
  /\ UNCHANGED <<queue, running, ran>>

\* sender.send waits for room and fails on a closed channel.
Send(c) ==
  /\ pc[c] = "send" /\ state[target[c]] # "closed" /\ Len(queue[target[c]]) < Room
  /\ queue' = [queue EXCEPT ![target[c]] = Append(@, c)]
  /\ pc' = [pc EXCEPT ![c] = "wait"]
  /\ UNCHANGED <<box, made, owner, state, running, target, ran>>

SendFails(c) ==
  /\ pc[c] = "send" /\ state[target[c]] = "closed"
  /\ pc' = [pc EXCEPT ![c] = "expired"]
  /\ UNCHANGED <<box, made, owner, state, queue, running, target, ran>>

\* The caller drops its future.
Abandon(c) ==
  /\ pc[c] \in {"new", "send", "wait"}
  /\ pc' = [pc EXCEPT ![c] = "gone"]
  /\ UNCHANGED <<box, made, owner, state, queue, running, target, ran>>

----------------------------------------------------------------------------
(* The worker *)

Receive(k) ==
  /\ state[k] = "open" /\ running[k] = NoCommand /\ queue[k] # <<>>
  /\ running' = [running EXCEPT ![k] = Head(queue[k])]
  /\ ran' = [ran EXCEPT ![Head(queue[k])] = @ + 1]
  /\ queue' = [queue EXCEPT ![k] = Tail(@)]
  /\ UNCHANGED <<box, made, owner, state, pc, target>>

\* The command's task ends, or panics; the answer goes to whoever still waits.
Finish(k) ==
  /\ running[k] # NoCommand
  /\ running' = [running EXCEPT ![k] = NoCommand]
  /\ \E result \in {"done", "failed"} :
       pc' = [c \in Command |-> IF c = running[k] /\ pc[c] = "wait" THEN result ELSE pc[c]]
  /\ UNCHANGED <<box, made, owner, state, queue, target, ran>>

\* Mutant: the timeout runs while a command does.
ElapseRunning(k) ==
  /\ state[k] = "open" /\ queue[k] = <<>>
  /\ state' = [state EXCEPT ![k] = "elapsed"]
  /\ UNCHANGED <<box, made, owner, queue, running, pc, target, ran>>

\* The idle timeout fires: there was nothing to receive ...
Elapse(k) ==
  /\ state[k] = "open" /\ running[k] = NoCommand /\ queue[k] = <<>>
  /\ state' = [state EXCEPT ![k] = "elapsed"]
  /\ UNCHANGED <<box, made, owner, queue, running, pc, target, ran>>

\* Mutant: what was sent in the meantime is dropped without an answer.
CloseSilently(k) ==
  /\ state[k] = "elapsed"
  /\ state' = [state EXCEPT ![k] = "closed"]
  /\ queue' = [queue EXCEPT ![k] = <<>>]
  /\ UNCHANGED <<box, made, owner, running, pc, target, ran>>

Queued(k) == {queue[k][i] : i \in 1..Len(queue[k])}

\* ... then the receiver is dropped, with the answers of what was sent in between.
Close(k) ==
  /\ state[k] = "elapsed"
  /\ state' = [state EXCEPT ![k] = "closed"]
  /\ queue' = [queue EXCEPT ![k] = <<>>]
  /\ pc' = [c \in Command |-> IF c \in Queued(k) /\ pc[c] = "wait" THEN "stopped" ELSE pc[c]]
  /\ UNCHANGED <<box, made, owner, running, target, ran>>

Call(c) == Find(c) \/ Refuse(c) \/ Create(c) \/ Send(c) \/ SendFails(c)
Worker(k) == Receive(k) \/ Finish(k) \/ Close(k)

Next ==
  \/ \E c \in Command : Call(c) \/ Abandon(c)
  \/ \E k \in Channel : Worker(k) \/ Elapse(k)

Spec == Init /\ [][Next]_vars

\* Tasks that can run are run, and commands end; the timeout need not fire.
Fairness ==
  /\ \A c \in Command : WF_vars(Call(c))
  /\ \A k \in Channel : WF_vars(Worker(k))

FairSpec == Spec /\ Fairness

----------------------------------------------------------------------------
(* Properties *)

\* No two commands of a profile run at the same time, not even while its mailbox expires and
\* another is made for it (dispatch: "Workers execute one admitted command at a time").
Serial ==
  \A j, k \in Channel :
    running[j] # NoCommand /\ running[k] # NoCommand /\ owner[j] = owner[k] => j = k

\* A command runs in the mailbox of its own profile, and at most once.
Once == \A c \in Command : ran[c] <= 1 /\ \A k \in Channel : running[k] = c => owner[k] = ProfileOf[c]

\* An answer that asks for a retry, or says that the dispatcher stopped, means the command was
\* not run and never will be; an outcome means that it was.
AnswerTrue ==
  \A c \in Command :
    /\ pc[c] \in {"busy", "expired", "stopped"} =>
         ran[c] = 0 /\ \A k \in Channel : running[k] # c /\ c \notin Queued(k)
    /\ pc[c] \in {"done", "failed"} => ran[c] = 1

\* Never more workers than the capacity (resource bound of ProfileActors::new).
Bounded == Cardinality({k \in Channel : state[k] # "closed"}) <= Capacity

\* Every call that is not abandoned is answered.
Answered == \A c \in Command : (pc[c] = "new") ~> (pc[c] \in Results \cup {"gone"})

\* dispatch: commands of a profile run one at a time and at most once, the answer
\* is the truth about it, and there are never more workers than the capacity.
DispatchSound == MailboxTypeOK /\ Serial /\ Once /\ AnswerTrue /\ Bounded
=============================================================================

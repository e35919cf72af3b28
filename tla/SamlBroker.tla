----------------------------- MODULE SamlBroker -----------------------------
(***************************************************************************)
(* The loopback listener of one SAML attempt (saml_broker.rs) and its      *)
(* one-shot binding (saml.rs).  A worker task serves browsers one after    *)
(* another until one presents the attempt's callback, the caller cancels,  *)
(* the deadline passes or TRIES connections were wasted; the caller waits  *)
(* for the outcome and then for the task.                                  *)
(*                                                                         *)
(* tokio::select! takes any branch that is ready, so a connection may be   *)
(* served although the cancellation is already there.  Two clocks bound    *)
(* the attempt: the monotonic deadline of the task (late) and the          *)
(* binding's wall-clock expiry (expired).                                  *)
(***************************************************************************)
EXTENDS Naturals, FiniteSets

CONSTANTS Clients,   \* connections to the listener
          TRIES,     \* how many the worker serves (32)
          None       \* no client

ASSUME SamlAssumption == TRIES \in Nat \ {0} /\ IsFiniteSet(Clients) /\ None \notin Clients

VARIABLES conn,      \* per client: its request and what became of it
          task,        \* where the worker stands
          cur,       \* the client it serves
          session,   \* binding.accept succeeded for cur
          tries,     \* connections served
          consumed,  \* the binding has been used or cancelled
          listening, \* the listener exists
          cancel,    \* the watch channel's value
          dropped,   \* the BrowserCallback is gone
          late, expired,
          verdict,   \* the async block's value
          result,    \* what the oneshot channel carries
          taken,     \* session() has taken the receiver
          caller     \* what the last session() did

net == <<conn, listening>>
work == <<task, cur, session, tries, consumed, verdict>>
user == <<cancel, dropped, taken, caller>>
clocks == <<late, expired>>
samlVars == <<net, work, user, clocks, result>>

Requests == {"callback", "foreign", "stalled"}

SamlInit ==
  /\ conn = [c \in Clients |-> [req |-> "foreign", st |-> "new"]]
  /\ task = "accept" /\ cur = None /\ session = FALSE /\ tries = 0
  /\ consumed = FALSE /\ verdict = "none" /\ listening = TRUE
  /\ cancel = FALSE /\ dropped = FALSE /\ taken = FALSE /\ caller = "idle"
  /\ late = FALSE /\ expired = FALSE /\ result = "none"
-----------------------------------------------------------------------------
(* The browsers, external: any process of the machine may connect. *)

Connect(c, req) ==
  /\ listening /\ conn[c].st = "new"
  /\ conn' = [conn EXCEPT ![c] = [req |-> req, st |-> "waiting"]]
  /\ UNCHANGED <<listening, work, user, clocks, result>>
-----------------------------------------------------------------------------
(* The worker. *)

\* The async block returns.
Returns(v) == task' = "close" /\ verdict' = v

\* A branch of the select other than the connection's is ready.
Stopping == cancel \/ dropped \/ late

Accept(c) ==
  /\ task = "accept" /\ conn[c].st = "waiting"
  /\ task' = "read" /\ cur' = c
  /\ conn' = [conn EXCEPT ![c].st = "served"]
  /\ UNCHANGED <<session, tries, consumed, verdict, listening, user, clocks, result>>

\* accept() failed, or another branch of the select was ready.
GiveUp(failed) ==
  /\ \/ failed /\ task = "accept"
     \/ Stopping /\ task \in {"accept", "read"}
  /\ Returns("err")
  /\ conn' = [c \in Clients |-> IF c = cur /\ task = "read" THEN [conn[c] EXCEPT !.st = "reset"]
                                 ELSE conn[c]]
  /\ UNCHANGED <<listening, cur, session, tries, consumed, user, clocks, result>>

\* CallbackBinding::accept; attempt and generation are the worker's own.
Acceptable(req) == ~consumed /\ ~expired /\ req = "callback"

\* A stalled request times out after two seconds and counts as none.
ReadRequest ==
  /\ task = "read"
  /\ task' = "reply"
  /\ session' = Acceptable(conn[cur].req)
  /\ consumed' = (consumed \/ session')
  /\ UNCHANGED <<net, cur, tries, verdict, user, clocks, result>>

\* The answer is written, or the browser does not take it within two seconds.
Reply(written) ==
  /\ task = "reply"
  /\ task' = "check"
  /\ conn' = [conn EXCEPT ![cur].st = CASE ~written -> "reset"
                                        [] written /\ session -> "ok"
                                        [] OTHER -> "bad"]
  /\ UNCHANGED <<listening, cur, session, tries, consumed, verdict, user, clocks, result>>

\* Mutant: only the deadline is looked at.
RefusedLate == late

\* Read after the reply, not in a select: cancelled or past the deadline.
Refused == cancel \/ late

Exhausted(n) == n = TRIES

\* What follows the reply: the verdict, or the next connection.
Check ==
  /\ task = "check"
  /\ tries' = tries + 1
  /\ CASE Refused -> Returns("err")
       [] ~Refused /\ session -> Returns("ok")
       [] ~Refused /\ ~session /\ Exhausted(tries') -> Returns("err")
       [] OTHER -> task' = "accept" /\ UNCHANGED verdict
  /\ UNCHANGED <<net, cur, session, consumed, user, clocks, result>>

\* binding.cancel() and drop(listener): connections not accepted are reset.
CloseListener ==
  /\ task = "close" /\ task' = "send"
  /\ consumed' = TRUE /\ listening' = FALSE
  /\ conn' = [c \in Clients |-> IF conn[c].st = "waiting" THEN [conn[c] EXCEPT !.st = "reset"]
                                 ELSE conn[c]]
  /\ UNCHANGED <<cur, session, tries, verdict, user, clocks, result>>

\* result.send(outcome); the task is not over yet.
SendOutcome ==
  /\ task = "send" /\ task' = "exit"
  /\ result' = verdict
  /\ UNCHANGED <<net, cur, session, tries, consumed, verdict, user, clocks>>

Exit ==
  /\ task = "exit" /\ task' = "gone"
  /\ UNCHANGED <<net, cur, session, tries, consumed, verdict, user, clocks, result>>
-----------------------------------------------------------------------------
(* The caller.  session() borrows the broker exclusively: cancel() cannot   *)
(* run beside it, but its future may be dropped at either of its awaits.    *)

Cancel ==
  /\ ~dropped /\ caller # "waiting" /\ ~cancel
  /\ cancel' = TRUE
  /\ UNCHANGED <<net, work, dropped, taken, caller, clocks, result>>

Session ==
  /\ ~dropped /\ caller # "waiting"
  /\ taken' = TRUE
  /\ caller' = IF taken THEN "refused" ELSE "waiting"
  /\ UNCHANGED <<net, work, cancel, dropped, clocks, result>>

\* Both awaits are over: the outcome has arrived and the task has ended.
Converged == result # "none" /\ task = "gone"

SessionReturns ==
  /\ caller = "waiting" /\ Converged
  /\ caller' = result
  /\ UNCHANGED <<net, work, cancel, dropped, taken, clocks, result>>

SessionDropped ==
  /\ caller = "waiting"
  /\ caller' = "idle"
  /\ UNCHANGED <<net, work, cancel, dropped, taken, clocks, result>>

Drop ==
  /\ ~dropped /\ caller # "waiting"
  /\ dropped' = TRUE
  /\ UNCHANGED <<net, work, cancel, taken, caller, clocks, result>>
-----------------------------------------------------------------------------
Deadline == ~late /\ late' = TRUE /\ UNCHANGED <<net, work, user, expired, result>>
WallClock == ~expired /\ expired' = TRUE /\ UNCHANGED <<net, work, user, late, result>>

Task ==
  \/ \E c \in Clients : Accept(c)
  \/ GiveUp(FALSE) \/ ReadRequest \/ \E written \in BOOLEAN : Reply(written)
  \/ Check \/ CloseListener \/ SendOutcome \/ Exit

SamlNext ==
  \/ Task \/ GiveUp(TRUE)
  \/ \E c \in Clients, req \in Requests : Connect(c, req)
  \/ Cancel \/ Session \/ SessionReturns \/ SessionDropped \/ Drop
  \/ Deadline \/ WallClock

SamlSpec == SamlInit /\ [][SamlNext]_samlVars

\* The runtime runs the task and wakes the caller; time passes.
SamlFairness ==
  WF_samlVars(Task) /\ WF_samlVars(SessionReturns) /\ WF_samlVars(Deadline)

SamlFairSpec == SamlSpec /\ SamlFairness
-----------------------------------------------------------------------------
SamlTypeOK ==
  /\ conn \in [Clients -> [req : Requests,
                           st : {"new", "waiting", "served", "ok", "bad", "reset"}]]
  /\ task \in {"accept", "read", "reply", "check", "close", "send", "exit", "gone"}
  /\ cur \in Clients \cup {None} /\ tries \in 0..TRIES
  /\ {session, consumed, listening, cancel, dropped, taken, late, expired} \subseteq BOOLEAN
  /\ {verdict, result} \subseteq {"none", "ok", "err"}
  /\ caller \in {"idle", "waiting", "refused", "ok", "err"}

\* At most one browser is told that its authentication was received, it sent
\* the attempt's callback, and a session reaches the caller only with it
\* (saml.rs:76-98, saml_broker.rs:174-178).
OneSession ==
  LET told == {c \in Clients : conn[c].st = "ok"}
      used == {c \in Clients : conn[c].req = "callback" /\ conn[c].st \in {"ok", "reset"}}
  IN  /\ Cardinality(told) <= 1
      /\ \A c \in told : conn[c].req = "callback"
      /\ caller = "ok" => used # {} /\ ~listening

\* When session() has waited to its end nothing of the attempt is left: the
\* listener is closed, no connection is open and the task is gone
\* (saml_broker.rs:51-57).
NothingLeft ==
  caller \in {"ok", "err"} =>
    /\ ~listening /\ consumed /\ task = "gone"
    /\ \A c \in Clients : conn[c].st \notin {"waiting", "served"}

\* A cancellation that comes before the verdict is the verdict, also when
\* the select served a browser after it and that browser's callback was
\* accepted (saml_broker.rs:177).
CancelWins == [](cancel /\ verdict = "none" => [](caller # "ok"))

\* session() returns, whatever the browsers do: the deadline ends the wait
\* for one that never comes, and the timeouts that of one that stalls.
SessionEnds == caller = "waiting" ~> caller # "waiting"

\* One browser, one session, nothing left over, and a cancellation in time wins.
SessionSound == [](SamlTypeOK /\ OneSession /\ NothingLeft) /\ CancelWins
=============================================================================

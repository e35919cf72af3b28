----------------------------- MODULE MCServices -----------------------------
(* Three small services of a manager, which share no state: the mailboxes of   *)
(* the profiles (Mailbox), the machine's reservation on Windows                *)
(* (WindowsAuthority) and the SAML listener (SamlBroker).  In a behaviour one  *)
(* of them moves, and fairness is asked of that one.                           *)
EXTENDS Mailbox, WindowsAuthority, SamlBroker, TLC

CONSTANTS p1, p2, c1, c2, d1

VARIABLE part

\* Two commands of one profile and one of another.
Owners == c1 :> p1 @@ c2 :> p1 @@ d1 :> p2

\* Two managers with one engine executable.
SameEngine == [a \in Attempt |-> "engine.exe"]

MCInit ==
  /\ part \in {"mailbox", "windows", "saml"}
  /\ Init /\ WinInit /\ SamlInit
  /\ \A k \in Channel : owner[k] = p1

MCNext ==
  \/ part = "mailbox" /\ Next /\ UNCHANGED <<part, winVars, samlVars>>
  \/ part = "windows" /\ WinNext /\ UNCHANGED <<part, vars, samlVars>>
  \/ part = "saml" /\ SamlNext /\ UNCHANGED <<part, vars, winVars>>

\* Fairness, WinFairness and SamlFairness of the part that moves.
MCFairness ==
  /\ \A c \in Command : WF_vars(part = "mailbox" /\ Call(c))
  /\ \A k \in Channel : WF_vars(part = "mailbox" /\ Worker(k))
  /\ \A a \in Attempt : /\ WF_winVars(part = "windows" /\ Manager(a))
                        /\ WF_winVars(part = "windows" /\ Operator(a))
                        /\ WF_winVars(part = "windows" /\ EngineEnds(a))
                        /\ WF_winVars(part = "windows" /\ Restore(a))
  /\ \A p \in Pid : WF_winVars(part = "windows" /\ StrangerEnds(p))
  /\ WF_samlVars(part = "saml" /\ Task)
  /\ WF_samlVars(part = "saml" /\ SessionReturns)
  /\ WF_samlVars(part = "saml" /\ Deadline)

MCSpec == MCInit /\ [][MCNext]_<<part, vars, winVars, samlVars>> /\ MCFairness

\* Every call of dispatch that is not abandoned is answered (where calls are made).
CallsAnswered == part = "mailbox" => Answered

\* Whoever waits is served: a caller of dispatch, the next user of the machine's
\* reservation, the caller of session().
ServicesAnswer == CallsAnswered /\ Unblocked /\ SessionEnds
=============================================================================

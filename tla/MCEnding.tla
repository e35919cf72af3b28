------------------------------ MODULE MCEnding ------------------------------
(* What must end in the desktop's manager and in the engine's threads, which   *)
(* share no state here.  In a behaviour one of them moves, and fairness is     *)
(* asked of that one.                                                          *)
EXTENDS DesktopManager, EngineIO

VARIABLE part

MCInit == part \in {"desktop", "engine"} /\ Init /\ IoInit

MCNext ==
  \/ part = "desktop" /\ Next /\ UNCHANGED <<part, ioVars>>
  \/ part = "engine" /\ IoNext /\ UNCHANGED <<part, vars>>

\* The fairness of FairSpec and IoFairSpec, of the part that moves.
MCFairness ==
  /\ \A p \in Profile : WF_vars(part = "desktop" /\ CommandStep(p))
  /\ \A a \in Attempt : /\ WF_vars(part = "desktop" /\ MonitorStep(a))
                        /\ WF_vars(part = "desktop" /\ Reap(a))
  /\ WF_vars(part = "desktop" /\ QuitStep)
  /\ WF_vars(part = "desktop" /\ \E r \in timers : TimerStep(r))
  /\ WF_ioVars(part = "engine" /\ Step)
  /\ WF_ioVars(part = "engine" /\ main = "terminate" /\ PppdEnds)
  /\ \A w \in Workers : WF_ioVars(part = "engine" /\ WorkerStep(w))

\* Bound: a second round of main()'s loop is there for the signal that comes before its io_loop;
\* pppd stays silent in it, and what comes later is as in the first round.
EarlySignals ==
  runs > 0 => /\ signals = MaxSignals \/ main \in {"setup", "start"}
              /\ emitted["pty_to_ssl"] = 0

MCSpec == MCInit /\ [][MCNext]_<<part, vars, ioVars>> /\ MCFairness
=============================================================================

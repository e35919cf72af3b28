----------------------------- MODULE MCSettling -----------------------------
(* What must end in the headless manager, and in its channel to one engine,    *)
(* which share no state here.  In a behaviour one of them moves, and fairness  *)
(* is asked of that one.                                                       *)
EXTENDS HeadlessManager

CONSTANTS p1, x1, x2

VARIABLES part, driver, channel, chal, reader, worker, runner, lease, eng, events, frames, user, net

cvars == <<driver, channel, chal, reader, worker, runner, lease, eng, events, frames, user, net>>

Channel == INSTANCE ControlChannel WITH
  MaxAttempt <- 1, MaxResource <- 0, MaxLoss <- 0, User <- {"u1"}, ctl <- channel, sup <- runner

MCInit ==
  /\ part \in {"manager", "channel"}
  /\ Init /\ Channel!Init
  /\ part = "channel" \/ driver

MCNext ==
  \/ part = "manager" /\ Next /\ UNCHANGED <<part, cvars>>
  \/ part = "channel" /\ Channel!Next /\ UNCHANGED <<part, mvars>>

\* The Fairness of either module, of the part that moves.
MCFairness ==
  /\ \A t \in Fresh : WF_mvars(part = "manager" /\ Supervise(t))
  /\ \A p \in Profile : /\ WF_mvars(part = "manager" /\ Stop(p))
                        /\ WF_mvars(part = "manager" /\ p \in quitting /\ Disconnect(p))
  /\ \A a \in Fresh : WF_mvars(part = "manager" /\ engine[a].term /\ EngineEnds(a))
  /\ WF_mvars(part = "manager" /\ Exit)
  /\ WF_cvars(part = "channel" /\ Channel!Reader)
  /\ WF_cvars(part = "channel" /\ Channel!Worker)
  /\ WF_cvars(part = "channel" /\ Channel!Supervisor)
  /\ \A a \in Channel!AttemptId : /\ WF_cvars(part = "channel" /\ Channel!EngineRuns(a))
                                  /\ WF_cvars(part = "channel" /\ Channel!EngineSignalled(a))

MCSpec == MCInit /\ [][MCNext]_<<part, mvars, cvars>> /\ MCFairness

\* An attempt that is not wanted any more is over in the end, whatever the
\* channel between the manager and its engine was doing.
AttemptEnds == Channel!AttemptEnds
=============================================================================

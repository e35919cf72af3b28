--------------------------- MODULE ControlChannel ---------------------------
(***************************************************************************)
(* The private control protocol between the headless manager and one       *)
(* profile's engines: the engine's events on stderr, the manager's frames  *)
(* on its stdin, the authentication answers of users, and the handshake    *)
(* that applies and releases a native network plan.                        *)
(*                                                                         *)
(* While it logs in, an engine asks for an OTP on the gateway's form and   *)
(* then for a token, each at most once: the form's POST clears cfg->otp,   *)
(* and whatever is not answered ends the log-in.  It asks for the lease,   *)
(* then for its plan, and at its end for the release.                      *)
(* Deadlines are steps that may happen at any time.  Attempt ids are fresh *)
(* and determine the generation, so the generation is not repeated here.   *)
(***************************************************************************)
EXTENDS Naturals, Sequences, FiniteSets

CONSTANTS
  MaxAttempt,   \* bound: attempts of the profile
  MaxResource,  \* bound: resources of a plan
  MaxLoss,      \* bound: records of one attempt that cannot be read
  User          \* clients that answer challenges

ASSUME ChannelAssumption == MaxAttempt \in Nat \ {0} /\ MaxResource \in Nat /\ MaxLoss \in Nat

VARIABLES
  driver,   \* is a native network configured? fixed at start
  ctl,      \* ProfileControl and the InstanceView of the profile
  chal,     \* Challenges.pending of the profile
  reader,   \* the task in read_stream on stderr
  worker,   \* the blocking worker of native_workers
  sup,      \* run_once of the current attempt
  lease,    \* the attempt the machine is reserved for
  eng,      \* engines
  events,   \* engine -> manager
  frames,   \* manager -> engine
  user,     \* answers on their way into a pipe
  net       \* what the attempt has left in the operating system

manager == <<ctl, chal, reader, worker, sup, lease, user>>
cvars == <<driver, manager, eng, events, frames, net>>

AttemptId == 1..MaxAttempt
None == 0

\* The nonces of an engine's requests.
FORM == 1
TOKEN == 2
PLAN == 3
APPLY == 4
RELEASE == 5

\* Challenges: how many an attempt may raise.
Budget == 32

Event(name, req, arg) == [ev |-> name, req |-> req, arg |-> arg]
Frame(action, req, answer) == [act |-> action, req |-> req, ans |-> answer]

NoFrame == Frame("none", None, "none")
NoEvent == Event("none", None, 0)
NoJob == [a |-> None, job |-> "none"]
Resting == [pc |-> "idle", ev |-> NoEvent, out |-> NoFrame]
NoChallenge == [a |-> None, req |-> None]
NoAnswer == [a |-> None, out |-> NoFrame]

\* Admission::new.
NewAdmission == [req |-> None, exp |-> 0, got |-> 0, done |-> FALSE]

Started(adm) == adm.req # None

\* The control as run_once publishes it for an attempt.
NewControl(a) ==
  [att |-> a, desired |-> TRUE, process |-> TRUE, pending |-> FALSE, failed |-> FALSE,
   status |-> "connecting", sel |-> FALSE, adm |-> NewAdmission, applied |-> FALSE,
   acked |-> FALSE, nreq |-> None, released |-> FALSE, whole |-> TRUE, lost |-> 0, seen |-> {}]

NewEngine == [pc |-> "auth", native |-> FALSE, started |-> FALSE, stale |-> FALSE,
              clean |-> FALSE, term |-> FALSE, stop |-> FALSE, otp |-> None,
              code |-> "none", refused |-> FALSE]
NoEngine == [NewEngine EXCEPT !.pc = "none"]

Alive(a) == eng[a].pc \notin {"none", "gone"}

-----------------------------------------------------------------------------
\* The engine

Emit(a, evs) == events' = [events EXCEPT ![a] = @ \o evs]

\* manager_control_otp, for the form of try_otp_auth (a 401 page and no OTP
\* left) or for the token the gateway then wants in place of a cookie.
EngineChallenge(a, r) ==
  /\ eng[a].pc = "auth" /\ eng[a].otp < r
  /\ Emit(a, <<Event("challenge", r, 0)>>)
  /\ eng' = [eng EXCEPT ![a].pc = "otp", ![a].otp = r]
  /\ UNCHANGED <<driver, manager, frames, net>>

\* read_frame and manager_control_decode: is the next frame the answer?
Answers(a, action, req) ==
  frames[a] # <<>> /\ Head(frames[a]).act = action /\ Head(frames[a]).req = req

Consume(a) == frames' = [frames EXCEPT ![a] = Tail(@)]

\* An answer, a frame that is not one, or the deadline.  Without an OTP the
\* log-in fails.
EngineAnswered(a, timeout) ==
  /\ eng[a].pc = "otp"
  /\ IF timeout THEN UNCHANGED frames ELSE frames[a] # <<>> /\ Consume(a)
  /\ LET ok == ~timeout /\ Answers(a, "auth_response", eng[a].otp)
     IN  /\ eng' = [eng EXCEPT ![a].pc = IF ok THEN "auth" ELSE "down"]
         /\ Emit(a, <<Event("closed", eng[a].otp, IF ok THEN 1 ELSE 0)>>)
  /\ UNCHANGED <<driver, manager, net>>

\* The gateway refuses, or its configuration is fetched and the gate reached.
EngineAuthenticated(a, ok) ==
  /\ eng[a].pc = "auth"
  /\ eng' = [eng EXCEPT ![a].pc = IF ok THEN "plan" ELSE "down"]
  /\ Emit(a, IF ok THEN <<Event("configuring", None, 0), Event("plan", PLAN, 0)>> ELSE <<>>)
  /\ UNCHANGED <<driver, manager, frames, net>>

\* manager_control_network_gate; splittable: no custom peer or plugin, and
\* between 1 and 127 split routes.
EngineGate(a, timeout, splittable) ==
  /\ eng[a].pc = "plan"
  /\ IF timeout THEN UNCHANGED frames ELSE frames[a] # <<>> /\ Consume(a)
  /\ LET given == ~timeout /\ Answers(a, "lease_decision", PLAN)
         native == given /\ Head(frames[a]).ans = "grant_native" /\ splittable
         legacy == given /\ Head(frames[a]).ans = "grant"
     IN  /\ eng' = [eng EXCEPT ![a].pc = IF native \/ legacy THEN "io" ELSE "down",
                               ![a].native = native]
         /\ Emit(a, IF native \/ legacy THEN <<Event("configuring", None, 0)>> ELSE <<>>)
  /\ UNCHANGED <<driver, manager, net>>

\* on_ppp_if_up without a native plan: the engine configures the network.
EngineConfigures(a, ok) ==
  /\ eng[a].pc = "io" /\ ~eng[a].native
  /\ net' = [net EXCEPT ![a] = "applied"]
  /\ eng' = [eng EXCEPT ![a].pc = IF ok THEN "up" ELSE "down"]
  /\ Emit(a, IF ok THEN <<Event("tunnel_up", None, 0)>> ELSE <<>>)
  /\ UNCHANGED <<driver, manager, frames>>

\* manager_control_network_apply: the plan is checked, then sent whole; legal:
\* the manager will find it valid too (a gateway of its own is not).
EngineSendsPlan(a, k, legal) ==
  /\ eng[a].pc = "io" /\ eng[a].native
  /\ eng' = [eng EXCEPT ![a].pc = "applying", ![a].started = TRUE]
  /\ Emit(a, <<Event("begin", APPLY, k)>>
              \o [i \in 1..k |-> Event("resource", APPLY, i - 1)]
              \o <<Event("commit", APPLY, IF legal THEN 1 ELSE 0)>>)
  /\ UNCHANGED <<driver, manager, frames, net>>

Applied(a) == Answers(a, "network_result", APPLY) /\ Head(frames[a]).ans = "applied"

\* Its answer.  Cancellation is disabled until network_applied is out; then
\* the interface may be gone, or the thread cancelled, before tunnel_up.
EngineApplied(a, timeout, ready) ==
  /\ eng[a].pc = "applying"
  /\ IF timeout THEN UNCHANGED frames ELSE frames[a] # <<>> /\ Consume(a)
  /\ LET ok == ~timeout /\ Applied(a)
     IN  /\ Emit(a, <<Event("applied", APPLY, IF ok THEN 1 ELSE 0)>>
                     \o (IF ok /\ ready THEN <<Event("tunnel_up", None, 0)>> ELSE <<>>))
         /\ eng' = [eng EXCEPT ![a].pc = IF ok /\ ready /\ ~eng[a].stop THEN "up" ELSE "down"]
  /\ UNCHANGED <<driver, manager, net>>

\* The gateway closes, the adapter or the interface fails.
EngineLosesTunnel(a) ==
  /\ eng[a].pc \in {"io", "up"}
  /\ eng' = [eng EXCEPT ![a].pc = "down"]
  /\ UNCHANGED <<driver, manager, events, frames, net>>

\* cleanup_result, and the process ends.
Ended(a, ok) ==
  /\ Emit(a, <<Event("cleanup", None, IF ok THEN 1 ELSE 0)>>)
  /\ eng' = [eng EXCEPT ![a].pc = "gone", ![a].code = "exit"]

\* state_change to disconnecting, and tunnel_down.
Closing == <<Event("tunnel_down", None, 0), Event("tunnel_down", None, 0)>>

\* on_ppp_if_down, then the release or the engine's own restore.
EngineDown(a, restored) ==
  /\ eng[a].pc = "down"
  /\ IF eng[a].native /\ eng[a].started
     THEN /\ eng' = [eng EXCEPT ![a].pc = "releasing"]
          /\ Emit(a, Closing \o <<Event("release", RELEASE, 0)>>)
          /\ UNCHANGED net
     ELSE /\ eng' = [eng EXCEPT ![a].pc = "ending", ![a].clean = restored]
          /\ net' = IF restored /\ ~eng[a].native THEN [net EXCEPT ![a] = "none"] ELSE net
          /\ Emit(a, Closing)
  /\ UNCHANGED <<driver, manager, frames>>

EngineEnds(a) ==
  /\ eng[a].pc = "ending"
  /\ Ended(a, eng[a].clean \/ net[a] = "none")
  /\ UNCHANGED <<driver, manager, frames, net>>

\* One late answer to the plan may precede the answer to the release.
Stale(a) ==
  /\ ~eng[a].stale
  /\ Answers(a, "network_result", APPLY) /\ Head(frames[a]).ans \in {"applied", "deny"}

\* manager_control_network_release.
EngineReleased(a, timeout) ==
  /\ eng[a].pc = "releasing"
  /\ IF timeout THEN UNCHANGED frames ELSE frames[a] # <<>> /\ Consume(a)
  /\ IF timeout THEN Ended(a, FALSE)
     ELSE IF Answers(a, "network_result", RELEASE) THEN Ended(a, Head(frames[a]).ans = "released")
     ELSE IF Stale(a) THEN eng' = [eng EXCEPT ![a].stale = TRUE] /\ UNCHANGED events
     ELSE /\ Emit(a, <<Event("cleanup", None, 0)>>)
          /\ eng' = [eng EXCEPT ![a].pc = "gone", ![a].code = "exit", ![a].refused = TRUE]
  /\ UNCHANGED <<driver, manager, net>>

\* SIGTERM.  Before io_loop it has its default effect; in io_loop it stops
\* the workers, and the one that applies finishes first; during the release
\* it interrupts the read.
EngineSignalled(a) ==
  /\ eng[a].term
  /\ \/ /\ eng[a].pc \in {"auth", "otp", "plan"}
        /\ eng' = [eng EXCEPT ![a].pc = "gone", ![a].code = "exit"] /\ UNCHANGED events
     \/ /\ eng[a].pc \in {"io", "up"}
        /\ eng' = [eng EXCEPT ![a].pc = "down", ![a].term = FALSE] /\ UNCHANGED events
     \/ /\ eng[a].pc = "applying"
        /\ eng' = [eng EXCEPT ![a].stop = TRUE, ![a].term = FALSE] /\ UNCHANGED events
     \/ eng[a].pc = "releasing" /\ Ended(a, FALSE)
     \/ /\ eng[a].pc \in {"down", "ending"}
        /\ eng' = [eng EXCEPT ![a].term = FALSE] /\ UNCHANGED events
  /\ UNCHANGED <<driver, manager, frames, net>>

\* It is killed, by stop_owned_process or by somebody else.
EngineDies(a, code) ==
  /\ Alive(a)
  /\ eng' = [eng EXCEPT ![a].pc = "gone", ![a].code = code]
  /\ UNCHANGED <<driver, manager, events, frames, net>>

-----------------------------------------------------------------------------
\* The manager: read_stream and apply_engine_event

\* Mutant: nobody tells the engine.
NotSignalled == eng

\* fail_private_control, as new values of ctl and eng: the attempt is told to
\* end and its network ownership is kept for recovery.
FailedControl == [ctl EXCEPT !.failed = TRUE, !.desired = FALSE]
Signalled == IF ctl.process /\ Alive(ctl.att) THEN [eng EXCEPT ![ctl.att].term = TRUE] ELSE eng

FailPrivateControl ==
  /\ ctl' = FailedControl
  /\ eng' = Signalled
  /\ reader' = Resting

\* The reader takes the next event of the current engine.
Reading(name) ==
  /\ reader.pc = "idle" /\ events[ctl.att] # <<>>
  /\ Head(events[ctl.att]).ev = name
  /\ events' = [events EXCEPT ![ctl.att] = Tail(@)]

Current == Head(events[ctl.att])

\* The frame is written once the lock is free.
Reply(frame) == reader' = [pc |-> "send", ev |-> NoEvent, out |-> frame]

ReadState ==
  /\ \/ Reading("configuring") /\ ctl' = [ctl EXCEPT !.pending = TRUE]
     \/ Reading("tunnel_down") /\ ctl' = [ctl EXCEPT !.status = "disconnecting"]
  /\ UNCHANGED <<driver, chal, reader, worker, sup, lease, user, eng, frames, net>>

\* A record is lost: too long or not UTF-8, which makes the output incomplete,
\* or mixed up with pppd's output on the same stderr and taken for a log line.
ReadGarbled(noticed) ==
  /\ reader.pc = "idle" /\ events[ctl.att] # <<>> /\ ctl.lost < MaxLoss
  /\ events' = [events EXCEPT ![ctl.att] = Tail(@)]
  /\ ctl' = [ctl EXCEPT !.whole = @ /\ ~noticed, !.lost = @ + 1]
  /\ UNCHANGED <<driver, chal, reader, worker, sup, lease, user, eng, frames, net>>

\* The lease of a native attempt is acknowledged on both sides.
NativeReady == ~driver \/ (ctl.sel /\ ctl.applied /\ ctl.acked /\ ~ctl.released)

ReadTunnelUp ==
  /\ Reading("tunnel_up")
  /\ IF NativeReady
     THEN /\ ctl' = IF ctl.status = "disconnecting" THEN ctl ELSE [ctl EXCEPT !.status = "connected"]
          /\ UNCHANGED <<eng, reader>>
     ELSE FailPrivateControl
  /\ UNCHANGED <<driver, chal, worker, sup, lease, user, frames, net>>

\* cleanup_result: the lifecycle observes it first.
ReadCleanup ==
  /\ Reading("cleanup")
  /\ LET ok == Current.arg = 1
         seen == [ctl EXCEPT !.failed = @ \/ ~ok, !.pending = ctl.failed \/ ~ok]
     IN  IF ctl.sel /\ ~ctl.released /\ Started(ctl.adm)
         THEN /\ ctl' = [seen EXCEPT !.failed = TRUE, !.desired = FALSE]
              /\ eng' = Signalled /\ UNCHANGED reader
         ELSE ctl' = seen /\ UNCHANGED <<eng, reader>>
  /\ UNCHANGED <<driver, chal, worker, sup, lease, user, frames, net>>

\* Challenges::register: one at a time, no request twice, so many in all.
Registrable(req) == chal = NoChallenge /\ Cardinality(ctl.seen) < Budget /\ req \notin ctl.seen

ReadChallenge ==
  /\ Reading("challenge")
  /\ IF ctl.desired /\ Registrable(Current.req)
     THEN /\ chal' = [a |-> ctl.att, req |-> Current.req]
          /\ ctl' = [ctl EXCEPT !.seen = @ \cup {Current.req}]
          /\ UNCHANGED <<eng, reader>>
     ELSE FailPrivateControl /\ UNCHANGED chal
  /\ UNCHANGED <<driver, worker, sup, lease, user, frames, net>>

\* Challenges::close.
ReadClosed ==
  /\ Reading("closed")
  /\ chal' = IF chal = [a |-> ctl.att, req |-> Current.req] THEN NoChallenge ELSE chal
  /\ UNCHANGED <<driver, ctl, reader, worker, sup, lease, user, eng, frames, net>>

\* network_plan: the lease decision.
ReadPlan ==
  /\ Reading("plan")
  /\ IF ctl.desired /\ driver /\ ctl.sel
     THEN FailPrivateControl
     ELSE /\ ctl' = IF ctl.desired /\ driver THEN [ctl EXCEPT !.sel = TRUE] ELSE ctl
          /\ Reply(Frame("lease_decision", PLAN,
               IF ~ctl.desired THEN "deny" ELSE IF driver THEN "grant_native" ELSE "grant"))
          /\ UNCHANGED eng
  /\ UNCHANGED <<driver, chal, worker, sup, lease, user, frames, net>>

\* A native event is bound to a selected attempt that has not released.
Bound == driver /\ ctl.sel /\ ~ctl.released

\* Admission::observe, of an acceptable event.
Observe(adm, e) ==
  IF e.ev = "begin" THEN [adm EXCEPT !.req = e.req, !.exp = e.arg]
  ELSE IF e.ev = "resource" THEN [adm EXCEPT !.got = @ + 1]
  ELSE [adm EXCEPT !.done = TRUE]

\* Mutant: the commit does not count the resources.
AcceptableUncounted(adm, e) ==
  /\ ~adm.done
  /\ \/ e.ev = "begin" /\ adm.req = None
     \/ e.ev = "resource" /\ adm.req = e.req /\ adm.got < adm.exp
     \/ e.ev = "commit" /\ adm.req = e.req /\ e.arg = 1

\* Admission::observe: which events it accepts.
Acceptable(adm, e) ==
  /\ ~adm.done
  /\ \/ e.ev = "begin" /\ adm.req = None
     \/ e.ev = "resource" /\ adm.req = e.req /\ e.arg = adm.got /\ adm.got < adm.exp
     \/ e.ev = "commit" /\ adm.req = e.req /\ adm.got = adm.exp /\ e.arg = 1

\* network_begin and network_resource.
ReadResource ==
  /\ Reading("begin") \/ Reading("resource")
  /\ IF Bound /\ ctl.desired /\ Acceptable(ctl.adm, Current)
     THEN ctl' = [ctl EXCEPT !.adm = Observe(@, Current)] /\ UNCHANGED <<eng, reader>>
     ELSE FailPrivateControl
  /\ UNCHANGED <<driver, chal, worker, sup, lease, user, frames, net>>

\* network_commit asks the driver for its epoch first, without the lock.
ReadCommit ==
  /\ Reading("commit") /\ driver
  /\ reader' = [pc |-> "epoch", ev |-> Current, out |-> Frame("network_result", Current.req, "applied")]
  /\ worker' = [a |-> ctl.att, job |-> "epoch"]
  /\ UNCHANGED <<driver, ctl, chal, sup, lease, user, eng, frames, net>>

\* Then the plan is admitted, or not any more, and the worker applies it.
Commit ==
  /\ reader.pc = "admit"
  /\ IF Bound /\ ctl.desired /\ Acceptable(ctl.adm, reader.ev)
     THEN /\ ctl' = [ctl EXCEPT !.adm = Observe(@, reader.ev), !.nreq = reader.ev.req]
          /\ worker' = [a |-> ctl.att, job |-> "apply"]
          /\ reader' = [reader EXCEPT !.pc = "work"]
          /\ UNCHANGED eng
     ELSE FailPrivateControl /\ UNCHANGED worker
  /\ UNCHANGED <<driver, chal, sup, lease, user, events, frames, net>>

\* network_release.
ReadRelease ==
  /\ Reading("release")
  /\ IF Bound /\ Started(ctl.adm)
     THEN /\ reader' = [pc |-> "work", ev |-> Current, out |-> Frame("network_result", Current.req, "released")]
          /\ worker' = [a |-> ctl.att, job |-> "release"]
          /\ UNCHANGED <<ctl, eng>>
     ELSE FailPrivateControl /\ UNCHANGED worker
  /\ UNCHANGED <<driver, chal, sup, lease, user, frames, net>>

\* network_applied: the engine's acknowledgement.
ReadApplied ==
  /\ Reading("applied")
  /\ IF Bound /\ ctl.applied /\ ~ctl.acked /\ Current.arg = 1 /\ Current.req = ctl.nreq
     THEN ctl' = [ctl EXCEPT !.acked = TRUE] /\ UNCHANGED <<eng, reader>>
     ELSE FailPrivateControl
  /\ UNCHANGED <<driver, chal, worker, sup, lease, user, frames, net>>

\* Mutant: only the join is checked, not what the worker returned.
Ignored(ok) == TRUE

\* Both results of `.await??` are checked.
Succeeded(ok) == ok

\* The blocking worker, in NetworkTxn's terms: an apply that fails has rolled
\* back or left evidence, a release that fails has left it.
WorkerEnds(ok, left) ==
  /\ worker # NoJob
  /\ net' = IF worker.job = "apply" THEN [net EXCEPT ![worker.a] = IF ok THEN "applied" ELSE left]
            ELSE IF worker.job = "release" /\ ok THEN [net EXCEPT ![worker.a] = "none"]
            ELSE net
  /\ worker' = NoJob
  /\ IF reader.pc = "idle"  \* aborted meanwhile: nobody waits for the result
     THEN UNCHANGED <<ctl, eng, reader>>
     ELSE IF Succeeded(ok)
     THEN /\ reader' = [reader EXCEPT !.pc = IF worker.job = "epoch" THEN "admit" ELSE "post"]
          /\ UNCHANGED <<ctl, eng>>
     ELSE FailPrivateControl
  /\ UNCHANGED <<driver, chal, sup, lease, user, events, frames>>

\* Its result, under the lock.
Posted ==
  IF reader.ev.ev = "release"
  THEN [ctl EXCEPT !.released = TRUE, !.applied = FALSE, !.acked = FALSE]
  ELSE [ctl EXCEPT !.applied = TRUE]

PostResult ==
  /\ reader.pc = "post"
  /\ ctl' = Posted
  /\ reader' = [reader EXCEPT !.pc = "send"]
  /\ UNCHANGED <<driver, chal, worker, sup, lease, user, eng, events, frames, net>>

\* write_all under its timeout: a pipe nobody reads any more fails.
Send ==
  /\ reader.pc = "send"
  /\ IF Alive(ctl.att)
     THEN /\ frames' = [frames EXCEPT ![ctl.att] = Append(@, reader.out)]
          /\ reader' = Resting /\ UNCHANGED <<ctl, eng>>
     ELSE FailPrivateControl /\ UNCHANGED frames
  /\ UNCHANGED <<driver, chal, worker, sup, lease, user, events, net>>

-----------------------------------------------------------------------------
\* Users

\* Mutant: the challenge stays open.
StillPending == chal

Answered == NoChallenge

\* respond_to_authentication: the answer takes the challenge.
Respond(u, a) ==
  /\ user[u] = NoAnswer
  /\ ctl.att = a /\ ctl.desired /\ ctl.process
  /\ chal # NoChallenge /\ chal.a = a
  /\ chal' = Answered
  /\ user' = [user EXCEPT ![u] = [a |-> a, out |-> Frame("auth_response", chal.req, "secret")]]
  /\ UNCHANGED <<driver, ctl, reader, worker, sup, lease, eng, events, frames, net>>

\* Its write, on the pipe of the attempt it was meant for.
Deliver(u) ==
  /\ user[u] # NoAnswer
  /\ IF Alive(user[u].a)
     THEN /\ frames' = [frames EXCEPT ![user[u].a] = Append(@, user[u].out)]
          /\ UNCHANGED <<ctl, eng>>
     ELSE /\ UNCHANGED frames
          /\ IF ctl.att = user[u].a
             THEN ctl' = [ctl EXCEPT !.desired = FALSE] /\ eng' = Signalled
             ELSE UNCHANGED <<ctl, eng>>
  /\ user' = [user EXCEPT ![u] = NoAnswer]
  /\ UNCHANGED <<driver, chal, reader, worker, sup, lease, events, net>>

\* Challenges::expire, on the next call after the deadline.
Expire ==
  /\ chal # NoChallenge
  /\ chal' = NoChallenge
  /\ UNCHANGED <<driver, ctl, reader, worker, sup, lease, user, eng, events, frames, net>>

\* disconnect.
Disconnect ==
  /\ ctl.desired /\ ctl.process
  /\ ctl' = [ctl EXCEPT !.desired = FALSE, !.status = "disconnecting"]
  /\ eng' = Signalled
  /\ UNCHANGED <<driver, chal, reader, worker, sup, lease, user, events, frames, net>>

-----------------------------------------------------------------------------
\* run_once

\* drain_tasks: the reader reaches the end of the output, or is aborted.
Drain(complete) ==
  /\ sup.pc = "run" /\ eng[ctl.att].pc = "gone"
  /\ complete => reader = Resting /\ events[ctl.att] = <<>>
  /\ reader' = Resting
  /\ events' = [events EXCEPT ![ctl.att] = <<>>]
  /\ sup' = [pc |-> "join", complete |-> complete /\ ctl.whole]
  /\ UNCHANGED <<driver, ctl, chal, worker, lease, user, eng, frames, net>>

\* Mutant: an aborted reader is all there is to wait for.
NothingToJoin == TRUE

\* Workers::wait.
Joined == worker = NoJob

\* cancel_attempt; it forgets the attempt's requests too.
Cancelled == IF chal.a = ctl.att THEN NoChallenge ELSE chal

\* EngineLifecycle::reaped, and the end of the attempt's challenge.
Reap ==
  /\ sup.pc = "join" /\ Joined
  /\ ctl' = [ctl EXCEPT !.process = FALSE, !.seen = {},
                        !.failed = @ \/ ~sup.complete \/ eng[ctl.att].code = "killed" \/ ctl.pending]
  /\ chal' = Cancelled
  /\ sup' = [sup EXCEPT !.pc = "finish"]
  /\ UNCHANGED <<driver, reader, worker, lease, user, eng, events, frames, net>>

CleanupConfirmed == ~ctl.failed /\ (~ctl.sel \/ ctl.released \/ ~Started(ctl.adm))

\* The lease is given back, or kept with the evidence for recovery.
Finish ==
  /\ sup.pc = "finish"
  /\ lease' = IF CleanupConfirmed THEN None ELSE lease
  /\ sup' = [sup EXCEPT !.pc = "done"]
  /\ UNCHANGED <<driver, ctl, chal, reader, worker, user, eng, events, frames, net>>

\* The next attempt, a retry or a new connection.
Attempts(a) ==
  /\ sup.pc = "done" /\ lease = None /\ a = ctl.att + 1
  /\ lease' = a
  /\ ctl' = NewControl(a)
  /\ eng' = [eng EXCEPT ![a] = NewEngine]
  /\ sup' = [pc |-> "run", complete |-> FALSE]
  /\ UNCHANGED <<driver, chal, reader, worker, user, events, frames, net>>

-----------------------------------------------------------------------------

Init ==
  /\ driver \in BOOLEAN
  /\ ctl = NewControl(1) /\ chal = NoChallenge
  /\ reader = Resting /\ worker = NoJob
  /\ sup = [pc |-> "run", complete |-> FALSE] /\ lease = 1
  /\ eng = [a \in AttemptId |-> IF a = 1 THEN NewEngine ELSE NoEngine]
  /\ events = [a \in AttemptId |-> <<>>] /\ frames = [a \in AttemptId |-> <<>>]
  /\ user = [u \in User |-> NoAnswer]
  /\ net = [a \in AttemptId |-> "none"]

EngineRuns(a) ==
  \/ (\E r \in {FORM, TOKEN} : EngineChallenge(a, r)) \/ EngineEnds(a)
  \/ \E t \in BOOLEAN : EngineAnswered(a, t) \/ EngineReleased(a, t)
       \/ (\E b \in BOOLEAN : EngineGate(a, t, b) \/ EngineApplied(a, t, b))
  \/ \E ok \in BOOLEAN : EngineAuthenticated(a, ok) \/ EngineConfigures(a, ok) \/ EngineDown(a, ok)
       \/ (\E k \in 0..MaxResource : EngineSendsPlan(a, k, ok))

Engine(a) ==
  \/ EngineRuns(a) \/ EngineLosesTunnel(a) \/ EngineSignalled(a)
  \/ \E code \in {"crashed", "killed"} : EngineDies(a, code)

Reader ==
  \/ (\E noticed \in BOOLEAN : ReadGarbled(noticed))
  \/ ReadState \/ ReadTunnelUp \/ ReadCleanup \/ ReadChallenge \/ ReadClosed \/ ReadPlan
  \/ ReadResource \/ ReadCommit \/ ReadRelease \/ ReadApplied
  \/ Commit \/ PostResult \/ Send

Worker == \E ok \in BOOLEAN, left \in {"none", "dirty"} : WorkerEnds(ok, left)

Supervisor == (\E c \in BOOLEAN : Drain(c)) \/ Reap \/ Finish

Next ==
  \/ \E a \in AttemptId : Engine(a) \/ Attempts(a)
  \/ Reader \/ Worker \/ Supervisor
  \/ \E u \in User : Deliver(u) \/ (\E a \in AttemptId : Respond(u, a))
  \/ Expire \/ Disconnect

Spec == Init /\ [][Next]_cvars

\* The runtime polls its tasks, blocking workers return, and an engine runs
\* into its deadlines or, in its logout, into stop_owned_process; what ends a
\* tunnel is up to the gateway and the user.
Fairness ==
  /\ WF_cvars(Reader) /\ WF_cvars(Worker) /\ WF_cvars(Supervisor)
  /\ \A a \in AttemptId : WF_cvars(EngineRuns(a)) /\ WF_cvars(EngineSignalled(a))

FairSpec == Spec /\ Fairness

-----------------------------------------------------------------------------
\* Properties

ChannelTypeOK ==
  /\ ctl.att \in AttemptId /\ lease \in AttemptId \cup {None}
  /\ ctl.adm.got \in 0..MaxResource /\ ctl.status \in {"connecting", "connected", "disconnecting"}
  /\ reader.pc \in {"idle", "epoch", "admit", "work", "post", "send"}
  /\ worker.job \in {"none", "epoch", "apply", "release"}
  /\ sup.pc \in {"run", "join", "finish", "done"}
  /\ \A a \in AttemptId : net[a] \in {"none", "applied", "dirty"} /\ Len(frames[a]) <= 3

\* "the privileged manager commits before readiness": a connection is shown
\* as connected only while its plan is in the operating system.
ReadyMeansApplied == driver /\ ctl.status = "connected" => net[ctl.att] = "applied"

\* "A timeout/stop request cannot drop its ownership or permit a second
\* transaction while it still mutates": while a worker runs for an attempt, or
\* the attempt has changed the network, the machine is reserved for it, and the
\* manager has not yet declared its process gone.
MutationOwned ==
  /\ worker # NoJob => lease = worker.a /\ ctl.att = worker.a /\ ctl.process
  /\ \A a \in AttemptId : net[a] # "none" => lease = a

\* A plan in the operating system is the engine's whole plan, whichever of its
\* records were lost on the way.
PlanWhole ==
  net[ctl.att] = "applied" /\ ctl.sel => ctl.adm.done /\ ctl.adm.got = ctl.adm.exp

\* "A cancelled/timed-out apply may have one late result queued": that is all
\* there can be, so a release never fails over what it finds in the pipe.
ReleaseUnderstood == \A a \in AttemptId : ~eng[a].refused

\* The answers of users in the engine's pipe, and on their way into it.
Queued(a) == {i \in 1..Len(frames[a]) : frames[a][i].act = "auth_response"}
Underway(a) == {u \in User : user[u].a = a}

\* A question is answered once, and an answer is read by the question it was
\* given to: while an engine waits, at most one answer is queued or on its way
\* and it answers what is asked now; when the log-in goes on, to a second
\* question or to the tunnel, none is left.
AnsweredOnce ==
  \A a \in AttemptId :
    /\ eng[a].pc = "otp" =>
         /\ \A i \in Queued(a) : frames[a][i].req = eng[a].otp /\ Underway(a) = {}
         /\ \A u \in Underway(a) : user[u].out.req = eng[a].otp
         /\ \A i, j \in Queued(a) : i = j
         /\ \A u, v \in Underway(a) : u = v
    /\ eng[a].pc \in {"auth", "plan", "io", "applying", "up", "releasing"} =>
         Queued(a) = {} /\ Underway(a) = {}

\* A pending challenge belongs to the current attempt while that has a process.
ChallengeCurrent == chal # NoChallenge => chal.a = ctl.att /\ ctl.process

\* An attempt that is not wanted any more ends, wherever the handshake stands.
AttemptEnds == ~ctl.desired ~> sup.pc = "done"

\* The network belongs to the attempt that changes it until its worker has
\* returned, and the engine understands the late result of a worker it gave up.
NetworkOwned == ChannelTypeOK /\ MutationOwned /\ ReleaseUnderstood

\* A challenge is answered once, and dies with its attempt's process.
ChallengesSound == AnsweredOnce /\ ChallengeCurrent
=============================================================================

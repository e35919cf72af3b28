----------------------------- MODULE EngineIO -----------------------------
(***************************************************************************)
(* The engine while it carries traffic: five worker threads around two     *)
(* packet pools and three semaphores, a main thread that waits for a       *)
(* reason to stop, cancels and joins them and takes the tunnel down, the   *)
(* signals that may arrive at any point of it, the logout the gateway may  *)
(* leave unanswered, and the loop that starts all over again with          *)
(* --persistent.                                                           *)
(*                                                                         *)
(* A worker with a cancellation pending dies at its next cancellation      *)
(* point.  A write to the event stream is one, made with event_mutex held. *)
(***************************************************************************)
EXTENDS Naturals, Sequences, FiniteSets

CONSTANTS
  MaxOut,     \* bound: packets pppd sends
  MaxIn,      \* bound: packets the gateway sends
  MaxRuns,    \* bound: rounds of the loop in main()
  MaxSignals, \* bound: SIGTERMs
  Persistent, \* --persistent
  Events,     \* is the event stream on?
  Native      \* does a manager own the network?

ASSUME IoAssumption ==
  /\ {MaxOut, MaxIn, MaxRuns, MaxSignals} \subseteq Nat
  /\ {Persistent, Events, Native} \subseteq BOOLEAN /\ (Native => Events)

VARIABLES
  main,     \* where the main thread is
  thr,      \* where each worker is
  started,  \* count of ofv_thread_group: workers created, in the order of entries[]
  cancel,   \* workers with a cancellation pending
  sem,      \* the semaphores
  pool,     \* the packet pools
  popped,   \* the packet a writer has popped
  emitted,  \* packets each side has sent
  got,      \* packets each side has received, in order, Dropped where one was not written
  lock,     \* owner of event_mutex
  tunnel,   \* struct tunnel: state, network_apply_failed, cleanup_attempted, cleanup_failed
  pppd,     \* the pppd process
  handler,  \* is sig_handler installed?
  masked,   \* are the signals blocked?
  pending,  \* is a blocked signal pending?
  sig,      \* sig_received
  ret,      \* the result of this round
  runs, signals

group == <<thr, started, cancel>>
traffic == <<pool, popped, emitted, got>>
signal == <<handler, masked, pending, sig, signals>>
ioVars == <<main, thr, started, cancel, sem, pool, popped, emitted, got, lock, tunnel, pppd,
           handler, masked, pending, sig, ret, runs, signals>>

Entries == <<"pppd_read", "pppd_write", "ssl_read", "ssl_write", "if_config">>
Workers == {Entries[i] : i \in 1..Len(Entries)}
Pools == {"pty_to_ssl", "ssl_to_pty"}
MaxPackets == [pty_to_ssl |-> MaxOut, ssl_to_pty |-> MaxIn]
Main == "main"
Unowned == "free"
Dropped == 0
Ended == {"none", "done", "cancelled"}
ReaderOf == [pty_to_ssl |-> "pppd_read", ssl_to_pty |-> "ssl_read"]
WriterOf == [pty_to_ssl |-> "ssl_write", ssl_to_pty |-> "pppd_write"]

Places == Ended \cup {"wait", "read", "pop", "write", "poll", "apply", "emit", "post"}
TunnelFacts ==
  [up : BOOLEAN, applied : {"no", "ok", "failed"}, applyFailed : BOOLEAN,
   cleaned : BOOLEAN, cleanupFailed : BOOLEAN]

IoTypeOK ==
  /\ main \in {"setup", "start", "spawn", "wait", "join", "down", "terminate", "report",
               "logout", "sleep", "exit", "killed"}
  /\ thr \in [Workers -> Places]
  /\ started \in 0..Len(Entries) /\ cancel \subseteq Workers
  /\ sem \in [{"ready", "ifc", "stop"} -> Nat]
  /\ {emitted, popped} \subseteq [Pools -> Nat] /\ {pool, got} \subseteq [Pools -> Seq(Nat)]
  /\ \A p \in Pools : emitted[p] <= MaxPackets[p]
  /\ lock \in Workers \cup {Main, Unowned}
  /\ tunnel \in TunnelFacts
  /\ pppd \in {"none", "running", "ok", "error"}
  /\ {handler, masked, pending, sig} \subseteq BOOLEAN
  /\ ret \in {"ok", "setup", "tunnel", "config"}
  /\ runs \in 0..MaxRuns /\ signals \in 0..MaxSignals

NoTunnel ==
  [up |-> FALSE, applied |-> "no", applyFailed |-> FALSE, cleaned |-> FALSE, cleanupFailed |-> FALSE]
NoPosts == [ready |-> 0, ifc |-> 0, stop |-> 0]
Idle == [w \in Workers |-> "none"]
NoPackets == [p \in Pools |-> <<>>]
Zeroes == [p \in Pools |-> 0]

IoInit ==
  /\ main = "setup" /\ thr = Idle /\ started = 0 /\ cancel = {}
  /\ sem = NoPosts
  /\ pool = NoPackets /\ popped = Zeroes /\ emitted = Zeroes /\ got = NoPackets
  /\ lock = Unowned /\ tunnel = NoTunnel /\ pppd = "none"
  /\ handler = FALSE /\ masked = FALSE /\ pending = FALSE /\ sig = FALSE
  /\ ret = "ok" /\ runs = 0 /\ signals = 0

----------------------------------------------------------------------------
(* Signals and pppd *)

\* Before sig_handler is installed SIGTERM kills; with it, it is kept and posted.  In a later
\* round it can arrive while the semaphore it posts is not in use.
Signal ==
  /\ main \notin {"exit", "killed"} /\ signals < MaxSignals
  /\ signals' = signals + 1
  /\ \/ /\ masked /\ pending' = TRUE
        /\ UNCHANGED <<main, sem, sig>>
     \/ /\ ~masked /\ handler
        /\ sig' = TRUE /\ sem' = [sem EXCEPT !.stop = @ + 1]
        /\ UNCHANGED <<main, pending>>
     \/ /\ ~masked /\ ~handler
        /\ main' = "killed"
        /\ UNCHANGED <<sem, pending, sig>>
  /\ UNCHANGED <<group, traffic, lock, tunnel, pppd, handler, masked, ret, runs>>

\* pppd ends by itself, or because its pty was closed.
PppdEnds ==
  /\ pppd = "running"
  /\ pppd' \in {"ok", "error"}
  /\ UNCHANGED <<main, group, sem, traffic, lock, tunnel, signal, ret, runs>>

----------------------------------------------------------------------------
(* The workers *)

WorkerAt(w, place) == thr[w] = place
\* At a cancellation point (a read, a write, a wait): passed only with no cancellation pending.
Passes(w, place) == thr[w] = place /\ w \notin cancel
WorkerGoes(w, place) == thr' = [thr EXCEPT ![w] = place]
Own == UNCHANGED <<main, started, cancel, signal, pppd, ret, runs>>

\* pool_push
pool_push(p, packet) == pool' = [pool EXCEPT ![p] = Append(@, packet)]

\* pppd_read: the first bytes let pppd_write begin.
pppd_read ==
  LET p == "pty_to_ssl" IN
  /\ Passes("pppd_read", "read") /\ pppd = "running" /\ emitted[p] < MaxPackets[p]
  /\ emitted' = [emitted EXCEPT ![p] = @ + 1]
  /\ pool_push(p, emitted[p] + 1)
  /\ sem' = [sem EXCEPT !.ready = IF emitted[p] = 0 THEN @ + 1 ELSE @]
  /\ Own /\ UNCHANGED <<thr, popped, got, lock, tunnel>>

\* ssl_read: a packet that ends the negotiation lets if_config begin.
ssl_read ==
  LET p == "ssl_to_pty" IN
  /\ Passes("ssl_read", "read") /\ emitted[p] < MaxPackets[p]
  /\ emitted' = [emitted EXCEPT ![p] = @ + 1]
  /\ pool_push(p, emitted[p] + 1)
  /\ \E last \in BOOLEAN :
       sem' = [sem EXCEPT !.ifc = IF last /\ ~tunnel.up THEN @ + 1 ELSE @]
  /\ Own /\ UNCHANGED <<thr, popped, got, lock, tunnel>>

\* A read fails: the gateway hangs up or sends no PPP, pppd is gone or sends a bad frame.
ReadFails(p) ==
  /\ Passes(ReaderOf[p], "read")
  /\ WorkerGoes(ReaderOf[p], "post")
  /\ Own /\ UNCHANGED <<sem, traffic, lock, tunnel>>

\* pppd_write waits for pppd to talk first.
pppd_write ==
  /\ Passes("pppd_write", "wait") /\ sem.ready > 0
  /\ sem' = [sem EXCEPT !.ready = @ - 1]
  /\ WorkerGoes("pppd_write", "pop")
  /\ Own /\ UNCHANGED <<traffic, lock, tunnel>>

pool_pop(p) ==
  /\ WorkerAt(WriterOf[p], "pop") /\ pool[p] # <<>>
  /\ popped' = [popped EXCEPT ![p] = Head(pool[p])]
  /\ pool' = [pool EXCEPT ![p] = Tail(@)]
  /\ WorkerGoes(WriterOf[p], "write")
  /\ Own /\ UNCHANGED <<sem, emitted, got, lock, tunnel>>

\* When select() fails pppd_write drops the packet and goes on with the next.
Write(p) ==
  /\ Passes(WriterOf[p], "write")
  /\ popped' = [popped EXCEPT ![p] = 0]
  /\ \/ got' = [got EXCEPT ![p] = Append(@, popped[p])] /\ WorkerGoes(WriterOf[p], "pop")
     \/ /\ p = "ssl_to_pty"
        /\ got' = [got EXCEPT ![p] = Append(@, Dropped)] /\ WorkerGoes(WriterOf[p], "pop")
     \/ WorkerGoes(WriterOf[p], "post") /\ UNCHANGED got
  /\ Own /\ UNCHANGED <<sem, pool, emitted, lock, tunnel>>

\* Mutant: a worker ends without a word.
EndSilently(w) ==
  /\ WorkerAt(w, "post")
  /\ WorkerGoes(w, "done")
  /\ Own /\ UNCHANGED <<sem, traffic, lock, tunnel>>

\* The end of every worker that gives up.
PostStop(w) ==
  /\ WorkerAt(w, "post")
  /\ sem' = [sem EXCEPT !.stop = @ + 1]
  /\ WorkerGoes(w, "done")
  /\ Own /\ UNCHANGED <<traffic, lock, tunnel>>

if_config ==
  /\ Passes("if_config", "wait") /\ sem.ifc > 0
  /\ sem' = [sem EXCEPT !.ifc = @ - 1]
  /\ WorkerGoes("if_config", "poll")
  /\ Own /\ UNCHANGED <<traffic, lock, tunnel>>

\* The interface is up, or is not within a minute.
PollInterface ==
  /\ Passes("if_config", "poll")
  /\ \/ WorkerGoes("if_config", "apply") /\ UNCHANGED tunnel
     \/ WorkerGoes("if_config", "post") /\ tunnel' = [tunnel EXCEPT !.applyFailed = TRUE]
  /\ Own /\ UNCHANGED <<sem, traffic, lock>>

\* on_ppp_if_up up to its event, tunnel_up or error; a failure without events is noted at once.
on_ppp_if_up ==
  /\ WorkerAt("if_config", "apply") /\ (Native \/ "if_config" \notin cancel)
  /\ lock = Unowned
  /\ \E outcome \in {"ok", "failed"} :
       LET noted == outcome = "failed" /\ ~Events IN
         /\ tunnel' = [tunnel EXCEPT !.applied = outcome, !.applyFailed = noted]
         /\ WorkerGoes("if_config", IF noted THEN "post" ELSE "emit")
  /\ lock' = IF Events THEN "if_config" ELSE Unowned
  /\ Own /\ UNCHANGED <<sem, traffic>>

\* event_emit ends, and if_config with it.
Emitted ==
  /\ Passes("if_config", "emit")
  /\ lock' = Unowned
  /\ \/ /\ tunnel.applied = "ok"
        /\ tunnel' = [tunnel EXCEPT !.up = TRUE] /\ WorkerGoes("if_config", "done")
     \/ /\ tunnel.applied = "failed"
        /\ tunnel' = [tunnel EXCEPT !.applyFailed = TRUE] /\ WorkerGoes("if_config", "post")
  /\ Own /\ UNCHANGED <<sem, traffic>>

\* pool_pop's cleanup handler gives the pool back; event_emit has none for event_mutex.
Cancelled(w) ==
  /\ w \in cancel /\ thr[w] \notin {"post"} \cup Ended
  /\ ~(Native /\ WorkerAt(w, "apply"))   \* manager_control_network_apply disables cancellation
  /\ WorkerAt(w, "pop") => \E p \in Pools : w = WriterOf[p] /\ pool[p] = <<>>
  /\ WorkerGoes(w, "cancelled")
  /\ Own /\ UNCHANGED <<sem, traffic, lock, tunnel>>

Advance ==
  \/ pppd_write \/ if_config \/ PollInterface \/ on_ppp_if_up \/ Emitted
  \/ \E p \in Pools : pool_pop(p) \/ Write(p)
  \/ \E w \in Workers : PostStop(w)
Work == Advance \/ pppd_read \/ ssl_read \/ \E p \in Pools : ReadFails(p)

----------------------------------------------------------------------------
(* The main thread *)

Before(place) == main = place
CanEmit == ~Events \/ lock = Unowned

\* run_tunnel up to io_loop: it fails before pppd is started, after, or not at all.
Setup ==
  /\ Before("setup")
  /\ \/ main' = "report" /\ ret' = "setup" /\ UNCHANGED pppd
     \/ main' = "terminate" /\ ret' = "tunnel" /\ pppd' = "running"
     \/ main' = "start" /\ ret' = "ok" /\ pppd' = "running"
  /\ UNCHANGED <<group, sem, traffic, lock, tunnel, signal, runs>>

\* io_loop initialises semaphores and pools, blocks the signals and installs the handler.
StartIo ==
  /\ Before("start")
  /\ sem' = NoPosts
  /\ pool' = NoPackets
  /\ \/ main' = "spawn" /\ masked' = TRUE /\ handler' = TRUE /\ UNCHANGED ret
     \/ main' = "join" /\ ret' = "tunnel" /\ UNCHANGED <<masked, handler>>
  /\ UNCHANGED <<group, popped, emitted, got, lock, tunnel, pppd, pending, sig, runs, signals>>

\* Unblocking delivers what is pending.
Unmask ==
  /\ masked' = FALSE /\ pending' = FALSE /\ sig' = (sig \/ pending)
  /\ sem' = IF pending THEN [sem EXCEPT !.stop = @ + 1] ELSE sem

Begins == [pppd_read |-> "read", pppd_write |-> "wait", ssl_read |-> "read", ssl_write |-> "pop",
           if_config |-> "wait"]

ofv_thread_start ==
  /\ Before("spawn") /\ started < Len(Entries)
  /\ \/ /\ thr' = [thr EXCEPT ![Entries[started + 1]] = Begins[Entries[started + 1]]]
        /\ started' = started + 1
        /\ UNCHANGED <<main, cancel, sem, masked, pending, sig, ret>>
     \/ /\ main' = "join" /\ ret' = "tunnel"
        /\ Unmask
        /\ cancel' = {Entries[i] : i \in 1..started}
        /\ UNCHANGED <<thr, started>>
  /\ UNCHANGED <<traffic, lock, tunnel, pppd, handler, runs, signals>>

AllStarted ==
  /\ Before("spawn") /\ started = Len(Entries)
  /\ main' = "wait" /\ Unmask
  /\ UNCHANGED <<group, traffic, lock, tunnel, pppd, handler, ret, runs, signals>>

\* sem_wait(&sem_stop_io), then pthread_cancel on every worker.
io_loop ==
  /\ Before("wait") /\ sem.stop > 0
  /\ sem' = [sem EXCEPT !.stop = @ - 1]
  /\ cancel' = {Entries[i] : i \in 1..started}
  /\ main' = "join"
  /\ UNCHANGED <<thr, started, traffic, lock, tunnel, pppd, signal, ret, runs>>

\* Pools and semaphores are destroyed; what this round sent is history.
Destroyed ==
  /\ pool' = NoPackets /\ popped' = Zeroes /\ emitted' = Zeroes /\ got' = NoPackets
  /\ sem' = NoPosts

\* Mutant: the loop over the workers stops one short.
JoinShort ==
  /\ Before("join")
  /\ \A i \in 2..started : thr[Entries[i]] \in Ended
  /\ started' = 0 /\ cancel' = {}
  /\ Destroyed
  /\ main' = "down"
  /\ UNCHANGED <<thr, lock, tunnel, pppd, signal, ret, runs>>

\* Every worker created is joined.  The cancellation of a worker that has ended by itself may be
\* an error, which io_loop returns.
ofv_thread_join ==
  /\ Before("join")
  /\ \A i \in 1..started : thr[Entries[i]] \in Ended
  /\ started' = 0 /\ cancel' = {}
  /\ Destroyed
  /\ main' = "down"
  /\ ret' = "tunnel" \/ ret' = ret
  /\ UNCHANGED <<thr, lock, tunnel, pppd, signal, runs>>

CleanedUp(failed) == [tunnel EXCEPT !.cleaned = TRUE, !.cleanupFailed = failed]

\* The disconnecting event, then on_ppp_if_down.
on_ppp_if_down ==
  /\ Before("down") /\ CanEmit
  /\ \E failed \in BOOLEAN : tunnel' = CleanedUp(failed)
  /\ main' = "terminate"
  /\ UNCHANGED <<group, sem, traffic, lock, pppd, signal, ret, runs>>

\* waitpid; pppd's status for a hangup is a success only after a signal.
pppd_terminate ==
  /\ Before("terminate") /\ pppd \in {"ok", "error"}
  /\ ret' = IF ret = "ok" /\ pppd = "error" THEN (IF sig THEN "ok" ELSE "tunnel") ELSE ret
  /\ main' = "report"
  /\ UNCHANGED <<group, sem, traffic, lock, tunnel, pppd, signal, runs>>

\* What main() does with the end of a round.
AfterRound == IF Persistent /\ ~sig THEN "sleep" ELSE "exit"

\* err_tunnel: the cleanup if there was none (the release of what the manager still holds can
\* fail), the exit code, the error event; a gateway whose name did not resolve gets no logout.
run_tunnel ==
  /\ Before("report") /\ CanEmit
  /\ \/ tunnel.cleaned /\ UNCHANGED tunnel
     \/ ~tunnel.cleaned /\ \E failed \in {FALSE, Native} : tunnel' = CleanedUp(failed)
  /\ ret' = IF tunnel'.cleanupFailed \/ tunnel'.applyFailed THEN "config" ELSE ret
  /\ main' = "logout" \/ (ret = "setup" /\ main' = AfterRound)
  /\ UNCHANGED <<group, sem, traffic, lock, pppd, signal, runs>>

\* ssl_connect, auth_log_out and ssl_disconnect: no deadline bounds them.
auth_log_out ==
  /\ Before("logout")
  /\ main' = AfterRound
  /\ UNCHANGED <<group, sem, traffic, lock, tunnel, pppd, signal, ret, runs>>

\* main(): once more, unless a signal arrived.
Again ==
  /\ Before("sleep")
  /\ \/ sig /\ main' = "exit" /\ UNCHANGED <<thr, tunnel, pppd, ret, runs>>
     \/ /\ ~sig /\ runs < MaxRuns /\ main' = "setup"
        /\ runs' = runs + 1
        /\ thr' = Idle /\ tunnel' = NoTunnel /\ pppd' = "none" /\ ret' = "ok"
  /\ UNCHANGED <<started, cancel, sem, traffic, lock, signal>>

Step ==
  \/ StartIo \/ ofv_thread_start \/ AllStarted \/ io_loop \/ ofv_thread_join
  \/ on_ppp_if_down \/ pppd_terminate \/ run_tunnel \/ Again

\* The main thread as it talks to the gateway.
Exchange == Setup \/ auth_log_out

IoNext == Signal \/ PppdEnds \/ Work \/ Step \/ Exchange \/ \E w \in Workers : Cancelled(w)

IoSpec == IoInit /\ [][IoNext]_ioVars

\* What a worker does by itself, its own cancellation included; of the reads, only that of a pty
\* whose pppd has ended is sure to return.
WorkerStep(w) ==
  \/ Cancelled(w) \/ PostStop(w)
  \/ w = "pppd_read" /\ pppd # "running" /\ ReadFails("pty_to_ssl")
  \/ w = "pppd_write" /\ pppd_write
  \/ w = "if_config" /\ (if_config \/ PollInterface \/ on_ppp_if_up \/ Emitted)
  \/ \E p \in Pools : w = WriterOf[p] /\ (pool_pop(p) \/ Write(p))

\* The scheduler runs every thread that can run; whoever started the engine reads its event
\* stream; pppd ends once its pty is closed.  Nothing is asked of the gateway: an Exchange may
\* never end.
IoFairSpec ==
  /\ IoSpec
  /\ WF_ioVars(Step)
  /\ WF_ioVars(main = "terminate" /\ PppdEnds)
  /\ \A w \in Workers : WF_ioVars(WorkerStep(w))

----------------------------------------------------------------------------
(* Properties *)

\* Packets leave in the order they came, each once (pool_push, pool_pop): what a side received,
\* what its writer holds and what is queued is exactly what the other side sent, except for the
\* packets pppd_write dropped.
Conveyed ==
  \A p \in Pools :
    LET carried == got[p] \o (IF popped[p] = 0 THEN <<>> ELSE <<popped[p]>>) \o pool[p]
        gone == {i \in 1..Len(got[p]) : p = "ssl_to_pty" /\ got[p][i] = Dropped}
    IN main = "wait" /\ thr[WriterOf[p]] \notin {"post"} \cup Ended =>
         carried = [i \in 1..emitted[p] |-> IF i \in gone THEN Dropped ELSE i]

\* Nothing is written to pppd before it has talked ("otherwise unpredictable", pppd_write).
PppdTalksFirst == got["ssl_to_pty"] # <<>> => emitted["pty_to_ssl"] > 0

\* Pools and semaphores are destroyed only when no worker is left to use them, partial startup
\* and cancellation included (ofv_thread_join).
NoWorkerLeft == main \in {"setup", "start", "down", "terminate", "report", "logout", "sleep",
                         "exit"} => \A w \in Workers : thr[w] \in Ended

\* A configuration that failed is in the exit code (OFV_EXIT_CONFIG_FAILED is not retryable),
\* whatever else stopped the engine meanwhile (on_ppp_if_up, run_tunnel).
FailureTold == main = "exit" /\ tunnel.applied = "failed" => ret = "config"

\* A worker has given up, a signal has been posted or is pending in this round's io_loop, or
\* the teardown has begun.  Not here: a signal that came before io_loop initialised its
\* semaphores, which has been forgotten (SEM_INIT(&sem_stop_io)), and a setup that hangs.
Stopping ==
  \/ main \in {"spawn", "wait"} /\ (sem.stop > 0 \/ pending \/ \E w \in Workers : thr[w] = "post")
  \/ main \in {"join", "down", "terminate", "report"}

\* A worker was cancelled while it wrote an event: nobody gives event_mutex back.
LockAbandoned == lock \in Workers /\ thr[lock] = "cancelled"

\* The round is over but for the logout, and no other one follows a signal.
RoundOver == main \in {"logout", "exit", "killed"} \/ (main = "sleep" /\ ~sig)

\* The workers carry every packet they do not drop once and in order, wait for pppd's first one,
\* none of them outlives the pools and semaphores they share, and a failed
\* configuration is what the process ends with.
ThreadsSound == IoTypeOK /\ Conveyed /\ PppdTalksFirst /\ NoWorkerLeft /\ FailureTold

\* A stop that reaches io_loop, a worker's or a signal's, takes the main thread through
\* cancellation, cleanup, pppd's end and the exit code to the logout, and a signal between two
\* rounds ends the process.  What keeps the engine from ending is named here: an event lock lost
\* to cancellation (event_emit), a post forgotten between two rounds (io_loop), an exchange with
\* the gateway that never returns (ssl_connect and the HTTP requests have no deadline).
EngineStops == Stopping \/ (main = "sleep" /\ sig) ~> RoundOver \/ LockAbandoned

----------------------------------------------------------------------------
(* The inductive strengthening of ThreadsSound *)

\* Only workers that were created and not joined are alive; a round begins with none.
WorkersCounted ==
  /\ NoWorkerLeft
  /\ main \in {"spawn", "wait", "join"} =>
       \A w \in Workers : thr[w] \notin Ended => w \in {Entries[i] : i \in 1..started}
  /\ main \in {"setup", "start"} => thr = Idle
  /\ main \in {"setup", "start", "down", "terminate", "report", "logout", "sleep"} =>
       started = 0 /\ emitted = Zeroes /\ popped = Zeroes /\ got = NoPackets
  /\ main = "spawn" => \A i \in started + 1 .. Len(Entries) : thr[Entries[i]] = "none"

\* What each side has received, its writer holds and its pool keeps, by number.
InHand(p) == IF thr[WriterOf[p]] = "write" THEN 1 ELSE 0

Delivered(p, i) == got[p][i] = i \/ (p = "ssl_to_pty" /\ got[p][i] = Dropped)

PacketsNumbered ==
  \A p \in Pools :
    main \in {"spawn", "wait"} /\ thr[WriterOf[p]] \notin {"post", "done", "cancelled"} =>
      /\ popped[p] = IF thr[WriterOf[p]] = "write" THEN Len(got[p]) + 1 ELSE 0
      /\ emitted[p] = Len(got[p]) + InHand(p) + Len(pool[p])
      /\ \A i \in 1..Len(got[p]) : Delivered(p, i)
      /\ \A i \in 1..Len(pool[p]) : pool[p][i] = Len(got[p]) + InHand(p) + i

\* sem_pppd_ready is posted by pppd's first packet of this round.
ReadyMeansTalk ==
  /\ main = "spawn" \/ thr["pppd_write"] = "wait" => sem.ready = 0 \/ emitted["pty_to_ssl"] > 0
  /\ thr["pppd_write"] \in {"pop", "write"} => emitted["pty_to_ssl"] > 0
  /\ PppdTalksFirst

\* A failed configuration is noted before event_mutex is given back.
FailureNoted ==
  /\ lock = Unowned \/ (Events /\ lock = "if_config")
  /\ tunnel.applied = "failed" => tunnel.applyFailed \/ lock = "if_config"
  /\ main \in {"logout", "sleep", "exit"} /\ tunnel.applied = "failed" => ret = "config"

IoInv == IoTypeOK /\ WorkersCounted /\ PacketsNumbered /\ ReadyMeansTalk /\ FailureNoted
=============================================================================

------------------------ MODULE DesktopManagerProofs ------------------------
(***************************************************************************)
(* The safety properties of the desktop's connections for any profiles,    *)
(* attempts, requests, failures and crashes: NothingForgotten, OneOwner,   *)
(* ChildrenWatched, ExitLeavesNothing and StopHonoured.                    *)
(*                                                                         *)
(* The invariant behind them, DesktopInv, has three threads of argument:   *)
(* the lifecycle mutex makes the start between its second look and the     *)
(* registration of the instance the only one, an attempt number is given   *)
(* to one command, and an instance runs exactly while its monitor watches  *)
(* its engine.  StopHonoured needs RetryInv as well: a generation has at   *)
(* most one automatic start, and a stop sees it or takes its generation.   *)
(***************************************************************************)
EXTENDS DesktopManager, SequenceTheorems, FiniteSetTheorems, TLAPS

\* Names for values that are transparent everywhere below.
USE DEF Up, Quitter, Free, NoProfile

\* The names of threads and locks are no profiles.
LEMMA NamesApart ==
  /\ Quitter \notin Profile /\ Free \notin Profile /\ Free \notin Thread /\ NoProfile \notin Profile
  /\ Profile \subseteq Thread /\ Quitter \in Thread
  /\ \A t \in Thread : t # Quitter => t \in Profile
BY DesktopAssumption DEF Thread

\* The constants of the records.
LEMMA NothingTyped ==
  /\ NoThread \in ThreadState /\ NoInst \in Instance /\ NoMon \in Monitor
  /\ NoThread.pc = "idle" /\ NoThread.op = "none" /\ ~NoThread.cancelled /\ NoThread.next = 0
  /\ NoInst.id = 0 /\ ~NoInst.running /\ ~NoInst.failed /\ NoMon.pc = "none"
<1>1. 0 \in 0 .. MaxAttempt
  BY DesktopAssumption
<1>2. NoThread \in ThreadState
  BY <1>1 DEF NoThread, ThreadState, CommandPc, Statuses
<1>3. NoInst \in Instance
  BY <1>1 DEF NoInst, Instance, Statuses
<1>4. NoMon \in Monitor
  BY DEF NoMon, Monitor
<1> QED BY <1>2, <1>3, <1>4 DEF NoThread, NoInst, NoMon

\* A thread that moves: what the others see of it.
Becomes(t, c) ==
  /\ th' \in [Thread -> ThreadState] /\ th'[t] = c
  /\ \A u \in Thread : u # t => th'[u] = th[u]

\* A thread set to a state becomes it.
LEMMA Becoming ==
  ASSUME Typed, NEW t \in Thread, NEW c \in ThreadState, th' = [th EXCEPT ![t] = c]
  PROVE  Becomes(t, c)
BY DEF Typed, Becomes

\* Only the program counter moves.
LEMMA Going ==
  ASSUME Typed, NEW t \in Thread, NEW pc \in CommandPc \cup {"lock", "next", "wait"}, Goto(t, pc)
  PROVE  /\ Becomes(t, [th[t] EXCEPT !.pc = pc])
         /\ th'[t].pc = pc /\ th'[t].op = th[t].op /\ th'[t].p = th[t].p /\ th'[t].a = th[t].a
         /\ th'[t].next = th[t].next /\ th'[t].gen = th[t].gen /\ th'[t].prev = th[t].prev
         /\ th'[t].cancelled = th[t].cancelled
<1>1. th[t] \in ThreadState
  BY DEF Typed
<1>2. [th[t] EXCEPT !.pc = pc] \in ThreadState
  BY <1>1 DEF ThreadState
<1>3. Becomes(t, [th[t] EXCEPT !.pc = pc])
  BY <1>2, Becoming DEF Goto
<1> QED BY <1>1, <1>3 DEF Becomes, ThreadState

\* The fields of a thread.
LEMMA ThreadTyped ==
  ASSUME Typed, NEW t \in Thread
  PROVE  /\ th[t] \in ThreadState
         /\ th[t].pc \in CommandPc \cup {"lock", "next", "wait"} /\ th[t].op \in Commands \cup {"none"}
         /\ th[t].p \in Profile \cup {NoProfile} /\ th[t].a \in 0 .. MaxAttempt
         /\ th[t].next \in 0 .. MaxAttempt /\ th[t].gen \in Nat /\ th[t].prev \in Statuses
         /\ th[t].cancelled \in BOOLEAN /\ th[t].todo \in SUBSET Profile /\ th[t].errors \in BOOLEAN
BY DEF Typed, ThreadState

\* The fields of an instance and of a monitor.
LEMMA InstTyped ==
  ASSUME Typed, NEW p \in Profile
  PROVE  /\ inst[p] \in Instance /\ inst[p].id \in 0 .. MaxAttempt /\ inst[p].running \in BOOLEAN
         /\ inst[p].user \in BOOLEAN /\ inst[p].blocked \in BOOLEAN /\ inst[p].failed \in BOOLEAN
         /\ inst[p].status \in Statuses
BY DEF Typed, Instance

\* The fields of a monitor.
LEMMA MonTyped ==
  ASSUME Typed, NEW a \in Attempt
  PROVE  /\ mon[a] \in Monitor /\ mon[a].pc \in {"none", "unlink", "done"} \cup Watching
         /\ mon[a].retry \in Nat /\ mon[a].complete \in BOOLEAN /\ mon[a].p \in Profile \cup {NoProfile}
BY DEF Typed, Monitor

\* Numbers of attempts.
LEMMA AttemptIs == \A a : a \in Attempt <=> a \in Nat /\ 1 <= a /\ a <= MaxAttempt
BY DesktopAssumption DEF Attempt

\* Numbers given out are numbers of attempts.
LEMMA Given ==
  ASSUME Typed
  PROVE  used \in Nat /\ used <= MaxAttempt /\ \A a \in 1 .. used : a \in Attempt
<1>1. used \in Nat /\ used <= MaxAttempt /\ MaxAttempt \in Nat
  BY DesktopAssumption DEF Typed
<1> QED BY <1>1, AttemptIs

\* The command of a profile ends: it holds nothing any more.
LEMMA EndIs ==
  ASSUME Typed, ThreadsHold, NEW t \in Profile, th[t].pc # "idle", NEW ok \in BOOLEAN, End(t, ok)
  PROVE  /\ Becomes(t, NoThread) /\ th'[t] = NoThread
         /\ lifecycle' = Unlocked(t) /\ lifecycle' \in Thread \cup {Free}
         /\ starting' \subseteq starting /\ starting \ {t} \subseteq starting'
         /\ th[t].pc \in StartPc \/ th[t].cancelled => starting' = starting \ {t}
         /\ stopped' \subseteq Profile /\ stopped \subseteq stopped'
         /\ stopped' \subseteq stopped \cup {t}
         /\ t \in stopped' => t \in stopped \/ (ok /\ th[t].op \in {"stop", "disconnect"})
<1>1. Becomes(t, NoThread)
  BY Becoming, NothingTyped, NamesApart DEF End
<1>2. th[t].p = t
  BY DEF ThreadsHold, Holds
<1>3. lifecycle' = Unlocked(t) /\ lifecycle' \in Thread \cup {Free}
  BY NamesApart DEF End, Unlocked, Typed
<1>4. starting' = starting \/ starting' = starting \ {t}
  BY <1>2 DEF End
<1>5. th[t].pc \in StartPc \/ th[t].cancelled => starting' = starting \ {t}
  BY <1>2 DEF End, ThreadsHold, Holds, Starters
<1>6. \/ stopped' = stopped
      \/ stopped' = stopped \cup {t} /\ ok /\ th[t].op \in {"stop", "disconnect"}
  BY <1>2 DEF End
<1> QED BY <1>1, <1>3, <1>4, <1>5, <1>6 DEF Becomes, Typed

\* The instances are the same connections as before, and none that runs is
\* shown as terminal.
Same ==
  \A p \in Profile :
    /\ inst'[p].id = inst[p].id /\ inst'[p].running = inst[p].running /\ inst'[p].failed = inst[p].failed
    /\ inst'[p].running => inst'[p].status \notin Terminal

\* Unchanged instances are the same.
LEMMA SameKept ==
  ASSUME DesktopInv, UNCHANGED inst
  PROVE  Same
BY DEF DesktopInv, InstancesWatched, Same

\* Engines are as they were, but for one that exited, is watched and not held,
\* and is reaped.
Reaped ==
  \A a \in Attempt :
    \/ engine'[a] = engine[a]
    \/ /\ engine[a] \in {"zombie", "gone"} /\ engine'[a] = "gone"
       /\ mon[a].pc # "none" /\ a \notin held

\* Who moves one thread outside a spawn and outside the child lock disturbs
\* nothing that is not said of threads.
LEMMA QuietWorld ==
  ASSUME DesktopInv, Up, Same, Reaped, NEW t \in Thread, Becomes(t, th'[t]),
         UNCHANGED <<app, stale, records, clean, mon, used>>,
         \A u \in Thread : u # t /\ th[u].pc \in {"mark", "signal"} => th[u].a \in held',
         th'[t].pc \notin LockedPc \ {"record"}, th[t].pc \notin {"bind", "register"},
         th'[t].pc \in {"mark", "signal"} =>
           /\ th'[t].a \in held' /\ engine'[th'[t].a] \in {"run", "zombie"}
           /\ \A u \in Thread : u # t /\ th[u].pc \in {"mark", "signal"} => th[u].a # th'[t].a,
         th'[t].pc \in StopPc \ {"find"} => th'[t].a \in Attempt /\ mon[th'[t].a].pc # "none",
         th'[t].pc \in {"flag", "child", "mark", "signal"} => (inst[th'[t].p].running => th'[t].prev \notin Terminal),
         \A u \in Thread : th[u].pc \in StopPc => th[u].p \in Profile,
         th'[t].pc \in StopPc => th'[t].p \in Profile
  PROVE  /\ \A a : Fresh(a) => Fresh(a)'
         /\ AttemptsBuilt' /\ InstancesWatched' /\ OwnersKnown'
         /\ ChildrenHeld' /\ DownMeansFiles' /\ ExitLeavesNothing'
<1>1. \A u \in Thread : u # t => th'[u] = th[u]
  BY DEF Becomes
<1>2. \A p \in Profile : p \in Thread
  BY NamesApart
<1>12. \A a \in 1 .. used : a \in Attempt
  BY Given DEF DesktopInv
<1>3. \A a : Fresh(a) => Fresh(a)'
  <2>2. \A a \in Attempt : mon[a].pc = "none" => engine'[a] = engine[a]
    BY DEF Reaped
  <2> QED BY <1>12, <2>2 DEF Fresh, Same
<1>7. AttemptsBuilt'
  <2> SUFFICES ASSUME NEW p \in Profile, th'[p].pc \in LockedPc \ {"record"}
               PROVE  Built(p)'
    BY DEF AttemptsBuilt
  <2>1. p # t /\ th'[p] = th[p]
    BY <1>1, <1>2
  <2>2. Built(p)
    BY <2>1 DEF AttemptsBuilt, DesktopInv
  <2>3. th[p].a \in Attempt
    BY <1>12, <2>2 DEF Built
  <2>4. engine'[th[p].a] = engine[th[p].a]
    BY <2>2, <2>3 DEF Built, Reaped
  <2> QED BY <2>1, <2>2, <2>4 DEF Built, Same
<1>8. InstancesWatched'
  <2>1. \A a \in Attempt : mon[a].pc # "none" => mon[a].p \in Profile
    BY DEF InstancesWatched, DesktopInv
  <2>2. \A p \in Profile : inst[p].id = inst'[p].id
    BY DEF Same
  <2>3. InstancesWatched!1'
    BY DEF InstancesWatched, DesktopInv, Same
  <2>4. ASSUME NEW a \in Attempt PROVE InstancesWatched!2!(a)'
    BY <2>1 DEF InstancesWatched, DesktopInv, Same, Watching, Reaped
  <2> QED BY <2>3, <2>4 DEF InstancesWatched
<1>9. OwnersKnown'
  <2>1. \A p \in Profile : th[p].pc \in {"bind", "register"} => th'[p] = th[p]
    BY <1>1, <1>2
  <2>2. \A a : Known(a) => Known(a)'
    BY <2>1 DEF Known, Same
  <2>3. \A a \in Attempt : Owes(a)' => Owes(a)
    BY DEF Owes, Alive, Reaped
  <2>4. \A a \in Attempt : engine[a] = "none" => engine'[a] = "none"
    BY DEF Reaped
  <2> QED BY <2>2, <2>3, <2>4 DEF OwnersKnown, DesktopInv
<1>10. ChildrenHeld'
  <2>1. ChildrenHeld!1'
    BY <1>1 DEF ChildrenHeld, DesktopInv
  <2>2. ASSUME NEW u \in Thread, u # t, th'[u].pc \in {"mark", "signal"}
        PROVE  /\ th'[u] = th[u] /\ th'[u].a \in held' /\ engine'[th'[u].a] \in {"run", "zombie"}
    <3>1. th'[u] = th[u] /\ th'[u].a \in held'
      BY <1>1, <2>2
    <3>2. th[u].a \in held /\ engine[th[u].a] \in {"run", "zombie"} /\ th[u].a \in Attempt
      BY <2>2, <3>1 DEF ChildrenHeld, DesktopInv, StopPc
    <3> QED BY <3>1, <3>2 DEF Reaped
  <2>4. ChildrenHeld!2'
    BY <2>2 DEF ChildrenHeld
  <2>5. ChildrenHeld!3'
    BY <2>2 DEF ChildrenHeld, DesktopInv
  <2>3. ChildrenHeld!4'
    BY <1>1 DEF ChildrenHeld, DesktopInv, Same, StopPc
  <2> QED BY <2>1, <2>3, <2>4, <2>5 DEF ChildrenHeld
<1>11. DownMeansFiles' /\ ExitLeavesNothing'
  <2>1. app' = "up"
    OBVIOUS
  <2> QED BY <2>1 DEF DownMeansFiles, ExitLeavesNothing
<1> QED BY <1>3, <1>7, <1>8, <1>9, <1>10, <1>11

\* The same, with the mailboxes unchanged and no number taken.
LEMMA QuietMove ==
  ASSUME DesktopInv, Up, Same, Reaped, NEW t \in Thread, Becomes(t, th'[t]),
         UNCHANGED <<app, stale, records, clean, mon, queue, used>>,
         \A u \in Thread : u # t /\ th[u].pc \in {"mark", "signal"} => th[u].a \in held',
         th'[t].pc \notin LockedPc \ {"record"}, th[t].pc \notin {"bind", "register"},
         t \in Profile /\ Waiting(t)' => Waiting(t) /\ th'[t].next = th[t].next,
         th'[t].next \in 0 .. used,
         th'[t].pc \in {"mark", "signal"} =>
           /\ th'[t].a \in held' /\ engine'[th'[t].a] \in {"run", "zombie"}
           /\ \A u \in Thread : u # t /\ th[u].pc \in {"mark", "signal"} => th[u].a # th'[t].a,
         th'[t].pc \in StopPc \ {"find"} => th'[t].a \in Attempt /\ mon[th'[t].a].pc # "none",
         th'[t].pc \in {"flag", "child", "mark", "signal"} => (inst[th'[t].p].running => th'[t].prev \notin Terminal),
         \A u \in Thread : th[u].pc \in StopPc => th[u].p \in Profile,
         th'[t].pc \in StopPc => th'[t].p \in Profile
  PROVE  /\ NumbersFresh' /\ NumbersGiven' /\ AttemptsBuilt' /\ InstancesWatched' /\ OwnersKnown'
         /\ ChildrenHeld' /\ DownMeansFiles' /\ ExitLeavesNothing'
<1>1. \A u \in Thread : u # t => th'[u] = th[u]
  BY DEF Becomes
<1>2. \A p \in Profile : p \in Thread
  BY NamesApart
<1>3. /\ \A a : Fresh(a) => Fresh(a)'
      /\ AttemptsBuilt' /\ InstancesWatched' /\ OwnersKnown' /\ ChildrenHeld' /\ DownMeansFiles' /\ ExitLeavesNothing'
  BY QuietWorld
<1>4. \A p \in Profile : Waiting(p)' => Waiting(p) /\ th'[p].next = th[p].next
  BY <1>1, <1>2 DEF Waiting
<1>5. NumbersFresh'
  BY <1>3, <1>4 DEF NumbersFresh, DesktopInv
<1>6. NumbersGiven'
  BY <1>1 DEF NumbersGiven, DesktopInv
<1> QED BY <1>3, <1>5, <1>6

\* Nothing that matters moves.
LEMMA Quiet ==
  ASSUME DesktopInv, Typed',
         UNCHANGED <<app, exists, gen, starting, inst, stale, records, engine, clean, held, mon,
                     lifecycle, th, queue, used>>
  PROVE  DesktopInv'
<1>1. ThreadsHold' /\ NumbersGiven'
  BY DEF DesktopInv, ThreadsHold, Holds, QuitHolds, NumbersGiven
<1>2. StartsAlone'
  BY DEF DesktopInv, StartsAlone, Starts, Alone, HasRunning
<1>3. NumbersFresh'
  BY DEF DesktopInv, NumbersFresh, Fresh, Waiting
<1>4. AttemptsBuilt' /\ InstancesWatched'
  BY DEF DesktopInv, AttemptsBuilt, Built, InstancesWatched
<1>5. OwnersKnown'
  <2>1. \A a : (Known(a)' <=> Known(a)) /\ (Owes(a)' <=> Owes(a))
    BY DEF Owes, Alive, Known
  <2> QED BY <2>1 DEF DesktopInv, OwnersKnown
<1>6. ChildrenHeld' /\ DownMeansFiles' /\ ExitLeavesNothing'
  BY DEF DesktopInv, ChildrenHeld, DownMeansFiles, ExitLeavesNothing, Alive
<1> QED BY <1>1, <1>2, <1>3, <1>4, <1>5, <1>6 DEF DesktopInv

\* What is said of the threads when one of them moves.
LEMMA HoldMove ==
  ASSUME ThreadsHold, NEW t \in Profile, Becomes(t, th'[t]), Holds(t)',
         \A u \in Thread : u # t /\ lifecycle = u => lifecycle' = u
  PROVE  ThreadsHold'
<1>1. \A p \in Profile : p # t => Holds(p)'
  BY NamesApart DEF ThreadsHold, Holds, Becomes
<1>2. QuitHolds'
  <2>1. th'[Quitter] = th[Quitter]
    BY NamesApart DEF Becomes
  <2> QED BY <2>1, NamesApart DEF ThreadsHold, QuitHolds
<1> QED BY <1>1, <1>2 DEF ThreadsHold

\* The same when the quit thread moves.
LEMMA QuitterMove ==
  ASSUME ThreadsHold, Becomes(Quitter, th'[Quitter]), QuitHolds',
         \A u \in Profile : lifecycle = u => lifecycle' = u
  PROVE  ThreadsHold'
<1>1. \A p \in Profile : th'[p] = th[p]
  BY NamesApart DEF Becomes
<1> QED BY <1>1 DEF ThreadsHold, Holds

\* What is said of the starts when one thread moves: the others stay as alone
\* as they were.
LEMMA StartsMove ==
  ASSUME StartsAlone, Typed, Typed', NEW t \in Thread, Becomes(t, th'[t]),
         \/ t \in starting
         \/ stale' \subseteq stale /\ \A q \in Profile : HasRunning(q)' => HasRunning(q),
         \A p \in Profile : p # t =>
           /\ gen[p] <= gen'[p] /\ (p \in exists => p \in exists')
           /\ ~inst[p].running => ~inst'[p].running
           /\ p \in starting' <=> p \in starting,
         t \in starting' => /\ th'[t].pc \in StartPc \/ th'[t].cancelled
                            /\ t \in starting \/ starting = {},
         t \in Profile /\ th'[t].pc \in StartPc => Starts(t)',
         \A p \in Profile : p # t /\ HasRunning(p)' => HasRunning(p),
         t \in Profile /\ th'[t].pc = "mutate" => ~HasRunning(t)'
  PROVE  StartsAlone'
<1>1. \A p \in Profile : p \in Thread
  BY NamesApart
<1>2. starting \subseteq Profile /\ starting' \subseteq Profile
  BY DEF Typed
<1>3. \A p \in starting' : th'[p].pc \in StartPc \/ th'[p].cancelled
  BY <1>1, <1>2 DEF StartsAlone, Becomes
<1>4. \A p, q \in starting' : p = q
  BY <1>2 DEF StartsAlone
<1>5. ASSUME NEW p \in Profile, th'[p].pc \in StartPc, p # t
      PROVE  Starts(p)'
  <2>1. th'[p] = th[p]
    BY <1>1, <1>5 DEF Becomes
  <2>2. Starts(p)
    BY <1>5, <2>1 DEF StartsAlone
  <2>3. Alone(p) => Alone(p)'
    BY <1>2, <1>5 DEF Alone, StartsAlone
  <2>4. gen[p] \in Nat /\ gen'[p] \in Nat /\ th[p].gen \in Nat /\ gen[p] <= gen'[p]
    BY <1>5, ThreadTyped, <1>1 DEF Typed
  <2> QED BY <1>5, <2>1, <2>2, <2>3, <2>4 DEF Starts
<1>6. \A p \in Profile : th'[p].pc = "mutate" => ~HasRunning(p)'
  BY <1>1 DEF StartsAlone, Becomes
<1> QED BY <1>3, <1>4, <1>5, <1>6 DEF StartsAlone

\* The world, not the threads.
LEMMA StartsStay ==
  ASSUME StartsAlone, Typed, Typed', UNCHANGED <<th, starting, exists>>,
         stale' \subseteq stale, \A q \in Profile : HasRunning(q)' => HasRunning(q),
         \A p \in Profile : gen[p] <= gen'[p] /\ (~inst[p].running => ~inst'[p].running)
  PROVE  StartsAlone'
<1>1. ASSUME NEW p \in Profile, th'[p].pc \in StartPc
      PROVE  Starts(p)'
  <2>1. Starts(p) /\ (Alone(p) => Alone(p)')
    BY <1>1 DEF StartsAlone, Alone
  <2>4. gen[p] \in Nat /\ gen'[p] \in Nat /\ th[p].gen \in Nat /\ gen[p] <= gen'[p]
    BY ThreadTyped, NamesApart DEF Typed
  <2> QED BY <2>1, <2>4 DEF Starts
<1> QED BY <1>1 DEF StartsAlone

\* Numbers stay fresh where nothing happens under them.
LEMMA NumbersKept ==
  ASSUME NumbersFresh, UNCHANGED queue,
         \A a : Fresh(a) => Fresh(a)',
         \A p \in Profile : Waiting(p)' => Waiting(p) /\ th'[p].next = th[p].next
  PROVE  NumbersFresh'
BY DEF NumbersFresh

\* The attempt of a start is used up under its own number.
LEMMA NumberUsed ==
  ASSUME NumbersFresh, UNCHANGED queue, NEW t \in Profile, Waiting(t), ~Waiting(t)',
         \A a : Fresh(a) /\ a # th[t].next => Fresh(a)',
         \A p \in Profile : Waiting(p)' => Waiting(p) /\ th'[p].next = th[p].next
  PROVE  NumbersFresh'
BY DEF NumbersFresh

\* A command that ends waits for nothing and stops nothing.
LEMMA EndMoves ==
  ASSUME DesktopInv, Up, NEW t \in Profile, th[t].pc # "idle", NEW ok \in BOOLEAN, End(t, ok),
         UNCHANGED <<used, queue>>
  PROVE  /\ ThreadsHold' /\ NumbersGiven'
         /\ \A p \in Profile : Waiting(p)' => Waiting(p) /\ th'[p].next = th[p].next
         /\ \A p \in Profile : p # t => th'[p] = th[p]
         /\ \A p \in Profile : p # t => (p \in starting' <=> p \in starting)
         /\ t \notin starting'
<1>1. Becomes(t, NoThread) /\ th'[t] = NoThread /\ lifecycle' = Unlocked(t)
  BY EndIs DEF DesktopInv
<1>2. Holds(t)'
  BY <1>1 DEF Holds, NoThread, CommandPc, LockedPc, StartPc, StopPc
<1>3. ThreadsHold'
  BY <1>1, <1>2, HoldMove DEF DesktopInv, Unlocked
<1>4. \A p \in Profile : p # t => th'[p] = th[p]
  BY <1>1, NamesApart DEF Becomes
<1>5. ~Waiting(t)'
  BY <1>1 DEF Waiting, NoThread
<1>6. NumbersGiven'
  <2>1. th'[t].next = 0 /\ used \in Nat /\ 0 \in 0 .. used'
    BY <1>1, NothingTyped, DesktopAssumption DEF DesktopInv, Typed
  <2> QED BY <1>1, <2>1 DEF DesktopInv, NumbersGiven, Becomes
<1>7. \A p \in Profile : p # t => (p \in starting' <=> p \in starting)
  BY EndIs DEF DesktopInv
<1>8. t \notin starting'
  <2>1. t \in starting => th[t].pc \in StartPc \/ th[t].cancelled
    BY DEF DesktopInv, StartsAlone
  <2>2. starting' \subseteq starting /\ (th[t].pc \in StartPc \/ th[t].cancelled => starting' = starting \ {t})
    BY EndIs DEF DesktopInv
  <2> QED BY <2>1, <2>2
<1> QED BY <1>3, <1>4, <1>5, <1>6, <1>7, <1>8 DEF Waiting

\* Every stop is of a profile.
LEMMA StopsOfProfiles ==
  ASSUME ThreadsHold
  PROVE  \A u \in Thread : th[u].pc \in StopPc => th[u].p \in Profile
BY NamesApart DEF ThreadsHold, Holds, QuitHolds, StopPc

\* A command that ends, and the world with it unchanged.
LEMMA EndQuiet ==
  ASSUME DesktopInv, Up, Typed', Same, Reaped, NEW t \in Profile, NEW ok \in BOOLEAN, End(t, ok),
         th[t].pc \notin {"idle", "bind", "register"},
         UNCHANGED <<app, stale, records, clean, mon, queue, used>>,
         \A u \in Thread : u # t /\ th[u].pc \in {"mark", "signal"} => th[u].a \in held',
         \A p \in Profile : p # t => gen[p] <= gen'[p] /\ (p \in exists => p \in exists')
  PROVE  DesktopInv'
<1>1. t \in Thread /\ Becomes(t, th'[t]) /\ th'[t] = NoThread
  BY EndIs, NamesApart DEF DesktopInv
<1>2. /\ th'[t].pc = "idle" /\ th'[t].next = 0 /\ ~th'[t].cancelled
      /\ 0 \in 0 .. used /\ ~Waiting(t)'
  BY <1>1, NothingTyped, Given DEF DesktopInv, Waiting
<1>3. ThreadsHold' /\ t \notin starting' /\ \A p \in Profile : p # t => (p \in starting' <=> p \in starting)
  BY EndMoves
<1>4. StartsAlone'
  <2>1. stale' \subseteq stale /\ \A q \in Profile : HasRunning(q)' => HasRunning(q)
    BY DEF HasRunning, Same
  <2>2. \A p \in Profile : ~inst[p].running => ~inst'[p].running
    BY DEF Same
  <2> QED BY <1>1, <1>2, <1>3, <2>1, <2>2, StartsMove DEF DesktopInv, StartPc
<1>5. \A u \in Thread : th[u].pc \in StopPc => th[u].p \in Profile
  BY StopsOfProfiles DEF DesktopInv
<1>6. /\ th'[t].pc \notin LockedPc /\ th'[t].pc \notin StopPc
  BY <1>2 DEF LockedPc, StopPc
<1>7. /\ NumbersFresh' /\ NumbersGiven' /\ AttemptsBuilt' /\ InstancesWatched' /\ OwnersKnown'
      /\ ChildrenHeld' /\ DownMeansFiles' /\ ExitLeavesNothing'
  BY <1>1, <1>2, <1>5, <1>6, QuietMove DEF StopPc
<1> QED BY <1>3, <1>4, <1>7 DEF DesktopInv

\* A command that goes on, and the world with it unchanged.
LEMMA MoveQuiet ==
  ASSUME DesktopInv, Up, Typed', Same, Reaped, NEW t \in Profile, Becomes(t, th'[t]),
         UNCHANGED <<app, exists, stale, records, clean, mon, queue, used>>,
         \A u \in Thread : u # t /\ th[u].pc \in {"mark", "signal"} => th[u].a \in held',
         \A p \in Profile : gen[p] <= gen'[p],
         th'[t].pc \notin LockedPc \ {"record"}, th[t].pc \notin {"bind", "register"},
         \A u \in Thread : u # t /\ lifecycle = u => lifecycle' = u,
         Holds(t)',
         starting' = starting \/ (starting = {} /\ starting' = {t}),
         t \in starting' => th'[t].pc \in StartPc \/ th'[t].cancelled,
         th'[t].pc \in StartPc => Starts(t)',
         th'[t].pc = "mutate" => ~HasRunning(t),
         Waiting(t)' => Waiting(t), th'[t].next = th[t].next,
         th'[t].pc \in {"mark", "signal"} =>
           /\ th'[t].a \in held' /\ engine'[th'[t].a] \in {"run", "zombie"}
           /\ \A u \in Thread : u # t /\ th[u].pc \in {"mark", "signal"} => th[u].a # th'[t].a,
         th'[t].pc \in StopPc \ {"find"} => th'[t].a \in Attempt /\ mon[th'[t].a].pc # "none",
         th'[t].pc \in {"flag", "child", "mark", "signal"} => (inst[th'[t].p].running => th'[t].prev \notin Terminal)
  PROVE  DesktopInv'
<1>1. t \in Thread
  BY NamesApart
<1>2. ThreadsHold'
  BY HoldMove DEF DesktopInv
<1>3. StartsAlone'
  <2>1. stale' \subseteq stale /\ \A q \in Profile : HasRunning(q)' => HasRunning(q)
    BY DEF HasRunning, Same
  <2>2. \A p \in Profile : ~inst[p].running => ~inst'[p].running
    BY DEF Same
  <2>3. \A p \in Profile : p # t =>
           /\ gen[p] <= gen'[p] /\ (p \in exists => p \in exists')
           /\ ~inst[p].running => ~inst'[p].running
           /\ p \in starting' <=> p \in starting
    BY <2>2
  <2> QED BY <1>1, <2>1, <2>3, StartsMove DEF DesktopInv
<1>5. \A u \in Thread : th[u].pc \in StopPc => th[u].p \in Profile
  BY StopsOfProfiles DEF DesktopInv
<1>6. th'[t].pc \in StopPc => th'[t].p \in Profile
  BY DEF Holds, StopPc
<1>7. th'[t].next \in 0 .. used
  BY <1>1 DEF DesktopInv, NumbersGiven
<1>8. /\ NumbersFresh' /\ NumbersGiven' /\ AttemptsBuilt' /\ InstancesWatched' /\ OwnersKnown'
      /\ ChildrenHeld' /\ DownMeansFiles' /\ ExitLeavesNothing'
  BY <1>1, <1>5, <1>6, <1>7, QuietMove
<1> QED BY <1>2, <1>3, <1>8 DEF DesktopInv

\* A quit that goes on, and the world with it unchanged.
LEMMA QuitQuiet ==
  ASSUME DesktopInv, Up, Typed', Same, Reaped, Becomes(Quitter, th'[Quitter]),
         UNCHANGED <<app, exists, starting, stale, records, clean, mon, queue, used>>,
         \A u \in Thread : u # Quitter /\ th[u].pc \in {"mark", "signal"} => th[u].a \in held',
         \A p \in Profile : gen[p] <= gen'[p],
         QuitHolds', \A u \in Profile : lifecycle = u => lifecycle' = u,
         th'[Quitter].next \in 0 .. used,
         th'[Quitter].pc \in {"mark", "signal"} =>
           /\ th'[Quitter].a \in held' /\ engine'[th'[Quitter].a] \in {"run", "zombie"}
           /\ \A u \in Thread : u # Quitter /\ th[u].pc \in {"mark", "signal"} => th[u].a # th'[Quitter].a,
         th'[Quitter].pc \in StopPc \ {"find"} => th'[Quitter].a \in Attempt /\ mon[th'[Quitter].a].pc # "none",
         th'[Quitter].pc \in {"flag", "child", "mark", "signal"} =>
           (inst[th'[Quitter].p].running => th'[Quitter].prev \notin Terminal)
  PROVE  DesktopInv'
<1>1. Quitter \in Thread /\ Quitter \notin Profile
  BY NamesApart
<1>2. ThreadsHold'
  BY QuitterMove DEF DesktopInv
<1>3. StartsAlone'
  <2>1. stale' \subseteq stale /\ \A q \in Profile : HasRunning(q)' => HasRunning(q)
    BY DEF HasRunning, Same
  <2>2. \A p \in Profile : ~inst[p].running => ~inst'[p].running
    BY DEF Same
  <2>3. Quitter \notin starting'
    BY <1>1 DEF Typed
  <2> QED BY <1>1, <2>1, <2>2, <2>3, StartsMove DEF DesktopInv
<1>5. \A u \in Thread : th[u].pc \in StopPc => th[u].p \in Profile
  BY StopsOfProfiles DEF DesktopInv
<1>6. th'[Quitter].pc \in StopPc => th'[Quitter].p \in Profile
  BY DEF QuitHolds
<1>7. th'[Quitter].pc \notin LockedPc /\ th[Quitter].pc \notin LockedPc
  BY DEF QuitHolds, LockedPc, StopPc, DesktopInv, ThreadsHold
<1>8. /\ NumbersFresh' /\ NumbersGiven' /\ AttemptsBuilt' /\ InstancesWatched' /\ OwnersKnown'
      /\ ChildrenHeld' /\ DownMeansFiles' /\ ExitLeavesNothing'
  BY <1>1, <1>5, <1>6, <1>7, QuietMove DEF LockedPc
<1> QED BY <1>2, <1>3, <1>8 DEF DesktopInv

\* A command belongs to its profile.
LEMMA Own ==
  ASSUME DesktopInv, NEW t \in Profile, th[t].pc # "idle"
  PROVE  /\ th[t].p = t /\ t \in Thread /\ th[t].op \in Commands
         /\ th[t].cancelled => th[t].pc \in StopPc /\ lifecycle = t
BY NamesApart, ThreadTyped DEF DesktopInv, ThreadsHold, Holds

\* A start that fails and asks to be retried.
LEMMA RetriedTyped ==
  ASSUME DesktopInv, NEW t \in Profile, th[t].pc # "idle", Retried(t)
  PROVE  timers' \subseteq Timer
<1>1. th[t].p = t /\ t \in Thread
  BY Own
<1>2. th[t].gen \in Nat /\ inst[t].id \in 0 .. MaxAttempt
  BY <1>1, ThreadTyped, InstTyped DEF DesktopInv
<1>3. [p |-> t, gen |-> th[t].gen, id |-> inst[t].id, pc |-> "failed"] \in Timer
  BY <1>2 DEF Timer
<1> QED BY <1>1, <1>3 DEF Retried, DesktopInv, Typed

\* A start that fails before it has a number in a file.
LEMMA StartFailsQuiet ==
  ASSUME DesktopInv, Up, NEW t \in Profile, th[t].pc \in {"resolve", "lifecycle", "record"},
         StartFails(t), UNCHANGED <<world, stale, used, asks, crashes>>, faults' \in Nat
  PROVE  DesktopInv'
<1>1. /\ Becomes(t, NoThread) /\ lifecycle' \in Thread \cup {Free} /\ starting' \subseteq starting
      /\ stopped' \subseteq Profile
  BY EndIs DEF StartFails, DesktopInv
<1>2. timers' \subseteq Timer
  BY RetriedTyped DEF StartFails
<1>3. Typed'
  BY <1>1, <1>2 DEF StartFails, DesktopInv, Typed, world, Becomes
<1>4. Same /\ Reaped
  BY SameKept DEF StartFails, Reaped, world
<1>5. \A p \in Profile : gen[p] <= gen'[p]
  BY DEF StartFails, DesktopInv, Typed
<1>6. \A u \in Thread : th[u].pc \in {"mark", "signal"} => th[u].a \in held'
  BY DEF DesktopInv, ChildrenHeld, world
<1> QED BY <1>3, <1>4, <1>5, <1>6, EndQuiet DEF StartFails, world

\* The next command of a mailbox.
LEMMA TakeStep ==
  ASSUME DesktopInv, NEW p \in Profile, Take(p)
  PROVE  DesktopInv'
<1> DEFINE c == Head(queue[p])
<1>1. /\ queue[p] \in Seq(Command) /\ queue[p] # <<>> /\ app = "up" /\ th[p].pc = "idle" /\ p \in Thread
      /\ queue' = [queue EXCEPT ![p] = Tail(@)]
  BY NamesApart DEF Take, At, DesktopInv, Typed
<1>2. /\ c \in Command /\ c = queue[p][1] /\ 1 \in DOMAIN queue[p] /\ Tail(queue[p]) \in Seq(Command)
      /\ \A i \in DOMAIN Tail(queue[p]) : i + 1 \in DOMAIN queue[p] /\ i \in Nat /\ i # 0
                                           /\ Tail(queue[p])[i] = queue[p][i + 1]
  <2>1. Len(queue[p]) \in Nat /\ Len(queue[p]) # 0 /\ DOMAIN queue[p] = 1 .. Len(queue[p])
    BY <1>1
  <2>2. c = queue[p][1] /\ 1 \in DOMAIN queue[p]
    BY <1>1, <2>1
  <2>3. c \in Command
    BY <1>1, <2>1, <2>2
  <2> QED BY <1>1, <2>1, <2>2, <2>3
<1>3. c.op \in Commands /\ c.gen \in Nat /\ c.a \in 0 .. MaxAttempt
  BY <1>2 DEF Command
<1> DEFINE go == CASE c.op \in {"start", "startup", "auto"} -> "admit"
                   [] c.op \in {"stop", "disconnect", "reconnect"} -> "find"
                   [] c.op = "delete" -> "check"
                   [] c.op = "save" -> "reserve"
           n == [NoThread EXCEPT !.op = c.op, !.p = p, !.gen = c.gen, !.next = c.a, !.pc = go]
<1>4. th' = [th EXCEPT ![p] = n]
  BY DEF Take
<1>5. /\ n.op = c.op /\ n.p = p /\ n.gen = c.gen /\ n.next = c.a /\ n.cancelled = FALSE
      /\ n.pc \in {"admit", "find", "check", "reserve"} /\ n.a = 0 /\ n.prev = "none"
      /\ n.pc = "admit" => c.op \in {"start", "startup", "auto"}
      /\ n \in ThreadState
  <2>1. go \in {"admit", "find", "check", "reserve"} /\ (go = "admit" => c.op \in {"start", "startup", "auto"})
    BY <1>3 DEF Commands
  <2>2. 0 \in 0 .. MaxAttempt
    BY DesktopAssumption
  <2> HIDE DEF go, c
  <2>4. /\ n.op = c.op /\ n.p = p /\ n.gen = c.gen /\ n.next = c.a /\ n.cancelled = FALSE
        /\ n.pc = go /\ n.a = 0 /\ n.prev = "none"
    BY DEF NoThread
  <2>5. n \in ThreadState
    BY <1>3, <2>1, NothingTyped DEF ThreadState, CommandPc, StopPc
  <2> QED BY <2>1, <2>4, <2>5
<1> HIDE DEF n
<1>6. Becomes(p, n) /\ th'[p] = n
  BY <1>1, <1>4, <1>5, Becoming DEF DesktopInv, Becomes
<1>7. \A q \in Profile : q # p => th'[q] = th[q] /\ queue'[q] = queue[q]
  BY <1>1, <1>6, NamesApart DEF Becomes, DesktopInv, Typed
<1>8. queue'[p] = Tail(queue[p])
  BY <1>1 DEF DesktopInv, Typed
<1>9. Typed'
  <2>1. queue' \in [Profile -> Seq(Command)]
    BY <1>1, <1>2 DEF DesktopInv, Typed
  <2> QED BY <1>6, <2>1 DEF Take, DesktopInv, Typed, store, world, counts, Becomes
<1>10. ThreadsHold'
  <2>1. Holds(p)'
    BY <1>3, <1>5, <1>6 DEF Holds, CommandPc, LockedPc, StartPc, StopPc, Starters, Commands
  <2> QED BY <1>6, <2>1, HoldMove DEF DesktopInv, Take
<1>11. p \notin starting
  BY <1>1, NothingTyped DEF DesktopInv, StartsAlone, StartPc, ThreadsHold, Holds
<1>12. StartsAlone'
  <2>1. stale' \subseteq stale /\ \A q \in Profile : HasRunning(q)' => HasRunning(q)
    BY DEF HasRunning, Take, store
  <2>2. th'[p].pc \notin StartPc /\ th'[p].pc # "mutate"
    BY <1>5, <1>6 DEF StartPc
  <2>3. \A q \in Profile : gen[q] <= gen'[q]
    BY DEF Take, store, DesktopInv, Typed
  <2> QED BY <1>1, <1>6, <1>9, <1>11, <2>1, <2>2, <2>3, StartsMove DEF DesktopInv, Take, store
<1>13. \A a : Fresh(a)' <=> Fresh(a)
  BY DEF Fresh, Take, store, world, counts
<1>14. Waiting(p)' => c.op \in Starters /\ th'[p].next = queue[p][1].a
  BY <1>2, <1>5, <1>6 DEF Waiting
<1>15. \A q \in Profile : q # p => (Waiting(q)' <=> Waiting(q)) /\ th'[q].next = th[q].next
  BY <1>7 DEF Waiting
<1>16. NumbersFresh'
  <2> DEFINE k(q, i) == IF q = p THEN i + 1 ELSE i
  <2>1. ASSUME NEW q \in Profile, NEW i \in DOMAIN queue'[q]
        PROVE  k(q, i) \in DOMAIN queue[q] /\ queue'[q][i] = queue[q][k(q, i)] /\ (q = p => k(q, i) # 1)
    <3>1. CASE q = p
      <4>1. i \in DOMAIN Tail(queue[p]) /\ queue'[q][i] = Tail(queue[p])[i]
        BY <1>8, <3>1
      <4>2. i + 1 \in DOMAIN queue[p] /\ i \in Nat /\ i # 0 /\ Tail(queue[p])[i] = queue[p][i + 1]
        BY <1>2, <4>1
      <4>3. k(q, i) = i + 1
        BY <3>1
      <4> QED BY <3>1, <4>1, <4>2, <4>3
    <3>2. CASE q # p
      BY <1>7, <3>2
    <3> QED BY <3>1, <3>2
  <2>2. ASSUME NEW i \in DOMAIN queue'[p], NEW j \in DOMAIN queue'[p], k(p, i) = k(p, j)
        PROVE  i = j
    BY <1>2, <1>8, <2>2
  <2>0. NumbersFresh
    BY DEF DesktopInv
  <2>3. NumbersFresh!1'
    BY <1>13, <2>0, <2>1 DEF NumbersFresh
  <2>4. NumbersFresh!2'
    BY <1>2, <1>13, <1>14, <1>15, <2>0 DEF NumbersFresh
  <2>5. NumbersFresh!3'
    <3> SUFFICES ASSUME NEW q \in Profile, NEW r \in Profile, NEW i \in DOMAIN queue'[q], NEW j \in DOMAIN queue'[r],
                        queue'[q][i].op \in Starters, queue'[r][j].op \in Starters, queue'[q][i].a = queue'[r][j].a
                 PROVE  q = r /\ i = j
      OBVIOUS
    <3>1. q = r /\ k(q, i) = k(r, j)
      BY <2>0, <2>1 DEF NumbersFresh
    <3> QED BY <2>2, <3>1
  <2>6. NumbersFresh!4'
    <3> SUFFICES ASSUME NEW q \in Profile, NEW r \in Profile, NEW i \in DOMAIN queue'[q],
                        queue'[q][i].op \in Starters, Waiting(r)'
                 PROVE  queue'[q][i].a # th'[r].next
      OBVIOUS
    <3>1. CASE r = p
      BY <1>2, <1>14, <2>0, <2>1, <3>1 DEF NumbersFresh
    <3>2. CASE r # p
      BY <1>15, <2>0, <2>1, <3>2 DEF NumbersFresh
    <3> QED BY <3>1, <3>2
  <2>7. NumbersFresh!5'
    BY <1>2, <1>14, <1>15, <2>0 DEF NumbersFresh
  <2> QED BY <2>3, <2>4, <2>5, <2>6, <2>7 DEF NumbersFresh
<1>17. UNCHANGED <<app, inst, stale, records, engine, clean, held, mon, used>>
  BY DEF Take, store, world, counts
<1>18. NumbersGiven'
  <2>1. c.a \in 0 .. used
    BY <1>2 DEF NumbersGiven, DesktopInv
  <2>2. \A t \in Thread : th'[t].next \in 0 .. used
    BY <2>1, <1>5, <1>6 DEF NumbersGiven, DesktopInv, Becomes
  <2>3. \A q \in Profile : \A i \in DOMAIN queue'[q] : queue'[q][i].a \in 0 .. used
    <3>1. ASSUME NEW i \in DOMAIN queue'[p] PROVE queue'[p][i].a \in 0 .. used
      BY <1>2, <1>8 DEF NumbersGiven, DesktopInv
    <3>2. ASSUME NEW q \in Profile, q # p, NEW i \in DOMAIN queue'[q] PROVE queue'[q][i].a \in 0 .. used
      BY <1>7, <3>2 DEF NumbersGiven, DesktopInv
    <3> QED BY <3>1, <3>2
  <2> QED BY <2>2, <2>3, <1>17 DEF NumbersGiven
<1>19. /\ AttemptsBuilt' /\ InstancesWatched' /\ OwnersKnown' /\ ChildrenHeld' /\ DownMeansFiles' /\ ExitLeavesNothing'
  <2>1. Same /\ Reaped
    BY <1>17, SameKept DEF Reaped
  <2>2. \A u \in Thread : th[u].pc \in {"mark", "signal"} => th[u].a \in held'
    BY <1>17 DEF DesktopInv, ChildrenHeld
  <2>3. \A u \in Thread : th[u].pc \in StopPc => th[u].p \in Profile
    BY StopsOfProfiles DEF DesktopInv
  <2> QED BY <1>1, <1>5, <1>6, <1>17, <2>1, <2>2, <2>3, QuietWorld DEF LockedPc, StopPc
<1> QED BY <1>9, <1>10, <1>12, <1>16, <1>18, <1>19 DEF DesktopInv

\* A request joins a mailbox; one that may start has the next number.
LEMMA Enqueued ==
  ASSUME DesktopInv, Typed', NEW p \in Profile, NEW c \in Command,
         queue' = [queue EXCEPT ![p] = Append(@, c)],
         used' \in {used, used + 1}, c.a = used', c.op \in Starters => used' = used + 1,
         UNCHANGED <<app, exists, starting, inst, stale, records, engine, clean, held, mon, lifecycle, th>>,
         \A q \in Profile : gen[q] <= gen'[q], app = "up"
  PROVE  DesktopInv'
<1> DEFINE n == Len(queue[p]) + 1
<1>1. used \in Nat /\ used' \in Nat /\ used' <= MaxAttempt /\ MaxAttempt \in Nat
  BY DesktopAssumption DEF DesktopInv, Typed
<1>2. \A a \in 1 .. used : a \in 1 .. used'
  BY <1>1
<1>3. \A a : Fresh(a) => Fresh(a)'
  BY <1>2 DEF Fresh
<1>4. c.op \in Starters => Fresh(c.a)'
  <2> SUFFICES ASSUME c.op \in Starters PROVE Fresh(c.a)'
    OBVIOUS
  <2>0. c.a = used + 1
    OBVIOUS
  <2>1. c.a \in Attempt /\ c.a > used /\ c.a \in 1 .. used' /\ c.a \notin 1 .. used
    BY <1>1, <2>0, AttemptIs
  <2>2. engine[c.a] = "none" /\ c.a \notin records /\ c.a \notin stale
    BY <2>1 DEF DesktopInv, OwnersKnown
  <2>3. clean[c.a]
    BY <2>1, <2>2 DEF DesktopInv, OwnersKnown, Owes
  <2>4. mon[c.a].pc = "none"
    BY <2>1 DEF DesktopInv, InstancesWatched
  <2>5. \A q \in Profile : inst[q].id # c.a
    BY <1>1, <2>1 DEF DesktopInv, InstancesWatched
  <2> QED BY <2>1, <2>2, <2>3, <2>4, <2>5 DEF Fresh
<1>5. ASSUME NEW q \in Profile, NEW i \in DOMAIN queue'[q]
      PROVE  \/ i \in DOMAIN queue[q] /\ queue'[q][i] = queue[q][i] /\ (q = p => i # n)
             \/ q = p /\ i = n /\ queue'[q][i] = c
  <2>1. queue[p] \in Seq(Command) /\ n \in Nat
    BY DEF DesktopInv, Typed
  <2>2. CASE q # p
    BY <2>2 DEF DesktopInv, Typed
  <2>3. CASE q = p
    <3>1. queue'[q] = Append(queue[p], c)
      BY <2>3 DEF DesktopInv, Typed
    <3>2. i \in 1 .. Len(queue[p]) + 1
      BY <2>1, <3>1
    <3>3. CASE i = n
      BY <2>1, <2>3, <3>1, <3>3
    <3>4. CASE i # n
      <4>1. i \in 1 .. Len(queue[p])
        BY <2>1, <3>2, <3>4
      <4> QED BY <2>1, <2>3, <3>1, <3>4, <4>1
    <3> QED BY <3>3, <3>4
  <2> QED BY <2>2, <2>3
<1>6. \A q \in Profile : (Waiting(q)' <=> Waiting(q)) /\ th'[q].next = th[q].next
  BY DEF Waiting
<1>7. \A a : Fresh(a) => a # used + 1
  BY <1>1 DEF Fresh
<1>8. NumbersFresh'
  <2>0. NumbersFresh
    BY DEF DesktopInv
  <2>1. NumbersFresh!1'
    BY <1>3, <1>4, <1>5, <2>0 DEF NumbersFresh
  <2>2. NumbersFresh!2'
    BY <1>3, <1>6, <2>0 DEF NumbersFresh
  <2>3. NumbersFresh!3'
    <3> SUFFICES ASSUME NEW q \in Profile, NEW r \in Profile, NEW i \in DOMAIN queue'[q], NEW j \in DOMAIN queue'[r],
                        queue'[q][i].op \in Starters, queue'[r][j].op \in Starters, queue'[q][i].a = queue'[r][j].a
                 PROVE  q = r /\ i = j
      OBVIOUS
    <3>1. CASE q = p /\ i = n /\ queue'[q][i] = c
      <4>1. ~(j \in DOMAIN queue[r] /\ queue'[r][j] = queue[r][j])
        BY <1>7, <2>0, <3>1 DEF NumbersFresh
      <4> QED BY <1>5, <3>1, <4>1
    <3>2. CASE i \in DOMAIN queue[q] /\ queue'[q][i] = queue[q][i]
      <4>1. ~(r = p /\ j = n /\ queue'[r][j] = c)
        BY <1>7, <2>0, <3>2 DEF NumbersFresh
      <4>2. j \in DOMAIN queue[r] /\ queue'[r][j] = queue[r][j]
        BY <1>5, <4>1
      <4> QED BY <2>0, <3>2, <4>2 DEF NumbersFresh
    <3> QED BY <1>5, <3>1, <3>2
  <2>4. NumbersFresh!4'
    BY <1>5, <1>6, <1>7, <2>0 DEF NumbersFresh
  <2>5. NumbersFresh!5'
    BY <1>6, <2>0 DEF NumbersFresh
  <2> QED BY <2>1, <2>2, <2>3, <2>4, <2>5 DEF NumbersFresh
<1>9. NumbersGiven'
  <2>1. \A a \in 0 .. used : a \in 0 .. used'
    BY <1>1
  <2>2. used' \in 0 .. used'
    BY <1>1
  <2> QED BY <1>5, <2>1, <2>2 DEF DesktopInv, NumbersGiven
<1>10. ThreadsHold'
  BY DEF DesktopInv, ThreadsHold, Holds, QuitHolds
<1>11. StartsAlone'
  BY StartsStay DEF DesktopInv, HasRunning
<1>12. AttemptsBuilt'
  BY <1>2 DEF DesktopInv, AttemptsBuilt, Built
<1>13. InstancesWatched'
  BY <1>2 DEF DesktopInv, InstancesWatched
<1>14. OwnersKnown'
  <2>1. \A a : (Known(a)' <=> Known(a)) /\ (Owes(a)' <=> Owes(a))
    BY DEF Owes, Alive, Known
  <2>2. \A a \in Attempt : a > used' => a > used
    BY <1>1, AttemptIs
  <2> QED BY <2>1, <2>2 DEF DesktopInv, OwnersKnown
<1>15. ChildrenHeld' /\ DownMeansFiles' /\ ExitLeavesNothing'
  BY DEF DesktopInv, ChildrenHeld, DownMeansFiles, ExitLeavesNothing
<1> QED BY <1>8, <1>9, <1>10, <1>11, <1>12, <1>13, <1>14, <1>15 DEF DesktopInv

\* The new request and the counters.
LEMMA EnqueueTyped ==
  ASSUME DesktopInv, NEW p \in Profile, NEW op \in Commands, NEW g \in Nat, NEW starts \in BOOLEAN, Numbered(starts),
         queue' = [queue EXCEPT ![p] = Append(@, [op |-> op, gen |-> g, a |-> used'])]
  PROVE  /\ used' \in {used, used + 1} /\ (starts => used' = used + 1) /\ used' \in 0 .. MaxAttempt
         /\ [op |-> op, gen |-> g, a |-> used'] \in Command
         /\ queue' \in [Profile -> Seq(Command)]
<1>1. used' \in {used, used + 1} /\ (starts => used' = used + 1) /\ used' \in 0 .. MaxAttempt
  BY DesktopAssumption DEF DesktopInv, Typed, Numbered
<1>2. [op |-> op, gen |-> g, a |-> used'] \in Command
  BY <1>1 DEF Command
<1> QED BY <1>1, <1>2 DEF DesktopInv, Typed

\* A generation that is raised is larger than it was.
LEMMA BumpedTyped ==
  ASSUME DesktopInv, NEW p \in Profile
  PROVE  /\ Bumped(p) \in [Profile -> Nat] /\ Bumped(p)[p] = gen[p] + 1 /\ gen[p] \in Nat
         /\ \A q \in Profile : gen[q] <= Bumped(p)[q] /\ gen[q] <= gen[q] /\ (q # p => Bumped(p)[q] = gen[q])
BY DEF DesktopInv, Typed, Bumped

\* dispatch_profile_command queues the command of a client.
LEMMA AskStep ==
  ASSUME DesktopInv, NEW p \in Profile, NEW op \in Ops, Ask(p, op)
  PROVE  DesktopInv'
<1> DEFINE c == [op |-> op, gen |-> 0, a |-> used']
<1>1. op \in Commands /\ (op \in Starters => op \in {"start", "reconnect"})
  BY DEF Ops, Commands, Starters
<1>2. /\ used' \in {used, used + 1} /\ (op \in Starters => used' = used + 1) /\ used' \in 0 .. MaxAttempt
      /\ c \in Command /\ queue' \in [Profile -> Seq(Command)]
  <2>1. CASE op \in {"start", "reconnect"}
    <3>1. Numbered(TRUE)
      BY <2>1 DEF Ask
    <3> QED BY <1>1, <3>1, EnqueueTyped DEF Ask
  <2>2. CASE op \notin {"start", "reconnect"}
    <3>1. Numbered(FALSE)
      BY <2>2 DEF Ask, Numbered
    <3> QED BY <1>1, <2>2, <3>1, EnqueueTyped DEF Ask
  <2> QED BY <2>1, <2>2
<1>3. gen' \in [Profile -> Nat] /\ \A q \in Profile : gen[q] <= gen'[q]
  BY BumpedTyped DEF Ask, DesktopInv, Typed
<1>4. Typed'
  BY <1>2, <1>3, DesktopAssumption DEF Ask, DesktopInv, Typed, world
<1>5. c.op = op /\ c.a = used'
  OBVIOUS
<1> QED BY <1>2, <1>3, <1>4, <1>5, Enqueued DEF Ask, world

\* An automatic connection at startup is queued like any other.
LEMMA AutoConnectStep ==
  ASSUME DesktopInv, NEW p \in Profile, AutoConnect(p)
  PROVE  DesktopInv'
<1> DEFINE c == [op |-> "startup", gen |-> 0, a |-> used']
<1>2. /\ used' \in {used, used + 1} /\ used' = used + 1 /\ used' \in 0 .. MaxAttempt
      /\ c \in Command /\ queue' \in [Profile -> Seq(Command)]
  BY EnqueueTyped DEF AutoConnect, Commands
<1>3. gen' \in [Profile -> Nat] /\ \A q \in Profile : gen[q] <= gen'[q]
  BY BumpedTyped DEF AutoConnect, DesktopInv, Typed, store
<1>4. Typed'
  BY <1>2, <1>3, DesktopAssumption DEF AutoConnect, DesktopInv, Typed, world, store
<1>5. c.op = "startup" /\ c.a = used'
  OBVIOUS
<1> QED BY <1>2, <1>3, <1>4, <1>5, Enqueued DEF AutoConnect, world, store

\* A reconnection timer that is due queues an automatic start.
LEMMA TimerDueStep ==
  ASSUME DesktopInv, NEW r \in timers, TimerDue(r)
  PROVE  DesktopInv'
<1> DEFINE c == [op |-> "auto", gen |-> r.gen, a |-> used']
<1>1. r.p \in Profile /\ r.gen \in Nat
  BY DEF DesktopInv, Typed, Timer
<1>2. CASE StillEnabled(r)
  <2>1. /\ used' \in {used, used + 1} /\ used' = used + 1 /\ used' \in 0 .. MaxAttempt
        /\ c \in Command /\ queue' \in [Profile -> Seq(Command)]
    BY <1>1, <1>2, EnqueueTyped DEF TimerDue, Commands
  <2>2. gen' \in [Profile -> Nat] /\ \A q \in Profile : gen[q] <= gen'[q]
    BY <1>1, BumpedTyped DEF TimerDue, DesktopInv, Typed, store
  <2>3. Typed'
    BY <2>1, <2>2, DesktopAssumption DEF TimerDue, DesktopInv, Typed, world, store
  <2>4. c.op = "auto" /\ c.a = used'
    OBVIOUS
  <2> QED BY <1>1, <1>2, <2>1, <2>2, <2>3, <2>4, Enqueued DEF TimerDue, world, store
<1>3. CASE ~StillEnabled(r)
  <2>1. UNCHANGED <<used, queue>>
    BY <1>3 DEF TimerDue, Numbered
  <2>2. Typed'
    BY <2>1 DEF TimerDue, DesktopInv, Typed, world, store
  <2> QED BY <2>1, <2>2, Quiet DEF TimerDue, world, store
<1> QED BY <1>2, <1>3

\* Every step of a timer.
LEMMA TimerStepKeeps ==
  ASSUME DesktopInv, NEW r \in timers, TimerStep(r)
  PROVE  DesktopInv'
<1>1. CASE TimerCancelled(r)
  <2>1. Typed'
    BY <1>1 DEF TimerCancelled, DesktopInv, Typed, world, store, counts
  <2> QED BY <1>1, <2>1, Quiet DEF TimerCancelled, world, store, counts
<1>2. CASE TimerRetries(r)
  <2>1. [r EXCEPT !.pc = "wait"] \in Timer
    BY DEF DesktopInv, Typed, Timer
  <2>2. Typed'
    BY <1>2, <2>1 DEF TimerRetries, DesktopInv, Typed, world, store, counts
  <2> QED BY <1>2, <2>2, Quiet DEF TimerRetries, world, store, counts
<1> QED BY <1>1, <1>2, TimerDueStep DEF TimerStep

\* A start that holds the lifecycle mutex is alone: no other command is between
\* its second look and its end, no quit stops anything, and no attempt but its
\* own has an engine or owes a cleanup.
LEMMA SoleOwner ==
  ASSUME DesktopInv, Up, NEW t \in Profile, th[t].pc \in LockedPc
  PROVE  /\ lifecycle = t /\ t \in starting /\ stale = {} /\ th[t].p = t /\ ~th[t].cancelled
         /\ \A p \in Profile : th[p].pc \in LockedPc => p = t
         /\ th[Quitter].pc \in {"idle", "lock"}
         /\ \A p \in Profile : ~inst[p].running
         /\ \A b \in Attempt : Owes(b) => th[t].pc \in {"bind", "register"} /\ b = th[t].a
<1>1. lifecycle = t /\ th[t].p = t /\ ~th[t].cancelled
  BY DEF DesktopInv, ThreadsHold, Holds, LockedPc, StopPc
<1>2. Alone(t)
  BY DEF DesktopInv, StartsAlone, Starts, LockedPc, StartPc
<1>3. \A p \in Profile : th[p].pc \in LockedPc => p = t
  BY <1>1 DEF DesktopInv, ThreadsHold, Holds
<1>4. th[Quitter].pc \in {"idle", "lock"}
  BY <1>1, NamesApart DEF DesktopInv, ThreadsHold, QuitHolds
<1>5. \A p \in Profile : ~inst[p].running
  BY <1>2 DEF Alone, HasRunning, DesktopInv, InstancesWatched
<1>6. ASSUME NEW b \in Attempt, Owes(b)
      PROVE  th[t].pc \in {"bind", "register"} /\ b = th[t].a
  <2>1. Known(b) /\ b # 0
    BY <1>6, AttemptIs DEF DesktopInv, OwnersKnown
  <2>2. b \notin stale /\ ~\E p \in Profile : inst[p].id = b /\ (inst[p].running \/ inst[p].failed)
    BY <1>2, <2>1 DEF Alone, HasRunning
  <2>3. PICK p \in Profile : th[p].pc \in {"bind", "register"} /\ th[p].a = b
    BY <2>1, <2>2 DEF Known
  <2> QED BY <1>3, <2>3 DEF LockedPc
<1> QED BY <1>1, <1>2, <1>3, <1>4, <1>5, <1>6 DEF Alone

\* The attempt of a start under way.
LEMMA BuiltAttempt ==
  ASSUME DesktopInv, NEW t \in Profile, th[t].pc \in LockedPc \ {"record"}
  PROVE  /\ Built(t) /\ th[t].a \in Attempt /\ ~Fresh(th[t].a)
         /\ \A u \in Thread : th[u].pc \in StopPc \ {"find"} => th[u].a # th[t].a
<1>1. Built(t)
  BY DEF DesktopInv, AttemptsBuilt
<1>2. th[t].a \in Attempt
  BY <1>1, Given DEF DesktopInv, Built
<1>3. ~Fresh(th[t].a)
  BY <1>1 DEF Fresh, Built
<1>4. \A u \in Thread : th[u].pc \in StopPc \ {"find"} => th[u].a # th[t].a
  BY <1>1 DEF DesktopInv, ChildrenHeld, Built
<1> QED BY <1>1, <1>2, <1>3, <1>4

\* A start builds its attempt: only its own number is touched.
LEMMA BuildMove ==
  ASSUME DesktopInv, Up, Typed', NEW t \in Profile, NEW a \in Attempt,
         th[t].pc \in LockedPc, th[t].pc # "register", Becomes(t, th'[t]),
         th'[t].pc \in LockedPc \ {"record"}, th'[t].a = a, th'[t].op = th[t].op, th'[t].p = th[t].p,
         th'[t].gen = th[t].gen, th'[t].next = th[t].next, th'[t].cancelled = th[t].cancelled,
         IF th[t].pc = "record" THEN a = th[t].next /\ Waiting(t) ELSE a = th[t].a,
         UNCHANGED <<app, exists, gen, starting, inst, stale, held, mon, lifecycle, queue, used>>,
         records' = records \cup {a},
         \A b \in Attempt : b # a => engine'[b] = engine[b] /\ clean'[b] = clean[b],
         Built(t)'
  PROVE  DesktopInv'
<1>1. t \in Thread /\ \A u \in Thread : u # t => th'[u] = th[u]
  BY NamesApart DEF Becomes
<1>2. \A p \in Profile : p # t => th'[p] = th[p] /\ th[p].pc \notin LockedPc
  BY <1>1, SoleOwner, NamesApart
<1>3. /\ lifecycle = t /\ t \in starting /\ th[t].p = t /\ ~th[t].cancelled
      /\ \A b \in Attempt : Owes(b) => th[t].pc \in {"bind", "register"} /\ b = th[t].a
  BY SoleOwner
<1>4. ThreadsHold'
  <2>1. Holds(t) /\ th[t].pc # "idle" /\ th[t].pc \in StartPc
    BY DEF DesktopInv, ThreadsHold, LockedPc, StartPc
  <2>2. th'[t].pc \in StartPc /\ th'[t].pc \in CommandPc /\ th'[t].pc \notin {"idle", "waitstop"}
    BY DEF LockedPc, StartPc, CommandPc
  <2>3. Holds(t)'
    BY <1>3, <2>1, <2>2 DEF Holds
  <2> QED BY <2>3, HoldMove DEF DesktopInv
<1>5. StartsAlone'
  <2>1. Starts(t)
    BY DEF DesktopInv, StartsAlone, LockedPc, StartPc
  <2>2. Starts(t)'
    BY <2>1 DEF Starts, Alone, HasRunning
  <2>3. th'[t].pc \in StartPc
    BY DEF LockedPc, StartPc
  <2>4. \A p \in Profile : gen[p] <= gen'[p]
    BY DEF DesktopInv, Typed
  <2>5. th'[t].pc # "mutate" /\ \A p \in Profile : HasRunning(p)' => HasRunning(p)
    BY DEF LockedPc, HasRunning
  <2> QED BY <1>1, <1>3, <2>2, <2>3, <2>4, <2>5, StartsMove DEF DesktopInv
<1>6. \A p \in Profile : Waiting(p)' => Waiting(p) /\ th'[p].next = th[p].next /\ p # t
  BY <1>2 DEF Waiting, LockedPc
<1>7. \A b : Fresh(b) /\ b # a => Fresh(b)'
  BY Given DEF DesktopInv, Fresh
<1>8. NumbersFresh'
  <2>1. CASE th[t].pc = "record"
    BY <1>6, <1>7, <2>1, NumberUsed DEF DesktopInv
  <2>2. CASE th[t].pc # "record"
    <3>1. ~Fresh(a)
      BY <2>2, BuiltAttempt
    <3> QED BY <1>6, <1>7, <3>1, NumbersKept DEF DesktopInv
  <2> QED BY <2>1, <2>2
<1>9. NumbersGiven'
  BY <1>1 DEF DesktopInv, NumbersGiven
<1>10. AttemptsBuilt'
  BY <1>2 DEF AttemptsBuilt
<1>11. mon[a].pc = "none" /\ \A p \in Profile : inst[p].id # a
  BY DEF Built
<1>12. InstancesWatched'
  <2>1. \A p \in Profile : inst[p].id # 0 => inst[p].id \in Attempt
    BY Given DEF DesktopInv, InstancesWatched
  <2>2. InstancesWatched!1'
    BY <1>11, <2>1 DEF DesktopInv, InstancesWatched
  <2>3. InstancesWatched!2'
    BY <1>11 DEF DesktopInv, InstancesWatched, Watching
  <2> QED BY <2>2, <2>3 DEF InstancesWatched
<1>13. OwnersKnown'
  <2>1. ASSUME NEW b \in Attempt, Owes(b)' PROVE b = a /\ th'[t].pc \in {"bind", "register"}
    <3>1. b = a
      <4>1. CASE b # a
        <5>1. Owes(b)
          BY <2>1, <4>1 DEF Owes, Alive
        <5> QED BY <1>3, <4>1, <5>1
      <4> QED BY <4>1
    <3>2. th'[t].pc \in {"acquire", "spawn"} => engine'[a] = "none" /\ clean'[a]
      BY DEF Built
    <3> QED BY <2>1, <3>1, <3>2 DEF Owes, Alive, LockedPc
  <2>2. a \in 1 .. used
    BY DEF Built
  <2>3. \A b \in Attempt : b > used' => engine'[b] = "none" /\ b \notin records' /\ b \notin stale'
    BY <2>2, Given, AttemptIs DEF DesktopInv, OwnersKnown
  <2>4. \A b \in Attempt : Owes(b)' => b \in records' /\ Known(b)'
    BY <2>1 DEF Known
  <2> QED BY <2>1, <2>3, <2>4 DEF OwnersKnown
<1>14. ChildrenHeld'
  <2>1. th'[t].pc \notin StopPc
    BY DEF LockedPc, StopPc
  <2>2. \A u \in Thread : th'[u].pc \in StopPc => u # t /\ th'[u] = th[u]
    BY <1>1, <2>1
  <2>3. ChildrenHeld!1'
    BY <2>2 DEF ChildrenHeld, DesktopInv
  <2>4. ASSUME NEW u \in Thread, th'[u].pc \in {"mark", "signal"}
        PROVE  th'[u] = th[u] /\ th'[u].a \in held' /\ engine'[th'[u].a] \in {"run", "zombie"}
    <3>1. th'[u] = th[u]
      BY <2>2, <2>4 DEF StopPc
    <3>2. th[u].a \in held /\ engine[th[u].a] \in {"run", "zombie"} /\ th[u].a \in Attempt /\ th[u].a # a
      BY <1>11, <2>4, <3>1 DEF ChildrenHeld, DesktopInv, StopPc
    <3> QED BY <3>1, <3>2
  <2>5. ChildrenHeld!2' /\ ChildrenHeld!3'
    BY <2>4 DEF ChildrenHeld, DesktopInv
  <2>6. ChildrenHeld!4'
    BY <2>2 DEF ChildrenHeld, DesktopInv, StopPc
  <2> QED BY <2>3, <2>5, <2>6 DEF ChildrenHeld
<1>15. DownMeansFiles' /\ ExitLeavesNothing'
  <2>1. app' = "up"
    OBVIOUS
  <2> QED BY <2>1 DEF DownMeansFiles, ExitLeavesNothing
<1> QED BY <1>4, <1>5, <1>8, <1>9, <1>10, <1>12, <1>13, <1>14, <1>15 DEF DesktopInv

\* A start that fails once its attempt has a number in a file: the attempt is
\* forgotten before it had an engine, or left to recovery.
LEMMA AttemptFails ==
  ASSUME DesktopInv, Up, NEW t \in Profile, th[t].pc \in {"acquire", "spawn", "bind"}, StartFails(t),
         UNCHANGED <<up, held, used, asks, crashes>>, faults' \in Nat,
         engine' \in [Attempt -> {"none", "gated", "run", "zombie", "gone"}], clean' \in [Attempt -> BOOLEAN],
         \A b \in Attempt : b # th[t].a => engine'[b] = engine[b] /\ clean'[b] = clean[b],
         \/ stale' = stale \cup {th[t].a} /\ UNCHANGED records
         \/ /\ records' = records \ {th[t].a} /\ UNCHANGED stale
            /\ th[t].pc # "bind" /\ UNCHANGED <<engine, clean>>
  PROVE  DesktopInv'
<1> DEFINE a == th[t].a
<1>0. th[t].pc \in LockedPc /\ th[t].pc \in LockedPc \ {"record"} /\ th[t].pc # "idle"
  BY DEF LockedPc
<1>1. Built(t) /\ a \in Attempt /\ ~Fresh(a) /\ \A u \in Thread : th[u].pc \in StopPc \ {"find"} => th[u].a # a
  BY <1>0, BuiltAttempt
<1>2. End(t, FALSE) /\ UNCHANGED <<app, exists, gen, inst, mon, queue>>
  BY DEF StartFails
<1>3. /\ Becomes(t, th'[t]) /\ th'[t] = NoThread /\ lifecycle' \in Thread \cup {Free} /\ starting' \subseteq starting
      /\ stopped' \subseteq Profile
  <2>1. /\ Becomes(t, NoThread) /\ th'[t] = NoThread /\ lifecycle' \in Thread \cup {Free}
        /\ starting' \subseteq starting /\ stopped' \subseteq Profile
    BY <1>0, <1>2, EndIs DEF DesktopInv
  <2> QED BY <2>1
<1>4. timers' \subseteq Timer
  BY <1>0, RetriedTyped DEF StartFails
<1>5. Typed'
  BY <1>1, <1>3, <1>4 DEF StartFails, DesktopInv, Typed, Becomes
<1>6. /\ ThreadsHold' /\ NumbersGiven'
      /\ \A p \in Profile : Waiting(p)' => Waiting(p) /\ th'[p].next = th[p].next
      /\ \A p \in Profile : p # t => th'[p] = th[p] /\ (p \in starting' <=> p \in starting)
      /\ t \notin starting'
  BY <1>0, <1>2, EndMoves
<1>7. /\ lifecycle = t /\ t \in starting /\ stale = {}
      /\ \A p \in Profile : th[p].pc \in LockedPc => p = t
      /\ \A b \in Attempt : Owes(b) => th[t].pc \in {"bind", "register"} /\ b = a
  BY <1>0, SoleOwner
<1>8. StartsAlone'
  <2>1. \A p \in Profile : gen[p] <= gen'[p]
    BY <1>2 DEF DesktopInv, Typed
  <2>2. th'[t].pc \notin StartPc
    BY <1>3, NothingTyped DEF StartPc
  <2>3. th'[t].pc # "mutate" /\ \A p \in Profile : HasRunning(p)' => HasRunning(p)
    BY <1>2, <1>3, NothingTyped DEF HasRunning
  <2> QED BY <1>2, <1>3, <1>5, <1>6, <1>7, <2>1, <2>2, <2>3, NamesApart, StartsMove DEF DesktopInv
<1>9. NumbersFresh'
  <2>1. \A b : Fresh(b) => Fresh(b)'
    BY <1>1, <1>2, Given DEF Fresh, DesktopInv
  <2> QED BY <1>2, <1>6, <2>1, NumbersKept DEF DesktopInv
<1>10. \A p \in Profile : th'[p].pc \notin LockedPc
  BY <1>3, <1>6, <1>7, NothingTyped DEF LockedPc
<1>11. AttemptsBuilt'
  BY <1>10 DEF AttemptsBuilt
<1>12. InstancesWatched'
  <2>1. \A p \in Profile : inst[p].id # 0 => inst[p].id \in Attempt /\ inst[p].id # a
    BY <1>1, Given DEF DesktopInv, InstancesWatched, Built
  <2>2. InstancesWatched!1'
    BY <1>2, <2>1 DEF DesktopInv, InstancesWatched
  <2>3. \A b \in Attempt : mon[b].pc # "none" => b # a
    BY <1>1 DEF Built
  <2>4. InstancesWatched!2'
    BY <1>2, <2>3 DEF DesktopInv, InstancesWatched, Watching
  <2> QED BY <2>2, <2>4 DEF InstancesWatched
<1>13. OwnersKnown'
  <2>1. ASSUME NEW b \in Attempt, Owes(b)'
        PROVE  b = a /\ stale' = stale \cup {a} /\ UNCHANGED records
    <3>1. b = a
      <4>1. CASE b # a
        <5>1. Owes(b)
          BY <2>1, <4>1 DEF Owes, Alive
        <5> QED BY <1>7, <4>1, <5>1
      <4> QED BY <4>1
    <3>2. CASE records' = records \ {a} /\ th[t].pc # "bind" /\ UNCHANGED <<engine, clean>>
      <4>1. Owes(a)
        BY <2>1, <3>1, <3>2 DEF Owes, Alive
      <4> QED BY <1>7, <1>1, <3>2, <4>1
    <3> QED BY <3>1, <3>2
  <2>2. a \in 1 .. used /\ a \in records
    BY <1>1 DEF Built
  <2>3. \A b \in Attempt : b > used' => engine'[b] = "none" /\ b \notin records' /\ b \notin stale'
    BY <2>2, Given, AttemptIs DEF DesktopInv, OwnersKnown
  <2>4. \A b \in Attempt : Owes(b)' => b \in records' /\ Known(b)'
    BY <2>1, <2>2 DEF Known
  <2> QED BY <2>1, <2>3, <2>4 DEF OwnersKnown
<1>14. ChildrenHeld'
  <2>2. \A u \in Thread : th'[u].pc \in StopPc => u # t /\ th'[u] = th[u]
    BY <1>3, NothingTyped DEF StopPc, Becomes
  <2>3. ChildrenHeld!1'
    BY <1>2, <2>2 DEF ChildrenHeld, DesktopInv
  <2>4. ASSUME NEW u \in Thread, th'[u].pc \in {"mark", "signal"}
        PROVE  th'[u] = th[u] /\ th'[u].a \in held' /\ engine'[th'[u].a] \in {"run", "zombie"}
    <3>1. th'[u] = th[u]
      BY <2>2, <2>4 DEF StopPc
    <3>2. th[u].a \in held /\ engine[th[u].a] \in {"run", "zombie"} /\ th[u].a \in Attempt /\ th[u].a # a
      BY <1>1, <2>4, <3>1 DEF ChildrenHeld, DesktopInv, StopPc
    <3> QED BY <3>1, <3>2
  <2>5. ChildrenHeld!2' /\ ChildrenHeld!3'
    BY <2>4 DEF ChildrenHeld, DesktopInv
  <2>6. ChildrenHeld!4'
    BY <1>2, <2>2 DEF ChildrenHeld, DesktopInv, StopPc
  <2> QED BY <2>3, <2>5, <2>6 DEF ChildrenHeld
<1>15. DownMeansFiles' /\ ExitLeavesNothing'
  <2>1. app' = "up"
    BY <1>2
  <2> QED BY <2>1 DEF DownMeansFiles, ExitLeavesNothing
<1> QED BY <1>5, <1>6, <1>8, <1>9, <1>11, <1>12, <1>13, <1>14, <1>15 DEF DesktopInv

\* The admission of a start.
LEMMA AdmitStep ==
  ASSUME DesktopInv, NEW t \in Profile, Admit(t)
  PROVE  DesktopInv'
<1>0. /\ app = "up" /\ th[t].pc = "admit" /\ t \in Thread /\ th[t].p = t /\ th[t] \in ThreadState /\ ~th[t].cancelled
      /\ t \notin starting
  BY NamesApart, ThreadTyped DEF Admit, At, DesktopInv, ThreadsHold, Holds, StopPc, StartsAlone, StartPc
<1>1. UNCHANGED <<app, exists, mutating, inst, stale, world, mon, queue, shutting, counts>>
  BY DEF Admit
<1>2. \A u \in Thread : th[u].pc \in {"mark", "signal"} => th[u].a \in held'
  BY <1>1 DEF DesktopInv, ChildrenHeld, world
<1>3. Same /\ Reaped
  BY <1>1, SameKept DEF Reaped, world
<1> DEFINE ok == Admitted(t) /\ (th[t].op = "auto" => gen[t] = th[t].gen)
<1>4. CASE ok
  <2>1. /\ starting' = starting \cup {t}
        /\ gen' = IF th[t].op = "auto" THEN gen ELSE Bumped(t)
        /\ stopped' = IF th[t].op = "auto" THEN stopped ELSE stopped \ {t}
        /\ th' = [th EXCEPT ![t].pc = "resolve", ![t].gen = gen'[t]]
        /\ UNCHANGED <<lifecycle, timers>>
    BY <1>0, <1>4 DEF Admit
  <2>2. gen' \in [Profile -> Nat] /\ \A q \in Profile : gen[q] <= gen'[q]
    BY <2>1, BumpedTyped DEF DesktopInv, Typed
  <2> DEFINE n == [th[t] EXCEPT !.pc = "resolve", !.gen = gen'[t]]
  <2>3. /\ n \in ThreadState /\ n.pc = "resolve" /\ n.gen = gen'[t] /\ n.op = th[t].op /\ n.p = t
        /\ n.cancelled = FALSE /\ n.next = th[t].next
    BY <1>0, <2>2 DEF ThreadState, CommandPc, StartPc
  <2>4. Becomes(t, n) /\ th'[t] = n
    <3>1. th' = [th EXCEPT ![t] = n]
      BY <2>1
    <3> HIDE DEF n
    <3> QED BY <1>0, <2>3, <3>1, Becoming DEF DesktopInv, Becomes
  <2> HIDE DEF n
  <2>5. Typed'
    BY <1>1, <2>1, <2>2, <2>4 DEF DesktopInv, Typed, world, counts, Becomes
  <2>6. Holds(t) /\ th[t].op \in Starters
    BY <1>0 DEF DesktopInv, ThreadsHold, Holds, Starters
  <2>7. gen[t] \in Nat /\ (th[t].op = "reconnect" => gen'[t] # 0)
    BY <2>1, BumpedTyped
  <2>8. Holds(t)'
    BY <2>3, <2>4, <2>6, <2>7 DEF Holds, CommandPc, LockedPc, StartPc, Starters
  <2>9. starting = {} /\ starting' = {t} /\ stale = {} /\ t \in exists /\ \A q \in Profile : ~HasRunning(q)
    BY <1>4, <2>1 DEF Admitted
  <2>10. Starts(t)'
    <3>1. Alone(t)'
      BY <1>1, <2>9 DEF Alone, HasRunning
    <3>2. ~inst[t].running
      BY <2>9 DEF HasRunning, DesktopInv, InstancesWatched
    <3> QED BY <1>1, <2>2, <2>3, <2>4, <2>9, <3>1, <3>2 DEF Starts
  <2>11. Waiting(t)' => Waiting(t)
    BY <1>0, <2>6 DEF Waiting
  <2> QED
    BY <1>0, <1>1, <1>2, <1>3, <2>1, <2>2, <2>3, <2>4, <2>5, <2>8, <2>9, <2>10, <2>11, MoveQuiet
    DEF world, counts, LockedPc, StartPc, StopPc
<1>5. CASE ~ok
  <2>1. /\ th' = [th EXCEPT ![t] = NoThread] /\ Retried(t) /\ stopped' \subseteq stopped
        /\ UNCHANGED <<lifecycle, starting, gen>>
    BY <1>0, <1>5 DEF Admit
  <2>2. Becomes(t, NoThread) /\ th'[t] = NoThread
    BY <1>0, <2>1, Becoming, NothingTyped DEF DesktopInv, Becomes
  <2>3. timers' \subseteq Timer
    BY <1>0, <2>1, RetriedTyped
  <2>4. Typed'
    BY <1>1, <2>1, <2>2, <2>3 DEF DesktopInv, Typed, world, counts, Becomes
  <2>5. Holds(t)'
    BY <2>2 DEF Holds, NoThread, CommandPc, LockedPc, StartPc, StopPc
  <2>6. ThreadsHold'
    BY <2>1, <2>2, <2>5, HoldMove DEF DesktopInv
  <2>7. th'[t].pc = "idle" /\ th'[t].next = 0 /\ ~Waiting(t)' /\ 0 \in 0 .. used
    BY <2>2, NothingTyped, Given DEF Waiting, DesktopInv
  <2>8. StartsAlone'
    <3>1. stale' \subseteq stale /\ \A q \in Profile : HasRunning(q)' => HasRunning(q)
      BY <1>1 DEF HasRunning
    <3>2. \A p \in Profile : gen[p] <= gen'[p]
      BY <2>1 DEF DesktopInv, Typed
    <3> QED BY <1>0, <1>1, <2>1, <2>2, <2>4, <2>7, <3>1, <3>2, StartsMove DEF DesktopInv, StartPc
  <2>9. \A u \in Thread : th[u].pc \in StopPc => th[u].p \in Profile
    BY StopsOfProfiles DEF DesktopInv
  <2>10. /\ NumbersFresh' /\ NumbersGiven' /\ AttemptsBuilt' /\ InstancesWatched' /\ OwnersKnown'
         /\ ChildrenHeld' /\ DownMeansFiles' /\ ExitLeavesNothing'
    BY <1>0, <1>1, <1>2, <1>3, <2>2, <2>7, <2>9, QuietMove DEF StopPc, LockedPc, world, counts
  <2> QED BY <2>4, <2>6, <2>8, <2>10 DEF DesktopInv
<1> QED BY <1>4, <1>5

\* A start that goes on before it has touched anything.
LEMMA StartGoes ==
  ASSUME DesktopInv, Up, Typed', NEW t \in Profile, NEW pc, Goto(t, pc),
         \/ th[t].pc = "resolve" /\ pc = "lifecycle" /\ UNCHANGED lifecycle
         \/ th[t].pc = "lifecycle" /\ pc = "record" /\ lifecycle = Free /\ lifecycle' = t /\ gen[t] = th[t].gen,
         UNCHANGED <<app, store, world, mon, queue, used>>
  PROVE  DesktopInv'
<1>0. pc \in CommandPc /\ t \in Thread /\ pc \in StartPc /\ th[t].pc \in StartPc
  BY NamesApart DEF CommandPc, StartPc
<1>1. /\ Becomes(t, th'[t]) /\ th'[t].pc = pc /\ th'[t].op = th[t].op /\ th'[t].p = th[t].p
      /\ th'[t].next = th[t].next /\ th'[t].gen = th[t].gen /\ th'[t].cancelled = th[t].cancelled
  BY <1>0, Going DEF DesktopInv, Becomes
<1>2. Holds(t)'
  <2>1. Holds(t) /\ th[t].pc # "idle" /\ ~th[t].cancelled
    BY <1>0 DEF DesktopInv, ThreadsHold, Holds, StartPc, StopPc
  <2> QED BY <1>0, <1>1, <2>1 DEF Holds, LockedPc, StartPc
<1>3. Starts(t)'
  <2>1. Starts(t) /\ gen[t] \in Nat /\ th[t].gen \in Nat
    BY <1>0, ThreadTyped DEF DesktopInv, StartsAlone, Typed
  <2>2. Alone(t)' <=> Alone(t)
    BY DEF Alone, HasRunning, store
  <2> QED BY <1>1, <2>1, <2>2 DEF Starts, LockedPc, store
<1>4. Waiting(t)' => Waiting(t)
  BY <1>1, <1>0 DEF Waiting, StartPc
<1>5. Same /\ Reaped
  BY SameKept DEF Reaped, world, store
<1>6. \A u \in Thread : th[u].pc \in {"mark", "signal"} => th[u].a \in held'
  BY DEF DesktopInv, ChildrenHeld, world
<1>7. \A p \in Profile : gen[p] <= gen'[p]
  BY DEF DesktopInv, Typed, store
<1>8. pc \notin LockedPc \ {"record"} /\ pc \notin StopPc /\ pc \notin {"mark", "signal", "flag", "child"}
  BY DEF LockedPc, StopPc
<1>9. \A u \in Thread : u # t /\ lifecycle = u => lifecycle' = u
  BY NamesApart
<1> QED BY <1>0, <1>1, <1>2, <1>3, <1>4, <1>5, <1>6, <1>7, <1>8, <1>9, MoveQuiet DEF world, store

\* A counter of faults.
LEMMA FaultTyped ==
  ASSUME DesktopInv, Fault \/ UNCHANGED faults
  PROVE  faults' \in Nat
BY DEF DesktopInv, Typed, Fault

\* resolve of the profile, outside every mutex.
LEMMA ResolveStep ==
  ASSUME DesktopInv, NEW t \in Profile, Resolve(t)
  PROVE  DesktopInv'
<1>0. app = "up" /\ th[t].pc = "resolve" /\ t \in Thread
  BY NamesApart DEF Resolve, At
<1>1. CASE /\ Goto(t, "lifecycle")
           /\ UNCHANGED <<app, store, mon, timers, lifecycle, queue, shutting, stopped, faults>>
  <2>1. th' \in [Thread -> ThreadState]
    BY <1>0, <1>1, Going DEF DesktopInv, Becomes, CommandPc, StartPc
  <2>2. Typed'
    BY <1>1, <2>1 DEF Resolve, DesktopInv, Typed, store, world
  <2> QED BY <1>0, <1>1, <2>2, StartGoes DEF Resolve
<1>2. CASE Fault /\ StartFails(t) /\ UNCHANGED stale
  BY <1>0, <1>2, StartFailsQuiet, FaultTyped DEF Resolve
<1> QED BY <1>1, <1>2 DEF Resolve

\* The first look of a spawn at the store.
LEMMA SpawnChecksStep ==
  ASSUME DesktopInv, NEW t \in Profile, SpawnChecks(t)
  PROVE  DesktopInv'
<1>0. app = "up" /\ th[t].pc = "lifecycle" /\ t \in Thread /\ th[t].p = t /\ lifecycle = Free
  BY Own DEF SpawnChecks, At
<1>1. CASE StartFails(t)
  BY <1>0, <1>1, StartFailsQuiet, FaultTyped DEF SpawnChecks, counts
<1>2. CASE /\ gen[t] = th[t].gen /\ lifecycle' = t /\ Goto(t, "record")
           /\ UNCHANGED <<app, exists, gen, starting, mutating, inst, mon, timers, queue, shutting, stopped>>
  <2>1. th' \in [Thread -> ThreadState]
    BY <1>0, <1>2, Going DEF DesktopInv, Becomes, CommandPc, StartPc
  <2>2. Typed'
    BY <1>0, <1>2, <2>1 DEF SpawnChecks, DesktopInv, Typed, world, counts
  <2> QED BY <1>0, <1>2, <2>2, StartGoes DEF SpawnChecks, store, counts
<1> QED BY <1>0, <1>1, <1>2 DEF SpawnChecks

\* The record of the attempt is written before there is an engine.
LEMMA WriteRecordStep ==
  ASSUME DesktopInv, NEW t \in Profile, WriteRecord(t)
  PROVE  DesktopInv'
<1>0. app = "up" /\ th[t].pc = "record" /\ t \in Thread /\ th[t].p = t /\ th[t].pc \in LockedPc
  BY Own DEF WriteRecord, At, LockedPc
<1>1. CASE /\ records' = records \cup {th[t].next}
           /\ th' = [th EXCEPT ![t].pc = "acquire", ![t].a = th[t].next]
           /\ UNCHANGED <<app, exists, gen, starting, mutating, inst, mon, timers, lifecycle, queue,
                       shutting, stopped, faults>>
  <2> DEFINE a == th[t].next
             n == [th[t] EXCEPT !.pc = "acquire", !.a = a]
  <2>1. Waiting(t)
    BY <1>0, SoleOwner DEF Waiting, DesktopInv, ThreadsHold, Holds, LockedPc, StartPc
  <2>2. Fresh(a) /\ a \in Attempt
    BY <2>1, Given DEF DesktopInv, NumbersFresh, Fresh
  <2>3. th[t] \in ThreadState /\ a \in 0 .. MaxAttempt
    BY <1>0, ThreadTyped DEF DesktopInv
  <2>4. /\ n \in ThreadState /\ n.pc = "acquire" /\ n.a = a /\ n.op = th[t].op /\ n.p = th[t].p /\ n.gen = th[t].gen
        /\ n.cancelled = th[t].cancelled /\ n.next = th[t].next
    BY <2>3 DEF ThreadState, CommandPc, StartPc
  <2>5. Becomes(t, n) /\ th'[t] = n
    <3>1. th' = [th EXCEPT ![t] = n]
      BY <1>1
    <3> HIDE DEF n
    <3> QED BY <1>0, <2>4, <3>1, Becoming DEF DesktopInv, Becomes
  <2> HIDE DEF n
  <2>6. Typed'
    BY <1>1, <2>2, <2>5 DEF WriteRecord, DesktopInv, Typed, Becomes
  <2>7. Built(t)'
    <3>1. UNCHANGED <<stale, engine, clean, used>>
      BY DEF WriteRecord
    <3>2. th'[t].a = a /\ th'[t].pc = "acquire"
      BY <2>4, <2>5
    <3>3. /\ a \in 1 .. used /\ engine[a] = "none" /\ clean[a] /\ a \notin stale /\ mon[a].pc = "none"
          /\ \A p \in Profile : inst[p].id # a
      BY <2>2 DEF Fresh
    <3>4. records' = records \cup {a} /\ UNCHANGED <<mon, inst>>
      BY <1>1
    <3> HIDE DEF a
    <3> QED BY <3>1, <3>2, <3>3, <3>4 DEF Built
  <2> QED
    BY <1>0, <1>1, <2>1, <2>2, <2>4, <2>5, <2>6, <2>7, BuildMove DEF WriteRecord, LockedPc
<1>2. CASE Fault /\ StartFails(t) /\ UNCHANGED records
  BY <1>0, <1>2, StartFailsQuiet, FaultTyped DEF WriteRecord, world
<1> QED BY <1>1, <1>2 DEF WriteRecord

\* The moves of a start with a number in a file.
LEMMA BuildGoes ==
  ASSUME DesktopInv, Up, NEW t \in Profile, NEW pc,
         \/ th[t].pc = "acquire" /\ pc = "spawn" /\ UNCHANGED <<engine, clean>>
         \/ th[t].pc = "spawn" /\ pc = "bind" /\ UNCHANGED clean /\ engine' = [engine EXCEPT ![th[t].a] = "gated"]
         \/ /\ th[t].pc = "bind" /\ pc = "register" /\ engine' = [engine EXCEPT ![th[t].a] = "run"]
            /\ clean' = [clean EXCEPT ![th[t].a] = FALSE],
         Goto(t, pc),
         UNCHANGED <<app, store, records, up, held, mon, timers, lifecycle, queue, shutting, stopped, counts>>
  PROVE  DesktopInv'
<1> DEFINE a == th[t].a
<1>0. /\ pc \in CommandPc /\ t \in Thread /\ th[t].pc \in LockedPc \ {"record"} /\ pc \in LockedPc \ {"record"}
      /\ th[t].pc \in LockedPc
  BY NamesApart DEF CommandPc, StartPc, LockedPc
<1>1. /\ Becomes(t, th'[t]) /\ th'[t].pc = pc /\ th'[t].op = th[t].op /\ th'[t].p = th[t].p /\ th'[t].a = th[t].a
      /\ th'[t].next = th[t].next /\ th'[t].gen = th[t].gen /\ th'[t].cancelled = th[t].cancelled
  BY <1>0, Going DEF DesktopInv, Becomes
<1>2. Built(t) /\ a \in Attempt
  BY <1>0, BuiltAttempt
<1>3. engine \in [Attempt -> {"none", "gated", "run", "zombie", "gone"}] /\ clean \in [Attempt -> BOOLEAN]
  BY DEF DesktopInv, Typed
<1>4. Typed'
  BY <1>1, <1>2 DEF DesktopInv, Typed, store, counts, Becomes
<1>5. Built(t)'
  BY <1>1, <1>2, <1>3 DEF Built, store, counts
<1>6. \A b \in Attempt : b # a => engine'[b] = engine[b] /\ clean'[b] = clean[b]
  BY <1>3
<1>7. records' = records \cup {a}
  BY <1>2 DEF Built
<1> QED BY <1>0, <1>1, <1>2, <1>4, <1>5, <1>6, <1>7, BuildMove DEF store, counts

\* The lease is acquired, or the record removed.
LEMMA AcquireStep ==
  ASSUME DesktopInv, NEW t \in Profile, Acquire(t)
  PROVE  DesktopInv'
<1>0. app = "up" /\ th[t].pc = "acquire"
  BY DEF Acquire, At
<1>1. CASE /\ Goto(t, "spawn")
           /\ UNCHANGED <<app, store, records, mon, timers, lifecycle, queue, shutting, stopped, faults>>
  BY <1>0, <1>1, BuildGoes DEF Acquire, counts
<1>2. CASE /\ Fault /\ StartFails(t)
           /\ \/ stale' = stale \cup {th[t].a} /\ UNCHANGED records
              \/ records' = records \ {th[t].a} /\ UNCHANGED stale
  BY <1>0, <1>2, AttemptFails, FaultTyped DEF Acquire, DesktopInv, Typed
<1> QED BY <1>1, <1>2 DEF Acquire

\* The engine starts, gated, and nothing else has one.
LEMMA SpawnStep ==
  ASSUME DesktopInv, NEW t \in Profile, Spawn(t)
  PROVE  DesktopInv'
<1>0. app = "up" /\ th[t].pc = "spawn"
  BY DEF Spawn, At
<1>1. CASE /\ engine' = [engine EXCEPT ![th[t].a] = "gated"] /\ Goto(t, "bind")
           /\ UNCHANGED <<app, store, records, mon, timers, lifecycle, queue, shutting, stopped, faults>>
  BY <1>0, <1>1, BuildGoes DEF Spawn, counts
<1>2. CASE Fault /\ StartFails(t) /\ UNCHANGED engine /\ Unstarted(th[t].a)
  BY <1>0, <1>2, AttemptFails, FaultTyped DEF Spawn, Unstarted, DesktopInv, Typed
<1> QED BY <1>1, <1>2 DEF Spawn

\* The lease is bound to the process and the gate opened.
LEMMA BindStep ==
  ASSUME DesktopInv, NEW t \in Profile, Bind(t)
  PROVE  DesktopInv'
<1>0. app = "up" /\ th[t].pc = "bind"
  BY DEF Bind, At
<1>1. CASE /\ engine' = [engine EXCEPT ![th[t].a] = "run"] /\ Goto(t, "register")
           /\ clean' = [clean EXCEPT ![th[t].a] = FALSE]
           /\ UNCHANGED <<app, store, mon, timers, lifecycle, queue, shutting, stopped, faults>>
  BY <1>0, <1>1, BuildGoes DEF Bind, counts
<1>2. CASE /\ Fault /\ StartFails(t)
           /\ stale' = stale \cup {th[t].a} /\ Terminated(th[t].a)
  <2>1. /\ engine' \in [Attempt -> {"none", "gated", "run", "zombie", "gone"}] /\ clean' \in [Attempt -> BOOLEAN]
        /\ \A b \in Attempt : b # th[t].a => engine'[b] = engine[b] /\ clean'[b] = clean[b]
    BY <1>2 DEF Terminated, DesktopInv, Typed
  <2> QED BY <1>0, <1>2, <2>1, AttemptFails, FaultTyped DEF Bind
<1> QED BY <1>1, <1>2 DEF Bind

\* The registration of an engine: it is watched from here on.
LEMMA RegisterStep ==
  ASSUME DesktopInv, NEW t \in Profile, Register(t)
  PROVE  DesktopInv'
<1> DEFINE a == th[t].a
           i == [NoInst EXCEPT !.id = a, !.running = TRUE, !.status = "starting"]
           m == [NoMon EXCEPT !.pc = "watch", !.p = t]
<1>0. /\ app = "up" /\ th[t].pc = "register" /\ th[t].p = t /\ t \in Thread /\ th[t].pc \in LockedPc
      /\ th[t].pc \in LockedPc \ {"record"} /\ th[t].pc \in StartPc
  BY Own DEF Register, At, LockedPc, StartPc
<1>1. /\ Built(t) /\ a \in Attempt /\ ~Fresh(a) /\ a \in 0 .. MaxAttempt /\ a # 0
      /\ \A u \in Thread : th[u].pc \in StopPc \ {"find"} => th[u].a # a
  BY <1>0, BuiltAttempt, ThreadTyped, AttemptIs DEF DesktopInv
<1>2. /\ inst' = [inst EXCEPT ![t] = i] /\ mon' = [mon EXCEPT ![a] = m]
      /\ UNCHANGED <<app, exists, gen, mutating, stale, world, timers, queue, shutting, counts>>
  BY <1>0 DEF Register
<1>3. /\ i \in Instance /\ i.id = a /\ i.running = TRUE /\ i.failed = FALSE /\ i.status = "starting"
      /\ m \in Monitor /\ m.pc = "watch" /\ m.p = t
  BY <1>1, NothingTyped DEF NoInst, NoMon, Instance, Monitor, Watching, Statuses
<1> HIDE DEF i, m
<1>4. /\ inst'[t] = i /\ mon'[a] = m /\ inst' \in [Profile -> Instance] /\ mon' \in [Attempt -> Monitor]
      /\ \A p \in Profile : p # t => inst'[p] = inst[p]
      /\ \A b \in Attempt : b # a => mon'[b] = mon[b]
  BY <1>1, <1>2, <1>3 DEF DesktopInv, Typed
<1>5. /\ lifecycle = t /\ t \in starting /\ stale = {} /\ ~th[t].cancelled
      /\ \A p \in Profile : th[p].pc \in LockedPc => p = t
      /\ th[Quitter].pc \in {"idle", "lock"}
      /\ \A p \in Profile : ~inst[p].running
      /\ \A b \in Attempt : Owes(b) => b = a
  BY <1>0, SoleOwner
<1>6. /\ Becomes(t, th'[t]) /\ lifecycle' \in Thread \cup {Free} /\ starting' \subseteq starting /\ stopped' \subseteq Profile
      /\ ThreadsHold' /\ NumbersGiven' /\ ~Waiting(t)'
      /\ \A p \in Profile : p # t => (p \in starting' <=> p \in starting)
      /\ t \in starting' => th'[t].cancelled
      /\ th'[t].pc \in {"idle", "find"}
  <2>1. CASE End(t, TRUE)
    <3>1. /\ Becomes(t, NoThread) /\ th'[t] = NoThread /\ lifecycle' \in Thread \cup {Free} /\ starting' \subseteq starting
          /\ stopped' \subseteq Profile
      BY <1>0, <2>1, EndIs DEF DesktopInv
    <3>2. ThreadsHold' /\ NumbersGiven' /\ t \notin starting' /\ \A p \in Profile : p # t => (p \in starting' <=> p \in starting)
      BY <1>0, <1>2, <2>1, EndMoves DEF counts
    <3>3. th'[t].pc = "idle" /\ ~Waiting(t)'
      BY <3>1, NothingTyped DEF Waiting
    <3> QED BY <3>1, <3>2, <3>3
  <2>2. CASE /\ th' = [th EXCEPT ![t].pc = "find", ![t].cancelled = TRUE]
             /\ UNCHANGED <<lifecycle, starting, stopped>>
    <3> DEFINE n == [th[t] EXCEPT !.pc = "find", !.cancelled = TRUE]
    <3>1. th[t] \in ThreadState
      BY <1>0, ThreadTyped DEF DesktopInv
    <3>2. /\ n \in ThreadState /\ n.pc = "find" /\ n.op = th[t].op /\ n.p = th[t].p /\ n.gen = th[t].gen
          /\ n.cancelled = TRUE /\ n.next = th[t].next
      BY <3>1 DEF ThreadState, CommandPc, StopPc
    <3>3. Becomes(t, n) /\ th'[t] = n
      <4>1. th' = [th EXCEPT ![t] = n]
        BY <2>2
      <4> HIDE DEF n
      <4> QED BY <1>0, <3>2, <4>1, Becoming DEF DesktopInv, Becomes
    <3> HIDE DEF n
    <3>4. Holds(t)'
      <4>1. Holds(t)
        BY DEF DesktopInv, ThreadsHold
      <4> QED BY <1>0, <1>5, <2>2, <3>2, <3>3, <4>1 DEF Holds, CommandPc, StopPc, LockedPc, StartPc
    <3>5. ThreadsHold'
      BY <2>2, <3>3, <3>4, HoldMove DEF DesktopInv
    <3>6. NumbersGiven'
      BY <1>0, <1>2, <3>2, <3>3 DEF DesktopInv, NumbersGiven, Becomes, counts
    <3>7. ~Waiting(t)'
      BY <3>2, <3>3 DEF Waiting
    <3> QED BY <2>2, <3>2, <3>3, <3>5, <3>6, <3>7 DEF DesktopInv, Typed
  <2> QED BY <1>0, <2>1, <2>2 DEF Register
<1>7. \A p \in Profile : p # t => th'[p] = th[p]
  BY <1>6, NamesApart DEF Becomes
<1>8. Typed'
  BY <1>2, <1>4, <1>6 DEF DesktopInv, Typed, world, counts, Becomes
<1>9. StartsAlone'
  <2>1. \A p \in Profile : gen[p] <= gen'[p]
    BY <1>2 DEF DesktopInv, Typed
  <2>2. th'[t].pc \notin StartPc
    BY <1>6 DEF StartPc
  <2>3. \A p \in Profile : p # t => inst'[p].running = inst[p].running
    BY <1>4
  <2>4. th'[t].pc # "mutate" /\ \A p \in Profile : p # t /\ HasRunning(p)' => HasRunning(p)
    BY <1>4, <1>6 DEF HasRunning
  <2> QED BY <1>0, <1>2, <1>5, <1>6, <1>8, <2>1, <2>2, <2>3, <2>4, StartsMove DEF DesktopInv
<1>10. NumbersFresh'
  <2>1. ASSUME NEW b, Fresh(b) PROVE Fresh(b)'
    <3>1. b # a /\ b \in Attempt
      BY <1>1, <2>1, Given DEF DesktopInv, Fresh
    <3>2. \A p \in Profile : inst'[p].id # b
      BY <1>3, <1>4, <2>1, <3>1 DEF Fresh
    <3> QED BY <1>2, <1>4, <2>1, <3>1, <3>2 DEF Fresh, world, counts
  <2>2. \A p \in Profile : Waiting(p)' => Waiting(p) /\ th'[p].next = th[p].next
    BY <1>6, <1>7 DEF Waiting
  <2> QED BY <1>2, <2>1, <2>2, NumbersKept DEF DesktopInv
<1>11. \A p \in Profile : th'[p].pc \notin LockedPc
  BY <1>5, <1>6, <1>7 DEF LockedPc
<1>12. AttemptsBuilt'
  BY <1>11 DEF AttemptsBuilt
<1>13. InstancesWatched'
  <2>0. InstancesWatched /\ a \in 1 .. used /\ engine[a] \in {"run", "zombie"} /\ mon[a].pc = "none" /\ a \notin stale
    BY <1>0, <1>1 DEF DesktopInv, Built
  <2>1. ASSUME NEW p \in Profile PROVE InstancesWatched!1!(p)'
    <3>1. CASE p = t
      BY <1>1, <1>2, <1>3, <1>4, <2>0, <3>1 DEF InstancesWatched, Watching, Terminal, counts
    <3>2. CASE p # t
      <4>1. inst'[p] = inst[p] /\ inst[p].id # a
        BY <1>1, <1>4, <3>2 DEF Built
      <4>2. inst[p].id # 0 => inst[p].id \in Attempt
        BY <2>0, Given DEF DesktopInv, InstancesWatched
      <4>3. inst[p].id # 0 => mon'[inst[p].id] = mon[inst[p].id]
        BY <1>4, <4>1, <4>2
      <4> QED BY <1>2, <2>0, <4>1, <4>2, <4>3 DEF InstancesWatched, world, counts
    <3> QED BY <3>1, <3>2
  <2>2. ASSUME NEW b \in Attempt PROVE InstancesWatched!2!(b)'
    <3>1. CASE b = a
      BY <1>2, <1>3, <1>4, <2>0, <3>1 DEF InstancesWatched, world, counts
    <3>2. CASE b # a
      <4>1. mon'[b] = mon[b] /\ mon[b].pc \notin Watching
        BY <1>4, <1>5, <2>0, <3>2 DEF InstancesWatched, Watching
      <4> QED BY <1>2, <2>0, <4>1 DEF InstancesWatched, world, counts, Watching
    <3> QED BY <3>1, <3>2
  <2> QED BY <2>1, <2>2 DEF InstancesWatched
<1>14. OwnersKnown'
  <2>1. \A b \in Attempt : Owes(b)' => b = a
    BY <1>2, <1>5 DEF Owes, Alive, world
  <2>2. \A b \in Attempt : b = a => Known(b)' /\ b \in records'
    BY <1>1, <1>2, <1>3, <1>4 DEF Known, Built, world
  <2>3. \A b \in Attempt : b > used' => engine'[b] = "none" /\ b \notin records' /\ b \notin stale'
    BY <1>2 DEF DesktopInv, OwnersKnown, world, counts
  <2> QED BY <2>1, <2>2, <2>3 DEF OwnersKnown
<1>15. ChildrenHeld'
  <2>2. \A u \in Thread : th'[u].pc \in StopPc \ {"find"} => u # t /\ th'[u] = th[u] /\ u \in Profile /\ th[u].p = u
    <3>1. \A u \in Thread : th'[u].pc \in StopPc \ {"find"} => u # t /\ th'[u] = th[u] /\ u # Quitter
      BY <1>5, <1>6, NamesApart DEF StopPc, Becomes
    <3> QED BY <3>1, NamesApart, Own DEF StopPc
  <2>3. ChildrenHeld!1'
    BY <1>1, <1>4, <2>2 DEF ChildrenHeld, DesktopInv
  <2>5. ChildrenHeld!2' /\ ChildrenHeld!3'
    BY <1>2, <2>2 DEF ChildrenHeld, DesktopInv, StopPc, world
  <2>6. ChildrenHeld!4'
    BY <1>4, <2>2 DEF ChildrenHeld, DesktopInv, StopPc
  <2> QED BY <2>3, <2>5, <2>6 DEF ChildrenHeld
<1>16. DownMeansFiles' /\ ExitLeavesNothing'
  <2>1. app' = "up"
    BY <1>0, <1>2
  <2> QED BY <2>1 DEF DownMeansFiles, ExitLeavesNothing
<1> QED BY <1>6, <1>8, <1>9, <1>10, <1>12, <1>13, <1>14, <1>15, <1>16 DEF DesktopInv

\* Where a stop returns to.
LEMMA ReturnTyped ==
  ASSUME DesktopInv, NEW t \in Thread, th[t].pc \in StopPc, NEW ok \in BOOLEAN, Return(t, ok)
  PROVE  /\ th' \in [Thread -> ThreadState] /\ lifecycle' \in Thread \cup {Free}
         /\ starting' \subseteq Profile /\ stopped' \subseteq Profile
<1>0. th[t].pc # "idle" /\ (t # Quitter => t \in Profile)
  BY NamesApart DEF StopPc
<1>1. CASE t = Quitter
  <2>1. th[t] \in ThreadState /\ (th[t].errors \/ ~ok) \in BOOLEAN
    BY ThreadTyped DEF DesktopInv
  <2>2. [th[t] EXCEPT !.pc = "next", !.errors = @ \/ ~ok] \in ThreadState
    BY <2>1 DEF ThreadState
  <2>3. th' = [th EXCEPT ![t] = [th[t] EXCEPT !.pc = "next", !.errors = @ \/ ~ok]]
    BY <1>1 DEF Return
  <2> QED BY <1>1, <2>2, <2>3 DEF Return, DesktopInv, Typed
<1>2. CASE t # Quitter /\ End(t, ok)
  BY <1>0, <1>2, EndIs DEF DesktopInv, Typed, Becomes
<1>3. CASE Goto(t, "waitstop") /\ UNCHANGED <<lifecycle, starting, stopped>>
  BY <1>3, Going DEF DesktopInv, Typed, Becomes, CommandPc
<1> QED BY <1>1, <1>2, <1>3 DEF Return

\* What the end of a stop leaves as it was.
LEMMA ReturnQuiet ==
  ASSUME DesktopInv, Up, Typed', Same, Reaped, NEW t \in Thread, th[t].pc \in StopPc, NEW ok \in BOOLEAN, Return(t, ok),
         UNCHANGED <<app, exists, stale, records, clean, mon, queue, used>>,
         \A u \in Thread : u # t /\ th[u].pc \in {"mark", "signal"} => th[u].a \in held',
         \A p \in Profile : gen[p] <= gen'[p]
  PROVE  DesktopInv'
<1>0. th[t].pc # "idle" /\ (t # Quitter => t \in Profile) /\ th[t].pc \notin {"idle", "bind", "register"}
  BY NamesApart DEF StopPc
<1>1. CASE t = Quitter
  <2> DEFINE e == th[t].errors \/ ~ok
             n == [th[t] EXCEPT !.pc = "next", !.errors = e]
  <2>1. th[t] \in ThreadState /\ e \in BOOLEAN
    BY ThreadTyped DEF DesktopInv
  <2> HIDE DEF e
  <2>2. /\ n \in ThreadState /\ n.pc = "next" /\ n.op = th[t].op /\ n.p = th[t].p
        /\ n.cancelled = th[t].cancelled /\ n.next = th[t].next
    BY <2>1 DEF ThreadState
  <2>3. th' = [th EXCEPT ![t] = n] /\ UNCHANGED <<lifecycle, starting, stopped>>
    BY <1>1 DEF Return, e
  <2>4. Becomes(t, n) /\ th'[t] = n
    <3> HIDE DEF n
    <3> QED BY <2>2, <2>3, Becoming DEF DesktopInv, Becomes
  <2> HIDE DEF n
  <2>5. QuitHolds'
    BY <1>1, <2>2, <2>3, <2>4 DEF DesktopInv, ThreadsHold, QuitHolds, StopPc
  <2>6. th'[t].next \in 0 .. used
    BY <2>2, <2>4 DEF DesktopInv, NumbersGiven
  <2> QED BY <1>1, <2>2, <2>3, <2>4, <2>5, <2>6, QuitQuiet DEF StopPc
<1>2. CASE t # Quitter /\ End(t, ok)
  BY <1>0, <1>2, EndQuiet
<1>3. CASE /\ t # Quitter /\ Goto(t, "waitstop") /\ UNCHANGED <<lifecycle, starting, stopped>>
           /\ th[t].op \in {"reconnect", "delete"} /\ ~th[t].cancelled
  <2>1. /\ Becomes(t, th'[t]) /\ th'[t].pc = "waitstop" /\ th'[t].op = th[t].op /\ th'[t].p = th[t].p
        /\ th'[t].next = th[t].next /\ th'[t].cancelled = th[t].cancelled
    BY <1>3, Going DEF DesktopInv, Becomes, CommandPc
  <2>2. Holds(t)'
    <3>1. Holds(t)
      BY <1>0, <1>3 DEF DesktopInv, ThreadsHold
    <3> QED BY <1>0, <1>3, <2>1, <3>1 DEF Holds, CommandPc, LockedPc, StartPc, StopPc
  <2>3. t \notin starting
    BY <1>3 DEF DesktopInv, StartsAlone, StartPc, StopPc
  <2>4. Waiting(t)' => Waiting(t)
    BY <1>3, <2>1 DEF Waiting, StopPc
  <2> QED BY <1>0, <1>3, <2>1, <2>2, <2>3, <2>4, MoveQuiet DEF LockedPc, StartPc, StopPc
<1> QED BY <1>1, <1>2, <1>3 DEF Return

\* A stop that goes on without returning.
LEMMA StopGoes ==
  ASSUME DesktopInv, Up, Typed', Same, Reaped, NEW t \in Thread, th[t].pc \in StopPc, Becomes(t, th'[t]),
         th'[t].pc \in StopPc \ {"find"}, th'[t].op = th[t].op, th'[t].p = th[t].p, th'[t].next = th[t].next,
         th'[t].gen = th[t].gen, th'[t].cancelled = th[t].cancelled,
         UNCHANGED <<app, exists, starting, stale, records, clean, mon, lifecycle, queue, used>>,
         \A u \in Thread : u # t /\ th[u].pc \in {"mark", "signal"} => th[u].a \in held',
         \A p \in Profile : gen[p] <= gen'[p],
         th'[t].pc \in {"mark", "signal"} =>
           /\ th'[t].a \in held' /\ engine'[th'[t].a] \in {"run", "zombie"}
           /\ \A u \in Thread : u # t /\ th[u].pc \in {"mark", "signal"} => th[u].a # th'[t].a,
         th'[t].a \in Attempt /\ mon[th'[t].a].pc # "none",
         th'[t].pc \in {"flag", "child", "mark", "signal"} => (inst[th'[t].p].running => th'[t].prev \notin Terminal)
  PROVE  DesktopInv'
<1>0. th[t].pc # "idle" /\ (t # Quitter => t \in Profile) /\ th[t].pc \notin {"idle", "bind", "register"}
  BY NamesApart DEF StopPc
<1>1. CASE t = Quitter
  <2>1. QuitHolds'
    BY <1>1 DEF DesktopInv, ThreadsHold, QuitHolds, StopPc
  <2>2. th'[t].next \in 0 .. used
    BY DEF DesktopInv, NumbersGiven
  <2> QED BY <1>1, <2>1, <2>2, QuitQuiet
<1>2. CASE t # Quitter
  <2>1. Holds(t)'
    <3>1. Holds(t)
      BY <1>0, <1>2 DEF DesktopInv, ThreadsHold
    <3> QED BY <1>0, <3>1 DEF Holds, CommandPc, LockedPc, StartPc, StopPc
  <2>2. t \in starting => th'[t].cancelled
    BY DEF DesktopInv, StartsAlone, StartPc, StopPc
  <2>3. Waiting(t)' => Waiting(t)
    BY DEF Waiting, StopPc
  <2>4. th'[t].pc \notin StartPc /\ th'[t].pc \notin LockedPc /\ th'[t].pc # "mutate"
    BY DEF StartPc, StopPc, LockedPc
  <2> QED BY <1>0, <1>2, <2>1, <2>2, <2>3, <2>4, MoveQuiet
<1> QED BY <1>1, <1>2

\* An instance of which only the wish to stop and the status shown change.
LEMMA Shown ==
  ASSUME DesktopInv, NEW p \in Profile, NEW i \in Instance, inst' = [inst EXCEPT ![p] = i],
         i.id = inst[p].id, i.running = inst[p].running, i.failed = inst[p].failed,
         i.running => i.status \notin Terminal
  PROVE  Same /\ inst' \in [Profile -> Instance]
<1>1. inst \in [Profile -> Instance]
  BY DEF DesktopInv, Typed
<1> QED BY <1>1 DEF DesktopInv, InstancesWatched, Same

\* The mark that a user asked for the stop changes nothing DesktopInv speaks of.
LEMMA Wished ==
  ASSUME DesktopInv, NEW p \in Profile, inst' = [inst EXCEPT ![p].user = TRUE]
  PROVE  Same /\ inst' \in [Profile -> Instance]
<1> DEFINE i == [inst[p] EXCEPT !.user = TRUE]
<1>1. inst[p] \in Instance /\ inst[p].status \in Statuses
  BY InstTyped DEF DesktopInv
<1>2. /\ i \in Instance /\ i.id = inst[p].id /\ i.running = inst[p].running /\ i.failed = inst[p].failed
      /\ i.status = inst[p].status
  BY <1>1 DEF Instance
<1>3. inst' = [inst EXCEPT ![p] = i]
  OBVIOUS
<1>4. i.running => i.status \notin Terminal
  BY <1>2 DEF DesktopInv, InstancesWatched
<1> HIDE DEF i
<1> QED BY <1>2, <1>3, <1>4, Shown

\* The stops of one thread, at the lock and elsewhere.
LEMMA Stopping ==
  ASSUME DesktopInv, NEW t \in Thread, th[t].pc \in StopPc
  PROVE  /\ th[t].p \in Profile /\ th[t] \in ThreadState
         /\ th[t].pc # "find" => th[t].a \in Attempt /\ mon[th[t].a].pc # "none"
         /\ \A u \in Thread : th[u].pc \in {"mark", "signal"} => th[u].a \in held
BY StopsOfProfiles, ThreadTyped DEF DesktopInv, ChildrenHeld

\* A stop looks for the running instance of its profile.
LEMMA StopFindsStep ==
  ASSUME DesktopInv, NEW t \in Thread, StopFinds(t)
  PROVE  DesktopInv'
<1> DEFINE p == th[t].p
<1>0. /\ app = "up" /\ th[t].pc = "find" /\ th[t].pc \in StopPc /\ p \in Profile /\ th[t] \in ThreadState
      /\ UNCHANGED <<app, exists, mutating, stale, world, mon, timers, queue, shutting, counts>>
  BY Stopping DEF StopFinds, At, StopPc
<1>1. \A u \in Thread : th[u].pc \in {"mark", "signal"} => th[u].a \in held'
  BY <1>0, Stopping DEF world
<1>2. Reaped
  BY <1>0 DEF Reaped, world
<1>3. CASE /\ gen' = IF p \in starting THEN Bumped(p) ELSE gen
           /\ Return(t, TRUE) /\ UNCHANGED inst
  <2>1. gen' \in [Profile -> Nat] /\ \A q \in Profile : gen[q] <= gen'[q]
    BY <1>0, <1>3, BumpedTyped DEF DesktopInv, Typed
  <2>2. Typed'
    BY <1>0, <1>3, <2>1, ReturnTyped DEF DesktopInv, Typed, world, counts
  <2> QED BY <1>0, <1>1, <1>2, <1>3, <2>1, <2>2, SameKept, ReturnQuiet DEF world, counts
<1>4. CASE CancelReconnect(p) /\ Return(t, TRUE)
  <2>1. gen' \in [Profile -> Nat] /\ \A q \in Profile : gen[q] <= gen'[q]
    BY <1>0, <1>4, BumpedTyped DEF CancelReconnect
  <2>2. Same /\ inst' \in [Profile -> Instance]
    BY <1>0, <1>4, Wished DEF CancelReconnect
  <2>3. Typed'
    BY <1>0, <1>4, <2>1, <2>2, ReturnTyped DEF DesktopInv, Typed, world, counts
  <2> QED BY <1>0, <1>1, <1>2, <1>4, <2>1, <2>2, <2>3, ReturnQuiet DEF world, counts
<1>5. CASE /\ inst[p].id # 0 /\ inst[p].running
           /\ th' = [th EXCEPT ![t].pc = "previous", ![t].a = inst[p].id]
           /\ UNCHANGED <<gen, inst, lifecycle, starting, stopped>>
  <2> DEFINE a == inst[p].id
             n == [th[t] EXCEPT !.pc = "previous", !.a = a]
  <2>1. a \in Attempt /\ mon[a].pc # "none" /\ a \in 0 .. MaxAttempt
    BY <1>0, <1>5, Given, InstTyped DEF DesktopInv, InstancesWatched
  <2>2. /\ n \in ThreadState /\ n.pc = "previous" /\ n.op = th[t].op /\ n.p = th[t].p /\ n.gen = th[t].gen
        /\ n.cancelled = th[t].cancelled /\ n.next = th[t].next /\ n.a = a
    BY <1>0, <2>1 DEF ThreadState, CommandPc, StopPc
  <2>3. Becomes(t, n) /\ th'[t] = n
    <3>1. th' = [th EXCEPT ![t] = n]
      BY <1>5
    <3> HIDE DEF n
    <3> QED BY <2>2, <3>1, Becoming DEF DesktopInv, Becomes
  <2> HIDE DEF n
  <2>4. Typed'
    BY <1>0, <1>5, <2>3 DEF DesktopInv, Typed, world, counts, Becomes
  <2>5. \A q \in Profile : gen[q] <= gen'[q]
    BY <1>5 DEF DesktopInv, Typed
  <2> QED
    BY <1>0, <1>1, <1>2, <1>5, <2>1, <2>2, <2>3, <2>4, <2>5, SameKept, StopGoes DEF world, counts, StopPc
<1> QED BY <1>3, <1>4, <1>5 DEF StopFinds

\* A stop reads the status of the instance.
LEMMA StopReadsStep ==
  ASSUME DesktopInv, NEW t \in Thread, StopReads(t)
  PROVE  DesktopInv'
<1> DEFINE p == th[t].p
           n == [th[t] EXCEPT !.pc = "flag", !.prev = inst[p].status]
<1>0. /\ app = "up" /\ th[t].pc = "previous" /\ th[t].pc \in StopPc /\ p \in Profile /\ th[t] \in ThreadState
      /\ UNCHANGED <<app, store, world, mon, timers, lifecycle, queue, shutting, stopped, counts>>
      /\ th[t].a \in Attempt /\ mon[th[t].a].pc # "none"
  BY Stopping DEF StopReads, At, StopPc
<1>1. \A u \in Thread : th[u].pc \in {"mark", "signal"} => th[u].a \in held'
  BY <1>0, Stopping DEF world
<1>2. Same /\ Reaped
  BY <1>0, SameKept DEF Reaped, world, store
<1>3. inst[p].status \in Statuses /\ (inst[p].running => inst[p].status \notin Terminal)
  BY <1>0, InstTyped DEF DesktopInv, InstancesWatched
<1>4. /\ n \in ThreadState /\ n.pc = "flag" /\ n.op = th[t].op /\ n.p = th[t].p /\ n.gen = th[t].gen
      /\ n.cancelled = th[t].cancelled /\ n.next = th[t].next /\ n.a = th[t].a /\ n.prev = inst[p].status
  BY <1>0, <1>3 DEF ThreadState, CommandPc, StopPc
<1>5. Becomes(t, n) /\ th'[t] = n
  <2>1. th' = [th EXCEPT ![t] = n]
    BY DEF StopReads
  <2> HIDE DEF n
  <2> QED BY <1>4, <2>1, Becoming DEF DesktopInv, Becomes
<1> HIDE DEF n
<1>6. Typed'
  BY <1>0, <1>5 DEF DesktopInv, Typed, world, store, counts, Becomes
<1>7. \A q \in Profile : gen[q] <= gen'[q]
  BY <1>0 DEF DesktopInv, Typed, store
<1> QED BY <1>0, <1>1, <1>2, <1>3, <1>4, <1>5, <1>6, <1>7, StopGoes DEF world, store, counts, StopPc

\* A stop marks the instance as stopped by its user.
LEMMA StopFlagsStep ==
  ASSUME DesktopInv, NEW t \in Thread, StopFlags(t)
  PROVE  DesktopInv'
<1>0. /\ app = "up" /\ th[t].pc = "flag" /\ th[t].pc \in StopPc /\ th[t].p \in Profile
      /\ UNCHANGED <<app, exists, gen, starting, mutating, stale, world, mon, timers, lifecycle, queue,
                 shutting, stopped, counts>>
      /\ th[t].a \in Attempt /\ mon[th[t].a].pc # "none"
  BY Stopping DEF StopFlags, At, StopPc
<1>1. \A u \in Thread : th[u].pc \in {"mark", "signal"} => th[u].a \in held'
  BY <1>0, Stopping DEF world
<1>2. Same /\ inst' \in [Profile -> Instance]
  BY <1>0, Wished DEF StopFlags
<1>3. Reaped
  BY <1>0 DEF Reaped, world
<1>4. /\ Becomes(t, th'[t]) /\ th'[t].pc = "child" /\ th'[t].op = th[t].op /\ th'[t].p = th[t].p /\ th'[t].a = th[t].a
      /\ th'[t].next = th[t].next /\ th'[t].gen = th[t].gen /\ th'[t].prev = th[t].prev
      /\ th'[t].cancelled = th[t].cancelled
  BY Going DEF StopFlags, DesktopInv, Becomes, CommandPc, StopPc
<1>5. Typed'
  BY <1>0, <1>2, <1>4 DEF DesktopInv, Typed, world, counts, Becomes
<1>6. inst[th[t].p].running => th[t].prev \notin Terminal
  BY <1>0 DEF DesktopInv, ChildrenHeld
<1>7. \A q \in Profile : gen[q] <= gen'[q]
  BY <1>0 DEF DesktopInv, Typed
<1> QED BY <1>0, <1>1, <1>2, <1>3, <1>4, <1>5, <1>6, <1>7, StopGoes DEF world, counts, StopPc

\* A stop takes the child lock, or finds the engine reaped.
LEMMA StopLocksChildStep ==
  ASSUME DesktopInv, NEW t \in Thread, StopLocksChild(t)
  PROVE  DesktopInv'
<1> DEFINE a == th[t].a
<1>0. /\ app = "up" /\ th[t].pc = "child" /\ th[t].pc \in StopPc /\ th[t].p \in Profile /\ a \notin held
      /\ UNCHANGED <<app, exists, gen, mutating, inst, stale, records, clean, up, mon, timers, queue,
                    shutting, used, asks, crashes>>
      /\ a \in Attempt /\ mon[a].pc # "none"
      /\ \A u \in Thread : th[u].pc \in {"mark", "signal"} => th[u].a \in held
  BY Stopping DEF StopLocksChild, At, StopPc
<1>1. Same
  BY <1>0, SameKept
<1>2. \A q \in Profile : gen[q] <= gen'[q]
  BY <1>0 DEF DesktopInv, Typed
<1>3. engine \in [Attempt -> {"none", "gated", "run", "zombie", "gone"}]
  BY DEF DesktopInv, Typed
<1>4. CASE /\ engine[a] \in {"zombie", "gone"} /\ engine' = [engine EXCEPT ![a] = "gone"]
           /\ Return(t, TRUE) /\ NoFault /\ UNCHANGED held
  <2>1. Reaped
    BY <1>0, <1>3, <1>4 DEF Reaped
  <2>2. engine' \in [Attempt -> {"none", "gated", "run", "zombie", "gone"}]
    BY <1>3, <1>4
  <2>3. Typed'
    BY <1>0, <1>4, <2>2, ReturnTyped DEF NoFault, DesktopInv, Typed
  <2> QED BY <1>0, <1>1, <1>2, <1>4, <2>1, <2>3, ReturnQuiet
<1>5. CASE /\ engine[a] \notin {"zombie", "gone"} /\ held' = held \cup {a} /\ Goto(t, "mark") /\ NoFault
           /\ UNCHANGED <<engine, lifecycle, starting, stopped>>
  <2>1. Reaped
    BY <1>5 DEF Reaped
  <2>2. /\ Becomes(t, th'[t]) /\ th'[t].pc = "mark" /\ th'[t].op = th[t].op /\ th'[t].p = th[t].p /\ th'[t].a = th[t].a
        /\ th'[t].next = th[t].next /\ th'[t].gen = th[t].gen /\ th'[t].prev = th[t].prev
        /\ th'[t].cancelled = th[t].cancelled
    BY <1>5, Going DEF DesktopInv, Becomes, CommandPc, StopPc
  <2>3. Typed'
    BY <1>0, <1>5, <2>2 DEF NoFault, DesktopInv, Typed, Becomes
  <2>4. inst[th[t].p].running => th[t].prev \notin Terminal
    BY <1>0 DEF DesktopInv, ChildrenHeld
  <2>5. engine'[a] \in {"run", "zombie"} /\ \A u \in Thread : th[u].pc \in {"mark", "signal"} => th[u].a # a
    BY <1>0, <1>5 DEF DesktopInv, InstancesWatched
  <2> QED BY <1>0, <1>1, <1>2, <1>5, <2>1, <2>2, <2>3, <2>4, <2>5, StopGoes DEF StopPc
<1>6. CASE Return(t, FALSE) /\ Fault /\ UNCHANGED <<engine, held>>
  <2>1. Reaped
    BY <1>6 DEF Reaped
  <2>2. Typed'
    BY <1>0, <1>6, ReturnTyped, FaultTyped DEF DesktopInv, Typed
  <2> QED BY <1>0, <1>1, <1>2, <1>6, <2>1, <2>2, ReturnQuiet
<1> QED BY <1>0, <1>4, <1>5, <1>6 DEF StopLocksChild

\* Under the child lock the instance is marked disconnecting.
LEMMA StopMarksStep ==
  ASSUME DesktopInv, NEW t \in Thread, StopMarks(t)
  PROVE  DesktopInv'
<1> DEFINE p == th[t].p
           i == [inst[p] EXCEPT !.user = TRUE, !.status = "disconnecting"]
<1>0. /\ app = "up" /\ th[t].pc = "mark" /\ th[t].pc \in StopPc /\ p \in Profile
      /\ UNCHANGED <<app, exists, starting, mutating, stale, world, mon, timers, lifecycle, queue,
                    shutting, stopped, counts>>
      /\ th[t].a \in Attempt /\ mon[th[t].a].pc # "none"
  BY Stopping DEF StopMarks, At, StopPc
<1>1. /\ \A u \in Thread : th[u].pc \in {"mark", "signal"} => th[u].a \in held'
      /\ th[t].a \in held' /\ engine'[th[t].a] \in {"run", "zombie"}
      /\ \A u \in Thread : u # t /\ th[u].pc \in {"mark", "signal"} => th[u].a # th[t].a
  BY <1>0 DEF DesktopInv, ChildrenHeld, world
<1>2. gen' \in [Profile -> Nat] /\ \A q \in Profile : gen[q] <= gen'[q]
  BY <1>0, BumpedTyped DEF StopMarks
<1>3. Same /\ inst' \in [Profile -> Instance]
  <2>1. inst[p] \in Instance
    BY <1>0, InstTyped DEF DesktopInv
  <2>2. /\ i \in Instance /\ i.id = inst[p].id /\ i.running = inst[p].running /\ i.failed = inst[p].failed
        /\ i.status = "disconnecting"
    BY <2>1 DEF Instance, Statuses
  <2>3. inst' = [inst EXCEPT ![p] = i]
    BY DEF StopMarks
  <2> HIDE DEF i
  <2> QED BY <1>0, <2>2, <2>3, Shown DEF Terminal
<1>4. Reaped
  BY <1>0 DEF Reaped, world
<1>5. /\ Becomes(t, th'[t]) /\ th'[t].pc = "signal" /\ th'[t].op = th[t].op /\ th'[t].p = th[t].p /\ th'[t].a = th[t].a
      /\ th'[t].next = th[t].next /\ th'[t].gen = th[t].gen /\ th'[t].prev = th[t].prev
      /\ th'[t].cancelled = th[t].cancelled
  BY Going DEF StopMarks, DesktopInv, Becomes, CommandPc, StopPc
<1>6. Typed'
  BY <1>0, <1>2, <1>3, <1>5 DEF DesktopInv, Typed, world, counts, Becomes
<1>7. inst[th[t].p].running => th[t].prev \notin Terminal
  BY <1>0 DEF DesktopInv, ChildrenHeld
<1> QED BY <1>0, <1>1, <1>2, <1>3, <1>4, <1>5, <1>6, <1>7, StopGoes DEF world, counts, StopPc

\* Under the child lock the engine is signalled, or the mark undone.
LEMMA StopSignalsStep ==
  ASSUME DesktopInv, NEW t \in Thread, StopSignals(t)
  PROVE  DesktopInv'
<1> DEFINE p == th[t].p
           a == th[t].a
<1>0. /\ app = "up" /\ th[t].pc = "signal" /\ th[t].pc \in StopPc /\ p \in Profile /\ held' = held \ {a}
      /\ UNCHANGED <<app, exists, gen, mutating, stale, records, engine, clean, up, mon, timers, queue,
                    shutting, used, asks, crashes>>
      /\ a \in Attempt /\ mon[a].pc # "none" /\ th[t] \in ThreadState
  BY Stopping DEF StopSignals, At, StopPc
<1>1. \A u \in Thread : u # t /\ th[u].pc \in {"mark", "signal"} => th[u].a \in held'
  BY <1>0 DEF DesktopInv, ChildrenHeld
<1>2. \A q \in Profile : gen[q] <= gen'[q]
  BY <1>0 DEF DesktopInv, Typed
<1>3. Reaped
  BY <1>0 DEF Reaped
<1>4. CASE /\ NoFault /\ Goto(t, "gone")
           /\ UNCHANGED <<inst, lifecycle, starting, stopped>>
  <2>1. /\ Becomes(t, th'[t]) /\ th'[t].pc = "gone" /\ th'[t].op = th[t].op /\ th'[t].p = th[t].p /\ th'[t].a = th[t].a
        /\ th'[t].next = th[t].next /\ th'[t].gen = th[t].gen /\ th'[t].prev = th[t].prev
        /\ th'[t].cancelled = th[t].cancelled
    BY <1>4, Going DEF DesktopInv, Becomes, CommandPc, StopPc
  <2>2. Typed'
    BY <1>0, <1>4, <2>1 DEF NoFault, DesktopInv, Typed, counts, Becomes
  <2> QED BY <1>0, <1>1, <1>2, <1>3, <1>4, <2>1, <2>2, SameKept, StopGoes DEF StopPc
<1>5. CASE Fault /\ inst[p].running /\ Return(t, FALSE) /\ StopFailed(p, th[t].prev)
  <2>1. inst[p] \in Instance /\ th[t].prev \in Statuses /\ th[t].prev \notin Terminal
    BY <1>0, <1>5, InstTyped, ThreadTyped DEF DesktopInv, ChildrenHeld
  <2>2. Same /\ inst' \in [Profile -> Instance]
    <3>1. CASE inst' = inst
      BY <3>1, SameKept DEF DesktopInv, Typed
    <3>2. CASE inst' = [inst EXCEPT ![p].status = th[t].prev, ![p].user = TRUE]
      <4> DEFINE i == [inst[p] EXCEPT !.status = th[t].prev, !.user = TRUE]
      <4>1. /\ i \in Instance /\ i.id = inst[p].id /\ i.running = inst[p].running /\ i.failed = inst[p].failed
            /\ i.status = th[t].prev
        BY <2>1 DEF Instance
      <4>2. inst' = [inst EXCEPT ![p] = i]
        BY <3>2
      <4> HIDE DEF i
      <4> QED BY <1>0, <2>1, <4>1, <4>2, Shown
    <3> QED BY <1>5, <3>1, <3>2 DEF StopFailed
  <2>3. Typed'
    BY <1>0, <1>5, <2>2, ReturnTyped, FaultTyped DEF DesktopInv, Typed
  <2> QED BY <1>0, <1>1, <1>2, <1>3, <1>5, <2>2, <2>3, ReturnQuiet
<1>6. CASE Fault /\ Return(t, TRUE) /\ UNCHANGED inst
  <2>1. Typed'
    BY <1>0, <1>6, ReturnTyped, FaultTyped DEF DesktopInv, Typed
  <2> QED BY <1>0, <1>1, <1>2, <1>3, <1>6, <2>1, SameKept, ReturnQuiet
<1> QED BY <1>4, <1>5, <1>6 DEF StopSignals

\* A stop waits for the monitor to have drained the engine.
LEMMA StopWaitsStep ==
  ASSUME DesktopInv, NEW t \in Thread, StopWaits(t)
  PROVE  DesktopInv'
<1>0. /\ app = "up" /\ th[t].pc = "gone" /\ th[t].pc \in StopPc
      /\ UNCHANGED <<app, exists, gen, mutating, inst, stale, world, mon, timers, queue, shutting, counts>>
  BY DEF StopWaits, At, StopPc
<1>1. \A u \in Thread : th[u].pc \in {"mark", "signal"} => th[u].a \in held'
  BY <1>0, Stopping DEF world
<1>2. \A q \in Profile : gen[q] <= gen'[q]
  BY <1>0 DEF DesktopInv, Typed
<1>3. Same /\ Reaped
  BY <1>0, SameKept DEF Reaped, world
<1>4. ASSUME NEW ok \in BOOLEAN, Return(t, ok) PROVE DesktopInv'
  <2>1. Typed'
    BY <1>0, <1>4, ReturnTyped DEF DesktopInv, Typed, world, counts
  <2> QED BY <1>0, <1>1, <1>2, <1>3, <1>4, <2>1, ReturnQuiet DEF world, counts
<1> QED BY <1>4 DEF StopWaits

\* Every step of a stop.
LEMMA StopStepKeeps ==
  ASSUME DesktopInv, NEW t \in Thread, StopStep(t)
  PROVE  DesktopInv'
BY StopFindsStep, StopReadsStep, StopFlagsStep, StopLocksChildStep, StopMarksStep, StopSignalsStep, StopWaitsStep
DEF StopStep

\* A command that is neither a start nor a stop goes on.
LEMMA CommandGoes ==
  ASSUME DesktopInv, Up, Typed', NEW t \in Profile, Becomes(t, th'[t]),
         th[t].pc \in {"check", "waitstop", "reserve"}, th'[t].pc \in {"find", "reserve", "admit", "mutate"},
         th'[t].op = th[t].op, th'[t].p = th[t].p, th'[t].next = th[t].next, th'[t].cancelled = th[t].cancelled,
         th'[t].pc = "admit" => th[t].op \in Starters,
         th'[t].pc = "mutate" => ~HasRunning(t),
         UNCHANGED <<app, exists, starting, inst, stale, world, mon, lifecycle, queue, used>>,
         \A p \in Profile : gen[p] <= gen'[p]
  PROVE  DesktopInv'
<1>1. t \in Thread /\ Holds(t) /\ ~th[t].cancelled
  BY NamesApart DEF DesktopInv, ThreadsHold, Holds, StopPc
<1>2. Holds(t)'
  BY <1>1 DEF Holds, CommandPc, LockedPc, StartPc, StopPc
<1>3. t \notin starting
  BY <1>1 DEF DesktopInv, StartsAlone, StartPc
<1>4. Waiting(t)' => Waiting(t)
  BY <1>1 DEF Waiting
<1>5. Same /\ Reaped
  BY SameKept DEF Reaped, world
<1>6. \A u \in Thread : th[u].pc \in {"mark", "signal"} => th[u].a \in held'
  BY DEF DesktopInv, ChildrenHeld, world
<1>7. th'[t].pc \notin LockedPc /\ th'[t].pc \notin StartPc /\ th'[t].pc \notin StopPc \ {"find"}
  BY DEF LockedPc, StartPc, StopPc
<1> QED BY <1>1, <1>2, <1>3, <1>4, <1>5, <1>6, <1>7, MoveQuiet DEF world

\* A command that is neither a start nor a stop ends.
LEMMA CommandEnds ==
  ASSUME DesktopInv, Up, NEW t \in Profile, NEW ok \in BOOLEAN, End(t, ok),
         th[t].pc \in {"check", "waitstop", "reserve", "mutate"}, exists' = exists \/ exists' = exists \cup {t},
         UNCHANGED <<app, gen, inst, stale, world, mon, timers, queue, shutting, counts>>,
         mutating' \subseteq mutating
  PROVE  DesktopInv'
<1>1. /\ Becomes(t, NoThread) /\ lifecycle' \in Thread \cup {Free} /\ starting' \subseteq starting
      /\ stopped' \subseteq Profile
  BY EndIs DEF DesktopInv
<1>2. Typed'
  BY <1>1 DEF DesktopInv, Typed, world, counts, Becomes
<1>3. Same /\ Reaped
  BY SameKept DEF Reaped, world
<1>4. \A p \in Profile : gen[p] <= gen'[p]
  BY DEF DesktopInv, Typed
<1>5. \A u \in Thread : th[u].pc \in {"mark", "signal"} => th[u].a \in held'
  BY DEF DesktopInv, ChildrenHeld, world
<1> QED BY <1>2, <1>3, <1>4, <1>5, EndQuiet DEF world, counts

\* A delete looks for a start or a running instance.
LEMMA DeleteChecksStep ==
  ASSUME DesktopInv, NEW t \in Profile, DeleteChecks(t)
  PROVE  DesktopInv'
<1>0. /\ app = "up" /\ th[t].pc = "check" /\ t \in Thread
      /\ UNCHANGED <<app, exists, gen, mutating, inst, stale, world, mon, timers, queue, shutting, counts>>
  BY NamesApart DEF DeleteChecks, At
<1>1. CASE Goto(t, "find") /\ UNCHANGED <<lifecycle, starting, stopped>>
  <2>1. /\ Becomes(t, th'[t]) /\ th'[t].pc = "find" /\ th'[t].op = th[t].op /\ th'[t].p = th[t].p
        /\ th'[t].next = th[t].next /\ th'[t].cancelled = th[t].cancelled
    BY <1>0, <1>1, Going DEF DesktopInv, Becomes, CommandPc, StopPc
  <2>2. Typed' /\ \A p \in Profile : gen[p] <= gen'[p]
    BY <1>0, <1>1, <2>1 DEF DesktopInv, Typed, world, counts, Becomes
  <2> QED BY <1>0, <1>1, <2>1, <2>2, CommandGoes DEF counts
<1>2. CASE End(t, FALSE)
  BY <1>0, <1>2, CommandEnds
<1> QED BY <1>1, <1>2 DEF DeleteChecks

\* A reconnect or a delete waits for the instance to end.
LEMMA WaitsForStopStep ==
  ASSUME DesktopInv, NEW t \in Profile, WaitsForStop(t)
  PROVE  DesktopInv'
<1>0. /\ app = "up" /\ th[t].pc = "waitstop" /\ t \in Thread /\ th[t] \in ThreadState
      /\ UNCHANGED <<app, exists, gen, mutating, inst, stale, world, mon, timers, queue, shutting, counts>>
      /\ th[t].op \in {"reconnect", "delete"}
  BY NamesApart, ThreadTyped DEF WaitsForStop, At, DesktopInv, ThreadsHold, Holds
<1>1. CASE /\ th' = [th EXCEPT ![t].pc = IF th[t].op = "delete" THEN "reserve" ELSE "admit", ![t].a = 0]
           /\ UNCHANGED <<lifecycle, starting, stopped>>
  <2> DEFINE go == IF th[t].op = "delete" THEN "reserve" ELSE "admit"
             n == [th[t] EXCEPT !.pc = go, !.a = 0]
  <2>1. go \in {"reserve", "admit"} /\ (go = "admit" => th[t].op \in Starters) /\ 0 \in 0 .. MaxAttempt
    BY <1>0, DesktopAssumption DEF Starters
  <2>2. th' = [th EXCEPT ![t] = n]
    BY <1>1
  <2> HIDE DEF go
  <2>3. /\ n \in ThreadState /\ n.pc = go /\ n.op = th[t].op /\ n.p = th[t].p /\ n.cancelled = th[t].cancelled
        /\ n.next = th[t].next
    BY <1>0, <2>1 DEF ThreadState, CommandPc
  <2> HIDE DEF n
  <2>4. Becomes(t, n) /\ th'[t] = n
    BY <1>0, <2>2, <2>3, Becoming DEF DesktopInv, Becomes
  <2>5. Typed' /\ \A p \in Profile : gen[p] <= gen'[p]
    BY <1>0, <1>1, <2>4 DEF DesktopInv, Typed, world, counts, Becomes
  <2> QED BY <1>0, <1>1, <2>1, <2>3, <2>4, <2>5, CommandGoes DEF counts
<1>2. CASE End(t, FALSE)
  BY <1>0, <1>2, CommandEnds
<1> QED BY <1>1, <1>2 DEF WaitsForStop

\* A save or a delete reserves its profile.
LEMMA ReserveMutationStep ==
  ASSUME DesktopInv, NEW t \in Profile, ReserveMutation(t)
  PROVE  DesktopInv'
<1>0. /\ app = "up" /\ th[t].pc = "reserve" /\ t \in Thread /\ th[t].p = t
      /\ UNCHANGED <<app, exists, inst, stale, world, mon, timers, queue, shutting, counts>>
  BY Own DEF ReserveMutation, At
<1>1. CASE /\ ~InProgress(t) /\ mutating' = mutating \cup {t} /\ gen' = Bumped(t) /\ Goto(t, "mutate")
           /\ UNCHANGED <<lifecycle, starting, stopped>>
  <2>1. /\ Becomes(t, th'[t]) /\ th'[t].pc = "mutate" /\ th'[t].op = th[t].op /\ th'[t].p = th[t].p
        /\ th'[t].next = th[t].next /\ th'[t].cancelled = th[t].cancelled
    BY <1>0, <1>1, Going DEF DesktopInv, Becomes, CommandPc
  <2>2. gen' \in [Profile -> Nat] /\ \A p \in Profile : gen[p] <= gen'[p]
    BY <1>1, BumpedTyped
  <2>3. Typed'
    BY <1>0, <1>1, <2>1, <2>2 DEF DesktopInv, Typed, world, counts, Becomes
  <2>4. ~HasRunning(t)
    BY <1>1 DEF InProgress
  <2> QED BY <1>0, <1>1, <2>1, <2>2, <2>3, <2>4, CommandGoes DEF counts
<1>2. CASE End(t, FALSE) /\ UNCHANGED <<mutating, gen>>
  BY <1>0, <1>2, CommandEnds
<1> QED BY <1>0, <1>1, <1>2 DEF ReserveMutation

\* A deletion: nothing that is connected or owed goes with the profile.
LEMMA MutateStep ==
  ASSUME DesktopInv, NEW t \in Profile, Mutate(t)
  PROVE  DesktopInv'
<1>0. /\ app = "up" /\ th[t].pc = "mutate" /\ t \in Thread /\ th[t].p = t /\ th[t].pc # "idle"
      /\ UNCHANGED <<app, stale, world, mon, timers, queue, shutting, counts>>
      /\ mutating' = mutating \ {t} /\ End(t, TRUE)
  BY Own DEF Mutate, At
<1>1. CASE exists' = (IF Recreate THEN exists \cup {t} ELSE exists) /\ UNCHANGED <<gen, inst>>
  BY <1>0, <1>1, CommandEnds
<1>2. CASE exists' = exists \ {t} /\ gen' = [gen EXCEPT ![t] = 0] /\ inst' = [inst EXCEPT ![t] = NoInst]
  <2>1. /\ Becomes(t, NoThread) /\ th'[t] = NoThread /\ lifecycle' \in Thread \cup {Free}
        /\ starting' \subseteq starting /\ stopped' \subseteq Profile
    BY <1>0, EndIs DEF DesktopInv
  <2>2. /\ ThreadsHold' /\ NumbersGiven'
        /\ \A p \in Profile : Waiting(p)' => Waiting(p) /\ th'[p].next = th[p].next
        /\ \A p \in Profile : p # t => th'[p] = th[p] /\ (p \in starting' <=> p \in starting)
        /\ t \notin starting'
    BY <1>0, EndMoves DEF counts
  <2>3. /\ ~HasRunning(t) /\ ~inst[t].running
    BY <1>0 DEF DesktopInv, StartsAlone, InstancesWatched, HasRunning
  <2>4. /\ inst'[t] = NoInst /\ inst'[t].id = 0 /\ ~inst'[t].running /\ ~inst'[t].failed
        /\ inst' \in [Profile -> Instance] /\ \A p \in Profile : p # t => inst'[p] = inst[p]
    BY <1>2, NothingTyped DEF DesktopInv, Typed
  <2>5. gen' \in [Profile -> Nat] /\ \A p \in Profile : p # t => gen[p] <= gen'[p]
    BY <1>2 DEF DesktopInv, Typed
  <2>6. Typed'
    BY <1>0, <1>2, <2>1, <2>4, <2>5 DEF DesktopInv, Typed, world, counts, Becomes
  <2>7. \A p \in Profile : HasRunning(p)' => HasRunning(p) /\ p # t
    BY <2>4 DEF HasRunning
  <2>8. StartsAlone'
    <3>1. th'[t].pc \notin StartPc /\ th'[t].pc # "mutate" /\ Becomes(t, th'[t])
      BY <2>1, NothingTyped DEF StartPc
    <3>2. stale' \subseteq stale
      BY <1>0
    <3> QED BY <1>0, <1>2, <2>2, <2>4, <2>5, <2>6, <2>7, <3>1, <3>2, StartsMove DEF DesktopInv
  <2>9. NumbersFresh'
    <3>1. \A b : Fresh(b) => Fresh(b)'
      <4>1. used \in Nat
        BY Given DEF DesktopInv
      <4> QED BY <1>0, <2>4, <4>1 DEF Fresh, world, counts
    <3> QED BY <1>0, <2>2, <3>1, NumbersKept DEF DesktopInv
  <2>10. AttemptsBuilt'
    <3> SUFFICES ASSUME NEW p \in Profile, th'[p].pc \in LockedPc \ {"record"}
                 PROVE  Built(p)'
      BY DEF AttemptsBuilt
    <3>1. p # t /\ th'[p] = th[p]
      BY <2>1, <2>2, NothingTyped DEF LockedPc
    <3>2. Built(p) /\ th[p].a # 0
      BY <3>1, BuiltAttempt, AttemptIs
    <3>3. \A q \in Profile : inst'[q].id # th[p].a
      BY <2>4, <3>2 DEF Built
    <3> QED BY <1>0, <3>1, <3>2, <3>3 DEF Built, world, counts
  <2>11. InstancesWatched'
    <3>1. InstancesWatched!1'
      BY <1>0, <2>4 DEF DesktopInv, InstancesWatched, world, counts
    <3>2. InstancesWatched!2'
      BY <1>0, <2>3, <2>4 DEF DesktopInv, InstancesWatched, world, counts, Watching
    <3> QED BY <3>1, <3>2 DEF InstancesWatched
  <2>12. OwnersKnown'
    <3>1. \A p \in Profile : th[p].pc \in {"bind", "register"} => th'[p] = th[p]
      BY <1>0, <2>2
    <3>2. ASSUME NEW b \in Attempt, Known(b) PROVE Known(b)'
      <4>1. b # 0
        BY AttemptIs
      <4>2. \A p \in Profile : inst[p].id = b /\ (inst[p].running \/ inst[p].failed) => inst'[p] = inst[p]
        BY <2>3, <2>4, <4>1 DEF HasRunning
      <4> QED BY <1>0, <3>1, <3>2, <4>2 DEF Known
    <3>3. \A b \in Attempt : Owes(b)' <=> Owes(b)
      BY <1>0 DEF Owes, Alive, world
    <3> QED BY <1>0, <3>2, <3>3 DEF DesktopInv, OwnersKnown, world, counts
  <2>13. ChildrenHeld'
    <3>1. \A u \in Thread : th'[u].pc \in StopPc => th'[u] = th[u] /\ th[u].p \in Profile
      BY <2>1, NothingTyped, StopsOfProfiles DEF StopPc, Becomes, DesktopInv
    <3>2. ChildrenHeld!1' /\ ChildrenHeld!2' /\ ChildrenHeld!3'
      BY <1>0, <3>1 DEF DesktopInv, ChildrenHeld, StopPc, world
    <3>3. ChildrenHeld!4'
      BY <2>4, <3>1 DEF DesktopInv, ChildrenHeld, StopPc
    <3> QED BY <3>2, <3>3 DEF ChildrenHeld
  <2>14. DownMeansFiles' /\ ExitLeavesNothing'
    <3>1. app' = "up"
      BY <1>0
    <3> QED BY <3>1 DEF DownMeansFiles, ExitLeavesNothing
  <2> QED BY <2>2, <2>6, <2>8, <2>9, <2>10, <2>11, <2>12, <2>13, <2>14 DEF DesktopInv
<1> QED BY <1>0, <1>1, <1>2 DEF Mutate

\* Every step of a command.
LEMMA CommandStepKeeps ==
  ASSUME DesktopInv, NEW p \in Profile, CommandStep(p)
  PROVE  DesktopInv'
<1>1. p \in Thread
  BY NamesApart
<1> QED
  BY <1>1, TakeStep, AdmitStep, ResolveStep, SpawnChecksStep, WriteRecordStep, AcquireStep, SpawnStep, BindStep,
     RegisterStep, StopStepKeeps, DeleteChecksStep, WaitsForStopStep, ReserveMutationStep, MutateStep
  DEF CommandStep

\* Only what an instance shows changes.
LEMMA QuietShown ==
  ASSUME DesktopInv, Up, Typed', Same,
         UNCHANGED <<app, exists, gen, starting, stale, records, engine, clean, held, mon,
                     lifecycle, th, queue, used>>
  PROVE  DesktopInv'
<1>1. ThreadsHold' /\ NumbersGiven'
  BY DEF DesktopInv, ThreadsHold, Holds, QuitHolds, NumbersGiven
<1>2. StartsAlone'
  <2>1. \A p \in Profile : gen[p] <= gen'[p]
    BY DEF DesktopInv, Typed
  <2>2. \A p \in Profile : (HasRunning(p)' => HasRunning(p)) /\ (~inst[p].running => ~inst'[p].running)
    BY DEF HasRunning, Same
  <2> QED BY <2>1, <2>2, StartsStay DEF DesktopInv
<1>3. \A b : Fresh(b) => Fresh(b)'
  BY DEF Fresh, Same
<1>4. NumbersFresh'
  BY <1>3, NumbersKept DEF DesktopInv, Waiting
<1>5. AttemptsBuilt'
  BY DEF DesktopInv, AttemptsBuilt, Built, Same
<1>6. InstancesWatched'
  <2>1. InstancesWatched!1'
    BY DEF DesktopInv, InstancesWatched, Same
  <2>2. InstancesWatched!2'
    BY DEF DesktopInv, InstancesWatched, Same, Watching
  <2> QED BY <2>1, <2>2 DEF InstancesWatched
<1>7. OwnersKnown'
  <2>1. \A a : (Known(a) => Known(a)') /\ (Owes(a)' <=> Owes(a))
    BY DEF Owes, Alive, Known, Same
  <2> QED BY <2>1 DEF DesktopInv, OwnersKnown
<1>8. ChildrenHeld'
  <2>1. \A u \in Thread : th[u].pc \in StopPc => th[u].p \in Profile
    BY StopsOfProfiles DEF DesktopInv
  <2> QED BY <2>1 DEF DesktopInv, ChildrenHeld, Same, StopPc
<1>9. DownMeansFiles' /\ ExitLeavesNothing'
  <2>1. app' = "up"
    OBVIOUS
  <2> QED BY <2>1 DEF DownMeansFiles, ExitLeavesNothing
<1> QED BY <1>1, <1>2, <1>4, <1>5, <1>6, <1>7, <1>8, <1>9 DEF DesktopInv

\* An engine that reports its tunnel.
LEMMA EngineUpStep ==
  ASSUME DesktopInv, NEW a \in Attempt, EngineUp(a)
  PROVE  DesktopInv'
<1>1. Typed'
  BY DEF EngineUp, DesktopInv, Typed, store, counts
<1> QED BY <1>1, Quiet DEF EngineUp, store, counts

\* What the readers see.
LEMMA ReadersStep ==
  ASSUME DesktopInv, NEW a \in Attempt, ReaderCloses(a) \/ ReaderConnected(a) \/ ReaderBlocks(a)
  PROVE  DesktopInv'
<1> DEFINE p == mon[a].p
<1>0. /\ app = "up" /\ mon[a].pc \in Watching /\ inst[p].id = a
      /\ UNCHANGED <<app, exists, gen, starting, mutating, stale, world, mon, timers, lifecycle, th, queue,
                    shutting, stopped, counts>>
  BY DEF ReaderCloses, ReaderConnected, ReaderBlocks, Reading, Watching
<1>1. p \in Profile /\ inst[p] \in Instance /\ (inst[p].running => inst[p].status \notin Terminal)
  BY <1>0, InstTyped DEF DesktopInv, InstancesWatched, Watching
<1>2. Same /\ inst' \in [Profile -> Instance]
  <2>1. CASE ReaderCloses(a)
    <3> DEFINE i == [inst[p] EXCEPT !.status = "disconnecting"]
    <3>1. /\ i \in Instance /\ i.id = inst[p].id /\ i.running = inst[p].running /\ i.failed = inst[p].failed
          /\ i.status = "disconnecting"
      BY <1>1 DEF Instance, Statuses
    <3>2. inst' = [inst EXCEPT ![p] = i]
      BY <2>1 DEF ReaderCloses
    <3> HIDE DEF i
    <3> QED BY <1>1, <3>1, <3>2, Shown DEF Terminal
  <2>2. CASE ReaderConnected(a)
    <3> DEFINE i == [inst[p] EXCEPT !.status = "connected", !.blocked = FALSE]
    <3>1. /\ i \in Instance /\ i.id = inst[p].id /\ i.running = inst[p].running /\ i.failed = inst[p].failed
          /\ i.status = "connected"
      BY <1>1 DEF Instance, Statuses
    <3>2. inst' = [inst EXCEPT ![p] = i]
      BY <2>2 DEF ReaderConnected
    <3> HIDE DEF i
    <3> QED BY <1>1, <3>1, <3>2, Shown DEF Terminal
  <2>3. CASE ReaderBlocks(a)
    <3> DEFINE i == [inst[p] EXCEPT !.blocked = TRUE]
    <3>1. /\ i \in Instance /\ i.id = inst[p].id /\ i.running = inst[p].running /\ i.failed = inst[p].failed
          /\ i.status = inst[p].status
      BY <1>1 DEF Instance
    <3>2. inst' = [inst EXCEPT ![p] = i]
      BY <2>3 DEF ReaderBlocks
    <3> HIDE DEF i
    <3> QED BY <1>1, <3>1, <3>2, Shown
  <2> QED BY <2>1, <2>2, <2>3
<1>3. Typed'
  BY <1>0, <1>2 DEF DesktopInv, Typed, world, counts
<1> QED BY <1>0, <1>2, <1>3, QuietShown DEF world, counts

\* An engine ends: nobody signals or registers it any more, or it is a zombie
\* for its monitor.
LEMMA EngineEnds ==
  ASSUME DesktopInv, Typed', NEW a \in Attempt, engine[a] = "run",
         engine' = [engine EXCEPT ![a] = engine'[a]], engine'[a] \in {"zombie", "gone"},
         engine'[a] = "gone" => a \in stale \/ ~Up,
         clean' \in {clean, [clean EXCEPT ![a] = TRUE]},
         UNCHANGED <<app, exists, gen, starting, inst, stale, records, held, mon, lifecycle, th, queue, used>>
  PROVE  DesktopInv'
<1>0. /\ \A b \in Attempt : b # a => engine'[b] = engine[b] /\ clean'[b] = clean[b]
      /\ clean[a] => clean'[a]
  BY DEF DesktopInv, Typed
<1>1. ThreadsHold' /\ NumbersGiven'
  BY DEF DesktopInv, ThreadsHold, Holds, QuitHolds, NumbersGiven
<1>2. StartsAlone'
  BY DEF DesktopInv, StartsAlone, Starts, Alone, HasRunning
<1>3. \A b : Fresh(b) => Fresh(b)'
  BY <1>0, Given DEF DesktopInv, Fresh
<1>4. NumbersFresh'
  BY <1>3, NumbersKept DEF DesktopInv, Waiting
<1>5. Alive(a) /\ (~Up => \/ \A t \in Thread : th[t].pc = "idle"
                          \/ a \in stale)
  <2>1. Alive(a)
    BY DEF Alive
  <2>2. ~Up => app \in {"down", "exited"}
    BY DEF DesktopInv, Typed
  <2> QED BY <2>1, <2>2 DEF DesktopInv, DownMeansFiles, ExitLeavesNothing
<1>6. \A t \in Thread : th[t].pc # "idle" /\ th[t].a = a /\ a \notin stale => engine'[a] = "zombie"
  BY <1>5
<1>7. AttemptsBuilt'
  <2> SUFFICES ASSUME NEW p \in Profile, th'[p].pc \in LockedPc \ {"record"}
               PROVE  Built(p)'
    BY DEF AttemptsBuilt
  <2>1. Built(p) /\ th[p].a \in Attempt /\ p \in Thread /\ th[p].pc # "idle"
    BY BuiltAttempt, NamesApart DEF LockedPc
  <2>2. CASE th[p].a = a
    <3>1. th[p].pc = "register"
      BY <2>1, <2>2 DEF Built, LockedPc
    <3>2. engine'[a] = "zombie"
      BY <1>6, <2>1, <2>2 DEF Built
    <3> QED BY <2>1, <2>2, <3>1, <3>2 DEF Built
  <2>3. CASE th[p].a # a
    BY <1>0, <2>1, <2>3 DEF Built
  <2> QED BY <2>2, <2>3
<1>8. InstancesWatched'
  <2>1. \A b \in Attempt : clean[b] => clean'[b]
    BY <1>0
  <2>2. \A p \in Profile : inst[p].id # 0 => inst[p].id \in Attempt
    BY Given DEF DesktopInv, InstancesWatched
  <2>3. InstancesWatched!1'
    BY <2>1, <2>2 DEF DesktopInv, InstancesWatched
  <2>4. InstancesWatched!2'
    BY <1>0 DEF DesktopInv, InstancesWatched
  <2> QED BY <2>3, <2>4 DEF InstancesWatched
<1>9. OwnersKnown'
  <2>1. \A b : Known(b)' <=> Known(b)
    BY DEF Known
  <2>2. \A b \in Attempt : Owes(b)' => Owes(b)
    BY <1>0, <1>5 DEF Owes, Alive
  <2>3. \A b \in Attempt : b > used => engine'[b] = "none"
    BY <1>0 DEF DesktopInv, OwnersKnown
  <2> QED BY <2>1, <2>2, <2>3 DEF DesktopInv, OwnersKnown
<1>10. ChildrenHeld'
  <2>1. ASSUME NEW t \in Thread, th[t].pc \in {"mark", "signal"} PROVE engine'[th[t].a] \in {"run", "zombie"}
    <3>1. th[t].a \in Attempt /\ mon[th[t].a].pc # "none" /\ engine[th[t].a] \in {"run", "zombie"}
      BY <2>1 DEF DesktopInv, ChildrenHeld, StopPc
    <3>2. th[t].a \notin stale
      BY <3>1 DEF DesktopInv, InstancesWatched
    <3> QED BY <1>0, <1>6, <2>1, <3>1, <3>2
  <2> QED BY <2>1 DEF DesktopInv, ChildrenHeld
<1>11. DownMeansFiles' /\ ExitLeavesNothing'
  <2>1. \A b \in Attempt : Alive(b)' => Alive(b)
    BY <1>0, <1>5 DEF Alive
  <2> QED BY <2>1 DEF DesktopInv, DownMeansFiles, ExitLeavesNothing
<1> QED BY <1>1, <1>2, <1>4, <1>7, <1>8, <1>9, <1>10, <1>11 DEF DesktopInv

\* An engine that exits waits for its monitor to reap it.
LEMMA EngineExitsStep ==
  ASSUME DesktopInv, NEW a \in Attempt, EngineExits(a) \/ CleanupStale(a)
  PROVE  DesktopInv'
<1>1. /\ engine[a] = "run" /\ clean' \in {clean, [clean EXCEPT ![a] = TRUE]}
      /\ engine' = [engine EXCEPT ![a] = IF a \in stale \/ ~Up THEN "gone" ELSE "zombie"]
      /\ UNCHANGED <<app, store, records, up, held, mon, timers, lifecycle, th, queue, shutting, stopped, counts>>
  BY DEF EngineExits, CleanupStale
<1>2. engine \in [Attempt -> {"none", "gated", "run", "zombie", "gone"}] /\ clean \in [Attempt -> BOOLEAN]
  BY DEF DesktopInv, Typed
<1>3. /\ engine' \in [Attempt -> {"none", "gated", "run", "zombie", "gone"}] /\ clean' \in [Attempt -> BOOLEAN]
      /\ engine'[a] = (IF a \in stale \/ ~Up THEN "gone" ELSE "zombie")
  BY <1>1, <1>2
<1>4. Typed'
  BY <1>1, <1>3 DEF DesktopInv, Typed, store, counts
<1>5. engine' = [engine EXCEPT ![a] = engine'[a]]
  BY <1>1, <1>3
<1> QED BY <1>1, <1>3, <1>4, <1>5, EngineEnds DEF store, counts

\* A monitor moves: only its attempt, its instance and its record with it.
LEMMA MonitorMoves ==
  ASSUME DesktopInv, Up, Typed', NEW a \in Attempt, mon[a].pc # "none", mon'[a].pc # "none", Reaped,
         \A b \in Attempt : b # a => mon'[b] = mon[b],
         UNCHANGED <<app, exists, gen, starting, stale, clean, held, lifecycle, th, queue, used>>,
         records' = records \/ (records' = records \ {a} /\ ~Owes(a)),
         \A p \in Profile : /\ inst'[p].id = inst[p].id /\ (inst'[p].running => inst[p].running)
                            /\ HasRunning(p)' => HasRunning(p),
         \A b \in Attempt : Owes(b) /\ Known(b) => Known(b)',
         InstancesWatched'
  PROVE  DesktopInv'
<1>1. ThreadsHold' /\ NumbersGiven'
  BY DEF DesktopInv, ThreadsHold, Holds, QuitHolds, NumbersGiven
<1>2. StartsAlone'
  <2>1. \A p \in Profile : gen[p] <= gen'[p]
    BY DEF DesktopInv, Typed
  <2> QED BY <2>1, StartsStay DEF DesktopInv
<1>3. ASSUME NEW b, Fresh(b) PROVE Fresh(b)'
  <2>1. b \in Attempt /\ b # a
    BY <1>3, Given DEF DesktopInv, Fresh
  <2>2. engine'[b] = engine[b] /\ mon'[b] = mon[b]
    BY <1>3, <2>1 DEF Reaped, Fresh
  <2> QED BY <1>3, <2>1, <2>2 DEF Fresh
<1>4. NumbersFresh'
  BY <1>3, NumbersKept DEF DesktopInv, Waiting
<1>5. AttemptsBuilt'
  <2> SUFFICES ASSUME NEW p \in Profile, th'[p].pc \in LockedPc \ {"record"}
               PROVE  Built(p)'
    BY DEF AttemptsBuilt
  <2>1. Built(p) /\ th[p].a \in Attempt
    BY BuiltAttempt
  <2>2. th[p].a # a
    BY <2>1 DEF Built
  <2>3. engine'[th[p].a] = engine[th[p].a]
    BY <2>1 DEF Reaped, Built
  <2>4. mon'[th[p].a] = mon[th[p].a] /\ th[p].a \in records'
    BY <2>1, <2>2 DEF Built
  <2> QED BY <2>1, <2>3, <2>4 DEF Built
<1>6. OwnersKnown'
  <2>1. \A b \in Attempt : Owes(b)' => Owes(b)
    BY DEF Owes, Alive, Reaped
  <2>2. \A b \in Attempt : engine[b] = "none" => engine'[b] = "none"
    BY DEF Reaped
  <2> QED BY <2>1, <2>2 DEF DesktopInv, OwnersKnown
<1>7. ChildrenHeld'
  <2>1. \A u \in Thread : th[u].pc \in StopPc => th[u].p \in Profile
    BY StopsOfProfiles DEF DesktopInv
  <2>2. ChildrenHeld!1'
    BY DEF DesktopInv, ChildrenHeld
  <2>3. ASSUME NEW u \in Thread, th[u].pc \in {"mark", "signal"} PROVE engine'[th[u].a] \in {"run", "zombie"}
    <3>1. th[u].a \in held /\ engine[th[u].a] \in {"run", "zombie"} /\ th[u].a \in Attempt
      BY <2>3 DEF DesktopInv, ChildrenHeld, StopPc
    <3> QED BY <3>1 DEF Reaped
  <2>4. ChildrenHeld!2' /\ ChildrenHeld!3'
    BY <2>3 DEF DesktopInv, ChildrenHeld
  <2>5. ChildrenHeld!4'
    BY <2>1 DEF DesktopInv, ChildrenHeld, StopPc
  <2> QED BY <2>2, <2>4, <2>5 DEF ChildrenHeld
<1>8. DownMeansFiles' /\ ExitLeavesNothing'
  <2>1. app' = "up"
    OBVIOUS
  <2> QED BY <2>1 DEF DownMeansFiles, ExitLeavesNothing
<1> QED BY <1>1, <1>2, <1>4, <1>5, <1>6, <1>7, <1>8 DEF DesktopInv

\* A monitor that still watches.
LEMMA WatcherMoves ==
  ASSUME DesktopInv, Up, NEW a \in Attempt, NEW m \in Monitor, mon' = [mon EXCEPT ![a] = m],
         mon[a].pc \in Watching, m.pc \in Watching, m.p = mon[a].p, engine' = [engine EXCEPT ![a] = engine'[a]],
         engine'[a] = "gone", engine[a] \in {"zombie", "gone"}, engine[a] = "zombie" => a \notin held,
         faults' \in Nat,
         UNCHANGED <<app, store, records, clean, up, held, timers, lifecycle, th, queue, shutting, stopped,
                     used, asks, crashes>>
  PROVE  DesktopInv'
<1>1. /\ mon' \in [Attempt -> Monitor] /\ mon'[a] = m /\ \A b \in Attempt : b # a => mon'[b] = mon[b]
      /\ engine' \in [Attempt -> {"none", "gated", "run", "zombie", "gone"}]
      /\ \A b \in Attempt : b # a => engine'[b] = engine[b]
  BY DEF DesktopInv, Typed
<1>2. Typed'
  BY <1>1 DEF DesktopInv, Typed, store
<1>3. Reaped
  BY <1>1 DEF Reaped, Watching
<1>4. InstancesWatched'
  <2>0. \A p \in Profile : inst[p].id # 0 => inst[p].id \in Attempt
    BY Given DEF DesktopInv, InstancesWatched
  <2>1. ASSUME NEW p \in Profile PROVE InstancesWatched!1!(p)'
    <3>1. CASE inst[p].id = a
      BY <1>1, <2>0, <3>1 DEF DesktopInv, InstancesWatched, store, Watching
    <3>2. CASE inst[p].id # a
      BY <1>1, <2>0, <3>2 DEF DesktopInv, InstancesWatched, store
    <3> QED BY <3>1, <3>2
  <2>2. InstancesWatched!2'
    BY <1>1 DEF DesktopInv, InstancesWatched, store, Watching
  <2> QED BY <2>1, <2>2 DEF InstancesWatched
<1>5. \A b : Known(b)' <=> Known(b)
  BY DEF Known, store
<1>6. \A p \in Profile : HasRunning(p)' <=> HasRunning(p)
  BY DEF HasRunning, store
<1> QED BY <1>1, <1>2, <1>3, <1>4, <1>5, <1>6, MonitorMoves DEF store, Watching

\* A monitor reaps its engine, for which it needs the child lock.
LEMMA ReapStep ==
  ASSUME DesktopInv, NEW a \in Attempt, Reap(a)
  PROVE  DesktopInv'
<1> DEFINE m == [mon[a] EXCEPT !.pc = "drain"]
<1>0. mon[a] \in Monitor
  BY MonTyped DEF DesktopInv
<1>1. m \in Monitor /\ m.pc = "drain" /\ m.p = mon[a].p
  BY <1>0 DEF Monitor, Watching
<1>2. mon' = [mon EXCEPT ![a] = m]
  BY DEF Reap
<1>3. engine' = [engine EXCEPT ![a] = "gone"] /\ engine'[a] = "gone"
  BY DEF Reap, DesktopInv, Typed
<1>4. faults' \in Nat
  BY DEF Reap, counts, DesktopInv, Typed
<1> HIDE DEF m
<1> QED BY <1>1, <1>2, <1>3, <1>4, WatcherMoves DEF Reap, Watching, counts

\* A monitor waits for the readers of the streams.
LEMMA DrainStep ==
  ASSUME DesktopInv, NEW a \in Attempt, Drain(a)
  PROVE  DesktopInv'
<1> DEFINE m(c) == [mon[a] EXCEPT !.pc = "settle", !.complete = c]
<1>0. mon[a] \in Monitor /\ mon[a].pc = "drain" /\ engine[a] = "gone" /\ mon[a].complete \in BOOLEAN
  BY MonTyped DEF DesktopInv, InstancesWatched, Drain
<1>1. \A c \in BOOLEAN : m(c) \in Monitor /\ m(c).pc = "settle" /\ m(c).p = mon[a].p
  BY <1>0 DEF Monitor, Watching
<1>2. \E c \in BOOLEAN : mon' = [mon EXCEPT ![a] = m(c)]
  <2>1. CASE mon' = [mon EXCEPT ![a].pc = "settle"]
    <3>1. mon' = [mon EXCEPT ![a] = m(mon[a].complete)]
      BY <1>0, <2>1 DEF Monitor
    <3> QED BY <1>0, <3>1
  <2>2. CASE mon' = [mon EXCEPT ![a].pc = "settle", ![a].complete = FALSE]
    BY <2>2
  <2> QED BY <2>1, <2>2 DEF Drain
<1>3. engine' = [engine EXCEPT ![a] = engine'[a]] /\ engine'[a] = "gone"
  BY <1>0 DEF Drain, world, DesktopInv, Typed
<1>4. faults' \in Nat
  BY FaultTyped DEF Drain, NoFault
<1>5. PICK c \in BOOLEAN : mon' = [mon EXCEPT ![a] = m(c)]
  BY <1>2
<1>6. m(c) \in Monitor /\ m(c).pc = "settle" /\ m(c).p = mon[a].p
  BY <1>1
<1> HIDE DEF m
<1> QED BY <1>0, <1>3, <1>4, <1>5, <1>6, WatcherMoves DEF Drain, world, Watching

\* The monitor's section: what it declares terminal is gone, and restored or
\* marked for recovery.
LEMMA SettleStep ==
  ASSUME DesktopInv, NEW a \in Attempt, Settle(a)
  PROVE  DesktopInv'
<1> DEFINE p == mon[a].p
<1>0. /\ app = "up" /\ mon[a].pc = "settle" /\ mon[a] \in Monitor /\ engine[a] = "gone" /\ p \in Profile
      /\ inst[p].id = a /\ inst[p].running /\ inst[p] \in Instance /\ clean[a] \in BOOLEAN /\ a \in 1 .. used
      /\ a \notin stale /\ a # 0
  BY MonTyped, InstTyped, AttemptIs DEF Settle, DesktopInv, InstancesWatched, Watching, Typed
<1>1. PICK reaped \in BOOLEAN, finished \in BOOLEAN, permanent \in BOOLEAN :
        LET failed == ~reaped \/ ~finished
            blocked == inst[p].blocked \/ failed \/ permanent
            retry == ~inst[p].user /\ ~blocked /\ p \in exists
        IN /\ reaped => clean[a] /\ mon[a].complete
           /\ IF finished THEN NoFault ELSE Fault
           /\ inst' = IF inst[p].id # a THEN inst
                      ELSE [inst EXCEPT ![p] = [@ EXCEPT !.running = FALSE, !.failed = failed,
                             !.blocked = blocked,
                             !.status = IF ~failed /\ (inst[p].user \/ ~permanent)
                                        THEN "disconnected" ELSE "failed"]]
           /\ mon' = [mon EXCEPT ![a].pc = IF inst[p].id = a THEN "unlink" ELSE "done",
                                 ![a].retry = IF inst[p].id = a /\ retry THEN gen[p] ELSE 0]
  BY DEF Settle
<1> DEFINE failed == ~reaped \/ ~finished
           blocked == inst[p].blocked \/ failed \/ permanent
           retry == ~inst[p].user /\ ~blocked /\ p \in exists
           st == IF ~failed /\ (inst[p].user \/ ~permanent) THEN "disconnected" ELSE "failed"
           re == IF retry THEN gen[p] ELSE 0
           i == [inst[p] EXCEPT !.running = FALSE, !.failed = failed, !.blocked = blocked, !.status = st]
           m == [mon[a] EXCEPT !.pc = "unlink", !.retry = re]
<1>2. inst' = [inst EXCEPT ![p] = i] /\ mon' = [mon EXCEPT ![a] = m]
  BY <1>0, <1>1
<1>3. /\ failed \in BOOLEAN /\ blocked \in BOOLEAN /\ st \in Terminal /\ re \in Nat
      /\ ~failed => clean[a]
  <2>1. gen[p] \in Nat
    BY <1>0 DEF DesktopInv, Typed
  <2>2. reaped => clean[a]
    BY <1>1
  <2> QED BY <1>0, <2>1, <2>2 DEF Terminal
<1>4. faults' \in Nat
  BY <1>1, FaultTyped DEF NoFault
<1> HIDE DEF failed, blocked, st, re
<1>5. i \in Instance /\ i.id = a /\ i.running = FALSE /\ i.failed = failed
  BY <1>0, <1>3 DEF Instance, Statuses
<1>6. m \in Monitor /\ m.pc = "unlink" /\ m.p = p
  BY <1>0, <1>3 DEF Monitor
<1> HIDE DEF i, m
<1>7. /\ inst' \in [Profile -> Instance] /\ inst'[p] = i /\ \A q \in Profile : q # p => inst'[q] = inst[q]
      /\ mon' \in [Attempt -> Monitor] /\ mon'[a] = m /\ \A b \in Attempt : b # a => mon'[b] = mon[b]
  BY <1>0, <1>2, <1>5, <1>6 DEF DesktopInv, Typed
<1>8. UNCHANGED <<app, exists, gen, starting, mutating, stale, world, timers, lifecycle, th, queue,
                    shutting, stopped, used, asks, crashes>>
  BY DEF Settle
<1>9. Typed'
  BY <1>4, <1>7, <1>8 DEF DesktopInv, Typed, world
<1>10. Reaped
  BY <1>8 DEF Reaped, world
<1>11. InstancesWatched'
  <2>0. InstancesWatched
    BY DEF DesktopInv
  <2>1. ASSUME NEW q \in Profile PROVE InstancesWatched!1!(q)'
    <3>1. CASE q = p
      BY <1>0, <1>3, <1>5, <1>6, <1>7, <1>8, <3>1 DEF InstancesWatched, world
    <3>2. CASE q # p
      <4>1. inst'[q] = inst[q] /\ inst[q].id # a
        BY <1>0, <1>7, <2>0, <3>2 DEF InstancesWatched
      <4>2. inst[q].id # 0 => inst[q].id \in Attempt
        BY <2>0, Given DEF DesktopInv, InstancesWatched
      <4>3. inst[q].id # 0 => mon'[inst[q].id] = mon[inst[q].id]
        BY <1>7, <4>1, <4>2
      <4> QED BY <1>8, <2>0, <4>1, <4>2, <4>3 DEF InstancesWatched, world
    <3> QED BY <3>1, <3>2
  <2>2. ASSUME NEW b \in Attempt PROVE InstancesWatched!2!(b)'
    <3>1. CASE b = a
      BY <1>0, <1>6, <1>7, <1>8, <3>1 DEF Watching, world
    <3>2. CASE b # a
      <4>1. mon'[b] = mon[b] /\ (mon[b].pc \in Watching => mon[b].p # p)
        BY <1>0, <1>7, <2>0, <3>2 DEF InstancesWatched
      <4>2. mon[b].pc \in Watching => mon[b].p \in Profile
        BY <2>0 DEF InstancesWatched, Watching
      <4> QED BY <1>7, <1>8, <2>0, <4>1, <4>2 DEF InstancesWatched, world
    <3> QED BY <3>1, <3>2
  <2> QED BY <2>1, <2>2 DEF InstancesWatched
<1>12. ASSUME NEW b \in Attempt, Owes(b), Known(b) PROVE Known(b)'
  <2>1. CASE b = a
    <3>1. ~clean[a]
      BY <1>0, <1>12, <2>1 DEF Owes, Alive
    <3>2. inst'[p].id = b /\ inst'[p].failed
      BY <1>3, <1>5, <1>7, <2>1, <3>1
    <3> QED BY <1>0, <3>2 DEF Known
  <2>2. CASE b # a
    <3>1. \A q \in Profile : inst[q].id = b => inst'[q] = inst[q]
      BY <1>0, <1>7, <2>2
    <3> QED BY <1>8, <1>12, <3>1 DEF Known
  <2> QED BY <2>1, <2>2
<1>13. \A q \in Profile : /\ inst'[q].id = inst[q].id /\ (inst'[q].running => inst[q].running)
                          /\ HasRunning(q)' => HasRunning(q)
  BY <1>0, <1>5, <1>7 DEF HasRunning
<1> QED BY <1>0, <1>6, <1>7, <1>8, <1>9, <1>10, <1>11, <1>12, <1>13, MonitorMoves DEF world

\* The record goes only when nothing is owed.
LEMMA UnlinkStep ==
  ASSUME DesktopInv, NEW a \in Attempt, Unlink(a)
  PROVE  DesktopInv'
<1> DEFINE p == mon[a].p
           m == [mon[a] EXCEPT !.pc = "done"]
<1>0. /\ app = "up" /\ mon[a].pc = "unlink" /\ mon[a] \in Monitor /\ engine[a] = "gone" /\ p \in Profile
      /\ UNCHANGED <<app, store, engine, clean, up, held, lifecycle, th, queue, shutting, stopped, counts>>
      /\ a \in 0 .. MaxAttempt /\ a # 0
  BY MonTyped, AttemptIs, DesktopAssumption DEF Unlink, DesktopInv, InstancesWatched
<1>1. m \in Monitor /\ m.pc = "done" /\ m.p = p
  BY <1>0 DEF Monitor
<1>2. mon' = [mon EXCEPT ![a] = m]
  BY DEF Unlink
<1> HIDE DEF m
<1>3. mon' \in [Attempt -> Monitor] /\ mon'[a] = m /\ \A b \in Attempt : b # a => mon'[b] = mon[b]
  BY <1>1, <1>2 DEF DesktopInv, Typed
<1>4. timers' \subseteq Timer
  <2>1. mon[a].retry \in Nat
    BY MonTyped DEF DesktopInv
  <2>2. [p |-> p, gen |-> mon[a].retry, id |-> a, pc |-> "wait"] \in Timer
    BY <1>0, <2>1 DEF Timer
  <2> QED BY <2>2 DEF Unlink, DesktopInv, Typed
<1>5. records' = records \/ (records' = records \ {a} /\ inst[p].id = a /\ ~inst[p].failed)
  BY DEF Unlink
<1>6. Typed'
  BY <1>0, <1>3, <1>4, <1>5 DEF DesktopInv, Typed, store, counts
<1>7. inst[p].id = a /\ ~inst[p].failed => ~Owes(a)
  <2>1. inst[p].id = a => ~inst[p].running
    BY <1>0 DEF DesktopInv, InstancesWatched, Watching
  <2> QED BY <1>0, <2>1 DEF DesktopInv, InstancesWatched, Owes, Alive
<1>8. InstancesWatched'
  <2>0. \A q \in Profile : inst[q].id # 0 => inst[q].id \in Attempt
    BY Given DEF DesktopInv, InstancesWatched
  <2>1. ASSUME NEW q \in Profile PROVE InstancesWatched!1!(q)'
    <3>1. CASE inst[q].id = a
      BY <1>0, <1>1, <1>3, <2>0, <3>1 DEF DesktopInv, InstancesWatched, store, counts, Watching
    <3>2. CASE inst[q].id # a
      BY <1>0, <1>3, <2>0, <3>2 DEF DesktopInv, InstancesWatched, store, counts
    <3> QED BY <3>1, <3>2
  <2>2. InstancesWatched!2'
    BY <1>0, <1>1, <1>3 DEF DesktopInv, InstancesWatched, store, Watching, counts
  <2> QED BY <2>1, <2>2 DEF InstancesWatched
<1>9. Reaped
  BY <1>0 DEF Reaped
<1>10. \A b : Known(b)' <=> Known(b)
  BY <1>0 DEF Known, store
<1>11. \A q \in Profile : HasRunning(q)' <=> HasRunning(q)
  BY <1>0 DEF HasRunning, store
<1> QED BY <1>0, <1>1, <1>3, <1>5, <1>6, <1>7, <1>8, <1>9, <1>10, <1>11, MonitorMoves DEF store, counts

\* Every step of a monitor.
LEMMA MonitorStepKeeps ==
  ASSUME DesktopInv, NEW a \in Attempt, MonitorStep(a)
  PROVE  DesktopInv'
BY ReapStep, DrainStep, SettleStep, UnlinkStep DEF MonitorStep

\* A quit moves and the world with it does not.
LEMMA QuitGoes ==
  ASSUME DesktopInv, Up, Typed', Becomes(Quitter, th'[Quitter]), QuitHolds',
         th'[Quitter].pc \in {"idle", "lock", "next", "wait", "find"}, th'[Quitter].next \in 0 .. used,
         \A u \in Profile : lifecycle = u => lifecycle' = u,
         UNCHANGED <<app, store, world, mon, timers, queue, stopped, used>>
  PROVE  DesktopInv'
<1>1. Same /\ Reaped
  BY SameKept DEF Reaped, store, world
<1>2. \A u \in Thread : th[u].pc \in {"mark", "signal"} => th[u].a \in held'
  BY DEF DesktopInv, ChildrenHeld, world
<1>3. \A p \in Profile : gen[p] <= gen'[p]
  BY DEF DesktopInv, Typed, store
<1> QED BY <1>1, <1>2, <1>3, QuitQuiet DEF store, world, StopPc

\* The quit thread.
LEMMA QuitThread ==
  ASSUME DesktopInv
  PROVE  /\ th[Quitter] \in ThreadState /\ QuitHolds /\ Quitter \in Thread /\ th[Quitter].next \in 0 .. used
         /\ th[Quitter].todo \subseteq Profile
BY NamesApart, ThreadTyped DEF DesktopInv, ThreadsHold, NumbersGiven

\* A quit starts its thread.
LEMMA QuitBegins ==
  ASSUME DesktopInv, Quit
  PROVE  DesktopInv'
<1>1. /\ Becomes(Quitter, th'[Quitter]) /\ th'[Quitter].pc = "lock" /\ th'[Quitter].op = th[Quitter].op
      /\ th'[Quitter].cancelled = th[Quitter].cancelled /\ th'[Quitter].next = th[Quitter].next
  BY NamesApart, Going DEF Quit, DesktopInv, Becomes
<1>2. Typed'
  BY <1>1 DEF Quit, DesktopInv, Typed, Becomes, store, world
<1>3. QuitHolds'
  BY <1>1, QuitThread DEF QuitHolds, StopPc
<1> QED BY <1>1, <1>2, <1>3, QuitThread, QuitGoes DEF Quit, At

\* The quit thread takes the lifecycle mutex, from which on nothing spawns.
LEMMA QuitLocksStep ==
  ASSUME DesktopInv, QuitLocks
  PROVE  DesktopInv'
<1> DEFINE c == th[Quitter]
           todo == {p \in Profile : inst[p].running}
           n == [c EXCEPT !.pc = "next", !.todo = todo]
<1>0. /\ app = "up" /\ c.pc = "lock" /\ lifecycle = Free /\ lifecycle' = Quitter /\ starting' = {}
      /\ gen' = [p \in Profile |-> IF p \in exists THEN gen[p] + 1 ELSE gen[p]]
      /\ UNCHANGED <<app, exists, mutating, inst, stale, world, mon, timers, queue, shutting, stopped, counts>>
      /\ c \in ThreadState /\ QuitHolds /\ Quitter \in Thread /\ c.next \in 0 .. used
  BY QuitThread DEF QuitLocks, At
<1>1. todo \subseteq Profile
  OBVIOUS
<1>2. th' = [th EXCEPT ![Quitter] = n]
  BY DEF QuitLocks
<1> HIDE DEF todo
<1>3. n \in ThreadState /\ n.pc = "next" /\ n.op = c.op /\ n.cancelled = c.cancelled /\ n.next = c.next
  BY <1>0, <1>1 DEF ThreadState
<1> HIDE DEF n
<1>4. Becomes(Quitter, n) /\ th'[Quitter] = n
  BY <1>0, <1>2, <1>3, Becoming DEF DesktopInv, Becomes
<1>5. gen' \in [Profile -> Nat] /\ \A p \in Profile : gen[p] \in Nat /\ (p \in exists => gen'[p] = gen[p] + 1)
  BY <1>0 DEF DesktopInv, Typed
<1>6. Typed'
  BY <1>0, <1>4, <1>5 DEF DesktopInv, Typed, Becomes, world, counts
<1>7. QuitHolds'
  BY <1>0, <1>3, <1>4 DEF QuitHolds, StopPc
<1>8. ThreadsHold'
  BY <1>0, <1>4, <1>7, QuitterMove, NamesApart DEF DesktopInv
<1>9. \A p \in Profile : th'[p] = th[p] /\ p \in Thread
  BY <1>4, NamesApart DEF Becomes
<1>10. StartsAlone'
  <2>1. ASSUME NEW p \in Profile, th'[p].pc \in StartPc PROVE Starts(p)'
    <3>1. th[p].pc \notin LockedPc
      BY <1>0, NamesApart DEF DesktopInv, ThreadsHold, Holds
    <3>2. Starts(p) /\ th[p].gen \in Nat
      BY <1>9, <2>1, ThreadTyped DEF DesktopInv, StartsAlone
    <3>3. th[p].gen <= gen'[p] /\ th[p].gen < gen'[p]
      BY <1>5, <3>2 DEF Starts
    <3> QED BY <1>0, <1>9, <3>1, <3>2, <3>3 DEF Starts
  <2>2. \A p \in Profile : th'[p].pc = "mutate" => ~HasRunning(p)'
    BY <1>0, <1>9 DEF DesktopInv, StartsAlone, HasRunning
  <2> QED BY <1>0, <2>1, <2>2 DEF StartsAlone
<1>11. /\ NumbersFresh' /\ NumbersGiven' /\ AttemptsBuilt' /\ InstancesWatched' /\ OwnersKnown'
       /\ ChildrenHeld' /\ DownMeansFiles' /\ ExitLeavesNothing'
  <2>1. Same /\ Reaped
    BY <1>0, SameKept DEF Reaped, world
  <2>2. \A u \in Thread : th[u].pc \in {"mark", "signal"} => th[u].a \in held'
    BY <1>0 DEF DesktopInv, ChildrenHeld, world
  <2>3. \A u \in Thread : th[u].pc \in StopPc => th[u].p \in Profile
    BY StopsOfProfiles DEF DesktopInv
  <2> QED
    BY <1>0, <1>3, <1>4, <2>1, <2>2, <2>3, NamesApart, QuietMove DEF world, counts, StopPc, LockedPc
<1> QED BY <1>6, <1>8, <1>10, <1>11 DEF DesktopInv

\* A quit that finds an instance it could not stop gives the application back.
LEMMA QuitBlockedStep ==
  ASSUME DesktopInv, Up, lifecycle = Quitter, QuitBlocked,
         UNCHANGED <<app, store, world, mon, timers, queue, stopped, counts>>
  PROVE  DesktopInv'
<1>1. Becomes(Quitter, NoThread) /\ th'[Quitter] = NoThread
  BY NamesApart, NothingTyped, Becoming DEF QuitBlocked, DesktopInv, Becomes
<1>2. Typed'
  BY <1>1 DEF QuitBlocked, DesktopInv, Typed, Becomes, store, world, counts
<1>3. QuitHolds' /\ th'[Quitter].pc = "idle" /\ th'[Quitter].next \in 0 .. used
  BY <1>1, NothingTyped, Given DEF QuitHolds, StopPc, DesktopInv
<1> QED BY <1>1, <1>2, <1>3, NamesApart, QuitGoes DEF counts

\* A quit turns to the next profile, or ends the application.
LEMMA QuitNextStep ==
  ASSUME DesktopInv, QuitNext
  PROVE  DesktopInv'
<1> DEFINE c == th[Quitter]
<1>0. /\ app = "up" /\ c.pc = "next" /\ lifecycle = Quitter /\ c \in ThreadState /\ QuitHolds /\ Quitter \in Thread
      /\ c.next \in 0 .. used /\ c.todo \subseteq Profile
      /\ UNCHANGED <<app, store, world, mon, timers, queue, stopped, counts>>
  BY QuitThread DEF QuitNext, At, QuitHolds, StopPc
<1>1. ASSUME NEW p \in c.todo,
             th' = [th EXCEPT ![Quitter].pc = "find", ![Quitter].p = p, ![Quitter].todo = @ \ {p}],
             UNCHANGED <<lifecycle, shutting>>
      PROVE  DesktopInv'
  <2> DEFINE todo == c.todo \ {p}
             n == [c EXCEPT !.pc = "find", !.p = p, !.todo = todo]
  <2>1. th' = [th EXCEPT ![Quitter] = n] /\ todo \subseteq Profile /\ p \in Profile
    BY <1>0, <1>1
  <2> HIDE DEF todo
  <2>2. n \in ThreadState /\ n.pc = "find" /\ n.op = c.op /\ n.cancelled = c.cancelled /\ n.next = c.next /\ n.p = p
    BY <1>0, <2>1 DEF ThreadState, CommandPc, StopPc
  <2> HIDE DEF n
  <2>3. Becomes(Quitter, n) /\ th'[Quitter] = n
    BY <1>0, <2>1, <2>2, Becoming DEF DesktopInv, Becomes
  <2>4. Typed'
    BY <1>0, <1>1, <2>3 DEF DesktopInv, Typed, Becomes, store, world, counts
  <2>5. QuitHolds'
    BY <1>0, <1>1, <2>1, <2>2, <2>3 DEF QuitHolds, StopPc
  <2> QED BY <1>0, <1>1, <2>2, <2>3, <2>4, <2>5, QuitGoes DEF counts
<1>2. CASE Goto(Quitter, "wait") /\ UNCHANGED <<lifecycle, shutting>>
  <2>1. /\ Becomes(Quitter, th'[Quitter]) /\ th'[Quitter].pc = "wait" /\ th'[Quitter].op = c.op
        /\ th'[Quitter].cancelled = c.cancelled /\ th'[Quitter].next = c.next
    BY <1>2, NamesApart, Going DEF DesktopInv, Becomes
  <2>2. Typed'
    BY <1>0, <1>2, <2>1 DEF DesktopInv, Typed, Becomes, store, world, counts
  <2>3. QuitHolds'
    BY <1>0, <1>2, <2>1 DEF QuitHolds, StopPc
  <2> QED BY <1>0, <1>2, <2>1, <2>2, <2>3, QuitGoes DEF counts
<1>3. CASE QuitBlocked
  BY <1>0, <1>3, QuitBlockedStep
<1> QED BY <1>1, <1>2, <1>3 DEF QuitNext

\* The application exits with nothing alive but what is kept for recovery.
LEMMA QuitWaitsStep ==
  ASSUME DesktopInv, QuitWaits
  PROVE  DesktopInv'
<1>0. /\ app = "up" /\ th[Quitter].pc = "wait" /\ lifecycle = Quitter
      /\ UNCHANGED <<store, world, mon, timers, queue, stopped, counts>>
  BY QuitThread DEF QuitWaits, At, QuitHolds, StopPc
<1>1. CASE QuitBlocked /\ UNCHANGED app
  BY <1>0, <1>1, QuitBlockedStep
<1>2. CASE (\A p \in Profile : ~inst[p].running) /\ app' = "exited" /\ UNCHANGED <<th, lifecycle, shutting>>
  <2>1. UNCHANGED <<exists, gen, starting, inst, stale, records, engine, clean, held, mon, lifecycle, th, queue, used>>
    BY <1>0, <1>2 DEF store, world, counts
  <2>2. Typed'
    BY <1>0, <1>2 DEF DesktopInv, Typed, store, world, counts
  <2>3. ThreadsHold' /\ NumbersGiven'
    BY <2>1 DEF DesktopInv, ThreadsHold, Holds, QuitHolds, NumbersGiven
  <2>4. StartsAlone'
    BY <2>1 DEF DesktopInv, StartsAlone, Starts, Alone, HasRunning
  <2>5. NumbersFresh'
    BY <2>1 DEF DesktopInv, NumbersFresh, Fresh, Waiting
  <2>6. AttemptsBuilt' /\ InstancesWatched' /\ ChildrenHeld'
    BY <2>1 DEF DesktopInv, AttemptsBuilt, Built, InstancesWatched, ChildrenHeld
  <2>7. OwnersKnown'
    <3>1. \A b : Owes(b)' <=> Owes(b)
      BY <2>1 DEF Owes, Alive
    <3> QED BY <1>2, <2>1, <3>1 DEF DesktopInv, OwnersKnown
  <2>8. DownMeansFiles'
    BY <1>2 DEF DownMeansFiles
  <2>9. ASSUME NEW a \in Attempt PROVE (Alive(a) => a \in stale) /\ mon[a].pc \notin Watching
    <3>1. mon[a].pc \notin Watching
      BY <1>2 DEF DesktopInv, InstancesWatched, Watching
    <3>2. ASSUME Alive(a) PROVE a \in stale
      <4>1. Known(a) /\ a # 0 /\ engine[a] # "gone"
        BY <1>0, <3>2, AttemptIs DEF DesktopInv, OwnersKnown, Owes, Alive
      <4>2. ~\E p \in Profile : th[p].pc \in {"bind", "register"} /\ th[p].a = a
        BY <1>0, NamesApart DEF DesktopInv, ThreadsHold, Holds, LockedPc
      <4>3. ~\E p \in Profile : inst[p].id = a
        BY <1>2, <4>1 DEF DesktopInv, InstancesWatched
      <4> QED BY <4>1, <4>2, <4>3 DEF Known
    <3> QED BY <3>1, <3>2
  <2>10. ExitLeavesNothing'
    BY <2>1, <2>9 DEF ExitLeavesNothing, Alive, Watching
  <2> QED BY <2>2, <2>3, <2>4, <2>5, <2>6, <2>7, <2>8, <2>10 DEF DesktopInv
<1> QED BY <1>1, <1>2 DEF QuitWaits

\* Every step of a quit.
LEMMA QuitStepKeeps ==
  ASSUME DesktopInv, QuitStep
  PROVE  DesktopInv'
BY QuitLocksStep, QuitNextStep, QuitWaitsStep, StopStepKeeps, NamesApart DEF QuitStep

\* The operator's word that the network is restored.
LEMMA AcknowledgeStep ==
  ASSUME DesktopInv, NEW a \in Attempt, Acknowledge(a)
  PROVE  DesktopInv'
<1>0. /\ app = "up" /\ lifecycle = Free /\ a \in records /\ ~Alive(a)
      /\ ~\E p \in Profile : inst[p].id = a /\ inst[p].running
      /\ records' = records \ {a} /\ stale' = stale \ {a} /\ clean' = [clean EXCEPT ![a] = TRUE]
      /\ inst' = [p \in Profile |-> IF inst[p].id = a
                   THEN [inst[p] EXCEPT !.failed = FALSE, !.status = "disconnected"] ELSE inst[p]]
      /\ UNCHANGED <<app, exists, gen, starting, mutating, engine, up, held, mon, timers, lifecycle, th, queue,
                    shutting, stopped, counts>>
  BY DEF Acknowledge
<1>14. /\ ~\E p \in Profile : inst[p].id = a /\ inst[p].running
       /\ stale' = stale \ {a}
       /\ UNCHANGED <<app, exists, gen, starting, engine, held, mon, lifecycle, th, queue, used>>
  BY <1>0 DEF counts
<1>1. ASSUME NEW p \in Profile
      PROVE  /\ inst'[p] \in Instance /\ inst'[p].id = inst[p].id /\ inst'[p].running = inst[p].running
             /\ IF inst[p].id = a THEN inst'[p].failed = FALSE ELSE inst'[p] = inst[p]
  <2>1. inst[p] \in Instance
    BY InstTyped DEF DesktopInv
  <2>2. CASE inst[p].id = a
    <3>1. inst'[p] = [inst[p] EXCEPT !.failed = FALSE, !.status = "disconnected"]
      BY <1>0, <2>2
    <3> QED BY <2>1, <2>2, <3>1 DEF Instance, Statuses, Terminal
  <2>3. CASE inst[p].id # a
    BY <1>0, <2>1, <2>3
  <2> QED BY <2>2, <2>3
<1>2. inst' \in [Profile -> Instance]
  <2>1. inst' = [p \in Profile |-> inst'[p]]
    BY <1>0
  <2> QED BY <1>1, <2>1
<1>3. /\ clean' \in [Attempt -> BOOLEAN] /\ clean'[a] = TRUE
      /\ \A b \in Attempt : b # a => clean'[b] = clean[b]
  BY <1>0 DEF DesktopInv, Typed
<1>4. Typed'
  BY <1>0, <1>2, <1>3 DEF DesktopInv, Typed, counts
<1>5. ThreadsHold' /\ NumbersGiven'
  BY <1>0 DEF DesktopInv, ThreadsHold, Holds, QuitHolds, NumbersGiven, counts
<1>6. \A p \in Profile : HasRunning(p)' => HasRunning(p)
  BY <1>1 DEF HasRunning
<1>7. StartsAlone'
  <2>1. \A p \in Profile : gen[p] <= gen'[p]
    BY <1>14 DEF DesktopInv, Typed
  <2>2. \A p \in Profile : ~inst[p].running => ~inst'[p].running
    BY <1>1
  <2>3. stale' \subseteq stale
    BY <1>0
  <2> QED BY <1>0, <1>4, <1>6, <2>1, <2>2, <2>3, StartsStay DEF DesktopInv
<1>8. NumbersFresh'
  <2>1. ASSUME NEW b, Fresh(b) PROVE Fresh(b)'
    <3>1. b # a /\ b \in Attempt
      BY <1>0, <2>1, Given DEF Fresh, DesktopInv
    <3> QED BY <1>0, <1>1, <1>3, <2>1, <3>1 DEF Fresh, counts
  <2>2. \A p \in Profile : Waiting(p)' <=> Waiting(p)
    BY <1>0 DEF Waiting
  <2> QED BY <1>0, <2>1, <2>2, NumbersKept DEF DesktopInv
<1>9. AttemptsBuilt'
  <2>1. \A p \in Profile : th[p].pc \notin LockedPc
    BY <1>0, NamesApart DEF DesktopInv, ThreadsHold, Holds
  <2> QED BY <1>0, <2>1 DEF AttemptsBuilt
<1>10. InstancesWatched'
  <2>0. InstancesWatched /\ \A p \in Profile : inst[p].id # 0 => inst[p].id \in Attempt
    BY Given DEF DesktopInv, InstancesWatched
  <2>1. ASSUME NEW p \in Profile PROVE InstancesWatched!1!(p)'
    <3>1. CASE inst[p].id = a
      <4>1. ~inst'[p].running /\ ~inst'[p].failed /\ inst'[p].id = a
        BY <1>0, <1>1, <3>1
      <4>2. a # 0
        BY DesktopAssumption DEF Attempt
      <4>3. mon' = mon /\ used' = used /\ ~inst[p].running
        BY <1>0, <3>1 DEF counts
      <4>4. a \in 1 .. used /\ mon[a].pc # "none" /\ mon[a].p = p /\ mon[a].pc \in {"unlink", "done"}
        BY <2>0, <3>1, <4>2, <4>3 DEF InstancesWatched
      <4> QED BY <1>3, <4>1, <4>2, <4>3, <4>4
    <3>2. CASE inst[p].id # a
      BY <1>0, <1>1, <1>3, <2>0, <3>2 DEF InstancesWatched, counts
    <3> QED BY <3>1, <3>2
  <2>2. InstancesWatched!2'
    BY <1>0, <1>1, <2>0 DEF InstancesWatched, Watching, counts
  <2> QED BY <2>1, <2>2 DEF InstancesWatched
<1>11. OwnersKnown'
  <2>1. \A b \in Attempt : Owes(b)' => b # a /\ Owes(b)
    BY <1>0, <1>3 DEF Owes, Alive
  <2>2. \A b \in Attempt : b # a /\ Known(b) => Known(b)'
    BY <1>0, <1>1 DEF Known
  <2> QED BY <1>0, <2>1, <2>2 DEF DesktopInv, OwnersKnown, counts
<1>12. ChildrenHeld'
  <2>1. \A u \in Thread : th[u].pc \in StopPc => th[u].p \in Profile
    BY StopsOfProfiles DEF DesktopInv
  <2>2. ChildrenHeld!1' /\ ChildrenHeld!2' /\ ChildrenHeld!3'
    BY <1>0 DEF DesktopInv, ChildrenHeld
  <2>3. ChildrenHeld!4'
    BY <1>0, <1>1, <2>1 DEF DesktopInv, ChildrenHeld, StopPc
  <2> QED BY <2>2, <2>3 DEF ChildrenHeld
<1>13. DownMeansFiles' /\ ExitLeavesNothing'
  <2>1. app' = "up"
    BY <1>0
  <2> QED BY <2>1 DEF DownMeansFiles, ExitLeavesNothing
<1> QED BY <1>4, <1>5, <1>7, <1>8, <1>9, <1>10, <1>11, <1>12, <1>13 DEF DesktopInv

\* Threads that are idle, monitors that watch nothing, instances that are none:
\* what is left to say is of the files.
LEMMA NothingRuns ==
  ASSUME Typed, lifecycle \in Thread \cup {Free}, starting = {},
         \A t \in Thread : th[t] = NoThread, \A a \in Attempt : mon[a].pc = "none",
         \A p \in Profile : inst[p] = NoInst /\ queue[p] = <<>>
  PROVE  /\ ThreadsHold /\ StartsAlone /\ NumbersFresh /\ NumbersGiven /\ AttemptsBuilt
         /\ InstancesWatched /\ ChildrenHeld
<1>1. \A t \in Thread : th[t].pc = "idle" /\ th[t].op = "none" /\ ~th[t].cancelled /\ th[t].next = 0
  BY NothingTyped
<1>2. \A p \in Profile : p \in Thread
  BY NamesApart
<1>3. \A p \in Profile : inst[p].id = 0 /\ ~inst[p].running /\ ~inst[p].failed
  BY NothingTyped
<1>4. "idle" \notin LockedPc \cup StopPc \cup StartPc /\ "idle" \in CommandPc /\ 0 \in 0 .. used
  BY Given DEF LockedPc, StopPc, StartPc, CommandPc
<1>5. ThreadsHold
  BY <1>1, <1>2, <1>4, NamesApart DEF ThreadsHold, Holds, QuitHolds
<1>6. StartsAlone
  BY <1>1, <1>2, <1>4 DEF StartsAlone
<1>7. \A p \in Profile : DOMAIN queue[p] = {} /\ ~Waiting(p)
  BY <1>1, <1>2 DEF Waiting
<1>8. NumbersFresh
  BY <1>7 DEF NumbersFresh
<1>9. NumbersGiven /\ AttemptsBuilt
  BY <1>1, <1>2, <1>4, <1>7 DEF NumbersGiven, AttemptsBuilt
<1>10. InstancesWatched
  BY <1>3 DEF InstancesWatched, Watching
<1>11. ChildrenHeld
  BY <1>1, <1>4 DEF ChildrenHeld, StopPc
<1> QED BY <1>5, <1>6, <1>8, <1>9, <1>10, <1>11

\* DesktopInv holds when the application starts for the first time.
LEMMA InitInv ==
  ASSUME Init
  PROVE  DesktopInv
<1>1. MaxAttempt \in Nat /\ 0 \in 0 .. MaxAttempt
  BY DesktopAssumption
<1>2. Typed
  <2>1. /\ inst \in [Profile -> Instance] /\ mon \in [Attempt -> Monitor] /\ th \in [Thread -> ThreadState]
    BY NothingTyped DEF Init
  <2>2. queue \in [Profile -> Seq(Command)] /\ gen \in [Profile -> Nat]
    BY DEF Init
  <2>3. engine \in [Attempt -> {"none", "gated", "run", "zombie", "gone"}] /\ clean \in [Attempt -> BOOLEAN]
    BY DEF Init
  <2> QED BY <1>1, <2>1, <2>2, <2>3 DEF Init, Typed
<1>3. \A a \in Attempt : mon[a].pc = "none" /\ ~Owes(a)
  BY NothingTyped DEF Init, Owes, Alive
<1>4. /\ ThreadsHold /\ StartsAlone /\ NumbersFresh /\ NumbersGiven /\ AttemptsBuilt
      /\ InstancesWatched /\ ChildrenHeld
  BY <1>2, <1>3, NothingRuns DEF Init
<1>5. OwnersKnown
  BY <1>3 DEF Init, OwnersKnown
<1>6. DownMeansFiles /\ ExitLeavesNothing
  BY DEF Init, DownMeansFiles, ExitLeavesNothing
<1> QED BY <1>2, <1>4, <1>5, <1>6 DEF DesktopInv

\* A crash leaves the files, and a record of everything that is owed.
LEMMA CrashStep ==
  ASSUME DesktopInv, Crash
  PROVE  DesktopInv'
<1>1. Typed'
  <2>1. engine' \in [Attempt -> {"none", "gated", "run", "zombie", "gone"}]
    BY DEF Crash, DesktopInv, Typed
  <2>2. /\ inst' \in [Profile -> Instance] /\ mon' \in [Attempt -> Monitor] /\ th' \in [Thread -> ThreadState]
    BY NothingTyped DEF Crash
  <2>3. queue' \in [Profile -> Seq(Command)] /\ gen' \in [Profile -> Nat]
    BY DEF Crash
  <2>4. /\ app' = "down" /\ crashes' = crashes + 1 /\ starting' = {} /\ mutating' = {} /\ stale' = {} /\ held' = {}
        /\ timers' = {} /\ lifecycle' = Free /\ shutting' = FALSE /\ stopped' = {}
        /\ UNCHANGED <<exists, records, clean, up, used, asks, faults>>
    BY DEF Crash
  <2>5. Typed
    BY DEF DesktopInv
  <2>6. crashes' \in Nat /\ lifecycle' \in Thread \cup {Free}
    BY <2>4, <2>5 DEF Typed
  <2> QED BY <2>1, <2>2, <2>3, <2>4, <2>5, <2>6 DEF Typed
<1>2. \A a \in Attempt : mon'[a].pc = "none"
  BY NothingTyped DEF Crash
<1>3. /\ ThreadsHold' /\ StartsAlone' /\ NumbersFresh' /\ NumbersGiven' /\ AttemptsBuilt'
      /\ InstancesWatched' /\ ChildrenHeld'
  <2>1. (/\ Typed /\ lifecycle \in Thread \cup {Free} /\ starting = {}
         /\ (\A t \in Thread : th[t] = NoThread) /\ (\A a \in Attempt : mon[a].pc = "none")
         /\ \A p \in Profile : inst[p] = NoInst /\ queue[p] = <<>>)'
    BY <1>1, <1>2 DEF Crash
  <2>2. (/\ Typed /\ lifecycle \in Thread \cup {Free} /\ starting = {}
         /\ (\A t \in Thread : th[t] = NoThread) /\ (\A a \in Attempt : mon[a].pc = "none")
         /\ (\A p \in Profile : inst[p] = NoInst /\ queue[p] = <<>>)
         => /\ ThreadsHold /\ StartsAlone /\ NumbersFresh /\ NumbersGiven /\ AttemptsBuilt
            /\ InstancesWatched /\ ChildrenHeld)'
    BY NothingRuns, PTL
  <2> QED BY <2>1, <2>2
<1>4. OwnersKnown'
  <2>1. \A a \in Attempt : Owes(a)' => Owes(a)
    BY DEF Crash, Owes, Alive, DesktopInv, Typed
  <2> QED BY <2>1 DEF Crash, DesktopInv, OwnersKnown
<1>5. DownMeansFiles' /\ ExitLeavesNothing'
  BY <1>2, NothingTyped DEF Crash, DownMeansFiles, ExitLeavesNothing
<1> QED BY <1>1, <1>3, <1>4, <1>5 DEF DesktopInv

\* The next run finds in the files what is owed.
LEMMA RestartStep ==
  ASSUME DesktopInv, Restart
  PROVE  DesktopInv'
<1>1. app' = "up" /\ stale' = records /\ UNCHANGED records
  BY DEF Restart, world
<1>2. Typed'
  BY DEF Restart, DesktopInv, Typed, world, counts
<1>3. /\ \A t \in Thread : th[t].pc = "idle" /\ th'[t] = th[t]
      /\ \A a \in Attempt : mon'[a].pc = "none"
      /\ \A p \in Profile : inst'[p] = NoInst /\ queue'[p] = <<>>
  BY DEF Restart, DesktopInv, DownMeansFiles
<1>4. \A p \in Profile : p \in Thread /\ th[p] = NoThread
  BY <1>3, NamesApart DEF DesktopInv, ThreadsHold, Holds
<1>5. ThreadsHold' /\ NumbersGiven'
  BY DEF Restart, DesktopInv, ThreadsHold, Holds, QuitHolds, NumbersGiven, counts
<1>6. \A p \in Profile : th'[p].pc = "idle" /\ ~th'[p].cancelled
  BY <1>3, <1>4, NothingTyped
<1>7. StartsAlone'
  <2>1. starting' = {}
    BY <1>3, <1>4, NothingTyped DEF Restart, DesktopInv, StartsAlone, StartPc, Typed
  <2> QED BY <1>6, <2>1 DEF StartsAlone, StartPc
<1>8. NumbersFresh' /\ AttemptsBuilt'
  <2>1. \A p \in Profile : DOMAIN queue'[p] = {} /\ ~Waiting(p)'
    BY <1>3, <1>6 DEF Waiting
  <2>2. NumbersFresh'
    BY <2>1 DEF NumbersFresh
  <2>3. AttemptsBuilt'
    BY <1>6 DEF AttemptsBuilt, LockedPc
  <2> QED BY <2>2, <2>3
<1>9. InstancesWatched'
  BY <1>3, NothingTyped DEF InstancesWatched, Watching
<1>10. OwnersKnown'
  <2>1. \A a \in Attempt : Owes(a)' <=> Owes(a)
    BY DEF Restart, Owes, Alive, world
  <2>2. \A a \in Attempt : a \in stale' => Known(a)'
    BY DEF Known
  <2>3. UNCHANGED <<engine, used>>
    BY DEF Restart, world, counts
  <2> QED BY <1>1, <2>1, <2>2, <2>3 DEF DesktopInv, OwnersKnown
<1>11. ChildrenHeld'
  BY <1>3 DEF ChildrenHeld, StopPc
<1>12. DownMeansFiles' /\ ExitLeavesNothing'
  BY <1>1 DEF DownMeansFiles, ExitLeavesNothing
<1> QED BY <1>2, <1>5, <1>7, <1>8, <1>9, <1>10, <1>11, <1>12 DEF DesktopInv

\* The inductive step.
LEMMA NextKeeps ==
  ASSUME DesktopInv, [Next]_vars
  PROVE  DesktopInv'
<1>1. CASE UNCHANGED vars
  <2>1. Typed'
    BY <1>1 DEF vars, store, world, counts, DesktopInv, Typed
  <2> QED BY <1>1, <2>1, Quiet DEF vars, store, world, counts
<1>2. CASE Next
  BY <1>2, CommandStepKeeps, AutoConnectStep, AskStep, MonitorStepKeeps, EngineUpStep, EngineExitsStep, ReadersStep,
     AcknowledgeStep, TimerStepKeeps, QuitBegins, QuitStepKeeps, CrashStep, RestartStep
  DEF Next
<1> QED BY <1>1, <1>2

\* DesktopInv is an invariant.
THEOREM DesktopCorrect == Spec => []DesktopInv
<1>1. Init => DesktopInv
  BY InitInv
<1>2. DesktopInv /\ [Next]_vars => DesktopInv'
  BY NextKeeps
<1> QED BY <1>1, <1>2, PTL DEF Spec

\* An engine that may run, or a network not known to be restored, has a record on
\* disk that a restart finds, whatever crashes and failures (spawn_profile_process writes it
\* before there is an engine, and the monitor removes it after the cleanup is judged).
THEOREM ForgetsNothing == Spec => []NothingForgotten
<1>1. DesktopInv => NothingForgotten
  BY DEF DesktopInv, OwnersKnown, Owes, NothingForgotten
<1> QED BY <1>1, DesktopCorrect, PTL

\* At most one attempt at a time has an engine or a network to restore, whatever
\* profiles, threads, crashes and failures (the looks of spawn_profile_process under the
\* lifecycle mutex).
THEOREM OwnsAlone == Spec => []OneOwner
<1>1. ASSUME DesktopInv PROVE OneOwner
  <2> DEFINE S == {a \in Attempt : Alive(a) \/ ~clean[a]}
  <2>1. \A a, b \in S : a = b
    BY <1>1 DEF DesktopInv, OwnersKnown, Owes
  <2>2. CASE S = {}
    BY <2>2, FS_EmptySet DEF OneOwner
  <2>3. CASE S # {}
    <3>1. PICK a : a \in S
      BY <2>3
    <3>2. S = {a}
      BY <2>1, <3>1
    <3>3. Cardinality(S) = 1
      BY <3>2, FS_Singleton
    <3> QED BY <3>3 DEF OneOwner
  <2> QED BY <2>2, <2>3
<1> QED BY <1>1, DesktopCorrect, PTL

\* An instance is terminal only when its engine is reaped, and a stop signals only
\* a process that is still the engine's (spawn_process_monitor and
\* stop_instance_impl, the child lock between them).
THEOREM WatchesChildren == Spec => []ChildrenWatched
<1>1. ASSUME DesktopInv PROVE ChildrenWatched
  <2>1. DesktopTypeOK
    <3>1. \A p \in Profile : inst[p].id \in 0 .. used
      <4>1. used \in Nat
        BY <1>1, Given DEF DesktopInv
      <4> QED BY <1>1, <4>1 DEF DesktopInv, InstancesWatched
    <3>2. \A t \in Thread : th[t].pc \in {"record", "acquire", "spawn", "bind", "register"} => lifecycle = t
      BY <1>1, NamesApart DEF DesktopInv, ThreadsHold, Holds, QuitHolds, LockedPc, StopPc
    <3> QED BY <1>1, <3>1, <3>2 DEF DesktopInv, DesktopTypeOK, Typed, OwnersKnown, NumbersGiven
  <2>2. TerminalMeansReaped
    BY <1>1, Given DEF DesktopInv, TerminalMeansReaped, InstancesWatched, Terminal
  <2>3. SignalsOwnChild
    BY <1>1 DEF DesktopInv, SignalsOwnChild, ChildrenHeld, At
  <2> QED BY <2>1, <2>2, <2>3 DEF ChildrenWatched
<1> QED BY <1>1, DesktopCorrect, PTL

\* A quit that completes leaves no engine but those kept for recovery and no cleanup
\* still to be judged (shutdown_connections).
THEOREM QuitsClean == Spec => []ExitLeavesNothing
BY DesktopCorrect, PTL DEF DesktopInv

-----------------------------------------------------------------------------
\* Retries: what was stopped stays stopped.

\* Nothing new is pending for q.
NothingNew(q) ==
  /\ \A a \in Attempt : mon'[a].pc = "unlink" /\ mon'[a].p = q =>
       mon[a].pc = "unlink" /\ mon[a].p = q /\ mon'[a].retry = mon[a].retry
  /\ \A r \in timers' : r.p = q => r \in timers \/ r.gen < gen[q]
  /\ \A i \in DOMAIN queue'[q] :
       queue'[q][i].op = "auto" => i \in DOMAIN queue[q] /\ queue'[q][i] = queue[q][i]
  /\ th'[q].op = "auto" => th[q].op = "auto" /\ th'[q].gen = th[q].gen

\* The command of q comes no nearer to a start, and a stop has looked before.
Calm(q) ==
  /\ th'[q].op = "auto" /\ th'[q].pc \in StartPc \cup {"admit"} => th[q].pc \in StartPc \cup {"admit"}
  /\ th'[q].pc \in StartPc => th[q].pc \in StartPc \/ Carried(q)
  /\ th'[q].pc \in StopPc \ {"find"} => th[q].pc \in StopPc \ {"find"} \/ inst[q].running
  /\ th'[q].pc \in {"child", "mark", "signal", "gone"} => inst'[q].user
  /\ th'[q].cancelled => th[q].cancelled \/ th[q].pc \in StartPc
  /\ inst'[q].running =>
       inst[q].running \/ (th[q].pc \in StartPc /\ th'[q].pc \notin StartPc \cup {"admit"})
  /\ inst'[q].id = 0 => inst[q].id = 0
  /\ inst[q].user => inst'[q].user \/ th[q].pc \in StartPc

\* Whoever stops q has ended, and q is marked or has nothing pending.
Stops(q) ==
  /\ th'[q] = NoThread /\ Queued(q) = {}
  /\ inst'[q].user \/ (NonePending(q) /\ ~inst'[q].running)

\* Numbers of retries are numbers.
LEMMA GensTyped ==
  ASSUME Typed, NEW q \in Profile
  PROVE  /\ gen[q] \in Nat /\ th[q].gen \in Nat
         /\ \A a \in Attempt : mon[a].retry \in Nat
         /\ \A r \in timers : r.gen \in Nat /\ r.p \in Profile
         /\ queue[q] \in Seq(Command) /\ \A i \in DOMAIN queue[q] : queue[q][i].gen \in Nat
<1>1. th[q].gen \in Nat
  BY ThreadTyped, NamesApart
<1>2. \A a \in Attempt : mon[a].retry \in Nat
  BY MonTyped
<1>3. \A r \in timers : r.gen \in Nat /\ r.p \in Profile
  BY DEF Typed, Timer
<1>4. queue[q] \in Seq(Command)
  BY DEF Typed
<1>5. \A i \in DOMAIN queue[q] : queue[q][i] \in Command
  BY <1>4, ElementOfSeq
<1>6. \A i \in DOMAIN queue[q] : queue[q][i].gen \in Nat
  BY <1>5 DEF Command
<1> QED BY <1>1, <1>2, <1>3, <1>4, <1>6 DEF Typed

\* Under the same generation what is pending was pending.
LEMMA PendingBefore ==
  ASSUME Typed, Typed', NEW q \in Profile, GensPast(q), NothingNew(q), gen'[q] = gen[q]
  PROVE  /\ GensPast(q)'
         /\ Decided(q)' \subseteq Decided(q) /\ Timed(q)' \subseteq Timed(q) /\ Queued(q)' \subseteq Queued(q)
         /\ NonePending(q) => NonePending(q)'
<1>1. Decided(q)' \subseteq Decided(q)
  BY DEF Decided, NothingNew
<1>2. Timed(q)' \subseteq Timed(q)
  BY GensTyped DEF Timed, NothingNew
<1>3. Queued(q)' \subseteq Queued(q)
  BY DEF Queued, NothingNew
<1>4. GensPast(q)'
  <2>1. \A r \in timers' : r.gen \in Nat
    BY DEF Typed, Timer
  <2> QED BY <2>1, GensTyped DEF GensPast, NothingNew
<1> QED BY <1>1, <1>2, <1>3, <1>4 DEF NonePending

\* A step that brings nothing new and keeps the generation keeps the retries.
LEMMA SteadyKept ==
  ASSUME Typed, Typed', NEW q \in Profile, RetriesSpent(q), NothingNew(q), gen'[q] = gen[q], Calm(q),
         q \in stopped' => q \in stopped \/ Stops(q)
  PROVE  RetriesSpent(q)'
<1>1. /\ GensPast(q)'
      /\ Decided(q)' \subseteq Decided(q) /\ Timed(q)' \subseteq Timed(q) /\ Queued(q)' \subseteq Queued(q)
      /\ NonePending(q) => NonePending(q)'
  BY PendingBefore DEF RetriesSpent
<1>2. Carried(q)' => Carried(q)
  BY DEF Carried, NothingNew, Calm
<1>3. OnePending(q)'
  <2>1. /\ \A a, b \in Decided(q)' : a = b
        /\ \A r, s \in Timed(q)' : r = s
        /\ \A i, j \in Queued(q)' : i = j
        /\ Decided(q)' # {} => Timed(q)' = {} /\ Queued(q)' = {}
        /\ Timed(q)' # {} => Queued(q)' = {}
    BY <1>1 DEF RetriesSpent, OnePending
  <2>2. inst'[q].running \/ inst'[q].id = 0 \/ th'[q].pc \in StartPc \/ Carried(q)' => NonePending(q)'
    BY <1>1, <1>2 DEF RetriesSpent, OnePending, Calm
  <2>3. inst'[q].running \/ inst'[q].id = 0 => ~Carried(q)'
    BY <1>2 DEF RetriesSpent, OnePending, Calm, Carried
  <2> QED BY <2>1, <2>2, <2>3 DEF OnePending
<1>4. StopsSeen(q)'
  <2>1. inst[q].running => Queued(q) = {}
    BY DEF RetriesSpent, OnePending, NonePending
  <2> QED BY <1>1, <2>1 DEF RetriesSpent, StopsSeen, Calm
<1>5. ASSUME q \in stopped' PROVE StaysStopped(q)'
  <2>1. CASE q \in stopped
    BY <1>1, <1>2, <2>1 DEF RetriesSpent, StaysStopped, Calm, Carried
  <2>2. CASE Stops(q)
    BY <1>1, <2>2, NothingTyped DEF Stops, StaysStopped, Carried, StartPc
  <2> QED BY <1>5, <2>1, <2>2
<1> QED BY <1>1, <1>3, <1>4, <1>5 DEF RetriesSpent

\* A new generation: nothing is pending any more.
LEMMA BumpKept ==
  ASSUME Typed, Typed', NEW q \in Profile, RetriesSpent(q), NothingNew(q), gen'[q] = gen[q] + 1,
         th'[q].pc \in {"child", "mark", "signal", "gone"} => inst'[q].user,
         q \in stopped' => /\ th'[q].pc \notin StartPc /\ ~th'[q].cancelled
                           /\ inst'[q].user \/ ~inst'[q].running
  PROVE  RetriesSpent(q)'
<1>1. GensPast(q)' /\ Decided(q)' = {} /\ Timed(q)' = {} /\ Queued(q)' = {} /\ ~Carried(q)'
  <2>1. Decided(q)' = {}
    BY GensTyped DEF Decided, NothingNew, RetriesSpent, GensPast
  <2>2. Timed(q)' = {}
    BY GensTyped DEF Timed, NothingNew, RetriesSpent, GensPast
  <2>3. Queued(q)' = {}
    BY GensTyped DEF Queued, NothingNew, RetriesSpent, GensPast
  <2>4. ~Carried(q)'
    BY GensTyped DEF Carried, NothingNew, RetriesSpent, GensPast
  <2>5. GensPast(q)'
    <3>1. \A r \in timers' : r.gen \in Nat
      BY DEF Typed, Timer
    <3> QED BY <3>1, GensTyped DEF NothingNew, RetriesSpent, GensPast
  <2> QED BY <2>1, <2>2, <2>3, <2>4, <2>5
<1>2. NonePending(q)'
  BY <1>1 DEF NonePending
<1>3. OnePending(q)' /\ StopsSeen(q)' /\ (q \in stopped' => StaysStopped(q)')
  BY <1>1, <1>2 DEF OnePending, StopsSeen, StaysStopped
<1> QED BY <1>1, <1>3 DEF RetriesSpent

\* What does not concern q.
Aside(q) ==
  /\ gen'[q] = gen[q] /\ queue'[q] = queue[q] /\ th'[q] = th[q]
  /\ \A a \in Attempt : mon'[a].pc = "unlink" /\ mon'[a].p = q =>
       mon[a].pc = "unlink" /\ mon[a].p = q /\ mon'[a].retry = mon[a].retry
  /\ \A r \in timers' : r.p = q => r \in timers
  /\ inst'[q].running = inst[q].running /\ inst'[q].id = inst[q].id
  /\ inst[q].user => inst'[q].user
  /\ q \in stopped' => q \in stopped

\* It keeps its retries.
LEMMA AsideKept ==
  ASSUME Typed, Typed', NEW q \in Profile, RetriesSpent(q), Aside(q)
  PROVE  RetriesSpent(q)'
<1>1. NothingNew(q)
  BY DEF Aside, NothingNew
<1>2. Calm(q)
  BY DEF Aside, Calm, RetriesSpent, StopsSeen
<1> QED BY <1>1, <1>2, SteadyKept DEF Aside

\* A step that concerns nobody's retries.
LEMMA AllAside ==
  ASSUME DesktopInv, DesktopInv', RetryInv, exists' \subseteq exists, \A q \in Profile : Aside(q)
  PROVE  RetryInv'
<1>1. exists' \subseteq Profile
  BY DEF DesktopInv, Typed
<1> QED BY <1>1, AsideKept DEF DesktopInv, RetryInv

\* The retries of all profiles but one are not concerned.
LEMMA OthersAside ==
  ASSUME DesktopInv, DesktopInv', RetryInv, exists' \subseteq exists, NEW p \in Profile,
         \A q \in Profile : q # p => Aside(q), p \in exists' => RetriesSpent(p)'
  PROVE  RetryInv'
<1>1. exists' \subseteq Profile
  BY DEF DesktopInv, Typed
<1> QED BY <1>1, AsideKept DEF DesktopInv, RetryInv

\* Engines, readers of their output and the operator.
LEMMA WorldRetries ==
  ASSUME DesktopInv, DesktopInv', RetryInv, NEW a \in Attempt,
         \/ EngineUp(a) \/ EngineExits(a) \/ CleanupStale(a) \/ ReaderConnected(a) \/ ReaderCloses(a)
         \/ ReaderBlocks(a) \/ Acknowledge(a)
  PROVE  RetryInv'
<1>1. UNCHANGED <<exists, gen, mon, timers, queue, th, stopped>>
  BY DEF EngineUp, EngineExits, CleanupStale, ReaderConnected, ReaderCloses, ReaderBlocks, Acknowledge, store
<1>2. \A q \in Profile : /\ inst'[q].running = inst[q].running /\ inst'[q].id = inst[q].id
                         /\ inst'[q].user = inst[q].user
  <2>1. inst \in [Profile -> Instance]
    BY DEF DesktopInv, Typed
  <2>2. CASE EngineUp(a) \/ EngineExits(a) \/ CleanupStale(a)
    BY <2>2 DEF EngineUp, EngineExits, CleanupStale, store
  <2>3. CASE ReaderConnected(a) \/ ReaderCloses(a) \/ ReaderBlocks(a)
    BY <2>1, <2>3 DEF ReaderConnected, ReaderCloses, ReaderBlocks, Instance
  <2>4. CASE Acknowledge(a)
    BY <2>1, <2>4 DEF Acknowledge, Instance
  <2> QED BY <2>2, <2>3, <2>4
<1> QED BY <1>1, <1>2, AllAside DEF Aside

\* A monitor that reaps its engine and reads the rest.
LEMMA WatchRetries ==
  ASSUME DesktopInv, DesktopInv', RetryInv, NEW a \in Attempt, Reap(a) \/ Drain(a)
  PROVE  RetryInv'
<1>1. UNCHANGED <<exists, gen, timers, queue, th, stopped, inst>>
  BY DEF Reap, Drain, store
<1>2. mon \in [Attempt -> Monitor]
  BY DEF DesktopInv, Typed
<1>3. \A b \in Attempt : mon'[b] = mon[b] \/ mon'[b].pc \in {"drain", "settle"}
  BY <1>2 DEF Reap, Drain, Monitor
<1> QED BY <1>1, <1>3, AllAside DEF Aside

\* The quit's own steps, and a restart.
LEMMA QuietRetries ==
  ASSUME DesktopInv, DesktopInv', RetryInv, Quit \/ QuitNext \/ QuitWaits \/ Restart
  PROVE  RetryInv'
<1>1. UNCHANGED <<exists, gen, inst, mon, timers, queue, stopped>>
  BY DEF Quit, QuitNext, QuitWaits, Restart, store
<1>2. \A q \in Profile : th'[q] = th[q]
  BY NamesApart DEF Quit, QuitNext, QuitWaits, QuitBlocked, Restart, Goto, DesktopInv, Typed
<1> QED BY <1>1, <1>2, AllAside DEF Aside

\* The quit takes the lifecycle mutex: every generation changes.
LEMMA QuitLocksRetries ==
  ASSUME DesktopInv, DesktopInv', RetryInv, QuitLocks
  PROVE  RetryInv'
<1>1. UNCHANGED <<exists, inst, mon, timers, queue, stopped>>
  BY DEF QuitLocks
<1>2. \A q \in Profile : th'[q] = th[q]
  BY NamesApart DEF QuitLocks, DesktopInv, Typed
<1>3. exists \subseteq Profile /\ gen \in [Profile -> Nat] /\ Typed /\ Typed'
  BY DEF DesktopInv, Typed
<1>4. SUFFICES ASSUME NEW q \in exists PROVE RetriesSpent(q)'
  BY <1>1 DEF RetryInv
<1>5. RetriesSpent(q) /\ q \in Profile
  BY <1>3, <1>4 DEF RetryInv
<1>6. gen'[q] = gen[q] + 1
  BY <1>3, <1>4 DEF QuitLocks
<1>7. NothingNew(q)
  BY <1>1, <1>2, <1>5 DEF NothingNew
<1>8. th'[q].pc \in {"child", "mark", "signal", "gone"} => inst'[q].user
  BY <1>1, <1>2, <1>5 DEF RetriesSpent, StopsSeen
<1>9. q \in stopped' => th'[q].pc \notin StartPc /\ ~th'[q].cancelled /\ (inst'[q].user \/ ~inst'[q].running)
  BY <1>1, <1>2, <1>5 DEF RetriesSpent, StaysStopped
<1> QED BY <1>3, <1>5, <1>6, <1>7, <1>8, <1>9, BumpKept

\* The application dies, and all is forgotten.
LEMMA CrashRetries ==
  ASSUME DesktopInv, Crash
  PROVE  RetryInv'
<1>1. SUFFICES ASSUME NEW q \in exists PROVE RetriesSpent(q)'
  BY DEF RetryInv, Crash
<1>2. q \in Profile /\ q \in Thread
  BY <1>1, NamesApart DEF DesktopInv, Typed
<1>3. /\ gen'[q] = 0 /\ inst'[q] = NoInst /\ th'[q] = NoThread /\ timers' = {} /\ queue'[q] = <<>>
      /\ stopped' = {} /\ \A a \in Attempt : mon'[a] = NoMon
  BY <1>2 DEF Crash
<1>4. DOMAIN queue'[q] = {}
  BY <1>3
<1>5. NonePending(q)' /\ ~Carried(q)'
  BY <1>3, <1>4, NothingTyped DEF NonePending, Decided, Timed, Queued, Carried, NoMon
<1>6. GensPast(q)'
  BY <1>3, <1>4, NothingTyped DEF GensPast
<1>7. OnePending(q)'
  BY <1>5 DEF OnePending, NonePending
<1>8. StopsSeen(q)'
  BY <1>3, NothingTyped DEF StopsSeen, StopPc
<1> QED BY <1>3, <1>6, <1>7, <1>8 DEF RetriesSpent

\* A first start knows of no retries.
LEMMA InitRetries ==
  ASSUME Init
  PROVE  RetryInv
<1>1. SUFFICES ASSUME NEW q \in exists PROVE RetriesSpent(q)
  BY DEF RetryInv
<1>2. q \in Profile /\ q \in Thread
  BY <1>1, NamesApart DEF Init
<1>3. /\ gen[q] = 0 /\ inst[q] = NoInst /\ th[q] = NoThread /\ timers = {} /\ queue[q] = <<>>
      /\ stopped = {} /\ \A a \in Attempt : mon[a] = NoMon
  BY <1>2 DEF Init
<1>4. DOMAIN queue[q] = {}
  BY <1>3
<1>5. NonePending(q) /\ ~Carried(q)
  BY <1>3, <1>4, NothingTyped DEF NonePending, Decided, Timed, Queued, Carried, NoMon
<1>6. GensPast(q)
  BY <1>3, <1>4, NothingTyped DEF GensPast
<1>7. OnePending(q)
  BY <1>5 DEF OnePending, NonePending
<1>8. StopsSeen(q)
  BY <1>3, NothingTyped DEF StopsSeen, StopPc
<1> QED BY <1>3, <1>6, <1>7, <1>8 DEF RetriesSpent

\* The elements of a mailbox with one more command.
LEMMA AppendedIs ==
  ASSUME Typed, NEW p \in Profile, NEW c \in Command, queue' = [queue EXCEPT ![p] = Append(@, c)]
  PROVE  /\ DOMAIN queue[p] \subseteq DOMAIN queue'[p]
         /\ Len(queue[p]) + 1 \notin DOMAIN queue[p] /\ Len(queue[p]) + 1 \in DOMAIN queue'[p]
         /\ \A i \in DOMAIN queue[p] : queue'[p][i] = queue[p][i]
         /\ queue'[p][Len(queue[p]) + 1] = c
         /\ \A i \in DOMAIN queue'[p] : i \in DOMAIN queue[p] \/ i = Len(queue[p]) + 1
         /\ \A q \in Profile : q # p => queue'[q] = queue[q]
<1>1. queue[p] \in Seq(Command) /\ queue'[p] = Append(queue[p], c)
  BY DEF Typed
<1>2. Len(queue[p]) \in Nat /\ DOMAIN queue[p] = 1 .. Len(queue[p])
  BY <1>1
<1>3. DOMAIN queue'[p] = 1 .. Len(queue[p]) + 1
  BY <1>1, <1>2
<1>4. \A i \in 1 .. Len(queue[p]) : queue'[p][i] = queue[p][i]
  BY <1>1, <1>2
<1>5. queue'[p][Len(queue[p]) + 1] = c
  BY <1>1, <1>2
<1>6. \A q \in Profile : q # p => queue'[q] = queue[q]
  BY DEF Typed
<1> QED BY <1>2, <1>3, <1>4, <1>5, <1>6

\* A command that is no automatic start is queued.
LEMMA QueueRetries ==
  ASSUME DesktopInv, DesktopInv', RetryInv, NEW p \in Profile, NEW c \in Command, c.op # "auto",
         queue' = [queue EXCEPT ![p] = Append(@, c)], gen' \in {gen, Bumped(p)},
         UNCHANGED <<exists, inst, mon, timers, th, stopped>>
  PROVE  RetryInv'
<1>1. Typed /\ Typed'
  BY DEF DesktopInv
<1>2. \A q \in Profile : q # p => Aside(q)
  BY <1>1, AppendedIs, BumpedTyped DEF Aside
<1>3. ASSUME p \in exists PROVE RetriesSpent(p)'
  <2>1. RetriesSpent(p)
    BY <1>3 DEF RetryInv
  <2>2. NothingNew(p)
    BY <1>1, AppendedIs DEF NothingNew
  <2>3. th'[p].pc \in {"child", "mark", "signal", "gone"} => inst'[p].user
    BY <2>1 DEF RetriesSpent, StopsSeen
  <2>4. CASE gen' = gen
    <3>1. Calm(p)
      BY <2>3 DEF Calm
    <3> QED BY <1>1, <2>1, <2>2, <2>4, <3>1, SteadyKept
  <2>5. CASE gen' = Bumped(p)
    <3>1. gen'[p] = gen[p] + 1
      BY <2>5, BumpedTyped
    <3>2. p \in stopped' =>
            th'[p].pc \notin StartPc /\ ~th'[p].cancelled /\ (inst'[p].user \/ ~inst'[p].running)
      BY <2>1 DEF RetriesSpent, StaysStopped
    <3> QED BY <1>1, <2>1, <2>2, <2>3, <3>1, <3>2, BumpKept
  <2> QED BY <2>4, <2>5
<1> QED BY <1>2, <1>3, OthersAside

\* A client's command, or a connection at startup.
LEMMA AskRetries ==
  ASSUME DesktopInv, DesktopInv', RetryInv, NEW p \in Profile,
         AutoConnect(p) \/ \E op \in Ops : Ask(p, op)
  PROVE  RetryInv'
<1>1. CASE AutoConnect(p)
  <2> DEFINE c == [op |-> "startup", gen |-> 0, a |-> used']
  <2>1. c \in Command /\ c.op # "auto"
    BY <1>1, EnqueueTyped DEF AutoConnect, Commands
  <2> HIDE DEF c
  <2>2. queue' = [queue EXCEPT ![p] = Append(@, c)]
    BY <1>1 DEF AutoConnect, c
  <2> QED BY <1>1, <2>1, <2>2, QueueRetries DEF AutoConnect, store
<1>2. CASE \E op \in Ops : Ask(p, op)
  <2>1. PICK op \in Ops : Ask(p, op)
    BY <1>2
  <2> DEFINE c == [op |-> op, gen |-> 0, a |-> used']
  <2>2. used' \in 0 .. MaxAttempt
    BY DEF DesktopInv, Typed
  <2>3. c \in Command /\ c.op # "auto"
    BY <2>2 DEF Ops, Command, Commands
  <2> HIDE DEF c
  <2>4. queue' = [queue EXCEPT ![p] = Append(@, c)]
    BY <2>1 DEF Ask, c
  <2> QED BY <2>1, <2>3, <2>4, QueueRetries DEF Ask
<1> QED BY <1>1, <1>2

\* The next command of a mailbox: an automatic start that was queued is carried out.
LEMMA TakeRetries ==
  ASSUME DesktopInv, DesktopInv', RetryInv, NEW p \in Profile, Take(p)
  PROVE  RetryInv'
<1> DEFINE c == Head(queue[p])
<1>1. /\ queue[p] \in Seq(Command) /\ queue[p] # <<>> /\ p \in Thread /\ queue'[p] = Tail(queue[p])
      /\ \A q \in Profile : q # p => queue'[q] = queue[q]
      /\ UNCHANGED <<exists, gen, inst, mon, timers, stopped>>
      /\ Typed /\ Typed'
  BY NamesApart DEF Take, DesktopInv, Typed, store
<1>2. /\ c = queue[p][1] /\ 1 \in DOMAIN queue[p]
      /\ \A i \in DOMAIN queue'[p] : i + 1 \in DOMAIN queue[p] /\ i \in Nat /\ i # 0
                                     /\ queue'[p][i] = queue[p][i + 1]
  <2>1. Len(queue[p]) \in Nat /\ Len(queue[p]) # 0 /\ DOMAIN queue[p] = 1 .. Len(queue[p])
    BY <1>1
  <2>2. c = queue[p][1] /\ 1 \in DOMAIN queue[p]
    BY <1>1, <2>1
  <2> QED BY <1>1, <2>1, <2>2
<1>3. /\ th'[p].op = c.op /\ th'[p].gen = c.gen /\ ~th'[p].cancelled
      /\ th'[p].pc \in {"admit", "find", "check", "reserve"}
      /\ \A q \in Profile : q # p => th'[q] = th[q]
  <2> HIDE DEF c
  <2>0. c \in Command
    BY <1>1, <1>2, ElementOfSeq
  <2>1. c.op \in Commands
    BY <2>0 DEF Command
  <2> DEFINE go == CASE c.op \in {"start", "startup", "auto"} -> "admit"
                     [] c.op \in {"stop", "disconnect", "reconnect"} -> "find"
                     [] c.op = "delete" -> "check"
                     [] c.op = "save" -> "reserve"
             n == [NoThread EXCEPT !.op = c.op, !.p = p, !.gen = c.gen, !.next = c.a, !.pc = go]
  <2>2. th' = [th EXCEPT ![p] = n]
    BY DEF Take, c
  <2>3. go \in {"admit", "find", "check", "reserve"}
    BY <2>1 DEF Commands
  <2> HIDE DEF go
  <2>4. n.op = c.op /\ n.gen = c.gen /\ n.cancelled = FALSE /\ n.pc = go
    BY DEF NoThread
  <2> HIDE DEF n
  <2>5. th'[p] = n /\ \A q \in Profile : q # p => th'[q] = th[q]
    BY <1>1, <2>2, NamesApart DEF Typed
  <2> QED BY <2>3, <2>4, <2>5
<1> HIDE DEF c
<1>4. \A q \in Profile : q # p => Aside(q)
  BY <1>1, <1>3 DEF Aside
<1>5. ASSUME p \in exists PROVE RetriesSpent(p)'
  <2>1. RetriesSpent(p)
    BY <1>5 DEF RetryInv
  <2>2. Decided(p)' = Decided(p) /\ Timed(p)' = Timed(p)
    BY <1>1 DEF Decided, Timed
  <2>3. \A i \in Queued(p)' : i + 1 \in Queued(p) /\ i + 1 # 1 /\ i \in Nat
    BY <1>1, <1>2 DEF Queued
  <2>4. Carried(p)' => 1 \in Queued(p)
    BY <1>1, <1>2, <1>3 DEF Carried, Queued
  <2>5. GensPast(p)'
    <3>1. GensPast(p)
      BY <2>1 DEF RetriesSpent
    <3>2. th'[p].op = "auto" => th'[p].gen <= gen'[p]
      BY <1>1, <1>2, <1>3, <3>1 DEF GensPast
    <3>3. \A i \in DOMAIN queue'[p] : queue'[p][i].op = "auto" => queue'[p][i].gen <= gen'[p]
      BY <1>1, <1>2, <3>1 DEF GensPast
    <3> QED BY <1>1, <3>1, <3>2, <3>3 DEF GensPast
  <2>6. /\ \A i, j \in Queued(p)' : i = j
        /\ Queued(p) = {} => Queued(p)' = {}
        /\ 1 \in Queued(p) => Queued(p)' = {}
    <3>1. \A i, j \in Queued(p) : i = j
      BY <2>1 DEF RetriesSpent, OnePending
    <3>2. \A i, j \in Queued(p)' : i + 1 = j + 1
      BY <2>3, <3>1
    <3>3. 1 \in Queued(p) => Queued(p)' = {}
      BY <2>3, <3>1
    <3> QED BY <2>3, <3>2, <3>3
  <2>7. NonePending(p) => NonePending(p)' /\ ~Carried(p)'
    BY <2>2, <2>4, <2>6 DEF NonePending
  <2>8. Carried(p)' => NonePending(p)'
    BY <2>1, <2>2, <2>4, <2>6 DEF RetriesSpent, OnePending, NonePending
  <2>9. th'[p].pc \notin StartPc /\ th'[p].pc \notin StopPc \ {"find"}
    BY <1>3 DEF StartPc, StopPc
  <2>10. OnePending(p)'
    BY <1>1, <2>1, <2>2, <2>6, <2>7, <2>8, <2>9 DEF RetriesSpent, OnePending
  <2>11. StopsSeen(p)'
    BY <2>9 DEF StopsSeen, StopPc
  <2>12. p \in stopped' => StaysStopped(p)'
    BY <1>1, <1>3, <2>1, <2>4, <2>6, <2>7, <2>9 DEF RetriesSpent, StaysStopped
  <2> QED BY <2>5, <2>10, <2>11, <2>12 DEF RetriesSpent
<1> QED BY <1>1, <1>4, <1>5, OthersAside

\* What is pending for q is handed on.
LEMMA Handed ==
  ASSUME NEW q \in Profile, RetriesSpent(q), UNCHANGED <<inst, th, stopped>>, gen'[q] = gen[q], GensPast(q)',
         \A a, b \in Decided(q)' : a = b, \A r, s \in Timed(q)' : r = s,
         Queued(q) = {}, Queued(q)' = {}, ~NonePending(q),
         Decided(q)' # {} => Timed(q)' = {}
  PROVE  RetriesSpent(q)'
<1>1. Carried(q)' = Carried(q)
  BY DEF Carried
<1>2. OnePending(q)'
  BY <1>1 DEF RetriesSpent, OnePending
<1>3. StopsSeen(q)'
  BY DEF RetriesSpent, StopsSeen
<1>4. q \in stopped' => StaysStopped(q)'
  BY <1>1 DEF RetriesSpent, StaysStopped
<1> QED BY <1>2, <1>3, <1>4 DEF RetriesSpent

\* A timer whose delay is over, or whose start has failed.
LEMMA TimerRetriesKept ==
  ASSUME DesktopInv, DesktopInv', RetryInv, Prompt, NEW r \in timers, TimerStep(r)
  PROVE  RetryInv'
<1> DEFINE p == r.p
<1>1. /\ p \in Profile /\ r.gen \in Nat /\ p \in Thread /\ Typed /\ Typed'
      /\ UNCHANGED <<exists, gen, inst, mon, th, stopped>>
  BY NamesApart DEF DesktopInv, Typed, Timer, TimerStep, TimerCancelled, TimerDue, TimerRetries, store
<1>2. CASE timers' = timers \ {r} /\ UNCHANGED queue
  BY <1>1, <1>2, AllAside DEF Aside
<1>3. CASE TimerRetries(r) /\ StillEnabled(r)
  <2> DEFINE n == [r EXCEPT !.pc = "wait"]
  <2>1. n.p = p /\ n.gen = r.gen
    BY DEF DesktopInv, Typed, Timer
  <2>2. timers' \subseteq (timers \ {r}) \cup {n} /\ UNCHANGED queue
    BY <1>3 DEF TimerRetries
  <2> HIDE DEF n
  <2>3. \A q \in Profile : q # p => Aside(q)
    BY <1>1, <2>1, <2>2 DEF Aside
  <2>4. ASSUME p \in exists PROVE RetriesSpent(p)'
    <3>1. RetriesSpent(p) /\ r \in Timed(p)
      BY <1>3, <2>4 DEF RetryInv, Timed, StillEnabled
    <3>2. /\ \A s \in Timed(p) : s = r
          /\ Decided(p) = {} /\ Queued(p) = {} /\ ~NonePending(p)
      BY <3>1 DEF RetriesSpent, OnePending, NonePending
    <3>3. Decided(p)' = {} /\ Queued(p)' = {}
      BY <1>1, <2>2, <3>2 DEF Decided, Queued
    <3>4. \A s \in Timed(p)' : s = n
      BY <1>1, <2>2, <3>2 DEF Timed
    <3>5. GensPast(p)'
      BY <1>1, <2>1, <2>2, <3>1 DEF RetriesSpent, GensPast
    <3> QED BY <1>1, <3>1, <3>2, <3>3, <3>4, <3>5, Handed
  <2> QED BY <1>1, <2>3, <2>4, OthersAside
<1>4. CASE TimerDue(r) /\ StillEnabled(r)
  <2> DEFINE c == [op |-> "auto", gen |-> r.gen, a |-> used']
             n == Len(queue[p]) + 1
  <2>1. c \in Command /\ c.op = "auto" /\ c.gen = r.gen
    <3>1. used' \in 0 .. MaxAttempt
      BY DEF DesktopInv, Typed
    <3> QED BY <1>1, <3>1 DEF Command, Commands
  <2> HIDE DEF c
  <2>2. queue' = [queue EXCEPT ![p] = Append(@, c)] /\ timers' = timers \ {r}
    BY <1>4 DEF TimerDue, c
  <2>3. /\ \A q \in Profile : q # p => queue'[q] = queue[q]
        /\ \A i \in DOMAIN queue'[p] : (i \in DOMAIN queue[p] /\ queue'[p][i] = queue[p][i])
                                        \/ (i = n /\ queue'[p][i] = c)
    BY <1>1, <2>1, <2>2, AppendedIs
  <2> HIDE DEF n
  <2>4. \A q \in Profile : q # p => Aside(q)
    BY <1>1, <2>2, <2>3 DEF Aside
  <2>5. ASSUME p \in exists PROVE RetriesSpent(p)'
    <3>1. RetriesSpent(p) /\ r \in Timed(p)
      BY <1>4, <2>5 DEF RetryInv, Timed, StillEnabled
    <3>2. /\ \A s \in Timed(p) : s = r
          /\ Decided(p) = {} /\ Queued(p) = {} /\ ~NonePending(p)
      BY <3>1 DEF RetriesSpent, OnePending, NonePending
    <3>3. Decided(p)' = {} /\ Timed(p)' = {}
      BY <1>1, <2>2, <3>2 DEF Decided, Timed
    <3>4. \A i \in Queued(p)' : i = n
      BY <1>1, <2>3, <3>2 DEF Queued
    <3>5. GensPast(p)'
      BY <1>1, <2>1, <2>2, <2>3, <3>1 DEF RetriesSpent, GensPast
    <3>6. /\ ~inst[p].running /\ inst[p].id # 0 /\ ~inst[p].user
          /\ th[p].pc \notin StartPc /\ ~Carried(p)
      BY <1>4, <3>1, <3>2 DEF StillEnabled, RetriesSpent, OnePending
    <3>7. th[p].pc \notin StopPc \ {"find"}
      <4>1. th[p].pc \in StopPc => th[p].p = p
        BY <1>1 DEF DesktopInv, ThreadsHold, Holds, StopPc
      <4>2. th[p].pc \in StopPc => th[p].pc \notin {"previous", "flag", "child"}
        BY <1>1, <1>4, <4>1 DEF TimerDue
      <4>3. th[p].pc \notin {"child", "mark", "signal", "gone"}
        BY <3>1, <3>6 DEF RetriesSpent, StopsSeen
      <4> QED BY <4>2, <4>3 DEF StopPc
    <3>8. p \notin stopped
      BY <3>1, <3>2, <3>6 DEF RetriesSpent, StaysStopped
    <3>9. OnePending(p)' /\ StopsSeen(p)'
      <4>1. ~Carried(p)'
        BY <1>1, <3>6 DEF Carried
      <4>2. OnePending(p)'
        BY <1>1, <3>3, <3>4, <3>6, <4>1 DEF OnePending
      <4>3. StopsSeen(p)'
        BY <1>1, <3>7 DEF StopsSeen, StopPc
      <4> QED BY <4>2, <4>3
    <3> QED BY <1>1, <3>5, <3>8, <3>9 DEF RetriesSpent
  <2> QED BY <1>1, <2>4, <2>5, OthersAside
<1> QED BY <1>1, <1>2, <1>3, <1>4 DEF TimerStep, TimerCancelled, TimerDue, TimerRetries, counts

\* The monitor's verdict: the connection ends, and a retry may be decided.
LEMMA SettleRetries ==
  ASSUME DesktopInv, DesktopInv', RetryInv, NEW a \in Attempt, Settle(a)
  PROVE  RetryInv'
<1>0. mon[a].p \in Profile
  BY DEF Settle, DesktopInv, InstancesWatched
<1>9. PICK p \in Profile : p = mon[a].p
  BY <1>0
<1>1. /\ inst[p].id = a /\ inst[p].running /\ Typed /\ Typed'
      /\ mon[a].pc = "settle"
      /\ UNCHANGED <<exists, gen, timers, queue, th, stopped>>
  BY <1>9 DEF Settle, DesktopInv, InstancesWatched, Watching
<1>2. /\ \A b \in Attempt : b # a => mon'[b] = mon[b]
      /\ mon'[a].p = p /\ mon'[a].pc = "unlink" /\ mon'[a].retry \in {0, gen[p]}
      /\ inst[p].user => mon'[a].retry = 0
  <2>1. mon \in [Attempt -> Monitor]
    BY <1>1 DEF Typed
  <2> QED BY <1>9, <1>1, <2>1 DEF Settle, Monitor
<1>3. /\ ~inst'[p].running /\ inst'[p].id = a /\ inst'[p].user = inst[p].user
      /\ \A q \in Profile : q # p => inst'[q] = inst[q]
  <2>1. inst \in [Profile -> Instance]
    BY <1>1 DEF Typed
  <2> QED BY <1>9, <1>1, <2>1 DEF Settle, Instance
<1>4. \A q \in Profile : q # p => Aside(q)
  BY <1>1, <1>2, <1>3 DEF Aside
<1>5. ASSUME p \in exists PROVE RetriesSpent(p)'
  <2>1. RetriesSpent(p) /\ NonePending(p) /\ ~Carried(p)
    BY <1>1, <1>5 DEF RetryInv, RetriesSpent, OnePending
  <2>2. th[p].pc \notin StartPc
    BY <1>1 DEF DesktopInv, StartsAlone, Starts
  <2>3. Timed(p)' = {} /\ Queued(p)' = {} /\ ~Carried(p)'
    BY <1>1, <2>1 DEF NonePending, Timed, Queued, Carried
  <2>4. /\ \A b \in Decided(p)' : b = a
        /\ inst[p].user => Decided(p)' = {}
    BY <1>1, <1>2, <2>1 DEF NonePending, Decided
  <2>5. GensPast(p)'
    <3>1. gen[p] \in Nat /\ 0 <= gen[p] /\ gen[p] <= gen[p]
      BY <1>1, GensTyped
    <3> QED BY <1>1, <1>2, <2>1, <3>1 DEF RetriesSpent, GensPast
  <2>6. OnePending(p)'
    <3>1. inst'[p].id # 0
      BY <1>1, <1>3, AttemptIs
    <3> QED BY <1>1, <1>3, <2>2, <2>3, <2>4, <3>1 DEF OnePending
  <2>7. StopsSeen(p)'
    BY <1>1, <1>3, <2>1, <2>3 DEF RetriesSpent, StopsSeen
  <2>8. p \in stopped' => StaysStopped(p)'
    BY <1>1, <1>3, <2>1, <2>3 DEF RetriesSpent, StaysStopped
  <2> QED BY <2>5, <2>6, <2>7, <2>8 DEF RetriesSpent
<1> QED BY <1>1, <1>4, <1>5, OthersAside

\* The monitor's last step: what it decided goes to a timer.
LEMMA UnlinkRetries ==
  ASSUME DesktopInv, DesktopInv', RetryInv, NEW a \in Attempt, Unlink(a)
  PROVE  RetryInv'
<1>0. mon[a].p \in Profile
  BY DEF Unlink, DesktopInv, InstancesWatched
<1>9. PICK p \in Profile : p = mon[a].p
  BY <1>0
<1> DEFINE n == [p |-> p, gen |-> mon[a].retry, id |-> a, pc |-> "wait"]
<1>1. /\ mon[a].pc = "unlink" /\ Typed /\ Typed' /\ mon[a].retry \in Nat
      /\ UNCHANGED <<exists, gen, inst, queue, th, stopped>>
  BY <1>9, MonTyped DEF Unlink, DesktopInv, InstancesWatched, store
<1>2. \A b \in Attempt : (b # a => mon'[b] = mon[b]) /\ mon'[a].pc = "done"
  <2>1. mon \in [Attempt -> Monitor]
    BY <1>1 DEF Typed
  <2> QED BY <2>1 DEF Unlink, Monitor
<1>3. CASE mon[a].retry = 0
  <2>1. timers' = timers
    BY <1>3 DEF Unlink
  <2> QED BY <1>1, <1>2, <2>1, AllAside DEF Aside
<1>4. CASE mon[a].retry # 0
  <2>1. timers' = timers \cup {n} /\ n.p = p /\ n.gen = mon[a].retry
    BY <1>9, <1>4 DEF Unlink
  <2> HIDE DEF n
  <2>2. \A q \in Profile : q # p => Aside(q)
    BY <1>9, <1>1, <1>2, <2>1 DEF Aside
  <2>3. ASSUME p \in exists PROVE RetriesSpent(p)'
    <3>1. RetriesSpent(p)
      BY <2>3 DEF RetryInv
    <3>2. n.gen <= gen[p]
      BY <1>9, <1>1, <2>1, <3>1 DEF RetriesSpent, GensPast
    <3>3. CASE mon[a].retry = gen[p]
      <4>1. a \in Decided(p)
        BY <1>9, <1>1, <1>4, <3>3 DEF Decided
      <4>2. /\ \A b \in Decided(p) : b = a
            /\ Timed(p) = {} /\ Queued(p) = {} /\ ~NonePending(p)
        BY <3>1, <4>1 DEF RetriesSpent, OnePending, NonePending
      <4>3. Decided(p)' = {}
        BY <1>1, <1>2, <4>2 DEF Decided
      <4>4. \A s \in Timed(p)' : s = n
        BY <1>1, <2>1, <4>2 DEF Timed
      <4>5. Queued(p)' = {}
        BY <1>1, <4>2 DEF Queued
      <4>6. GensPast(p)'
        BY <1>1, <1>2, <2>1, <3>1, <3>2 DEF RetriesSpent, GensPast
      <4> QED BY <1>1, <3>1, <4>2, <4>3, <4>4, <4>5, <4>6, Handed
    <3>4. CASE mon[a].retry # gen[p]
      <4>1. n.gen < gen[p]
        BY <1>1, <2>1, <3>2, <3>4, GensTyped
      <4>2. NothingNew(p)
        BY <1>1, <1>2, <2>1, <4>1 DEF NothingNew
      <4>3. Calm(p)
        BY <1>1, <3>1 DEF Calm, RetriesSpent, StopsSeen
      <4> QED BY <1>1, <3>1, <4>2, <4>3, SteadyKept
    <3> QED BY <3>3, <3>4
  <2> QED BY <1>1, <2>2, <2>3, OthersAside
<1> QED BY <1>3, <1>4

\* The command of p, or the quit, moves and concerns p alone.
LEMMA MoveRetries ==
  ASSUME DesktopInv, DesktopInv', RetryInv, NEW p \in Profile, NEW t \in {p, Quitter},
         \A u \in Thread : u # t => th'[u] = th[u],
         UNCHANGED <<exists, mon, timers, queue>>,
         \A q \in Profile : q # p => gen'[q] = gen[q] /\ inst'[q] = inst[q],
         stopped' \subseteq stopped \cup {p},
         th'[p].op = "auto" => th[p].op = "auto" /\ th'[p].gen = th[p].gen,
         p \in exists =>
           \/ /\ gen'[p] = gen[p] /\ Calm(p)
              /\ p \in stopped' => p \in stopped \/ Stops(p)
           \/ /\ gen'[p] = gen[p] + 1
              /\ th'[p].pc \in {"child", "mark", "signal", "gone"} => inst'[p].user
              /\ p \in stopped' => /\ th'[p].pc \notin StartPc /\ ~th'[p].cancelled
                                   /\ inst'[p].user \/ ~inst'[p].running
  PROVE  RetryInv'
<1>1. Typed /\ Typed'
  BY DEF DesktopInv
<1>2. \A q \in Profile : q # p => Aside(q)
  BY NamesApart DEF Aside
<1>3. ASSUME p \in exists PROVE RetriesSpent(p)'
  <2>1. RetriesSpent(p)
    BY <1>3 DEF RetryInv
  <2>2. NothingNew(p)
    BY DEF NothingNew
  <2> QED BY <1>1, <1>3, <2>1, <2>2, SteadyKept, BumpKept
<1> QED BY <1>2, <1>3, OthersAside

\* A start that is refused or fails: an automatic one goes back to a timer.
LEMMA FailRetries ==
  ASSUME DesktopInv, DesktopInv', RetryInv, NEW t \in Profile, th[t].pc \in StartPc \cup {"admit"},
         th' = [th EXCEPT ![t] = NoThread], Retried(t), UNCHANGED <<exists, gen, inst, mon, queue>>,
         stopped' \subseteq stopped
  PROVE  RetryInv'
<1> DEFINE r == [p |-> t, gen |-> th[t].gen, id |-> inst[t].id, pc |-> "failed"]
<1>0. Typed /\ Typed' /\ t \in Thread
  BY NamesApart DEF DesktopInv
<1>1. th[t].p = t /\ th'[t] = NoThread /\ \A q \in Profile : q # t => th'[q] = th[q]
  <2>1. th[t].pc # "idle"
    BY DEF StartPc
  <2> QED BY <1>0, <2>1, Own, NamesApart DEF Typed
<1>2. /\ th[t].op # "auto" => timers' = timers
      /\ th[t].op = "auto" => timers' = timers \cup {r}
      /\ r.p = t /\ r.gen = th[t].gen
  BY <1>1 DEF Retried
<1> HIDE DEF r
<1>3. \A q \in Profile : q # t => Aside(q)
  BY <1>1, <1>2 DEF Aside
<1>4. ASSUME t \in exists PROVE RetriesSpent(t)'
  <2>1. RetriesSpent(t)
    BY <1>4 DEF RetryInv
  <2>2. CASE ~Carried(t)
    <3>1. th[t].op = "auto" => th[t].gen < gen[t]
      BY <1>0, <2>1, <2>2, GensTyped DEF RetriesSpent, GensPast, Carried
    <3>2. NothingNew(t)
      BY <1>1, <1>2, <3>1, NothingTyped DEF NothingNew
    <3>3. Calm(t)
      BY <1>1, NothingTyped DEF Calm, StartPc, StopPc
    <3> QED BY <1>0, <2>1, <3>2, <3>3, SteadyKept
  <2>3. CASE Carried(t)
    <3>1. /\ NonePending(t) /\ ~inst[t].running /\ inst[t].id # 0 /\ t \notin stopped
          /\ th[t].op = "auto" /\ r.gen = gen[t]
      BY <1>2, <2>1, <2>3 DEF RetriesSpent, OnePending, StaysStopped, Carried
    <3>2. Decided(t)' = {} /\ Queued(t)' = {} /\ \A s \in Timed(t)' : s = r
      BY <1>2, <3>1 DEF NonePending, Decided, Queued, Timed
    <3>3. ~Carried(t)' /\ th'[t].pc \notin StartPc /\ th'[t].pc \notin StopPc
      BY <1>1, NothingTyped DEF Carried, StartPc, StopPc
    <3>4. GensPast(t)'
      <4>1. r.gen <= gen[t]
        BY <1>0, <3>1, GensTyped
      <4>2. th'[t].op # "auto"
        BY <1>1, NothingTyped
      <4> QED BY <1>2, <2>1, <4>1, <4>2 DEF RetriesSpent, GensPast
    <3>5. OnePending(t)'
      BY <3>1, <3>2, <3>3 DEF OnePending
    <3>6. StopsSeen(t)'
      BY <3>3 DEF StopsSeen, StopPc
    <3> QED BY <3>1, <3>4, <3>5, <3>6 DEF RetriesSpent
  <2> QED BY <2>2, <2>3
<1> QED BY <1>3, <1>4, OthersAside

\* The same, of a start that was admitted.
LEMMA StartFailsRetries ==
  ASSUME DesktopInv, DesktopInv', RetryInv, NEW t \in Profile, th[t].pc \in StartPc, StartFails(t)
  PROVE  RetryInv'
<1>1. th[t].op \in Starters
  BY DEF DesktopInv, ThreadsHold, Holds
<1>2. stopped' = stopped
  BY <1>1 DEF StartFails, End, Starters
<1> QED BY <1>2, FailRetries DEF StartFails, End

\* Admission: an automatic start needs its generation, any other takes a new one.
LEMMA AdmitRetries ==
  ASSUME DesktopInv, DesktopInv', RetryInv, NEW t \in Profile, Admit(t)
  PROVE  RetryInv'
<1>1. th[t].pc = "admit" /\ th[t].p = t /\ t \in Thread
  <2>1. th[t].pc = "admit"
    BY DEF Admit, At
  <2> QED BY <2>1, Own
<1> DEFINE auto == th[t].op = "auto"
           ok == Admitted(t) /\ (auto => gen[t] = th[t].gen)
<1>2. CASE ok
  <2>1. /\ gen' = (IF auto THEN gen ELSE Bumped(t))
        /\ stopped' = (IF auto THEN stopped ELSE stopped \ {t})
        /\ th' = [th EXCEPT ![t].pc = "resolve", ![t].gen = gen'[t]]
        /\ UNCHANGED <<timers, exists, inst, mon, queue>>
    BY <1>1, <1>2 DEF Admit
  <2>2. /\ th'[t].pc = "resolve" /\ th'[t].op = th[t].op /\ th'[t].gen = gen'[t]
        /\ th'[t].cancelled = th[t].cancelled
        /\ \A u \in Thread : u # t => th'[u] = th[u]
    <3>1. th \in [Thread -> ThreadState] /\ gen'[t] \in Nat
      BY DEF DesktopInv, Typed
    <3> QED BY <1>1, <2>1, <3>1 DEF ThreadState
  <2>3. \A q \in Profile : q # t => gen'[q] = gen[q]
    BY <2>1, BumpedTyped
  <2>4. CASE auto
    <3>1. gen'[t] = gen[t] /\ th'[t].gen = th[t].gen /\ Carried(t)
      BY <1>1, <1>2, <2>1, <2>2, <2>4 DEF Carried
    <3>2. Calm(t)
      BY <1>1, <2>1, <2>2, <2>4, <3>1 DEF Calm, StopPc
    <3> QED BY <2>1, <2>2, <2>3, <2>4, <3>1, <3>2, MoveRetries
  <2>5. CASE ~auto
    <3>1. gen'[t] = gen[t] + 1 /\ t \notin stopped' /\ th'[t].op # "auto"
      BY <2>1, <2>2, <2>5, BumpedTyped
    <3> QED BY <2>1, <2>2, <2>3, <2>5, <3>1, MoveRetries
  <2> QED BY <2>4, <2>5
<1>3. CASE ~ok
  <2>1. /\ th' = [th EXCEPT ![t] = NoThread] /\ Retried(t) /\ stopped' \subseteq stopped
        /\ UNCHANGED <<exists, gen, inst, mon, queue>>
    BY <1>1, <1>3 DEF Admit
  <2> QED BY <1>1, <2>1, FailRetries
<1> QED BY <1>2, <1>3

\* A start that goes on.
LEMMA StartGoesRetries ==
  ASSUME DesktopInv, DesktopInv', RetryInv, NEW t \in Profile, th[t].pc \in StartPc,
         th'[t].pc \in StartPc, th'[t].op = th[t].op, th'[t].gen = th[t].gen, th'[t].cancelled = th[t].cancelled,
         \A u \in Thread : u # t => th'[u] = th[u],
         UNCHANGED <<exists, gen, inst, mon, timers, queue, stopped>>
  PROVE  RetryInv'
<1>1. Calm(t)
  BY DEF Calm, StartPc, StopPc
<1> QED BY <1>1, MoveRetries

\* Where the program counter of a start goes.
LEMMA GoingOn ==
  ASSUME DesktopInv, DesktopInv', RetryInv, NEW t \in Profile, th[t].pc \in StartPc, NEW pc \in StartPc,
         Goto(t, pc), UNCHANGED <<exists, gen, inst, mon, timers, queue, stopped>>
  PROVE  RetryInv'
<1>1. pc \in CommandPc \cup {"lock", "next", "wait"} /\ t \in Thread
  BY NamesApart DEF CommandPc
<1>2. /\ th'[t].pc = pc /\ th'[t].op = th[t].op /\ th'[t].gen = th[t].gen /\ th'[t].cancelled = th[t].cancelled
      /\ \A u \in Thread : u # t => th'[u] = th[u]
  BY <1>1, Going DEF DesktopInv, Becomes
<1> QED BY <1>2, StartGoesRetries

\* The steps of a start between its admission and its registration.
LEMMA SpawnRetries ==
  ASSUME DesktopInv, DesktopInv', RetryInv, NEW t \in Profile,
         Resolve(t) \/ SpawnChecks(t) \/ WriteRecord(t) \/ Acquire(t) \/ Spawn(t) \/ Bind(t)
  PROVE  RetryInv'
<1>1. th[t].pc \in StartPc
  BY DEF Resolve, SpawnChecks, WriteRecord, Acquire, Spawn, Bind, At, StartPc
<1>2. CASE StartFails(t)
  BY <1>1, <1>2, StartFailsRetries
<1>3. CASE /\ \E pc \in StartPc : Goto(t, pc)
           /\ UNCHANGED <<exists, gen, inst, mon, timers, queue, stopped>>
  BY <1>1, <1>3, GoingOn
<1>4. CASE WriteRecord(t) /\ ~StartFails(t)
  <2>1. th' = [th EXCEPT ![t].pc = "acquire", ![t].a = th[t].next]
    BY <1>4 DEF WriteRecord
  <2>2. th \in [Thread -> ThreadState] /\ t \in Thread
    BY NamesApart DEF DesktopInv, Typed
  <2>3. /\ th'[t].pc = "acquire" /\ th'[t].op = th[t].op /\ th'[t].gen = th[t].gen
        /\ th'[t].cancelled = th[t].cancelled /\ \A u \in Thread : u # t => th'[u] = th[u]
    BY <2>1, <2>2 DEF ThreadState
  <2>4. "acquire" \in StartPc /\ UNCHANGED <<exists, gen, inst, mon, timers, queue, stopped>>
    BY <1>4 DEF WriteRecord, StartPc
  <2> QED BY <1>1, <2>3, <2>4, StartGoesRetries
<1>5. {"lifecycle", "record", "spawn", "bind", "register"} \subseteq StartPc
  BY DEF StartPc
<1> QED BY <1>2, <1>3, <1>4, <1>5 DEF Resolve, SpawnChecks, WriteRecord, Acquire, Spawn, Bind, store

\* The instance is registered, and the start ends or stops it.
LEMMA RegisterRetries ==
  ASSUME DesktopInv, DesktopInv', RetryInv, NEW t \in Profile, Register(t)
  PROVE  RetryInv'
<1>1. th[t].pc = "register" /\ th[t].p = t /\ t \in Thread /\ Typed /\ Typed' /\ th[t].op \in Starters
  <2>1. th[t].pc = "register"
    BY DEF Register, At
  <2>2. th[t].op \in Starters
    BY <2>1 DEF DesktopInv, ThreadsHold, Holds, StartPc
  <2> QED BY <2>1, <2>2, Own DEF DesktopInv
<1>2. /\ th[t].a \in Attempt /\ inst'[t].id = th[t].a /\ inst'[t].id # 0
      /\ \A q \in Profile : q # t => inst'[q] = inst[q]
  <2>1. th[t].a \in Attempt /\ th[t].a # 0
    BY <1>1, BuiltAttempt, AttemptIs DEF LockedPc
  <2>2. inst' = [inst EXCEPT ![t] = [NoInst EXCEPT !.id = th[t].a, !.running = TRUE, !.status = "starting"]]
    BY <1>1 DEF Register
  <2> QED BY <1>1, <2>1, <2>2 DEF Typed, NoInst
<1>3. /\ \A b \in Attempt : b # th[t].a => mon'[b] = mon[b]
      /\ mon'[th[t].a].pc = "watch"
  BY <1>1, <1>2 DEF Register, Typed, NoMon
<1>4. UNCHANGED <<exists, gen, timers, queue, stopped>>
  BY <1>1 DEF Register, End, Starters
<1>5. /\ \A u \in Thread : u # t => th'[u] = th[u]
      /\ th'[t].op = "auto" => th[t].op = "auto" /\ th'[t].gen = th[t].gen
      /\ th'[t].pc \in {"idle", "find"}
  <2>1. th \in [Thread -> ThreadState]
    BY <1>1 DEF Typed
  <2>2. CASE End(t, TRUE)
    BY <1>1, <2>1, <2>2, NothingTyped DEF End
  <2>3. CASE th' = [th EXCEPT ![t].pc = "find", ![t].cancelled = TRUE]
    BY <1>1, <2>1, <2>3 DEF ThreadState
  <2> QED BY <2>2, <2>3 DEF Register
<1>6. \A q \in Profile : q # t => Aside(q)
  BY <1>2, <1>3, <1>4, <1>5, NamesApart DEF Aside
<1>7. ASSUME t \in exists PROVE RetriesSpent(t)'
  <2>1. RetriesSpent(t)
    BY <1>7 DEF RetryInv
  <2>2. NothingNew(t)
    BY <1>3, <1>4, <1>5 DEF NothingNew
  <2>3. Calm(t)
    BY <1>1, <1>2, <1>5 DEF Calm, StartPc, StopPc
  <2> QED BY <1>1, <1>4, <2>1, <2>2, <2>3, SteadyKept
<1> QED BY <1>4, <1>6, <1>7, OthersAside

\* Where a stop returns to: the quit, or a command that ends or waits for the monitor.
LEMMA ReturnIs ==
  ASSUME DesktopInv, NEW t \in Thread, th[t].pc \in StopPc, NEW ok \in BOOLEAN, Return(t, ok)
  PROVE  /\ \A u \in Thread : u # t => th'[u] = th[u]
         /\ t = Quitter => stopped' = stopped
         /\ t # Quitter =>
              /\ t \in Profile /\ th[t].p = t
              /\ \/ th'[t] = NoThread
                 \/ /\ th'[t].pc = "waitstop" /\ th'[t].op = th[t].op /\ th'[t].gen = th[t].gen
                    /\ th'[t].cancelled = th[t].cancelled /\ stopped' = stopped
              /\ stopped' \subseteq stopped \cup {t}
              /\ t \in stopped' => t \in stopped \/ (ok /\ th'[t] = NoThread)
<1>0. th[t].pc # "idle" /\ (t # Quitter => t \in Profile) /\ Typed /\ ThreadsHold
  BY NamesApart DEF StopPc, DesktopInv
<1>1. CASE t = Quitter
  BY <1>0, <1>1 DEF Return, Typed
<1>2. CASE t # Quitter /\ Goto(t, "waitstop") /\ stopped' = stopped
  BY <1>0, <1>2, Going, Own DEF Becomes, CommandPc
<1>3. CASE t # Quitter /\ End(t, ok)
  BY <1>0, <1>3, EndIs, Own DEF Becomes
<1> QED BY <1>1, <1>2, <1>3 DEF Return

\* A stop ends: it has cancelled what was pending, or there was nothing.
LEMMA ReturnRetries ==
  ASSUME DesktopInv, DesktopInv', RetryInv, NEW t \in Thread, th[t].pc \in StopPc, NEW p \in Profile, th[t].p = p,
         NEW ok \in BOOLEAN, Return(t, ok), UNCHANGED <<exists, mon, timers, queue>>,
         \A q \in Profile : q # p => gen'[q] = gen[q] /\ inst'[q] = inst[q],
         inst'[p].running = inst[p].running, inst'[p].id = inst[p].id, inst[p].user => inst'[p].user,
         p \in exists =>
           \/ /\ gen'[p] = gen[p]
              /\ ok /\ t = p => /\ Queued(p) = {}
                                /\ inst'[p].user \/ (NonePending(p) /\ ~inst[p].running)
           \/ gen'[p] = gen[p] + 1 /\ (inst'[p].user \/ ~inst[p].running)
  PROVE  RetryInv'
<1>0. p \in Thread /\ t \in {p, Quitter} /\ p # Quitter
  BY ReturnIs, NamesApart
<1>1. /\ \A u \in Thread : u # t => th'[u] = th[u]
      /\ t = Quitter => stopped' = stopped /\ th'[p] = th[p]
      /\ t = p => \/ th'[p] = NoThread
                  \/ /\ th'[p].pc = "waitstop" /\ th'[p].op = th[p].op /\ th'[p].gen = th[p].gen
                     /\ th'[p].cancelled = th[p].cancelled /\ stopped' = stopped
      /\ t = p /\ p \in stopped' => p \in stopped \/ (ok /\ th'[p] = NoThread)
      /\ stopped' \subseteq stopped \cup {p}
  BY <1>0, ReturnIs
<1>2. th'[p].op = "auto" => th[p].op = "auto" /\ th'[p].gen = th[p].gen
  BY <1>0, <1>1, NothingTyped
<1>3. ASSUME p \in exists, gen'[p] = gen[p],
             ok /\ t = p => Queued(p) = {} /\ (inst'[p].user \/ (NonePending(p) /\ ~inst[p].running))
      PROVE  Calm(p) /\ (p \in stopped' => p \in stopped \/ Stops(p))
  <2>1. RetriesSpent(p)
    BY <1>3 DEF RetryInv
  <2>2. Calm(p)
    BY <1>0, <1>1, <2>1, NothingTyped DEF Calm, StartPc, StopPc, RetriesSpent, StopsSeen
  <2> QED BY <1>0, <1>1, <1>3, <2>2 DEF Stops
<1>4. ASSUME p \in exists, gen'[p] = gen[p] + 1, inst'[p].user \/ ~inst[p].running
      PROVE  /\ th'[p].pc \in {"child", "mark", "signal", "gone"} => inst'[p].user
             /\ p \in stopped' => th'[p].pc \notin StartPc /\ ~th'[p].cancelled /\ (inst'[p].user \/ ~inst'[p].running)
  <2>1. RetriesSpent(p)
    BY <1>4 DEF RetryInv
  <2> QED BY <1>0, <1>1, <1>4, <2>1, NothingTyped DEF StartPc, RetriesSpent, StopsSeen, StaysStopped
<1> QED BY <1>0, <1>1, <1>2, <1>3, <1>4, MoveRetries

\* A stop goes on: it has seen its instance run, and marks it before it signals.
LEMMA StopGoesRetries ==
  ASSUME DesktopInv, DesktopInv', RetryInv, NEW t \in Thread, th[t].pc \in StopPc, NEW p \in Profile, th[t].p = p,
         \A u \in Thread : u # t => th'[u] = th[u],
         th'[t].pc \in StopPc \ {"find"}, th'[t].op = th[t].op, th'[t].gen = th[t].gen, th'[t].cancelled = th[t].cancelled,
         UNCHANGED <<exists, mon, timers, queue, stopped>>,
         \A q \in Profile : q # p => gen'[q] = gen[q] /\ inst'[q] = inst[q],
         inst'[p].running = inst[p].running, inst'[p].id = inst[p].id, inst[p].user => inst'[p].user,
         th[t].pc = "find" => inst[p].running,
         th'[t].pc \in {"child", "mark", "signal", "gone"} /\ th[t].pc \notin {"child", "mark", "signal", "gone"} => inst'[p].user,
         gen'[p] = gen[p] \/ (gen'[p] = gen[p] + 1 /\ inst'[p].user)
  PROVE  RetryInv'
<1>0. p \in Thread /\ t \in {p, Quitter} /\ p # Quitter
  <2>1. th[t].pc # "idle"
    BY DEF StopPc
  <2> QED BY <2>1, Own, NamesApart
<1>1. t = Quitter => th'[p] = th[p]
  BY <1>0
<1>2. th'[p].op = "auto" => th[p].op = "auto" /\ th'[p].gen = th[p].gen
  BY <1>0, <1>1
<1>3. ASSUME p \in exists
      PROVE  /\ th'[p].pc \in {"child", "mark", "signal", "gone"} => inst'[p].user
             /\ Calm(p)
             /\ p \in stopped => th'[p].pc \notin StartPc /\ ~th'[p].cancelled
  <2>1. RetriesSpent(p)
    BY <1>3 DEF RetryInv
  <2>2. th'[p].pc \in {"child", "mark", "signal", "gone"} => inst'[p].user
    BY <1>0, <1>1, <2>1 DEF RetriesSpent, StopsSeen
  <2>3. Calm(p)
    <3>1. CASE t = Quitter
      BY <1>1, <2>2, <3>1 DEF Calm
    <3>2. CASE t = p
      BY <2>2, <3>2 DEF Calm, StartPc, StopPc
    <3> QED BY <1>0, <3>1, <3>2
  <2>4. p \in stopped => th'[p].pc \notin StartPc /\ ~th'[p].cancelled
    <3>1. CASE t = Quitter
      BY <1>1, <2>1, <3>1 DEF RetriesSpent, StaysStopped
    <3>2. CASE t = p
      BY <2>1, <3>2 DEF RetriesSpent, StaysStopped, StartPc, StopPc
    <3> QED BY <1>0, <3>1, <3>2
  <2> QED BY <2>2, <2>3, <2>4
<1>4. stopped' \subseteq stopped \cup {p}
  OBVIOUS
<1> QED BY <1>0, <1>2, <1>3, <1>4, MoveRetries

\* What a mark does to an instance.
LEMMA Marked ==
  ASSUME DesktopInv, NEW p \in Profile, NEW s \in Statuses,
         \/ inst' = [inst EXCEPT ![p].user = TRUE]
         \/ inst' = [inst EXCEPT ![p].user = TRUE, ![p].status = s]
         \/ inst' = [inst EXCEPT ![p].status = s, ![p].user = TRUE]
  PROVE  /\ inst'[p].user /\ inst'[p].running = inst[p].running /\ inst'[p].id = inst[p].id
         /\ \A q \in Profile : q # p => inst'[q] = inst[q]
BY DEF DesktopInv, Typed, Instance

\* A stop that finds no instance cancels the start; one that finds it ended, its retry.
LEMMA StopFindsRetries ==
  ASSUME DesktopInv, DesktopInv', RetryInv, NEW t \in Thread, StopFinds(t)
  PROVE  RetryInv'
<1> DEFINE p == th[t].p
<1>0. /\ th[t].pc = "find" /\ th[t].pc \in StopPc /\ p \in Profile /\ th[t] \in ThreadState /\ Typed
      /\ UNCHANGED <<exists, mon, timers, queue>>
  BY Stopping DEF StopFinds, At, StopPc, DesktopInv
<1>1. CASE inst[p].id = 0
  <2>1. /\ gen' = (IF p \in starting THEN Bumped(p) ELSE gen)
        /\ Return(t, TRUE) /\ UNCHANGED inst
    BY <1>1 DEF StopFinds
  <2>2. ~inst[p].running
    BY <1>0, <1>1 DEF DesktopInv, InstancesWatched
  <2>3. p \in exists => NonePending(p) /\ Queued(p) = {}
    BY <1>1 DEF RetryInv, RetriesSpent, OnePending, NonePending
  <2>4. \A q \in Profile : q # p => gen'[q] = gen[q]
    BY <1>0, <2>1, BumpedTyped
  <2>5. gen'[p] = gen[p] \/ gen'[p] = gen[p] + 1
    BY <1>0, <2>1, BumpedTyped
  <2> HIDE DEF p
  <2> QED BY <1>0, <2>1, <2>2, <2>3, <2>4, <2>5, ReturnRetries DEF p
<1>2. CASE inst[p].id # 0 /\ ~inst[p].running
  <2>1. gen' = Bumped(p) /\ inst' = [inst EXCEPT ![p].user = TRUE] /\ Return(t, TRUE)
    BY <1>2 DEF StopFinds, CancelReconnect
  <2>2. /\ inst'[p].user /\ inst'[p].running = inst[p].running /\ inst'[p].id = inst[p].id
        /\ \A q \in Profile : q # p => inst'[q] = inst[q]
    BY <1>0, <2>1, Marked DEF Statuses
  <2>3. gen'[p] = gen[p] + 1 /\ \A q \in Profile : q # p => gen'[q] = gen[q]
    BY <1>0, <2>1, BumpedTyped
  <2> HIDE DEF p
  <2> QED BY <1>0, <2>1, <2>2, <2>3, ReturnRetries DEF p
<1>3. CASE inst[p].id # 0 /\ inst[p].running
  <2>1. /\ th' = [th EXCEPT ![t].pc = "previous", ![t].a = inst[p].id]
        /\ UNCHANGED <<gen, inst, lifecycle, starting, stopped>>
    BY <1>3 DEF StopFinds
  <2>2. /\ \A u \in Thread : u # t => th'[u] = th[u]
        /\ th'[t].pc = "previous" /\ th'[t].op = th[t].op /\ th'[t].gen = th[t].gen /\ th'[t].cancelled = th[t].cancelled
    BY <1>0, <2>1 DEF Typed, ThreadState
  <2>3. th'[t].pc \in StopPc \ {"find"} /\ th'[t].pc \notin {"child", "mark", "signal", "gone"}
    BY <2>2 DEF StopPc
  <2> HIDE DEF p
  <2> QED BY <1>0, <1>3, <2>1, <2>2, <2>3, StopGoesRetries DEF p
<1> QED BY <1>1, <1>2, <1>3

\* It reads, flags and marks.
LEMMA StopReadsRetries ==
  ASSUME DesktopInv, DesktopInv', RetryInv, NEW t \in Thread, StopReads(t)
  PROVE  RetryInv'
<1>0. /\ th[t].pc = "previous" /\ th[t].pc \in StopPc /\ th[t].p \in Profile /\ th[t] \in ThreadState /\ Typed
      /\ UNCHANGED <<exists, gen, inst, mon, timers, queue, stopped>>
  BY Stopping DEF StopReads, At, StopPc, DesktopInv, store
<1>1. /\ \A u \in Thread : u # t => th'[u] = th[u]
      /\ th'[t].pc = "flag" /\ th'[t].op = th[t].op /\ th'[t].gen = th[t].gen /\ th'[t].cancelled = th[t].cancelled
  BY <1>0 DEF StopReads, Typed, ThreadState
<1>2. th'[t].pc \in StopPc \ {"find"} /\ th'[t].pc \notin {"child", "mark", "signal", "gone"}
  BY <1>1 DEF StopPc
<1> QED BY <1>0, <1>1, <1>2, StopGoesRetries

\* The same, with the fields that move: the program counter alone.
LEMMA StopGoesTo ==
  ASSUME DesktopInv, DesktopInv', RetryInv, NEW t \in Thread, th[t].pc \in StopPc \ {"find"},
         NEW pc \in StopPc \ {"find"}, Goto(t, pc),
         UNCHANGED <<exists, mon, timers, queue, stopped>>,
         \A q \in Profile : q # th[t].p => gen'[q] = gen[q] /\ inst'[q] = inst[q],
         inst'[th[t].p].running = inst[th[t].p].running, inst'[th[t].p].id = inst[th[t].p].id,
         inst[th[t].p].user => inst'[th[t].p].user,
         pc \in {"child", "mark", "signal", "gone"} /\ th[t].pc \notin {"child", "mark", "signal", "gone"} => inst'[th[t].p].user,
         gen'[th[t].p] = gen[th[t].p] \/ (gen'[th[t].p] = gen[th[t].p] + 1 /\ inst'[th[t].p].user)
  PROVE  RetryInv'
<1>0. th[t].p \in Profile /\ Typed /\ th[t].pc \in StopPc
  BY Stopping DEF DesktopInv
<1>1. /\ \A u \in Thread : u # t => th'[u] = th[u]
      /\ th'[t].pc = pc /\ th'[t].op = th[t].op /\ th'[t].gen = th[t].gen /\ th'[t].cancelled = th[t].cancelled
  BY <1>0, Going DEF Becomes, CommandPc
<1> QED BY <1>0, <1>1, StopGoesRetries

\* The instance is flagged.
LEMMA StopFlagsRetries ==
  ASSUME DesktopInv, DesktopInv', RetryInv, NEW t \in Thread, StopFlags(t)
  PROVE  RetryInv'
<1>0. /\ th[t].pc = "flag" /\ th[t].pc \in StopPc \ {"find"} /\ th[t].pc \in StopPc /\ "child" \in StopPc \ {"find"}
      /\ UNCHANGED <<exists, gen, mon, timers, queue, stopped>> /\ Goto(t, "child")
      /\ inst' = [inst EXCEPT ![th[t].p].user = TRUE]
  BY DEF StopFlags, At, StopPc
<1>1. th[t].p \in Profile
  BY <1>0, Stopping
<1>2. /\ inst'[th[t].p].user /\ inst'[th[t].p].running = inst[th[t].p].running /\ inst'[th[t].p].id = inst[th[t].p].id
      /\ \A q \in Profile : q # th[t].p => inst'[q] = inst[q]
  BY <1>0, <1>1, Marked DEF Statuses
<1> QED BY <1>0, <1>1, <1>2, StopGoesTo

\* A stop that returns with its instance marked.
LEMMA MarkedReturns ==
  ASSUME DesktopInv, DesktopInv', RetryInv, NEW t \in Thread, th[t].pc \in {"child", "mark", "signal", "gone"},
         NEW ok \in BOOLEAN, Return(t, ok), UNCHANGED <<exists, gen, mon, timers, queue>>,
         \/ inst' = inst
         \/ \E s \in Statuses : inst' = [inst EXCEPT ![th[t].p].status = s, ![th[t].p].user = TRUE]
  PROVE  RetryInv'
<1> DEFINE p == th[t].p
<1>0. th[t].pc \in StopPc /\ p \in Profile
  <2>1. th[t].pc \in StopPc
    BY DEF StopPc
  <2> QED BY <2>1, Stopping
<1>1. /\ inst'[p].running = inst[p].running /\ inst'[p].id = inst[p].id /\ (inst[p].user => inst'[p].user)
      /\ \A q \in Profile : q # p => inst'[q] = inst[q]
  BY <1>0, Marked
<1>2. p \in exists /\ t = p => Queued(p) = {} /\ inst'[p].user
  <2>1. "find" \notin {"child", "mark", "signal", "gone"}
    OBVIOUS
  <2> HIDE DEF p
  <2> QED BY <1>0, <1>1, <2>1 DEF RetryInv, RetriesSpent, StopsSeen
<1> HIDE DEF p
<1> QED BY <1>0, <1>1, <1>2, ReturnRetries DEF p

\* The child lock, the mark, the signal and the wait.
LEMMA StopEndsRetries ==
  ASSUME DesktopInv, DesktopInv', RetryInv, NEW t \in Thread,
         StopLocksChild(t) \/ StopMarks(t) \/ StopSignals(t) \/ StopWaits(t)
  PROVE  RetryInv'
<1>0. /\ th[t].pc \in {"child", "mark", "signal", "gone"} /\ th[t].pc \in StopPc \ {"find"} /\ th[t].pc \in StopPc
      /\ {"mark", "signal", "gone"} \subseteq StopPc \ {"find"}
  BY DEF StopLocksChild, StopMarks, StopSignals, StopWaits, At, StopPc
<1>1. th[t].p \in Profile /\ th[t].prev \in Statuses
  BY <1>0, Stopping, ThreadTyped DEF DesktopInv
<1>2. CASE StopLocksChild(t)
  <2>1. UNCHANGED <<exists, gen, inst, mon, timers, queue>>
    BY <1>2 DEF StopLocksChild
  <2>2. CASE Return(t, TRUE)
    BY <1>0, <2>1, <2>2, MarkedReturns
  <2>3. CASE Goto(t, "mark") /\ UNCHANGED stopped
    BY <1>0, <1>1, <2>1, <2>3, StopGoesTo
  <2>4. CASE Return(t, FALSE)
    BY <1>0, <2>1, <2>4, MarkedReturns
  <2> QED BY <1>2, <2>2, <2>3, <2>4 DEF StopLocksChild
<1>3. CASE StopMarks(t)
  <2>1. /\ UNCHANGED <<exists, mon, timers, queue, stopped>> /\ Goto(t, "signal") /\ gen' = Bumped(th[t].p)
        /\ inst' = [inst EXCEPT ![th[t].p].user = TRUE, ![th[t].p].status = "disconnecting"]
    BY <1>3 DEF StopMarks
  <2>2. /\ inst'[th[t].p].user /\ inst'[th[t].p].running = inst[th[t].p].running /\ inst'[th[t].p].id = inst[th[t].p].id
        /\ \A q \in Profile : q # th[t].p => inst'[q] = inst[q]
    BY <1>1, <2>1, Marked DEF Statuses
  <2>3. gen'[th[t].p] = gen[th[t].p] + 1 /\ \A q \in Profile : q # th[t].p => gen'[q] = gen[q]
    BY <1>1, <2>1, BumpedTyped
  <2> QED BY <1>0, <1>1, <2>1, <2>2, <2>3, StopGoesTo
<1>4. CASE StopSignals(t)
  <2>1. UNCHANGED <<exists, gen, mon, timers, queue>>
    BY <1>4 DEF StopSignals
  <2>2. CASE Goto(t, "gone") /\ UNCHANGED <<inst, stopped>>
    BY <1>0, <1>1, <2>1, <2>2, StopGoesTo
  <2>3. CASE Return(t, FALSE) /\ StopFailed(th[t].p, th[t].prev)
    BY <1>0, <1>1, <2>1, <2>3, MarkedReturns DEF StopFailed
  <2>4. CASE Return(t, TRUE) /\ UNCHANGED inst
    BY <1>0, <2>1, <2>4, MarkedReturns
  <2> QED BY <1>4, <2>2, <2>3, <2>4 DEF StopSignals
<1>5. CASE StopWaits(t)
  <2>1. UNCHANGED <<exists, gen, inst, mon, timers, queue>>
    BY <1>5 DEF StopWaits
  <2> QED BY <1>0, <1>5, <2>1, MarkedReturns DEF StopWaits
<1> QED BY <1>2, <1>3, <1>4, <1>5

\* Every step of a stop.
LEMMA StopStepRetries ==
  ASSUME DesktopInv, DesktopInv', RetryInv, NEW t \in Thread, StopStep(t)
  PROVE  RetryInv'
BY StopFindsRetries, StopReadsRetries, StopFlagsRetries, StopEndsRetries DEF StopStep

\* A command that is neither a start nor a stop, and changes no generation.
LEMMA CommandRetries ==
  ASSUME DesktopInv, DesktopInv', RetryInv, NEW t \in Profile,
         th[t].pc \in {"check", "waitstop", "reserve", "mutate"},
         UNCHANGED <<exists, gen, inst, mon, timers, queue>>,
         \/ \E ok \in BOOLEAN : End(t, ok) /\ (ok => th[t].op \notin {"stop", "disconnect"})
         \/ /\ \A u \in Thread : u # t => th'[u] = th[u]
            /\ th'[t].pc \in {"find", "reserve", "admit"} /\ th'[t].op = th[t].op /\ th'[t].gen = th[t].gen
            /\ th'[t].cancelled = th[t].cancelled /\ stopped' = stopped
            /\ th'[t].pc = "admit" => th[t].op # "auto"
  PROVE  RetryInv'
<1>0. th[t].pc # "idle" /\ ~th[t].cancelled /\ t \in Thread /\ Typed /\ ThreadsHold
  BY Own, NamesApart DEF DesktopInv, StopPc
<1>1. /\ \A u \in Thread : u # t => th'[u] = th[u]
      /\ stopped' = stopped /\ ~th'[t].cancelled
      /\ th'[t].op = "auto" => th[t].op = "auto" /\ th'[t].gen = th[t].gen
      /\ th'[t].pc \in {"idle", "find", "reserve", "admit"} /\ (th'[t].pc = "admit" => th'[t].op # "auto")
  <2>1. CASE \E ok \in BOOLEAN : End(t, ok) /\ (ok => th[t].op \notin {"stop", "disconnect"})
    <3>1. PICK ok \in BOOLEAN : End(t, ok) /\ (ok => th[t].op \notin {"stop", "disconnect"})
      BY <2>1
    <3>2. stopped' = stopped
      BY <3>1 DEF End
    <3> QED BY <1>0, <3>1, <3>2, EndIs, NothingTyped DEF Becomes
  <2> QED BY <1>0, <2>1
<1>2. Calm(t)
  BY <1>1 DEF Calm, StartPc, StopPc
<1> QED BY <1>0, <1>1, <1>2, MoveRetries

\* A delete looks, and a delete or a reconnect waits for the monitor.
LEMMA ChecksRetries ==
  ASSUME DesktopInv, DesktopInv', RetryInv, NEW t \in Profile, DeleteChecks(t) \/ WaitsForStop(t)
  PROVE  RetryInv'
<1>0. /\ th[t].pc \in {"check", "waitstop"} /\ t \in Thread /\ Typed
      /\ UNCHANGED <<exists, gen, inst, mon, timers, queue>>
  BY NamesApart DEF DeleteChecks, WaitsForStop, At, DesktopInv
<1>1. CASE End(t, FALSE)
  BY <1>0, <1>1, CommandRetries
<1>2. CASE Goto(t, "find") /\ UNCHANGED stopped
  <2>1. /\ \A u \in Thread : u # t => th'[u] = th[u]
        /\ th'[t].pc = "find" /\ th'[t].op = th[t].op /\ th'[t].gen = th[t].gen /\ th'[t].cancelled = th[t].cancelled
    BY <1>0, <1>2, Going DEF Becomes, CommandPc, StopPc
  <2> QED BY <1>0, <1>2, <2>1, CommandRetries
<1>3. CASE /\ WaitsForStop(t)
           /\ th' = [th EXCEPT ![t].pc = IF th[t].op = "delete" THEN "reserve" ELSE "admit", ![t].a = 0]
           /\ UNCHANGED stopped
  <2>1. th[t].op \in {"reconnect", "delete"}
    BY <1>3 DEF WaitsForStop, At, DesktopInv, ThreadsHold, Holds
  <2>2. /\ \A u \in Thread : u # t => th'[u] = th[u]
        /\ th'[t].pc \in {"reserve", "admit"} /\ th'[t].op = th[t].op /\ th'[t].gen = th[t].gen
        /\ th'[t].cancelled = th[t].cancelled
    BY <1>0, <1>3 DEF Typed, ThreadState
  <2> QED BY <1>0, <1>3, <2>1, <2>2, CommandRetries
<1> QED BY <1>1, <1>2, <1>3 DEF DeleteChecks, WaitsForStop

\* The reservation of an edit changes the generation.
LEMMA ReserveRetries ==
  ASSUME DesktopInv, DesktopInv', RetryInv, NEW t \in Profile, ReserveMutation(t)
  PROVE  RetryInv'
<1>0. /\ th[t].pc = "reserve" /\ t \in Thread /\ Typed /\ th[t].p = t /\ ~th[t].cancelled
      /\ UNCHANGED <<exists, inst, mon, timers, queue>>
  <2>1. th[t].pc = "reserve"
    BY DEF ReserveMutation, At
  <2> QED BY <2>1, Own DEF ReserveMutation, DesktopInv, StopPc
<1>1. CASE t \in mutating \/ InProgress(t)
  <2>1. End(t, FALSE) /\ UNCHANGED gen
    BY <1>0, <1>1 DEF ReserveMutation
  <2> QED BY <1>0, <2>1, CommandRetries
<1>2. CASE ~(t \in mutating \/ InProgress(t))
  <2>1. gen' = Bumped(t) /\ Goto(t, "mutate") /\ UNCHANGED stopped
    BY <1>0, <1>2 DEF ReserveMutation
  <2>2. /\ \A u \in Thread : u # t => th'[u] = th[u]
        /\ th'[t].pc = "mutate" /\ th'[t].op = th[t].op /\ th'[t].gen = th[t].gen /\ th'[t].cancelled = th[t].cancelled
    BY <1>0, <2>1, Going DEF Becomes, CommandPc
  <2>3. gen'[t] = gen[t] + 1 /\ \A q \in Profile : q # t => gen'[q] = gen[q]
    BY <2>1, BumpedTyped
  <2>4. ~inst[t].running
    BY <1>2 DEF InProgress, HasRunning, DesktopInv, InstancesWatched
  <2>5. th'[t].pc \notin StartPc /\ stopped' \subseteq stopped \cup {t}
    BY <2>1, <2>2 DEF StartPc
  <2> QED BY <1>0, <2>2, <2>3, <2>4, <2>5, MoveRetries
<1> QED BY <1>1, <1>2

\* The edit: a deleted profile is gone, a saved one keeps its retries.
LEMMA MutateRetries ==
  ASSUME DesktopInv, DesktopInv', RetryInv, ~Recreate, NEW t \in Profile, Mutate(t)
  PROVE  RetryInv'
<1>0. /\ th[t].pc = "mutate" /\ t \in Thread /\ Typed /\ th[t].p = t /\ End(t, TRUE)
      /\ UNCHANGED <<mon, timers, queue>>
  <2>1. th[t].pc = "mutate"
    BY DEF Mutate, At
  <2> QED BY <2>1, Own DEF Mutate, DesktopInv
<1>1. CASE th[t].op = "save"
  <2>1. UNCHANGED <<exists, gen, inst>>
    BY <1>1 DEF Mutate
  <2> QED BY <1>0, <1>1, <2>1, CommandRetries
<1>2. CASE th[t].op = "delete"
  <2>1. exists' = exists \ {t} /\ gen' = [gen EXCEPT ![t] = 0] /\ inst' = [inst EXCEPT ![t] = NoInst]
    BY <1>0, <1>2 DEF Mutate
  <2>2. \A q \in Profile : q # t => gen'[q] = gen[q] /\ inst'[q] = inst[q]
    BY <1>0, <2>1 DEF Typed
  <2>3. stopped' = stopped /\ th' = [th EXCEPT ![t] = NoThread]
    BY <1>0, <1>2 DEF End
  <2>4. \A q \in Profile : q # t => th'[q] = th[q]
    BY <1>0, <2>3, NamesApart DEF Typed
  <2>5. \A q \in Profile : q # t => Aside(q)
    BY <1>0, <2>2, <2>3, <2>4 DEF Aside
  <2> QED BY <2>1, <2>5, OthersAside
<1> QED BY <1>1, <1>2 DEF Mutate

\* The inductive step.
LEMMA NextRetries ==
  ASSUME DesktopInv, DesktopInv', RetryInv, Prompt, ~Recreate, [Next]_vars
  PROVE  RetryInv'
<1>1. CASE UNCHANGED vars
  <2>1. UNCHANGED <<exists, gen, inst, mon, timers, queue, th, stopped>>
    BY <1>1 DEF vars, store
  <2> QED BY <2>1, AllAside DEF Aside
<1>2. ASSUME NEW p \in Profile, CommandStep(p) PROVE RetryInv'
  BY <1>2, TakeRetries, AdmitRetries, SpawnRetries, RegisterRetries, StopStepRetries, ChecksRetries, ReserveRetries,
     MutateRetries, NamesApart
  DEF CommandStep
<1>3. ASSUME NEW p \in Profile, AutoConnect(p) \/ \E op \in Ops : Ask(p, op) PROVE RetryInv'
  BY <1>3, AskRetries
<1>4. ASSUME NEW a \in Attempt, MonitorStep(a) PROVE RetryInv'
  BY <1>4, WatchRetries, SettleRetries, UnlinkRetries DEF MonitorStep
<1>5. ASSUME NEW a \in Attempt,
             \/ EngineUp(a) \/ EngineExits(a) \/ ReaderConnected(a) \/ ReaderCloses(a) \/ ReaderBlocks(a)
             \/ Acknowledge(a) \/ CleanupStale(a)
      PROVE RetryInv'
  BY <1>5, WorldRetries
<1>6. ASSUME NEW r \in timers, TimerStep(r) PROVE RetryInv'
  BY <1>6, TimerRetriesKept
<1>7. CASE Quit \/ QuitStep \/ Restart
  BY <1>7, QuietRetries, QuitLocksRetries, StopStepRetries, NamesApart DEF QuitStep
<1>8. CASE Crash
  BY <1>8, CrashRetries
<1> QED BY <1>1, <1>2, <1>3, <1>4, <1>5, <1>6, <1>7, <1>8 DEF Next

\* The steps of a stop keep the number of the instance.
LEMMA StopKeepsId ==
  ASSUME DesktopInv, NEW t \in Thread, StopStep(t), NEW p \in Profile
  PROVE  inst'[p].id = inst[p].id
<1>0. th[t].pc \in StopPc
  BY DEF StopStep, StopFinds, StopReads, StopFlags, StopLocksChild, StopMarks, StopSignals, StopWaits, At, StopPc
<1>1. th[t].p \in Profile /\ th[t].prev \in Statuses
  BY <1>0, Stopping, ThreadTyped DEF DesktopInv
<1>2. \/ inst' = inst
      \/ inst' = [inst EXCEPT ![th[t].p].user = TRUE]
      \/ \E s \in Statuses : \/ inst' = [inst EXCEPT ![th[t].p].user = TRUE, ![th[t].p].status = s]
                             \/ inst' = [inst EXCEPT ![th[t].p].status = s, ![th[t].p].user = TRUE]
  <2>1. "disconnecting" \in Statuses
    BY DEF Statuses
  <2>2. CASE StopFinds(t)
    BY <2>2 DEF StopFinds, CancelReconnect
  <2>3. CASE StopReads(t) \/ StopFlags(t) \/ StopLocksChild(t) \/ StopWaits(t)
    BY <2>3 DEF StopReads, StopFlags, StopLocksChild, StopWaits, store
  <2>4. CASE StopMarks(t)
    BY <2>1, <2>4 DEF StopMarks
  <2>5. CASE StopSignals(t)
    BY <1>1, <2>5 DEF StopSignals, StopFailed
  <2> QED BY <2>2, <2>3, <2>4, <2>5 DEF StopStep
<1>3. "starting" \in Statuses
  BY DEF Statuses
<1> QED BY <1>1, <1>2, <1>3, Marked

\* Only a registration gives a profile another instance.
LEMMA OnlyRegisters ==
  ASSUME DesktopInv, [Next]_vars, NEW p \in Profile, inst'[p].id \notin {0, inst[p].id}
  PROVE  th[p].pc = "register"
<1>0. inst \in [Profile -> Instance] /\ Profile \subseteq Thread /\ Quitter \in Thread
  BY NamesApart DEF DesktopInv, Typed
<1>1. inst' # inst
  OBVIOUS
<1>2. ASSUME NEW q \in Profile, CommandStep(q) PROVE th[p].pc = "register"
  <2>1. CASE Register(q)
    <3>1. th[q].pc = "register"
      BY <2>1 DEF Register, At
    <3>2. th[q].p = q
      BY <3>1, Own
    <3>3. q = p
      BY <1>0, <2>1, <3>2 DEF Register
    <3> QED BY <3>1, <3>3
  <2>2. CASE Mutate(q)
    <3>1. th[q].pc = "mutate"
      BY <2>2 DEF Mutate, At
    <3>2. th[q].p = q
      BY <3>1, Own
    <3>3. inst' = [inst EXCEPT ![q] = NoInst]
      BY <1>1, <2>2, <3>2 DEF Mutate
    <3> QED BY <1>0, <3>3, NothingTyped
  <2>3. CASE StopStep(q)
    BY <1>0, <2>3, StopKeepsId
  <2>4. CASE \/ Take(q) \/ Admit(q) \/ Resolve(q) \/ SpawnChecks(q) \/ WriteRecord(q) \/ Acquire(q)
             \/ Spawn(q) \/ Bind(q) \/ DeleteChecks(q) \/ WaitsForStop(q) \/ ReserveMutation(q)
    BY <1>1, <2>4 DEF Take, Admit, Resolve, SpawnChecks, WriteRecord, Acquire, Spawn, Bind, DeleteChecks, WaitsForStop,
       ReserveMutation, StartFails, store
  <2> QED BY <1>2, <2>1, <2>2, <2>3, <2>4 DEF CommandStep
<1>3. ASSUME NEW q \in Profile, AutoConnect(q) \/ \E op \in Ops : Ask(q, op) PROVE th[p].pc = "register"
  BY <1>1, <1>3 DEF AutoConnect, Ask, store
<1>4. ASSUME NEW a \in Attempt, MonitorStep(a) PROVE th[p].pc = "register"
  <2>1. CASE Settle(a)
    <3>1. inst'[p].id = inst[p].id
      BY <1>0, <2>1 DEF Settle, Instance
    <3> QED BY <3>1
  <2>2. CASE Reap(a) \/ Drain(a) \/ Unlink(a)
    BY <1>1, <2>2 DEF Reap, Drain, Unlink, store
  <2> QED BY <1>4, <2>1, <2>2 DEF MonitorStep
<1>5. ASSUME NEW a \in Attempt,
             \/ EngineUp(a) \/ EngineExits(a) \/ ReaderConnected(a) \/ ReaderCloses(a) \/ ReaderBlocks(a)
             \/ Acknowledge(a) \/ CleanupStale(a)
      PROVE th[p].pc = "register"
  <2>1. CASE EngineUp(a) \/ EngineExits(a) \/ CleanupStale(a)
    BY <1>1, <2>1 DEF EngineUp, EngineExits, CleanupStale, store
  <2>2. CASE ReaderConnected(a) \/ ReaderCloses(a) \/ ReaderBlocks(a)
    <3>1. inst'[p].id = inst[p].id
      BY <1>0, <2>2 DEF ReaderConnected, ReaderCloses, ReaderBlocks, Instance
    <3> QED BY <3>1
  <2>3. CASE Acknowledge(a)
    <3>1. inst'[p].id = inst[p].id
      BY <1>0, <2>3 DEF Acknowledge, Instance
    <3> QED BY <3>1
  <2> QED BY <1>5, <2>1, <2>2, <2>3
<1>6. ASSUME NEW r \in timers, TimerStep(r) PROVE th[p].pc = "register"
  BY <1>1, <1>6 DEF TimerStep, TimerCancelled, TimerDue, TimerRetries, store
<1>7. CASE Quit \/ QuitLocks \/ QuitNext \/ QuitWaits \/ Restart
  BY <1>1, <1>7 DEF Quit, QuitLocks, QuitNext, QuitWaits, Restart, store
<1>8. CASE StopStep(Quitter)
  BY <1>0, <1>8, StopKeepsId
<1>9. CASE Crash
  BY <1>9, NothingTyped DEF Crash
<1>10. CASE UNCHANGED vars
  BY <1>1, <1>10 DEF vars, store
<1> QED BY <1>2, <1>3, <1>4, <1>5, <1>6, <1>7, <1>8, <1>9, <1>10 DEF Next, QuitStep

\* What was stopped stays stopped: an automatic reconnection registers no instance for
\* a profile whose last completed request is a stop, whatever order its monitor, timer,
\* mailbox and stop run in (stop_instance_impl, schedule_auto_reconnect, the
\* generation between them).  It needs a stop to pass its first sections within
\* the timer's delay, and that no deleted profile is saved again under its old id.
THEOREM StopsHonoured ==
  ASSUME Prompt, ~Recreate
  PROVE  Spec => StopHonoured
<1>1. Init => RetryInv
  BY InitRetries
<1>2. DesktopInv /\ DesktopInv' /\ RetryInv /\ [Next]_vars => RetryInv'
  BY NextRetries
<1>3. ASSUME DesktopInv, RetryInv, [Next]_vars
      PROVE  [\A p \in Profile :
                inst'[p].id \notin {0, inst[p].id} /\ th[p].op = "auto" /\ ~th'[p].cancelled => p \notin stopped]_vars
  <2>1. SUFFICES ASSUME NEW p \in Profile, inst'[p].id \notin {0, inst[p].id}, p \in stopped
                 PROVE  FALSE
    OBVIOUS
  <2>2. th[p].pc = "register" /\ th[p].pc \in StartPc
    BY <1>3, <2>1, OnlyRegisters DEF StartPc
  <2>3. p \in exists
    BY <1>3, <2>2 DEF DesktopInv, StartsAlone, Starts
  <2> QED BY <1>3, <2>1, <2>2, <2>3 DEF RetryInv, RetriesSpent, StaysStopped
<1> QED BY <1>1, <1>2, <1>3, DesktopCorrect, PTL DEF Spec, StopHonoured

=============================================================================

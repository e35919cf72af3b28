------------------------ MODULE ControlChannelProofs ------------------------
(***************************************************************************)
(* Proofs about the control protocol between the manager and the engines   *)
(* of a profile, for any attempts, users, plans and lost records.          *)
(*                                                                         *)
(* The argument follows the engine's requests.  It makes five of them in   *)
(* order, and each is in one place at most: on its way to the manager,     *)
(* with the manager, or answered in the pipe; where the engine is says     *)
(* which of them may exist.  What concerns the shown status and an engine  *)
(* that configures the network itself needs that at most one record of an  *)
(* attempt is lost, because each of both is announced twice.               *)
(***************************************************************************)
EXTENDS ControlChannel, TLAPS

(* Types. *)

Names == {"challenge", "closed", "configuring", "plan", "tunnel_up", "tunnel_down", "begin",
          "resource", "commit", "applied", "release", "cleanup"}
Decisions == {"deny", "grant", "grant_native"}

\* What the log-in asks for.
Otps == {FORM, TOKEN}

\* What an engine writes.
Events ==
  {e \in [ev : Names, req : 0..5, arg : Nat] :
     /\ e.ev = "challenge" => e.req \in Otps
     /\ e.ev = "begin" => e.req = APPLY /\ e.arg <= MaxResource
     /\ e.ev = "commit" => e.req = APPLY
     /\ e.ev = "release" => e.req = RELEASE}

\* What it is sent: the answer to one of its requests.
Frames ==
  {f \in [act : {"auth_response", "lease_decision", "network_result"}, req : 1..5,
          ans : Decisions \cup {"secret", "applied", "released"}] :
     /\ f.act = "auth_response" <=> f.req \in Otps
     /\ f.act = "lease_decision" <=> f.req = PLAN
     /\ f.req = PLAN => f.ans \in Decisions
     /\ f.req = APPLY => f.ans = "applied"}

Admissions == [req : {None, APPLY}, exp : 0..MaxResource, got : 0..MaxResource, done : BOOLEAN]
Statuses == {"connecting", "connected", "disconnecting"}
Controls ==
  [att : AttemptId, desired : BOOLEAN, process : BOOLEAN, pending : BOOLEAN, failed : BOOLEAN,
   status : Statuses, sel : BOOLEAN, adm : Admissions, applied : BOOLEAN, acked : BOOLEAN,
   nreq : 0..5, released : BOOLEAN, whole : BOOLEAN, lost : Nat, seen : SUBSET Otps]
Places == {"none", "auth", "otp", "plan", "io", "applying", "up", "down", "releasing", "ending", "gone"}
Engines ==
  [pc : Places, native : BOOLEAN, started : BOOLEAN, stale : BOOLEAN, clean : BOOLEAN, term : BOOLEAN,
   stop : BOOLEAN, otp : {None} \cup Otps, code : {"none", "exit", "crashed", "killed"}, refused : BOOLEAN]
Readers ==
  [pc : {"idle", "epoch", "admit", "work", "post", "send"}, ev : Events \cup {NoEvent},
   out : Frames \cup {NoFrame}]
Tasks == [a : AttemptId \cup {None}, job : {"none", "epoch", "apply", "release"}]
Supervisors == [pc : {"run", "join", "finish", "done"}, complete : BOOLEAN]
UserAnswers == [a : AttemptId \cup {None}, out : Frames \cup {NoFrame}]
Challenges == [a : AttemptId \cup {None}, req : 0..5]
Nets == {"none", "applied", "dirty"}

Types ==
  /\ driver \in BOOLEAN /\ ctl \in Controls /\ reader \in Readers /\ worker \in Tasks
  /\ sup \in Supervisors /\ lease \in AttemptId \cup {None} /\ eng \in [AttemptId -> Engines]
  /\ events \in [AttemptId -> Seq(Events)] /\ frames \in [AttemptId -> Seq(Frames)]
  /\ user \in [User -> UserAnswers] /\ net \in [AttemptId -> Nets] /\ chal \in Challenges
-----------------------------------------------------------------------------
(* Sequences, and which of their members are in a set. *)

Has(q, S) == \E i \in 1..Len(q) : q[i] \in S
Once(q, S) == \A i, j \in 1..Len(q) : q[i] \in S /\ q[j] \in S => i = j
Twice(q, S) == \E i, j \in 1..Len(q) : i # j /\ q[i] \in S /\ q[j] \in S

Named(name) == {e \in Events : e.ev = name}
Answering(req) == {f \in Frames : f.req = req}
Secrets == {f \in Frames : f.req \in Otps}

\* Questions, and answers to them, other than r.
AskingElse(r) == {e \in Named("challenge") : e.req # r}
AnsweringElse(r) == {f \in Secrets : f.req # r}
-----------------------------------------------------------------------------
(* The invariant. *)

\* The current attempt: its output, its input, its engine, its network.
Q == events[ctl.att]
F == frames[ctl.att]
E == eng[ctl.att]
N == net[ctl.att]

\* Earlier engines are gone and their output is read; later ones are not there.
Others ==
  /\ \A a \in AttemptId : a # ctl.att => eng[a].pc \in {"none", "gone"} /\ events[a] = <<>>
  /\ \A a \in AttemptId : a > ctl.att => frames[a] = <<>> /\ net[a] = "none"
  /\ \A a \in AttemptId : ~eng[a].refused
  /\ \A u \in User : /\ user[u].a <= ctl.att
                     /\ user[u] # NoAnswer => user[u].a # None /\ user[u].out \in Secrets

\* Where run_once is.
Course ==
  /\ E.pc # "none"
  /\ sup.pc # "run" => E.pc = "gone" /\ Q = <<>> /\ reader = Resting
  /\ ctl.process <=> sup.pc \in {"run", "join"}
  /\ sup.pc # "done" => lease = ctl.att
  /\ sup.pc \in {"finish", "done"} => worker = NoJob

\* What the reader waits for.
Jobs ==
  /\ reader.pc = "idle" => reader = Resting
  /\ reader.pc # "idle" => reader.out # NoFrame /\ reader.out.req \notin Otps
  /\ reader.ev.ev = "commit" => reader.out.req = APPLY
  /\ reader.ev.ev = "release" => reader.out.req = RELEASE
  /\ reader.pc \in {"epoch", "admit"} => driver /\ reader.ev.ev = "commit"
  /\ reader.pc \in {"work", "post"} => driver /\ reader.ev.ev \in {"commit", "release"}
  /\ worker # NoJob => driver /\ worker.a = ctl.att /\ (reader.pc \in {"epoch", "work"} \/ sup.pc = "join")
  /\ worker = NoJob => worker.job = "none"
  /\ reader.pc = "epoch" => worker.job = "epoch"
  /\ reader.pc = "work" => worker.job = IF reader.ev.ev = "commit" THEN "apply" ELSE "release"

\* What the manager knows of the native plan.
Handshake(n) ==
  /\ ctl.sel => driver
  /\ Started(ctl.adm) => ctl.sel
  /\ ctl.released => driver /\ n = "none"
  /\ ctl.adm.done => Started(ctl.adm) /\ ctl.adm.got = ctl.adm.exp
  /\ ctl.applied => ctl.adm.done
  /\ driver /\ n # "none" => ctl.adm.done
  /\ worker.job = "apply" => ctl.adm.done /\ ~ctl.applied /\ ~ctl.released
  /\ worker.job = "release" => ~ctl.released
  /\ reader.pc = "post" /\ reader.ev.ev = "commit" =>
       ctl.adm.done /\ ~ctl.applied /\ ~ctl.released /\ n = "applied"
  /\ reader.pc = "post" /\ reader.ev.ev = "release" => n = "none"

\* No decision of a lease that the manager's configuration excludes.
Excluded == IF driver THEN "grant" ELSE "grant_native"
Decided(f) ==
  /\ reader.out.req = PLAN => reader.out.ans # Excluded
  /\ \A i \in 1..Len(f) : f[i].req = PLAN => f[i].ans # Excluded

\* What an engine knows of its own plan.
Shape(e) ==
  /\ e.started => e.native /\ e.pc \in {"applying", "up", "down", "releasing", "gone"}
  /\ e.pc \in {"applying", "releasing"} => e.started
  /\ e.native => driver /\ e.pc \notin {"auth", "otp", "plan"}
  /\ driver /\ e.pc \in {"io", "up"} => e.native
  /\ e.stale => e.pc \in {"releasing", "gone"}

\* The manager hears of a plan only after the engine has started to send it.
Begun(q, e) == Has(q, Named("begin")) \/ Started(ctl.adm) => e.started

\* Where an engine may have made a request that has not been answered.
OtpPlace(e) == ~e.started /\ e.pc \in {"otp", "down", "ending", "gone"}
PlanPlace(e) == ~e.started /\ e.pc \in {"plan", "down", "ending", "gone"}
ApplyPlace(e) == e.started /\ ~e.stale /\ e.pc \in {"applying", "down", "releasing", "gone"}
ReleasePlace(e) == e.started /\ e.pc \in {"releasing", "gone"}

\* A request is in one place at most.  An OTP is asked of the users, and what
\* is asked and answered is what the engine asked last.
Asking == \E u \in User : user[u].a = ctl.att
OtpCurrent(q, f, r) ==
  /\ ~Has(q, AskingElse(r)) /\ ~Has(f, AnsweringElse(r))
  /\ chal # NoChallenge => chal.req = r
  /\ \A u \in User : user[u].a = ctl.att => user[u].out.req = r
OtpAsked(q, f, e) ==
  /\ Once(q, Named("challenge")) /\ Once(f, Secrets)
  /\ OtpCurrent(q, f, e.otp)
  /\ chal # NoChallenge => chal.a = ctl.att /\ chal.req \in Otps /\ ctl.process
  /\ Has(q, Named("challenge")) => chal = NoChallenge /\ ~Asking /\ ~Has(f, Secrets)
  /\ chal # NoChallenge => ~Asking /\ ~Has(f, Secrets)
  /\ Asking => ~Has(f, Secrets)
  /\ \A u, v \in User : user[u].a = ctl.att /\ user[v].a = ctl.att => u = v
  /\ Has(q, Named("challenge")) \/ chal # NoChallenge \/ Asking \/ Has(f, Secrets) => OtpPlace(e)

\* The others are asked of the reader.
Asked(q, f, name, req) ==
  /\ Once(q, Named(name)) /\ Once(f, Answering(req))
  /\ Has(q, Named(name)) => reader.out.req # req /\ ~Has(f, Answering(req))
  /\ reader.out.req = req => ~Has(f, Answering(req))

Open(q, f, name, req) == Has(q, Named(name)) \/ reader.out.req = req \/ Has(f, Answering(req))

PlanAsked(q, f, e) == Asked(q, f, "plan", PLAN) /\ (Open(q, f, "plan", PLAN) => PlanPlace(e))
ApplyAsked(q, f, e) == Asked(q, f, "commit", APPLY) /\ (Open(q, f, "commit", APPLY) => ApplyPlace(e))
ReleaseAsked(q, f, e) == Asked(q, f, "release", RELEASE) /\ (Open(q, f, "release", RELEASE) => ReleasePlace(e))

\* The end of a tunnel is shown before its release is begun, although a record
\* of it be lost.
Announced(q) ==
  \A i \in 1..Len(q) : q[i].ev = "release" =>
    \/ ctl.status = "disconnecting"
    \/ i > 2 /\ q[i - 1].ev = "tunnel_down" /\ q[i - 2].ev = "tunnel_down"
    \/ i = 2 /\ q[1].ev = "tunnel_down" /\ ctl.lost > 0

Shown(n) ==
  /\ worker.job = "release" \/ reader.ev.ev = "release" => ctl.status = "disconnecting"
  /\ driver /\ ctl.status = "connected" => ctl.applied
  /\ ctl.applied /\ ctl.status # "disconnecting" => n = "applied"

\* An engine that configures the network itself has said so.
Suspect == ctl.failed \/ ctl.pending \/ ~ctl.whole
Warned(q) == Suspect \/ Has(q, Named("configuring")) \/ ctl.lost > 0
WarnedTwice(q) ==
  Suspect \/ Twice(q, Named("configuring")) \/ (Has(q, Named("configuring")) /\ ctl.lost > 0)
Cleaned(q) == \E i \in 1..Len(q) : q[i].ev = "cleanup" /\ q[i].arg = 1

Legacy(q, e, n) ==
  /\ e.pc = "plan" => Warned(q)
  /\ sup.pc = "run" /\ (e.pc \in {"io", "up"} \/ n # "none") => WarnedTwice(q)
  /\ sup.pc = "join" /\ n # "none" => ~sup.complete \/ ctl.failed \/ ctl.pending
  /\ sup.pc = "finish" /\ n # "none" => ctl.failed
  /\ e.pc = "ending" /\ e.clean => n = "none"
  /\ Cleaned(q) => e.pc = "gone" /\ n = "none"

Owned == \A a \in AttemptId : net[a] # "none" => lease = a

\* With at most one record of an attempt lost.
Reliable(q, e, n) ==
  Announced(q) /\ Shown(n) /\ (~driver => Legacy(q, e, n))

ChannelInv ==
  /\ Types /\ Others /\ Course /\ Jobs /\ Handshake(N) /\ Decided(F) /\ Shape(E) /\ Begun(Q, E)
  /\ OtpAsked(Q, F, E) /\ PlanAsked(Q, F, E) /\ ApplyAsked(Q, F, E) /\ ReleaseAsked(Q, F, E)
  /\ MaxLoss <= 1 => Reliable(Q, E, N) /\ Owned
-----------------------------------------------------------------------------
LEMMA CatIs ==
  ASSUME NEW T, NEW q \in Seq(T), NEW t \in Seq(T)
  PROVE  /\ q \o t \in Seq(T) /\ Len(q \o t) = Len(q) + Len(t) /\ Len(q) \in Nat /\ Len(t) \in Nat
         /\ \A i \in 1..Len(q) : (q \o t)[i] = q[i]
         /\ \A i \in 1..Len(t) : (q \o t)[Len(q) + i] = t[i]
  OBVIOUS

LEMMA TailIs ==
  ASSUME NEW T, NEW q \in Seq(T), q # <<>>
  PROVE  /\ Tail(q) \in Seq(T) /\ Len(q) \in Nat \ {0} /\ Len(Tail(q)) = Len(q) - 1
         /\ Head(q) = q[1] /\ Head(q) \in T
         /\ \A i \in 1..Len(Tail(q)) : Tail(q)[i] = q[i + 1]
  OBVIOUS

\* What is appended.
LEMMA HasCat ==
  ASSUME NEW T, NEW q \in Seq(T), NEW t \in Seq(T), NEW S
  PROVE  /\ Has(q \o t, S) <=> Has(q, S) \/ Has(t, S)
         /\ Once(q, S) /\ ~Has(t, S) => Once(q \o t, S)
         /\ ~Has(q, S) /\ Once(t, S) => Once(q \o t, S)
         /\ Twice(q, S) => Twice(q \o t, S)
         /\ Has(q, S) /\ Has(t, S) => Twice(q \o t, S)
<1> DEFINE r == q \o t
<1>1. /\ Len(r) = Len(q) + Len(t) /\ Len(q) \in Nat /\ Len(t) \in Nat
      /\ \A i \in 1..Len(q) : r[i] = q[i]
      /\ \A i \in 1..Len(t) : r[Len(q) + i] = t[i]
  BY CatIs
<1> HIDE DEF r
<1>2. \A i \in 1..Len(r) : i \in 1..Len(q) \/ (i - Len(q) \in 1..Len(t) /\ r[i] = t[i - Len(q)])
  <2> SUFFICES ASSUME NEW i \in 1..Len(r), i \notin 1..Len(q)
               PROVE  i - Len(q) \in 1..Len(t) /\ r[i] = t[i - Len(q)]
    OBVIOUS
  <2>1. PICK k \in 1..Len(t) : k = i - Len(q)
    BY <1>1
  <2>2. i = Len(q) + k
    BY <1>1, <2>1
  <2> QED BY <1>1, <2>1, <2>2
<1>3. \A i \in 1..Len(q) : i \in 1..Len(r)
  BY <1>1
<1>4. \A i \in 1..Len(t) : Len(q) + i \in 1..Len(r) /\ Len(q) + i \notin 1..Len(q)
  BY <1>1
<1>5. Has(r, S) <=> Has(q, S) \/ Has(t, S)
  <2>1. Has(r, S) => Has(q, S) \/ Has(t, S)
    BY <1>1, <1>2 DEF Has
  <2>2. Has(q, S) => Has(r, S)
    BY <1>1, <1>3 DEF Has
  <2>3. Has(t, S) => Has(r, S)
    BY <1>1, <1>4 DEF Has
  <2> QED BY <2>1, <2>2, <2>3
<1>6. Once(q, S) /\ ~Has(t, S) => Once(r, S)
  BY <1>1, <1>2 DEF Once, Has
<1>7. ~Has(q, S) /\ Once(t, S) => Once(r, S)
  <2> SUFFICES ASSUME ~Has(q, S), Once(t, S), NEW i \in 1..Len(r), NEW j \in 1..Len(r), r[i] \in S, r[j] \in S
               PROVE  i = j
    BY DEF Once
  <2>1. i \notin 1..Len(q) /\ j \notin 1..Len(q)
    BY <1>1 DEF Has
  <2>2. i - Len(q) = j - Len(q)
    BY <1>2, <2>1 DEF Once
  <2> QED BY <1>1, <2>2
<1>8. Twice(q, S) => Twice(r, S)
  BY <1>1, <1>3 DEF Twice
<1>9. Has(q, S) /\ Has(t, S) => Twice(r, S)
  <2> SUFFICES ASSUME NEW i \in 1..Len(q), NEW j \in 1..Len(t), q[i] \in S, t[j] \in S
               PROVE  Twice(r, S)
    BY DEF Has
  <2>1. i \in 1..Len(r) /\ Len(q) + j \in 1..Len(r) /\ i # Len(q) + j /\ r[i] \in S /\ r[Len(q) + j] \in S
    BY <1>1, <1>3, <1>4
  <2> QED BY <2>1 DEF Twice
<1> QED BY <1>5, <1>6, <1>7, <1>8, <1>9 DEF r

\* What is left when the first is taken.
LEMMA HasTail ==
  ASSUME NEW T, NEW q \in Seq(T), q # <<>>, NEW S
  PROVE  /\ Has(Tail(q), S) => Has(q, S)
         /\ Head(q) \in S => Has(q, S)
         /\ Once(q, S) => Once(Tail(q), S)
         /\ Once(q, S) /\ Head(q) \in S => ~Has(Tail(q), S)
         /\ Has(q, S) /\ Head(q) \notin S => Has(Tail(q), S)
         /\ Twice(q, S) => Has(Tail(q), S)
         /\ Twice(q, S) /\ Head(q) \notin S => Twice(Tail(q), S)
<1> DEFINE r == Tail(q)
<1>1. /\ Len(q) \in Nat \ {0} /\ Len(r) = Len(q) - 1 /\ Head(q) = q[1]
      /\ \A i \in 1..Len(r) : r[i] = q[i + 1]
  BY TailIs
<1> HIDE DEF r
<1>2. \A i \in 1..Len(r) : i + 1 \in 1..Len(q) /\ i + 1 # 1
  BY <1>1
<1>3. \A i \in 1..Len(q) : i = 1 \/ (i - 1 \in 1..Len(r) /\ r[i - 1] = q[i])
  <2> SUFFICES ASSUME NEW i \in 1..Len(q), i # 1 PROVE i - 1 \in 1..Len(r) /\ r[i - 1] = q[i]
    OBVIOUS
  <2>1. PICK k \in 1..Len(r) : k = i - 1
    BY <1>1
  <2>2. i = k + 1
    BY <1>1, <2>1
  <2> QED BY <1>1, <2>1, <2>2
<1>4. 1 \in 1..Len(q)
  BY <1>1
<1>5. Has(r, S) => Has(q, S)
  BY <1>1, <1>2 DEF Has
<1>6. Head(q) \in S => Has(q, S)
  BY <1>1, <1>4 DEF Has
<1>7. Once(q, S) => Once(r, S)
  <2> SUFFICES ASSUME Once(q, S), NEW i \in 1..Len(r), NEW j \in 1..Len(r), r[i] \in S, r[j] \in S PROVE i = j
    BY DEF Once
  <2>1. i + 1 = j + 1
    BY <1>1, <1>2 DEF Once
  <2> QED BY <1>1, <2>1
<1>8. Once(q, S) /\ Head(q) \in S => ~Has(r, S)
  <2> SUFFICES ASSUME Once(q, S), Head(q) \in S, NEW i \in 1..Len(r), r[i] \in S PROVE FALSE
    BY DEF Has
  <2>1. i + 1 = 1
    BY <1>1, <1>2, <1>4 DEF Once
  <2> QED BY <1>1, <1>2, <2>1
<1>9. Has(q, S) /\ Head(q) \notin S => Has(r, S)
  BY <1>1, <1>3 DEF Has
<1>10. Twice(q, S) => Has(r, S)
  <2> SUFFICES ASSUME NEW i \in 1..Len(q), NEW j \in 1..Len(q), i # j, q[i] \in S, q[j] \in S PROVE Has(r, S)
    BY DEF Twice
  <2>1. i # 1 \/ j # 1
    OBVIOUS
  <2> QED BY <1>3, <2>1 DEF Has
<1>11. Twice(q, S) /\ Head(q) \notin S => Twice(r, S)
  <2> SUFFICES ASSUME Head(q) \notin S, NEW i \in 1..Len(q), NEW j \in 1..Len(q), i # j, q[i] \in S, q[j] \in S
               PROVE  Twice(r, S)
    BY DEF Twice
  <2>1. i # 1 /\ j # 1
    BY <1>1
  <2>2. i - 1 # j - 1
    BY <1>1, <2>1
  <2> QED BY <1>3, <2>1, <2>2 DEF Twice
<1> QED BY <1>5, <1>6, <1>7, <1>8, <1>9, <1>10, <1>11 DEF r

\* Short sequences.
LEMMA HasShort ==
  ASSUME NEW S
  PROVE  /\ ~Has(<<>>, S) /\ Once(<<>>, S)
         /\ \A x : (Has(<<x>>, S) <=> x \in S) /\ Once(<<x>>, S)
         /\ \A x, y : (Has(<<x, y>>, S) <=> x \in S \/ y \in S) /\ (x \notin S \/ y \notin S => Once(<<x, y>>, S))
         /\ \A x, y, z : /\ Has(<<x, y, z>>, S) <=> x \in S \/ y \in S \/ z \in S
                         /\ x \notin S /\ y \notin S => Once(<<x, y, z>>, S)
<1>1. ~Has(<<>>, S) /\ Once(<<>>, S)
  BY DEF Has, Once
<1>2. \A x : (Has(<<x>>, S) <=> x \in S) /\ Once(<<x>>, S)
  <2> SUFFICES ASSUME NEW x PROVE (Has(<<x>>, S) <=> x \in S) /\ Once(<<x>>, S)
    OBVIOUS
  <2>1. Len(<<x>>) = 1 /\ <<x>>[1] = x /\ 1..1 = {1}
    OBVIOUS
  <2> QED BY <2>1 DEF Has, Once
<1>3. \A x, y : (Has(<<x, y>>, S) <=> x \in S \/ y \in S) /\ (x \notin S \/ y \notin S => Once(<<x, y>>, S))
  <2> SUFFICES ASSUME NEW x, NEW y
               PROVE  (Has(<<x, y>>, S) <=> x \in S \/ y \in S) /\ (x \notin S \/ y \notin S => Once(<<x, y>>, S))
    OBVIOUS
  <2>1. Len(<<x, y>>) = 2 /\ <<x, y>>[1] = x /\ <<x, y>>[2] = y /\ 1..2 = {1, 2}
    OBVIOUS
  <2> QED BY <2>1 DEF Has, Once
<1>4. \A x, y, z : /\ Has(<<x, y, z>>, S) <=> x \in S \/ y \in S \/ z \in S
                   /\ x \notin S /\ y \notin S => Once(<<x, y, z>>, S)
  <2> SUFFICES ASSUME NEW x, NEW y, NEW z
               PROVE  /\ Has(<<x, y, z>>, S) <=> x \in S \/ y \in S \/ z \in S
                      /\ x \notin S /\ y \notin S => Once(<<x, y, z>>, S)
    OBVIOUS
  <2>1. /\ Len(<<x, y, z>>) = 3 /\ <<x, y, z>>[1] = x /\ <<x, y, z>>[2] = y /\ <<x, y, z>>[3] = z
        /\ 1..3 = {1, 2, 3}
    OBVIOUS
  <2> QED BY <2>1 DEF Has, Once
<1> QED BY <1>1, <1>2, <1>3, <1>4
-----------------------------------------------------------------------------
(* Members of the types. *)

LEMMA NamedIs ==
  ASSUME NEW e \in Events, NEW name
  PROVE  e \in Named(name) <=> e.ev = name
  BY DEF Named

LEMMA AnsweringIs ==
  ASSUME NEW f \in Frames, NEW req
  PROVE  f \in Answering(req) <=> f.req = req
  BY DEF Answering

LEMMA SecretsAre ==
  ASSUME NEW f \in Frames
  PROVE  f \in Secrets <=> f.req \in Otps
  BY DEF Secrets

\* What is a question or an answer other than r is a question or an answer.
LEMMA HasElse ==
  ASSUME NEW q, NEW r
  PROVE  /\ Has(q, AskingElse(r)) => Has(q, Named("challenge"))
         /\ Has(q, AnsweringElse(r)) => Has(q, Secrets)
  BY DEF Has, AskingElse, AnsweringElse

LEMMA EventsAre ==
  /\ \A e \in Events : e.ev \in Names /\ e.req \in 0..5 /\ e.arg \in Nat
  /\ \A e \in Events : e.ev = "challenge" => e.req \in Otps
  /\ \A e \in Events : e.ev = "begin" => e.req = APPLY /\ e.arg <= MaxResource
  /\ \A e \in Events : e.ev = "commit" => e.req = APPLY
  /\ \A e \in Events : e.ev = "release" => e.req = RELEASE
  /\ NoEvent.ev = "none" /\ NoEvent \notin Events
  /\ \A name \in Names \ {"challenge", "begin", "commit", "release"}, r \in 0..5, k \in Nat :
       Event(name, r, k) \in Events /\ Event(name, r, k).ev = name /\ Event(name, r, k).arg = k
  /\ \A r \in Otps, k \in Nat : /\ Event("challenge", r, k) \in Events /\ Event("challenge", r, k).ev = "challenge"
                                 /\ Event("challenge", r, k).req = r
  /\ \A k \in Nat : Event("commit", APPLY, k) \in Events /\ Event("commit", APPLY, k).ev = "commit"
  /\ \A k \in Nat : Event("release", RELEASE, k) \in Events /\ Event("release", RELEASE, k).ev = "release"
  /\ \A k \in 0..MaxResource : Event("begin", APPLY, k) \in Events /\ Event("begin", APPLY, k).ev = "begin"
<1> USE ChannelAssumption DEF Events, Names, Otps, FORM, TOKEN, APPLY, RELEASE, NoEvent, Event, None
<1>1. /\ \A e \in Events : e.ev \in Names /\ e.req \in 0..5 /\ e.arg \in Nat
      /\ \A e \in Events : e.ev = "challenge" => e.req \in Otps
      /\ \A e \in Events : e.ev = "begin" => e.req = APPLY /\ e.arg <= MaxResource
      /\ \A e \in Events : e.ev = "commit" => e.req = APPLY
      /\ \A e \in Events : e.ev = "release" => e.req = RELEASE
  OBVIOUS
<1>2. NoEvent.ev = "none" /\ NoEvent \notin Events
  OBVIOUS
<1>3. \A name \in Names \ {"challenge", "begin", "commit", "release"}, r \in 0..5, k \in Nat :
        Event(name, r, k) \in Events /\ Event(name, r, k).ev = name /\ Event(name, r, k).arg = k
  OBVIOUS
<1>4. \A r \in Otps, k \in Nat : /\ Event("challenge", r, k) \in Events /\ Event("challenge", r, k).ev = "challenge"
                                 /\ Event("challenge", r, k).req = r
  OBVIOUS
<1>5. \A k \in Nat : Event("commit", APPLY, k) \in Events /\ Event("commit", APPLY, k).ev = "commit"
  OBVIOUS
<1>6. \A k \in Nat : Event("release", RELEASE, k) \in Events /\ Event("release", RELEASE, k).ev = "release"
  OBVIOUS
<1>7. \A k \in 0..MaxResource : Event("begin", APPLY, k) \in Events /\ Event("begin", APPLY, k).ev = "begin"
  OBVIOUS
<1> QED BY <1>1, <1>2, <1>3, <1>4, <1>5, <1>6, <1>7

LEMMA FramesAre ==
  /\ \A f \in Frames : f.req \in 1..5
  /\ \A f \in Frames : f.act = "auth_response" <=> f.req \in Otps
  /\ \A f \in Frames : f.act = "lease_decision" <=> f.req = PLAN
  /\ \A f \in Frames : f.act = "network_result" <=> f.req \in {APPLY, RELEASE}
  /\ \A f \in Frames : f.req = APPLY => f.ans = "applied"
  /\ NoFrame \notin Frames /\ NoFrame.req = None
  /\ \A r \in Otps : Frame("auth_response", r, "secret") \in Secrets /\ Frame("auth_response", r, "secret").req = r
  /\ \A x \in Decisions : Frame("lease_decision", PLAN, x) \in Answering(PLAN)
                          /\ Frame("lease_decision", PLAN, x).ans = x
  /\ Frame("network_result", APPLY, "applied") \in Answering(APPLY)
  /\ Frame("network_result", RELEASE, "released") \in Answering(RELEASE)
<1> USE DEF Frames, Decisions, Otps, FORM, TOKEN, PLAN, APPLY, RELEASE, NoFrame, Frame, None, Answering, Secrets
<1>1. \A f \in Frames : f.req \in 1..5
  OBVIOUS
<1>2. /\ \A f \in Frames : f.act = "auth_response" <=> f.req \in Otps
      /\ \A f \in Frames : f.act = "lease_decision" <=> f.req = PLAN
      /\ \A f \in Frames : f.req = APPLY => f.ans = "applied"
  OBVIOUS
<1>3. \A f \in Frames : f.act = "network_result" <=> f.req \in {APPLY, RELEASE}
  OBVIOUS
<1>4. NoFrame \notin Frames /\ NoFrame.req = None
  OBVIOUS
<1>5. \A r \in Otps : Frame("auth_response", r, "secret") \in Secrets /\ Frame("auth_response", r, "secret").req = r
  OBVIOUS
<1>6. \A x \in Decisions : Frame("lease_decision", PLAN, x) \in Answering(PLAN)
                           /\ Frame("lease_decision", PLAN, x).ans = x
  OBVIOUS
<1>7. Frame("network_result", APPLY, "applied") \in Answering(APPLY)
  OBVIOUS
<1>8. Frame("network_result", RELEASE, "released") \in Answering(RELEASE)
  OBVIOUS
<1> QED BY <1>1, <1>2, <1>3, <1>4, <1>5, <1>6, <1>7, <1>8

\* The requests are five, and None is none of them.
LEMMA RequestsAre ==
  /\ Otps \subseteq 1..5 /\ PLAN \in 1..5 /\ APPLY \in 1..5 /\ RELEASE \in 1..5
  /\ PLAN \notin Otps /\ APPLY \notin Otps /\ RELEASE \notin Otps
  /\ PLAN # APPLY /\ PLAN # RELEASE /\ APPLY # RELEASE
  /\ None = 0 /\ AttemptId \subseteq Nat \ {0} /\ 1 \in AttemptId /\ None \notin AttemptId
  /\ None \notin Otps /\ PLAN # None /\ APPLY # None /\ RELEASE # None
  BY ChannelAssumption DEF Otps, FORM, TOKEN, PLAN, APPLY, RELEASE, None, AttemptId

LEMMA RestingIs ==
  /\ Resting \in Readers /\ Resting.pc = "idle" /\ Resting.ev.ev = "none" /\ Resting.out = NoFrame
  /\ NoJob \in Tasks /\ NoJob.a = None /\ NoJob.job = "none"
  /\ NoChallenge \in Challenges /\ NoChallenge.a = None
  /\ NoAnswer \in UserAnswers /\ NoAnswer.a = None
  BY DEF Resting, Readers, NoEvent, NoFrame, Event, NoJob, Tasks, NoChallenge, Challenges, NoAnswer, UserAnswers, None
-----------------------------------------------------------------------------
(* What a step of the engine does to its requests: it writes t, and takes a  *)
(* frame or none.                                                            *)

Takes(f, g, req) == f # <<>> /\ g = Tail(f) /\ Head(f) \in Answering(req)
TakesSecret(f, g) == f # <<>> /\ g = Tail(f) /\ Head(f) \in Secrets
Shrinks(f, g) == g = f \/ (f # <<>> /\ g = Tail(f))

LEMMA ShrinksIs ==
  ASSUME NEW f \in Seq(Frames), NEW g, Shrinks(f, g)
  PROVE  /\ g \in Seq(Frames)
         /\ \A S : (Has(g, S) => Has(f, S)) /\ (Once(f, S) => Once(g, S))
         /\ Decided(f) => Decided(g)
<1>1. CASE g = f
  BY <1>1
<1>2. CASE f # <<>> /\ g = Tail(f)
  <2>1. g \in Seq(Frames) /\ \A S : (Has(g, S) => Has(f, S)) /\ (Once(f, S) => Once(g, S))
    BY <1>2, HasTail, TailIs
  <2>2. \A i \in 1..Len(g) : i + 1 \in 1..Len(f) /\ g[i] = f[i + 1]
    BY <1>2, TailIs
  <2>3. Decided(f) => Decided(g)
    BY <2>2 DEF Decided
  <2> QED BY <2>1, <2>3
<1> QED BY <1>1, <1>2 DEF Shrinks

LEMMA AskedKept ==
  ASSUME NEW q \in Seq(Events), NEW t \in Seq(Events), NEW f \in Seq(Frames), NEW g, Shrinks(f, g),
         NEW name, NEW req, Asked(q, f, name, req), ~Has(t, Named(name))
  PROVE  /\ Asked(q \o t, g, name, req)
         /\ Open(q \o t, g, name, req) => Open(q, f, name, req)
         /\ Takes(f, g, req) => ~Open(q \o t, g, name, req)
<1> DEFINE C == Named(name)
           A == Answering(req)
<1>1. (Has(q \o t, C) <=> Has(q, C)) /\ (Once(q, C) => Once(q \o t, C))
  BY HasCat
<1>2. (Has(g, A) => Has(f, A)) /\ (Once(f, A) => Once(g, A))
  BY ShrinksIs
<1>3. Takes(f, g, req) => Has(f, A) /\ (Once(f, A) => ~Has(g, A))
  BY HasTail DEF Takes
<1> HIDE DEF C, A
<1>4. /\ Once(q, C) /\ Once(f, A) /\ (Has(q, C) => reader.out.req # req /\ ~Has(f, A))
      /\ reader.out.req = req => ~Has(f, A)
  BY DEF Asked, C, A
<1>5. /\ Once(q \o t, C) /\ Once(g, A) /\ (Has(q \o t, C) => reader.out.req # req /\ ~Has(g, A))
      /\ reader.out.req = req => ~Has(g, A)
  BY <1>1, <1>2, <1>4
<1>6. Has(q \o t, C) \/ reader.out.req = req \/ Has(g, A) => Has(q, C) \/ reader.out.req = req \/ Has(f, A)
  BY <1>1, <1>2
<1>7. Takes(f, g, req) => ~(Has(q \o t, C) \/ reader.out.req = req \/ Has(g, A))
  BY <1>1, <1>3, <1>4
<1> QED BY <1>5, <1>6, <1>7 DEF Asked, Open, C, A

LEMMA AskedNew ==
  ASSUME NEW q \in Seq(Events), NEW t \in Seq(Events), NEW f \in Seq(Frames), NEW g, Shrinks(f, g),
         NEW name, NEW req, Asked(q, f, name, req), ~Open(q, f, name, req), Once(t, Named(name))
  PROVE  Asked(q \o t, g, name, req)
<1>1. ~Has(q, Named(name)) /\ reader.out.req # req /\ ~Has(f, Answering(req)) /\ Once(f, Answering(req))
  BY DEF Open, Asked
<1>2. Once(q \o t, Named(name))
  BY <1>1, HasCat
<1>3. ~Has(g, Answering(req)) /\ Once(g, Answering(req))
  BY <1>1, ShrinksIs
<1> QED BY <1>1, <1>2, <1>3 DEF Asked

LEMMA OtpKept ==
  ASSUME NEW q \in Seq(Events), NEW t \in Seq(Events), NEW f \in Seq(Frames), NEW g, Shrinks(f, g),
         NEW d, NEW e, OtpAsked(q, f, d), ~Has(t, Named("challenge")), e.otp = d.otp,
         (OtpPlace(d) => OtpPlace(e)) \/ TakesSecret(f, g)
  PROVE  OtpAsked(q \o t, g, e)
<1> DEFINE C == Named("challenge")
           A == Secrets
<1>1. (Has(q \o t, C) <=> Has(q, C)) /\ (Once(q, C) => Once(q \o t, C))
  BY HasCat
<1>2. (Has(g, A) => Has(f, A)) /\ (Once(f, A) => Once(g, A))
  BY ShrinksIs
<1>3. TakesSecret(f, g) => Has(f, A) /\ (Once(f, A) => ~Has(g, A))
  BY HasTail DEF TakesSecret
<1>4. OtpCurrent(q \o t, g, e.otp)
  <2>1. OtpCurrent(q, f, e.otp)
    BY DEF OtpAsked
  <2>2. ~Has(q \o t, AskingElse(e.otp))
    BY <2>1, HasCat, HasElse DEF OtpCurrent
  <2>3. ~Has(g, AnsweringElse(e.otp))
    BY <2>1, ShrinksIs DEF OtpCurrent
  <2> QED BY <2>1, <2>2, <2>3 DEF OtpCurrent
<1> QED BY <1>1, <1>2, <1>3, <1>4, Zenon DEF OtpAsked

LEMMA OtpNew ==
  ASSUME NEW q \in Seq(Events), NEW t \in Seq(Events), NEW f \in Seq(Frames), NEW g, Shrinks(f, g),
         NEW d, NEW e, OtpAsked(q, f, d), ~OtpPlace(d), OtpPlace(e), Once(t, Named("challenge")),
         ~Has(t, AskingElse(e.otp))
  PROVE  OtpAsked(q \o t, g, e)
<1>1. ~Has(q, Named("challenge")) => Once(q \o t, Named("challenge"))
  BY HasCat
<1>2. (Has(g, Secrets) => Has(f, Secrets)) /\ (Once(f, Secrets) => Once(g, Secrets))
  BY ShrinksIs
<1>3. ~Has(q, Named("challenge")) /\ chal = NoChallenge /\ ~Asking /\ ~Has(f, Secrets)
  BY Zenon DEF OtpAsked
<1>4. OtpCurrent(q \o t, g, e.otp)
  <2>1. ~Has(q \o t, AskingElse(e.otp))
    BY <1>3, HasCat, HasElse
  <2>2. ~Has(g, AnsweringElse(e.otp))
    BY <1>2, <1>3, HasElse
  <2> QED BY <1>3, <2>1, <2>2 DEF OtpCurrent, Asking
<1> QED BY <1>1, <1>2, <1>3, <1>4, Zenon DEF OtpAsked

LEMMA PlanKept ==
  ASSUME NEW q \in Seq(Events), NEW t \in Seq(Events), NEW f \in Seq(Frames), NEW g, Shrinks(f, g),
         NEW d, NEW e, PlanAsked(q, f, d), ~Has(t, Named("plan")),
         (PlanPlace(d) => PlanPlace(e)) \/ Takes(f, g, PLAN)
  PROVE  PlanAsked(q \o t, g, e)
<1>1. Asked(q, f, "plan", PLAN) /\ (Open(q, f, "plan", PLAN) => PlanPlace(d))
  BY DEF PlanAsked
<1>2. /\ Asked(q \o t, g, "plan", PLAN) /\ (Open(q \o t, g, "plan", PLAN) => Open(q, f, "plan", PLAN))
      /\ Takes(f, g, PLAN) => ~Open(q \o t, g, "plan", PLAN)
  BY <1>1, AskedKept
<1> QED BY <1>1, <1>2, Zenon DEF PlanAsked

LEMMA ApplyKept ==
  ASSUME NEW q \in Seq(Events), NEW t \in Seq(Events), NEW f \in Seq(Frames), NEW g, Shrinks(f, g),
         NEW d, NEW e, ApplyAsked(q, f, d), ~Has(t, Named("commit")),
         (ApplyPlace(d) => ApplyPlace(e)) \/ Takes(f, g, APPLY)
  PROVE  ApplyAsked(q \o t, g, e)
<1>1. Asked(q, f, "commit", APPLY) /\ (Open(q, f, "commit", APPLY) => ApplyPlace(d))
  BY DEF ApplyAsked
<1>2. /\ Asked(q \o t, g, "commit", APPLY) /\ (Open(q \o t, g, "commit", APPLY) => Open(q, f, "commit", APPLY))
      /\ Takes(f, g, APPLY) => ~Open(q \o t, g, "commit", APPLY)
  BY <1>1, AskedKept
<1> QED BY <1>1, <1>2, Zenon DEF ApplyAsked

LEMMA ReleaseKept ==
  ASSUME NEW q \in Seq(Events), NEW t \in Seq(Events), NEW f \in Seq(Frames), NEW g, Shrinks(f, g),
         NEW d, NEW e, ReleaseAsked(q, f, d), ~Has(t, Named("release")),
         (ReleasePlace(d) => ReleasePlace(e)) \/ Takes(f, g, RELEASE)
  PROVE  ReleaseAsked(q \o t, g, e)
<1>1. Asked(q, f, "release", RELEASE) /\ (Open(q, f, "release", RELEASE) => ReleasePlace(d))
  BY DEF ReleaseAsked
<1>2. /\ Asked(q \o t, g, "release", RELEASE) /\ (Open(q \o t, g, "release", RELEASE) => Open(q, f, "release", RELEASE))
      /\ Takes(f, g, RELEASE) => ~Open(q \o t, g, "release", RELEASE)
  BY <1>1, AskedKept
<1> QED BY <1>1, <1>2, Zenon DEF ReleaseAsked

\* Unless it releases, what it writes does not concern the release.
LEMMA AnnouncedKept ==
  ASSUME NEW q \in Seq(Events), NEW t \in Seq(Events), Announced(q), ~Has(t, Named("release"))
  PROVE  Announced(q \o t)
<1> DEFINE r == q \o t
<1>1. /\ r \in Seq(Events) /\ Len(r) = Len(q) + Len(t) /\ Len(q) \in Nat /\ Len(t) \in Nat
      /\ \A i \in 1..Len(q) : r[i] = q[i]
      /\ \A i \in 1..Len(t) : r[Len(q) + i] = t[i]
  BY CatIs
<1>2. ~(Has(r, Named("release")) /\ ~Has(q, Named("release")))
  BY HasCat
<1> HIDE DEF r
<1> SUFFICES ASSUME NEW i \in 1..Len(r), r[i].ev = "release"
             PROVE  \/ ctl.status = "disconnecting"
                    \/ i > 2 /\ r[i - 1].ev = "tunnel_down" /\ r[i - 2].ev = "tunnel_down"
                    \/ i = 2 /\ r[1].ev = "tunnel_down" /\ ctl.lost > 0
  BY DEF Announced, r
<1>3. i \in 1..Len(q)
  <2> SUFFICES ASSUME i \notin 1..Len(q) PROVE FALSE
    OBVIOUS
  <2>0. Len(r) = Len(q) + Len(t) /\ Len(q) \in Nat /\ Len(t) \in Nat
    BY <1>1
  <2>1. PICK k \in 1..Len(t) : k = i - Len(q)
    <3>1. i - Len(q) \in 1..Len(t)
      BY <2>0
    <3> QED BY <3>1
  <2>2. r[i] = t[k] /\ t[k] \in Events
    <3>1. i = Len(q) + k
      BY <1>1, <2>1
    <3> QED BY <1>1, <2>1, <3>1
  <2> QED BY <2>1, <2>2, NamedIs DEF Has
<1>4. r[i] = q[i] /\ (i > 1 => i - 1 \in 1..Len(q)) /\ (i > 2 => i - 2 \in 1..Len(q))
  BY <1>1, <1>3
<1>5. (i > 1 => r[i - 1] = q[i - 1]) /\ (i > 2 => r[i - 2] = q[i - 2]) /\ r[1] = q[1]
  BY <1>1, <1>3, <1>4
<1> QED BY <1>3, <1>4, <1>5 DEF Announced

LEMMA AnnouncedNew ==
  ASSUME NEW q \in Seq(Events), ~Has(q, Named("release"))
  PROVE  Announced(q \o (Closing \o <<Event("release", RELEASE, 0)>>))
<1> DEFINE t == Closing \o <<Event("release", RELEASE, 0)>>
           r == q \o t
<1>1. /\ t \in Seq(Events) /\ Len(t) = 3
      /\ t[1].ev = "tunnel_down" /\ t[2].ev = "tunnel_down"
  <2>1. PICK x \in Events : x = Event("tunnel_down", None, 0) /\ x.ev = "tunnel_down"
    BY EventsAre, RequestsAre DEF Names
  <2>2. PICK y \in Events : y = Event("release", RELEASE, 0)
    BY EventsAre
  <2>3. t = <<x, x>> \o <<y>>
    BY <2>1, <2>2 DEF Closing
  <2>4. /\ <<x, x>> \in Seq(Events) /\ Len(<<x, x>>) = 2 /\ <<x, x>>[1] = x /\ <<x, x>>[2] = x
        /\ <<y>> \in Seq(Events) /\ Len(<<y>>) = 1
    OBVIOUS
  <2>5. /\ t \in Seq(Events) /\ Len(t) = 2 + 1
        /\ \A i \in 1..2 : t[i] = <<x, x>>[i]
    <3> DEFINE u == <<x, x>>
               v == <<y>>
    <3> HIDE DEF t, u, v
    <3>1. u \in Seq(Events) /\ v \in Seq(Events) /\ Len(u) = 2 /\ Len(v) = 1 /\ t = u \o v
      BY <2>3, <2>4 DEF u, v
    <3>2. t \in Seq(Events) /\ Len(t) = 2 + 1 /\ \A i \in 1..2 : t[i] = u[i]
      <4>1. /\ u \o v \in Seq(Events) /\ Len(u \o v) = Len(u) + Len(v)
            /\ \A i \in 1..Len(u) : (u \o v)[i] = u[i]
        BY <3>1, CatIs, ZenonT(30)
      <4> QED BY <3>1, <4>1
    <3> QED BY <3>2 DEF u
  <2> HIDE DEF t
  <2> QED BY <2>1, <2>4, <2>5
<1>2. /\ r \in Seq(Events) /\ Len(r) = Len(q) + 3 /\ Len(q) \in Nat
      /\ \A i \in 1..Len(q) : r[i] = q[i] /\ q[i] \in Events
      /\ \A i \in 1..3 : r[Len(q) + i] = t[i]
  BY <1>1, CatIs
<1>3. r[Len(q) + 1].ev = "tunnel_down" /\ r[Len(q) + 2].ev = "tunnel_down"
  BY <1>1, <1>2
<1> HIDE DEF r, t
<1> SUFFICES ASSUME NEW i \in 1..Len(r), r[i].ev = "release"
             PROVE  i > 2 /\ r[i - 1].ev = "tunnel_down" /\ r[i - 2].ev = "tunnel_down"
  BY DEF Announced, r, t
<1>4. i \notin 1..Len(q)
  BY <1>2, NamedIs DEF Has
<1>5. i = Len(q) + 3
  BY <1>2, <1>3, <1>4
<1>6. i - 1 = Len(q) + 2 /\ i - 2 = Len(q) + 1 /\ i > 2
  BY <1>2, <1>5
<1> QED BY <1>3, <1>6

\* What it writes, when it configures the network itself.
LEMMA LegacyKept ==
  ASSUME NEW q \in Seq(Events), NEW t \in Seq(Events), NEW d, NEW e, NEW m, NEW n,
         Legacy(q, d, m), sup.pc = "run", d.pc # "gone",
         e.pc = "plan" => d.pc = "plan" \/ Has(t, Named("configuring")),
         e.pc \in {"io", "up"} => d.pc \in {"io", "up"} \/ (d.pc = "plan" /\ Has(t, Named("configuring"))),
         n # "none" => m # "none" \/ d.pc \in {"io", "up"},
         e.pc = "ending" /\ e.clean => n = "none",
         Cleaned(t) => e.pc = "gone" /\ n = "none"
  PROVE  Legacy(q \o t, e, n)
<1>1. ~Cleaned(q)
  BY DEF Legacy
<1>2. Cleaned(q \o t) => Cleaned(t)
  <2> DEFINE r == q \o t
  <2>1. /\ Len(r) = Len(q) + Len(t) /\ Len(q) \in Nat /\ Len(t) \in Nat
        /\ \A i \in 1..Len(q) : r[i] = q[i]
        /\ \A i \in 1..Len(t) : r[Len(q) + i] = t[i]
    BY CatIs
  <2> HIDE DEF r
  <2>2. SUFFICES ASSUME NEW i \in 1..Len(r), r[i].ev = "cleanup", r[i].arg = 1 PROVE Cleaned(t)
    BY DEF Cleaned, r
  <2>3. i \notin 1..Len(q)
    BY <1>1, <2>1, <2>2 DEF Cleaned
  <2>4. PICK k \in 1..Len(t) : k = i - Len(q)
    <3>1. Len(r) = Len(q) + Len(t) /\ Len(q) \in Nat /\ Len(t) \in Nat
      BY <2>1
    <3>2. i - Len(q) \in 1..Len(t)
      BY <2>3, <3>1
    <3> QED BY <3>2
  <2>5. i = Len(q) + k
    BY <2>1, <2>4
  <2> QED BY <2>1, <2>2, <2>4, <2>5 DEF Cleaned
<1> DEFINE C == Named("configuring")
<1>3. /\ Has(q \o t, C) <=> Has(q, C) \/ Has(t, C)
      /\ Twice(q, C) => Twice(q \o t, C)
      /\ Has(q, C) /\ Has(t, C) => Twice(q \o t, C)
  BY HasCat
<1> HIDE DEF C
<1>4. /\ Warned(q) => Warned(q \o t)
      /\ Has(t, C) => Warned(q \o t)
      /\ WarnedTwice(q) => WarnedTwice(q \o t)
      /\ Warned(q) /\ Has(t, C) => WarnedTwice(q \o t)
  BY <1>3, Zenon DEF Warned, WarnedTwice, C
<1>5. d.pc = "plan" => Warned(q)
  BY DEF Legacy
<1>6. d.pc \in {"io", "up"} \/ m # "none" => WarnedTwice(q)
  BY DEF Legacy
<1>7. e.pc = "plan" => Warned(q \o t)
  BY <1>4, <1>5 DEF C
<1>8. e.pc \in {"io", "up"} \/ n # "none" => WarnedTwice(q \o t)
  BY <1>4, <1>5, <1>6 DEF C
<1>9. Cleaned(q \o t) => e.pc = "gone" /\ n = "none"
  BY <1>2
<1> QED BY <1>7, <1>8, <1>9 DEF Legacy
-----------------------------------------------------------------------------
(* A step of the engine leaves the manager alone. *)

LEMMA EngineStep ==
  ASSUME ChannelInv, sup.pc = "run", UNCHANGED <<driver, manager>>,
         NEW e \in Engines, NEW q \in Seq(Events), NEW f \in Seq(Frames), NEW n \in Nets,
         eng' = [eng EXCEPT ![ctl.att] = e], events' = [events EXCEPT ![ctl.att] = q],
         frames' = [frames EXCEPT ![ctl.att] = f], net' = [net EXCEPT ![ctl.att] = n],
         e.pc # "none", ~e.refused, n = N \/ ~driver,
         Shape(e), Begun(q, e), Decided(f), OtpAsked(q, f, e), PlanAsked(q, f, e), ApplyAsked(q, f, e),
         ReleaseAsked(q, f, e), MaxLoss <= 1 => Reliable(q, e, n)
  PROVE  ChannelInv'
<1>1. /\ driver' = driver /\ ctl' = ctl /\ chal' = chal /\ reader' = reader /\ worker' = worker
      /\ sup' = sup /\ lease' = lease /\ user' = user
  BY DEF manager
<1>2. /\ Types /\ Others /\ Course /\ Jobs /\ Handshake(N)
      /\ MaxLoss <= 1 => Reliable(Q, E, N) /\ Owned
  BY DEF ChannelInv
<1>3. /\ ctl.att \in AttemptId /\ eng \in [AttemptId -> Engines] /\ net \in [AttemptId -> Nets]
      /\ events \in [AttemptId -> Seq(Events)] /\ frames \in [AttemptId -> Seq(Frames)]
  BY <1>2 DEF Types, Controls
<1>4. Q' = q /\ F' = f /\ E' = e /\ N' = n
  BY <1>1, <1>3 DEF Q, F, E, N
<1>5. \A a \in AttemptId : a # ctl.att => eng'[a] = eng[a] /\ events'[a] = events[a] /\ frames'[a] = frames[a] /\ net'[a] = net[a]
  BY <1>3
<1>6. /\ eng' \in [AttemptId -> Engines] /\ net' \in [AttemptId -> Nets]
      /\ events' \in [AttemptId -> Seq(Events)] /\ frames' \in [AttemptId -> Seq(Frames)]
  BY <1>3
<1>7. Types'
  BY <1>1, <1>2, <1>6 DEF Types
<1>8. Others'
  <2>1. eng'[ctl.att] = e
    BY <1>3
  <2>2. \A a \in AttemptId : a > ctl.att => a # ctl.att
    BY <1>3 DEF AttemptId
  <2> QED BY <1>1, <1>2, <1>5, <2>1, <2>2 DEF Others
<1>9. Course'
  BY <1>1, <1>2, <1>4 DEF Course
<1>10. Jobs'
  BY <1>1, <1>2 DEF Jobs
<1>11. Handshake(N)'
  BY <1>1, <1>2, <1>4 DEF Handshake, Jobs
<1>12. Decided(F)' /\ Shape(E)' /\ Begun(Q, E)'
  BY <1>1, <1>4 DEF Decided, Shape, Excluded, Begun
<1>13. OtpAsked(Q, F, E)'
  BY <1>1, <1>4 DEF OtpAsked, OtpCurrent, Asking, OtpPlace
<1>14. PlanAsked(Q, F, E)' /\ ApplyAsked(Q, F, E)' /\ ReleaseAsked(Q, F, E)'
  BY <1>1, <1>4 DEF PlanAsked, ApplyAsked, ReleaseAsked, Asked, Open, PlanPlace, ApplyPlace, ReleasePlace
<1>15. ASSUME MaxLoss <= 1
       PROVE  Reliable(Q, E, N)' /\ Owned'
  <2>1. Announced(Q)' /\ Shown(N)'
    BY <1>1, <1>4, <1>15 DEF Reliable, Announced, Shown
  <2>2. (~driver => Legacy(Q, E, N))'
    BY <1>1, <1>4, <1>15 DEF Reliable, Legacy, Warned, WarnedTwice, Suspect, Cleaned
  <2>3. Owned'
    BY <1>1, <1>2, <1>5, <1>15 DEF Owned, Course
  <2> QED BY <2>1, <2>2, <2>3 DEF Reliable
<1> QED BY <1>7, <1>8, <1>9, <1>10, <1>11, <1>12, <1>13, <1>14, <1>15 DEF ChannelInv

LEMMA SameIs ==
  ASSUME NEW S, NEW T, NEW f \in [S -> T], NEW a \in S
  PROVE  f = [f EXCEPT ![a] = f[a]]
  OBVIOUS

LEMMA CatNothing ==
  ASSUME NEW T, NEW q \in Seq(T)
  PROVE  q \o <<>> = q
  OBVIOUS

\* What is said in a few words.
LEMMA SaysNothing ==
  <<>> \in Seq(Events) /\ ~Cleaned(<<>>) /\ \A name : ~Has(<<>>, Named(name)) /\ Once(<<>>, Named(name))
  BY HasShort DEF Cleaned

LEMMA SaysOne ==
  ASSUME NEW x \in Events
  PROVE  /\ <<x>> \in Seq(Events)
         /\ Cleaned(<<x>>) <=> x.ev = "cleanup" /\ x.arg = 1
         /\ \A name : (Has(<<x>>, Named(name)) <=> x.ev = name) /\ Once(<<x>>, Named(name))
<1>1. Len(<<x>>) = 1 /\ <<x>>[1] = x /\ 1..1 = {1}
  OBVIOUS
<1>2. Cleaned(<<x>>) <=> x.ev = "cleanup" /\ x.arg = 1
  BY <1>1 DEF Cleaned
<1>3. \A name : (Has(<<x>>, Named(name)) <=> x.ev = name) /\ Once(<<x>>, Named(name))
  BY HasShort, NamedIs
<1> QED BY <1>2, <1>3

LEMMA SaysTwo ==
  ASSUME NEW x \in Events, NEW y \in Events
  PROVE  /\ <<x, y>> \in Seq(Events)
         /\ x.ev # "cleanup" /\ y.ev # "cleanup" => ~Cleaned(<<x, y>>)
         /\ \A name : /\ Has(<<x, y>>, Named(name)) <=> x.ev = name \/ y.ev = name
                      /\ x.ev # y.ev => Once(<<x, y>>, Named(name))
<1>1. Len(<<x, y>>) = 2 /\ <<x, y>>[1] = x /\ <<x, y>>[2] = y /\ 1..2 = {1, 2}
  OBVIOUS
<1>2. x.ev # "cleanup" /\ y.ev # "cleanup" => ~Cleaned(<<x, y>>)
  BY <1>1 DEF Cleaned
<1>3. \A name : /\ Has(<<x, y>>, Named(name)) <=> x.ev = name \/ y.ev = name
                /\ x.ev # y.ev => Once(<<x, y>>, Named(name))
  <2> SUFFICES ASSUME NEW name
               PROVE  /\ Has(<<x, y>>, Named(name)) <=> x.ev = name \/ y.ev = name
                      /\ x.ev # y.ev => Once(<<x, y>>, Named(name))
    OBVIOUS
  <2>1. (x \in Named(name) <=> x.ev = name) /\ (y \in Named(name) <=> y.ev = name)
    BY NamedIs
  <2> QED BY <2>1, HasShort
<1> QED BY <1>2, <1>3

\* How the engine's place and what it says go together.
LEMMA EngineMoves ==
  ASSUME ChannelInv, E.pc \notin {"none", "gone"}, UNCHANGED <<driver, manager>>,
         NEW e \in Engines, NEW t \in Seq(Events), NEW g, NEW n \in Nets, Shrinks(F, g),
         eng' = [eng EXCEPT ![ctl.att] = e], events' = [events EXCEPT ![ctl.att] = Q \o t],
         frames' = [frames EXCEPT ![ctl.att] = g], net' = [net EXCEPT ![ctl.att] = n],
         e.pc # "none", ~e.refused, n = N \/ ~driver, Shape(e),
         E.started \/ Has(t, Named("begin")) => e.started,
         \/ /\ ~Has(t, Named("challenge")) /\ e.otp = E.otp
            /\ (OtpPlace(E) => OtpPlace(e)) \/ TakesSecret(F, g)
         \/ /\ Once(t, Named("challenge")) /\ ~OtpPlace(E) /\ OtpPlace(e)
            /\ ~Has(t, AskingElse(e.otp)),
         \/ ~Has(t, Named("plan")) /\ ((PlanPlace(E) => PlanPlace(e)) \/ Takes(F, g, PLAN))
         \/ Once(t, Named("plan")) /\ ~PlanPlace(E) /\ PlanPlace(e),
         \/ ~Has(t, Named("commit")) /\ ((ApplyPlace(E) => ApplyPlace(e)) \/ Takes(F, g, APPLY))
         \/ Once(t, Named("commit")) /\ ~ApplyPlace(E) /\ ApplyPlace(e),
         \/ ~Has(t, Named("release")) /\ ((ReleasePlace(E) => ReleasePlace(e)) \/ Takes(F, g, RELEASE))
         \/ /\ Once(t, Named("release")) /\ ~ReleasePlace(E) /\ ReleasePlace(e)
            /\ t = Closing \o <<Event("release", RELEASE, 0)>>,
         MaxLoss <= 1 /\ ~driver =>
           /\ e.pc = "plan" => E.pc = "plan" \/ Has(t, Named("configuring"))
           /\ e.pc \in {"io", "up"} =>
                E.pc \in {"io", "up"} \/ (E.pc = "plan" /\ Has(t, Named("configuring")))
           /\ n # "none" => N # "none" \/ E.pc \in {"io", "up"}
           /\ e.pc = "ending" /\ e.clean => n = "none"
           /\ Cleaned(t) => e.pc = "gone" /\ n = "none"
  PROVE  ChannelInv'
<1>1. /\ Types /\ Others /\ Course /\ Decided(F) /\ Begun(Q, E)
      /\ OtpAsked(Q, F, E) /\ PlanAsked(Q, F, E) /\ ApplyAsked(Q, F, E) /\ ReleaseAsked(Q, F, E)
      /\ MaxLoss <= 1 => Reliable(Q, E, N)
  BY DEF ChannelInv
<1>2. Q \in Seq(Events) /\ F \in Seq(Frames) /\ sup.pc = "run"
  BY <1>1 DEF Types, Controls, Q, F, Course
<1>3. Q \o t \in Seq(Events) /\ g \in Seq(Frames) /\ Decided(g)
  BY <1>1, <1>2, CatIs, ShrinksIs
<1>4. OtpAsked(Q \o t, g, e)
  BY <1>1, <1>2, OtpKept, OtpNew
<1>5. PlanAsked(Q \o t, g, e)
  <2>1. CASE ~Has(t, Named("plan")) /\ ((PlanPlace(E) => PlanPlace(e)) \/ Takes(F, g, PLAN))
    BY <1>1, <1>2, <2>1, PlanKept
  <2>2. CASE Once(t, Named("plan")) /\ ~PlanPlace(E) /\ PlanPlace(e)
    <3>1. Asked(Q, F, "plan", PLAN) /\ ~Open(Q, F, "plan", PLAN)
      BY <1>1, <2>2 DEF PlanAsked
    <3> QED BY <1>2, <2>2, <3>1, AskedNew DEF PlanAsked
  <2> QED BY <2>1, <2>2
<1>6. ApplyAsked(Q \o t, g, e)
  <2>1. CASE ~Has(t, Named("commit")) /\ ((ApplyPlace(E) => ApplyPlace(e)) \/ Takes(F, g, APPLY))
    BY <1>1, <1>2, <2>1, ApplyKept
  <2>2. CASE Once(t, Named("commit")) /\ ~ApplyPlace(E) /\ ApplyPlace(e)
    <3>1. Asked(Q, F, "commit", APPLY) /\ ~Open(Q, F, "commit", APPLY)
      BY <1>1, <2>2 DEF ApplyAsked
    <3> QED BY <1>2, <2>2, <3>1, AskedNew DEF ApplyAsked
  <2> QED BY <2>1, <2>2
<1>7. ReleaseAsked(Q \o t, g, e)
  <2>1. CASE ~Has(t, Named("release")) /\ ((ReleasePlace(E) => ReleasePlace(e)) \/ Takes(F, g, RELEASE))
    BY <1>1, <1>2, <2>1, ReleaseKept
  <2>2. CASE Once(t, Named("release")) /\ ~ReleasePlace(E) /\ ReleasePlace(e)
    <3>1. Asked(Q, F, "release", RELEASE) /\ ~Open(Q, F, "release", RELEASE)
      BY <1>1, <2>2 DEF ReleaseAsked
    <3> QED BY <1>2, <2>2, <3>1, AskedNew DEF ReleaseAsked
  <2> QED BY <2>1, <2>2
<1>8. ASSUME MaxLoss <= 1 PROVE Reliable(Q \o t, e, n)
  <2>1. Announced(Q) /\ Shown(N) /\ (~driver => Legacy(Q, E, N))
    BY <1>1, <1>8 DEF Reliable
  <2>2. Announced(Q \o t)
    <3>1. CASE ~Has(t, Named("release"))
      BY <1>2, <2>1, <3>1, AnnouncedKept
    <3>2. CASE ~ReleasePlace(E) /\ t = Closing \o <<Event("release", RELEASE, 0)>>
      <4>1. ~Has(Q, Named("release"))
        BY <1>1, <3>2 DEF ReleaseAsked, Open
      <4> QED BY <1>2, <3>2, <4>1, AnnouncedNew
    <3> QED BY <3>1, <3>2
  <2>3. Shown(n)
    BY <1>1, <2>1 DEF Shown, ChannelInv, Handshake
  <2>4. ~driver => Legacy(Q \o t, e, n)
    BY <1>2, <1>8, <2>1, LegacyKept
  <2> QED BY <2>2, <2>3, <2>4 DEF Reliable
<1>9. Begun(Q \o t, e)
  BY <1>1, <1>2, HasCat DEF Begun
<1> QED BY <1>2, <1>3, <1>4, <1>5, <1>6, <1>7, <1>8, <1>9, EngineStep
-----------------------------------------------------------------------------
(* The engine's actions. *)

LEMMA EngineCurrent ==
  ASSUME ChannelInv, NEW a \in AttemptId, Alive(a)
  PROVE  /\ a = ctl.att /\ sup.pc = "run" /\ eng[a] = E /\ events[a] = Q /\ frames[a] = F /\ net[a] = N
         /\ E \in Engines /\ E.pc \notin {"none", "gone"} /\ ~E.refused /\ Shape(E)
         /\ Q \in Seq(Events) /\ F \in Seq(Frames) /\ N \in Nets
         /\ eng = [eng EXCEPT ![ctl.att] = E] /\ events = [events EXCEPT ![ctl.att] = Q \o <<>>]
         /\ frames = [frames EXCEPT ![ctl.att] = F] /\ net = [net EXCEPT ![ctl.att] = N]
<1>1. a = ctl.att
  BY DEF ChannelInv, Others, Alive
<1>2. /\ eng \in [AttemptId -> Engines] /\ events \in [AttemptId -> Seq(Events)]
      /\ frames \in [AttemptId -> Seq(Frames)] /\ net \in [AttemptId -> Nets]
  BY DEF ChannelInv, Types
<1>3. /\ eng[a] = E /\ events[a] = Q /\ frames[a] = F /\ net[a] = N
      /\ E \in Engines /\ Q \in Seq(Events) /\ F \in Seq(Frames) /\ N \in Nets
  BY <1>1, <1>2 DEF E, Q, F, N
<1>4. Q \o <<>> = Q
  BY <1>3, CatNothing
<1>5. /\ eng = [eng EXCEPT ![a] = E] /\ events = [events EXCEPT ![a] = Q \o <<>>]
      /\ frames = [frames EXCEPT ![a] = F] /\ net = [net EXCEPT ![a] = N]
  BY <1>2, <1>3, <1>4, SameIs
<1>6. ~E.refused /\ Shape(E)
  BY <1>1, <1>3 DEF ChannelInv, Others
<1>7. E.pc \notin {"none", "gone"} /\ sup.pc = "run"
  BY <1>3 DEF Alive, ChannelInv, Course
<1> QED BY <1>1, <1>3, <1>5, <1>6, <1>7

\* The frame that the engine takes.
LEMMA Consumes ==
  ASSUME NEW f \in Seq(Frames), f # <<>>
  PROVE  /\ Shrinks(f, Tail(f)) /\ Head(f) \in Frames /\ \A req : Head(f).req = req <=> Takes(f, Tail(f), req)
         /\ Head(f).req \in Otps <=> TakesSecret(f, Tail(f))
  BY TailIs, AnsweringIs, SecretsAre DEF Shrinks, Takes, TakesSecret

USE DEF Engines, Places

LEMMA EngineChallengeStep ==
  ASSUME ChannelInv, NEW a \in AttemptId, NEW r \in Otps, EngineChallenge(a, r)
  PROVE  ChannelInv'
<1>1. Alive(a) /\ eng[a].pc = "auth"
  BY DEF EngineChallenge, Alive
<1>2. PICK x \in Events : x = Event("challenge", r, 0) /\ x.ev = "challenge" /\ x.req = r
  BY EventsAre
<1> DEFINE e == [E EXCEPT !.pc = "otp", !.otp = r]
<1>3. /\ UNCHANGED <<driver, manager>> /\ eng' = [eng EXCEPT ![ctl.att] = e]
      /\ events' = [events EXCEPT ![ctl.att] = Q \o <<x>>]
      /\ frames' = [frames EXCEPT ![ctl.att] = F] /\ net' = [net EXCEPT ![ctl.att] = N]
  BY <1>1, <1>2, EngineCurrent DEF EngineChallenge, Emit
<1>4. /\ e \in Engines /\ e.pc = "otp" /\ e.otp = r /\ e.started = E.started /\ e.native = E.native
      /\ e.stale = E.stale /\ e.refused = E.refused /\ E.pc = "auth"
  BY <1>1, EngineCurrent
<1> HIDE DEF e
<1>5. Shape(e) /\ ~e.refused
  BY <1>1, <1>4, EngineCurrent DEF Shape
<1>6. PICK t \in Seq(Events) : t = <<x>>
  BY SaysOne
<1>7. /\ Once(t, Named("challenge")) /\ ~Has(t, Named("plan")) /\ ~Has(t, Named("commit"))
      /\ ~Has(t, Named("release")) /\ ~Has(t, Named("begin")) /\ ~Cleaned(t)
  BY <1>2, <1>6, SaysOne
<1>10. ~Has(t, AskingElse(e.otp))
  BY <1>2, <1>4, <1>6, HasShort DEF AskingElse
<1>8. /\ ~OtpPlace(E) /\ OtpPlace(e) /\ ~PlanPlace(E) /\ ~ApplyPlace(E) /\ ~ReleasePlace(E)
  BY <1>1, <1>4, EngineCurrent DEF OtpPlace, PlanPlace, ApplyPlace, ReleasePlace, Shape
<1>9. Shrinks(F, F) /\ E.pc \notin {"none", "gone"} /\ N \in Nets
  BY <1>1, EngineCurrent DEF Shrinks
<1> QED BY <1>3, <1>4, <1>5, <1>6, <1>7, <1>8, <1>9, <1>10, EngineMoves

\* A step of the engine that asks for nothing, and begins no plan.
LEMMA EngineQuiet ==
  ASSUME ChannelInv, NEW a \in AttemptId, Alive(a), UNCHANGED <<driver, manager>>,
         NEW e \in Engines, NEW t \in Seq(Events), NEW g, NEW n \in Nets, Shrinks(F, g),
         eng' = [eng EXCEPT ![ctl.att] = e], events' = [events EXCEPT ![ctl.att] = Q \o t],
         frames' = [frames EXCEPT ![ctl.att] = g], net' = [net EXCEPT ![ctl.att] = n],
         e.pc # "none", ~e.refused, n = N \/ ~driver, Shape(e), E.started => e.started, e.otp = E.otp,
         \A name \in {"challenge", "plan", "commit", "release", "begin"} : ~Has(t, Named(name)),
         (OtpPlace(E) => OtpPlace(e)) \/ TakesSecret(F, g),
         (PlanPlace(E) => PlanPlace(e)) \/ Takes(F, g, PLAN),
         (ApplyPlace(E) => ApplyPlace(e)) \/ Takes(F, g, APPLY),
         (ReleasePlace(E) => ReleasePlace(e)) \/ Takes(F, g, RELEASE),
         MaxLoss <= 1 /\ ~driver =>
           /\ e.pc = "plan" => E.pc = "plan"
           /\ e.pc \in {"io", "up"} =>
                E.pc \in {"io", "up"} \/ (E.pc = "plan" /\ Has(t, Named("configuring")))
           /\ n # "none" => N # "none" \/ E.pc \in {"io", "up"}
           /\ e.pc = "ending" /\ e.clean => n = "none"
           /\ Cleaned(t) => e.pc = "gone" /\ n = "none"
  PROVE  ChannelInv'
<1>1. /\ ~Has(t, Named("challenge")) /\ ~Has(t, Named("plan")) /\ ~Has(t, Named("commit"))
      /\ ~Has(t, Named("release")) /\ ~Has(t, Named("begin"))
  OBVIOUS
<1>2. E.pc \notin {"none", "gone"}
  BY EngineCurrent
<1> QED BY <1>1, <1>2, EngineMoves

\* The frame that the engine waits for, and the deadline.
LEMMA Waits ==
  ASSUME ChannelInv, NEW a \in AttemptId, Alive(a), NEW timeout \in BOOLEAN,
         IF timeout THEN UNCHANGED frames ELSE frames[a] # <<>> /\ Consume(a)
  PROVE  \E g : /\ Shrinks(F, g) /\ frames' = [frames EXCEPT ![ctl.att] = g]
                /\ ~timeout => F # <<>> /\ Head(F) \in Frames /\ F[1] = Head(F) /\ Len(F) \in Nat \ {0}
                /\ \A req : ~timeout /\ Head(F).req = req => Takes(F, g, req)
                /\ ~timeout /\ Head(F).req \in Otps => TakesSecret(F, g)
<1>1. CASE timeout
  BY <1>1, EngineCurrent DEF Shrinks
<1>2. CASE ~timeout
  <2>1. F # <<>> /\ frames' = [frames EXCEPT ![ctl.att] = Tail(F)] /\ F \in Seq(Frames)
    BY <1>2, EngineCurrent DEF Consume
  <2>2. /\ Shrinks(F, Tail(F)) /\ Head(F) \in Frames /\ \A req : Head(F).req = req <=> Takes(F, Tail(F), req)
        /\ Head(F).req \in Otps <=> TakesSecret(F, Tail(F))
    BY <2>1, Consumes
  <2>3. F[1] = Head(F) /\ Len(F) \in Nat \ {0}
    BY <2>1, TailIs
  <2> QED BY <1>2, <2>1, <2>2, <2>3
<1> QED BY <1>1, <1>2

LEMMA EngineAnsweredStep ==
  ASSUME ChannelInv, NEW a \in AttemptId, NEW timeout \in BOOLEAN, EngineAnswered(a, timeout)
  PROVE  ChannelInv'
<1>1. Alive(a) /\ eng[a].pc = "otp" /\ E.pc = "otp" /\ F = frames[a] /\ E = eng[a] /\ a = ctl.att
  <2>1. Alive(a) /\ eng[a].pc = "otp"
    BY DEF EngineAnswered, Alive
  <2> QED BY <2>1, EngineCurrent
<1>2. PICK ok \in BOOLEAN : ok = (~timeout /\ Answers(a, "auth_response", E.otp))
  OBVIOUS
<1>3. PICK g : /\ Shrinks(F, g) /\ frames' = [frames EXCEPT ![ctl.att] = g]
               /\ ~timeout => Head(F) \in Frames
               /\ ~timeout /\ Head(F).req \in Otps => TakesSecret(F, g)
  BY <1>1, Waits DEF EngineAnswered
<1>4. PICK x \in Events : x = Event("closed", E.otp, IF ok THEN 1 ELSE 0) /\ x.ev = "closed"
  <2>1. E.otp \in 0..5
    BY <1>1, EngineCurrent, RequestsAre
  <2> QED BY <2>1, EventsAre DEF Names
<1> DEFINE e == [E EXCEPT !.pc = IF ok THEN "auth" ELSE "down"]
<1>5. /\ UNCHANGED <<driver, manager>> /\ eng' = [eng EXCEPT ![ctl.att] = e]
      /\ events' = [events EXCEPT ![ctl.att] = Q \o <<x>>] /\ net' = [net EXCEPT ![ctl.att] = N]
  BY <1>1, <1>2, <1>4, EngineCurrent, ZenonT(30) DEF EngineAnswered, Emit
<1>6. /\ e \in Engines /\ e.pc = (IF ok THEN "auth" ELSE "down") /\ e.otp = E.otp /\ e.started = E.started
      /\ e.native = E.native /\ e.stale = E.stale /\ e.refused = E.refused
  BY <1>1, EngineCurrent
<1> HIDE DEF e
<1>7. Shape(e) /\ ~e.refused /\ ~E.started /\ ~E.native
  BY <1>1, <1>6, EngineCurrent DEF Shape
<1>8. PICK t \in Seq(Events) : t = <<x>>
  BY SaysOne
<1>9. ~Cleaned(t) /\ \A name \in {"challenge", "plan", "commit", "release", "begin"} : ~Has(t, Named(name))
  BY <1>4, <1>8, SaysOne
<1>10. ok => TakesSecret(F, g)
  BY <1>1, <1>2, <1>3 , FramesAre DEF Answers
<1>11. ~ok => (OtpPlace(E) => OtpPlace(e))
  BY <1>1, <1>6, <1>7 DEF OtpPlace
<1>12. ~PlanPlace(E) /\ ~ApplyPlace(E) /\ ~ReleasePlace(E)
  BY <1>1, <1>7 DEF PlanPlace, ApplyPlace, ReleasePlace
<1>13. N \in Nets
  BY <1>1, EngineCurrent
<1>14. e.pc \notin {"none", "plan", "io", "up", "ending"}
  BY <1>6
<1> QED BY <1>1, <1>3, <1>5, <1>6, <1>7, <1>8, <1>9, <1>10, <1>11, <1>12, <1>13, <1>14, EngineQuiet

LEMMA EngineAuthenticatedStep ==
  ASSUME ChannelInv, NEW a \in AttemptId, NEW ok \in BOOLEAN, EngineAuthenticated(a, ok)
  PROVE  ChannelInv'
<1>1. Alive(a) /\ E.pc = "auth" /\ E = eng[a] /\ a = ctl.att
  <2>1. Alive(a) /\ eng[a].pc = "auth"
    BY DEF EngineAuthenticated, Alive
  <2> QED BY <2>1, EngineCurrent
<1>2. PICK x \in Events : x = Event("configuring", None, 0) /\ x.ev = "configuring"
  BY EventsAre, RequestsAre DEF Names
<1>3. PICK y \in Events : y = Event("plan", PLAN, 0) /\ y.ev = "plan"
  BY EventsAre, RequestsAre DEF Names
<1> DEFINE e == [E EXCEPT !.pc = IF ok THEN "plan" ELSE "down"]
<1>4. PICK t : t = IF ok THEN <<x, y>> ELSE <<>>
  OBVIOUS
<1>5. /\ UNCHANGED <<driver, manager>> /\ eng' = [eng EXCEPT ![ctl.att] = e]
      /\ events' = [events EXCEPT ![ctl.att] = Q \o t] /\ frames' = [frames EXCEPT ![ctl.att] = F]
      /\ net' = [net EXCEPT ![ctl.att] = N]
  BY <1>1, <1>2, <1>3, <1>4, EngineCurrent DEF EngineAuthenticated, Emit
<1>6. /\ e \in Engines /\ e.pc = (IF ok THEN "plan" ELSE "down") /\ e.otp = E.otp
      /\ e.started = E.started /\ e.native = E.native /\ e.stale = E.stale /\ e.refused = E.refused
  BY <1>1, EngineCurrent
<1> HIDE DEF e
<1>7. Shape(e) /\ ~e.refused /\ ~E.started /\ ~E.native
  BY <1>1, <1>6, EngineCurrent DEF Shape
<1>8. /\ t \in Seq(Events) /\ ~Cleaned(t) /\ Once(t, Named("plan"))
      /\ \A name \in {"challenge", "commit", "release", "begin"} : ~Has(t, Named(name))
      /\ ok => Has(t, Named("configuring"))
      /\ ~ok => ~Has(t, Named("plan"))
  BY <1>2, <1>3, <1>4, SaysTwo, SaysNothing
<1>9. /\ ~OtpPlace(E) /\ ~PlanPlace(E) /\ ~ApplyPlace(E) /\ ~ReleasePlace(E)
      /\ ok => PlanPlace(e)
  BY <1>1, <1>6, <1>7 DEF OtpPlace, PlanPlace, ApplyPlace, ReleasePlace
<1>10. N \in Nets /\ Shrinks(F, F) /\ E.pc \notin {"none", "gone"}
  BY <1>1, EngineCurrent DEF Shrinks
<1>11. /\ ~Has(t, Named("challenge")) /\ ~Has(t, Named("commit"))
       /\ ~Has(t, Named("release")) /\ ~Has(t, Named("begin"))
  BY <1>8
<1>12. e.pc \notin {"none", "io", "up", "ending"} /\ (e.pc = "plan" => Has(t, Named("configuring")))
  BY <1>6, <1>8
<1> QED BY <1>5, <1>6, <1>7, <1>8, <1>9, <1>10, <1>11, <1>12, EngineMoves

\* An engine in another place.
LEMMA MovedIs ==
  ASSUME NEW d \in Engines, NEW p \in Places, NEW e, e = [d EXCEPT !.pc = p]
  PROVE  /\ e \in Engines /\ e.pc = p /\ e.otp = d.otp /\ e.started = d.started
         /\ e.native = d.native /\ e.stale = d.stale /\ e.refused = d.refused
  OBVIOUS

LEMMA BegunIs ==
  ASSUME NEW d \in Engines, NEW e, e = [d EXCEPT !.pc = "applying", !.started = TRUE]
  PROVE  /\ e \in Engines /\ e.pc = "applying" /\ e.otp = d.otp /\ e.started
         /\ e.native = d.native /\ e.stale = d.stale /\ e.refused = d.refused
  OBVIOUS

LEMMA EngineGateStep ==
  ASSUME ChannelInv, NEW a \in AttemptId, NEW timeout \in BOOLEAN, NEW splittable \in BOOLEAN,
         EngineGate(a, timeout, splittable)
  PROVE  ChannelInv'
<1>1. Alive(a) /\ E.pc = "plan" /\ F = frames[a] /\ E = eng[a] /\ a = ctl.att
  <2>1. Alive(a) /\ eng[a].pc = "plan"
    BY DEF EngineGate, Alive
  <2> QED BY <2>1, EngineCurrent
<1>2. PICK g : /\ Shrinks(F, g) /\ frames' = [frames EXCEPT ![ctl.att] = g]
               /\ ~timeout => F # <<>> /\ Head(F) \in Frames /\ F[1] = Head(F) /\ Len(F) \in Nat \ {0}
               /\ \A req : ~timeout /\ Head(F).req = req => Takes(F, g, req)
  BY <1>1, Waits DEF EngineGate
<1>3. PICK given \in BOOLEAN : given = (~timeout /\ Answers(a, "lease_decision", PLAN))
  OBVIOUS
<1>4. PICK native \in BOOLEAN : native = (given /\ Head(frames[a]).ans = "grant_native" /\ splittable)
  OBVIOUS
<1>5. PICK legacy \in BOOLEAN : legacy = (given /\ Head(frames[a]).ans = "grant")
  OBVIOUS
<1>6. PICK x \in Events : x = Event("configuring", None, 0) /\ x.ev = "configuring"
  BY EventsAre, RequestsAre DEF Names
<1>p. PICK p \in Places : p = IF native \/ legacy THEN "io" ELSE "down"
  OBVIOUS
<1>e. PICK e : e = [E EXCEPT !.pc = p, !.native = native]
  OBVIOUS
<1>7. PICK t : t = IF native \/ legacy THEN <<x>> ELSE <<>>
  OBVIOUS
<1>8. /\ UNCHANGED <<driver, manager>> /\ eng' = [eng EXCEPT ![ctl.att] = e]
      /\ events' = [events EXCEPT ![ctl.att] = Q \o t] /\ net' = [net EXCEPT ![ctl.att] = N]
  <2>1. /\ eng' = [eng EXCEPT ![a].pc = p, ![a].native = native] /\ net' = net
        /\ events' = [events EXCEPT ![a] = @ \o t] /\ UNCHANGED <<driver, manager>>
    BY <1>3, <1>4, <1>5, <1>6, <1>7, <1>p DEF EngineGate, Emit
  <2>2. eng' = [eng EXCEPT ![a] = [eng[a] EXCEPT !.pc = p, !.native = native]]
    BY <2>1
  <2> QED BY <1>1, <1>e, <2>1, <2>2, EngineCurrent
<1>9. /\ e \in Engines /\ e.pc = (IF native \/ legacy THEN "io" ELSE "down") /\ e.otp = E.otp
      /\ e.started = E.started /\ (e.native <=> native) /\ e.stale = E.stale /\ e.refused = E.refused
  <2>1. E \in Engines /\ p \in Places
    BY <1>1, <1>p, EngineCurrent
  <2>2. ASSUME native
        PROVE  /\ e \in Engines /\ e.pc = p /\ e.otp = E.otp /\ e.started = E.started
               /\ e.stale = E.stale /\ e.refused = E.refused /\ e.native
    <3>1. e = [E EXCEPT !.pc = p, !.native = TRUE]
      BY <1>4, <1>e, <2>2
    <3> QED BY <2>1, <3>1
  <2>3. ASSUME ~native
        PROVE  /\ e \in Engines /\ e.pc = p /\ e.otp = E.otp /\ e.started = E.started
               /\ e.stale = E.stale /\ e.refused = E.refused /\ ~e.native
    <3>1. e = [E EXCEPT !.pc = p, !.native = FALSE]
      BY <1>4, <1>e, <2>3
    <3> QED BY <2>1, <3>1
  <2> QED BY <1>p, <2>2, <2>3
<1>10. given => Takes(F, g, PLAN) /\ Head(F).ans # Excluded
  <2> SUFFICES ASSUME given PROVE Takes(F, g, PLAN) /\ Head(F).ans # Excluded
    OBVIOUS
  <2>1. ~timeout /\ Head(F).act = "lease_decision" /\ Head(F).req = PLAN
    BY <1>1, <1>3 DEF Answers
  <2>2. 1 \in 1..Len(F) /\ F[1] = Head(F)
    BY <1>2, <2>1
  <2>3. Decided(F)
    BY DEF ChannelInv
  <2> QED BY <1>2, <2>1, <2>2, <2>3 DEF Decided
<1>11. (native => driver) /\ (legacy => ~driver) /\ (native \/ legacy => given)
  <2>1. driver \in BOOLEAN
    BY DEF ChannelInv, Types
  <2> QED BY <1>1, <1>4, <1>5, <1>10, <2>1 DEF Excluded
<1>12. Shape(e) /\ ~e.refused /\ ~E.started
  BY <1>1, <1>9, <1>11, EngineCurrent DEF Shape
<1>13. /\ t \in Seq(Events) /\ ~Cleaned(t)
       /\ \A name \in {"challenge", "plan", "commit", "release", "begin"} : ~Has(t, Named(name))
       /\ native \/ legacy => Has(t, Named("configuring"))
  BY <1>6, <1>7, SaysOne, SaysNothing
<1>14. /\ ~OtpPlace(E) /\ ~ApplyPlace(E) /\ ~ReleasePlace(E)
       /\ ~given => (PlanPlace(E) => PlanPlace(e))
  BY <1>1, <1>9, <1>11, <1>12 DEF OtpPlace, PlanPlace, ApplyPlace, ReleasePlace
<1>15. N \in Nets /\ e.pc \notin {"none", "plan", "ending"} /\ (e.pc \in {"io", "up"} => Has(t, Named("configuring")))
  BY <1>1, <1>9, <1>13, EngineCurrent
<1> QED BY <1>1, <1>2, <1>8, <1>9, <1>10, <1>12, <1>13, <1>14, <1>15, EngineQuiet

LEMMA EngineConfiguresStep ==
  ASSUME ChannelInv, NEW a \in AttemptId, NEW ok \in BOOLEAN, EngineConfigures(a, ok)
  PROVE  ChannelInv'
<1>1. Alive(a) /\ E.pc = "io" /\ ~E.native /\ E = eng[a] /\ a = ctl.att
  <2>1. Alive(a) /\ eng[a].pc = "io" /\ ~eng[a].native
    BY DEF EngineConfigures, Alive
  <2> QED BY <2>1, EngineCurrent
<1>2. PICK x \in Events : x = Event("tunnel_up", None, 0) /\ x.ev = "tunnel_up"
  BY EventsAre, RequestsAre DEF Names
<1> DEFINE e == [E EXCEPT !.pc = IF ok THEN "up" ELSE "down"]
<1>3. PICK t : t = IF ok THEN <<x>> ELSE <<>>
  OBVIOUS
<1>4. PICK n \in Nets : n = "applied"
  BY DEF Nets
<1>5. /\ UNCHANGED <<driver, manager>> /\ eng' = [eng EXCEPT ![ctl.att] = e]
      /\ events' = [events EXCEPT ![ctl.att] = Q \o t] /\ frames' = [frames EXCEPT ![ctl.att] = F]
      /\ net' = [net EXCEPT ![ctl.att] = n]
  BY <1>1, <1>2, <1>3, <1>4, EngineCurrent DEF EngineConfigures, Emit
<1>6. /\ e \in Engines /\ e.pc = (IF ok THEN "up" ELSE "down") /\ e.otp = E.otp
      /\ e.started = E.started /\ e.native = E.native /\ e.stale = E.stale /\ e.refused = E.refused
  BY <1>1, EngineCurrent
<1> HIDE DEF e
<1>7. ~driver /\ Shape(e) /\ ~e.refused /\ ~E.started
  BY <1>1, <1>6, EngineCurrent DEF Shape
<1>8. /\ t \in Seq(Events) /\ ~Cleaned(t)
      /\ \A name \in {"challenge", "plan", "commit", "release", "begin"} : ~Has(t, Named(name))
  BY <1>2, <1>3, SaysOne, SaysNothing
<1>9. /\ ~OtpPlace(E) /\ ~PlanPlace(E) /\ ~ApplyPlace(E) /\ ~ReleasePlace(E)
  BY <1>1, <1>7 DEF OtpPlace, PlanPlace, ApplyPlace, ReleasePlace
<1>10. Shrinks(F, F) /\ e.pc \notin {"none", "plan", "ending"}
  BY <1>6 DEF Shrinks
<1> QED BY <1>1, <1>5, <1>6, <1>7, <1>8, <1>9, <1>10, EngineQuiet

\* What an engine writes when it sends its plan.
LEMMA PlanSays ==
  ASSUME NEW k \in 0..MaxResource, NEW x \in Events, NEW y \in Events, x.ev = "begin", y.ev = "commit"
  PROVE  LET t == <<x>> \o [i \in 1..k |-> Event("resource", APPLY, i - 1)] \o <<y>>
         IN  /\ t \in Seq(Events) /\ ~Cleaned(t) /\ Once(t, Named("commit"))
             /\ ~Has(t, Named("challenge")) /\ ~Has(t, Named("plan")) /\ ~Has(t, Named("release"))
<1> DEFINE m == [i \in 1..k |-> Event("resource", APPLY, i - 1)]
           u == <<x>> \o m
           v == <<y>>
           t == u \o v
<1>1. k \in Nat
  BY ChannelAssumption
<1>2. \A i \in 1..k : m[i] \in Events /\ m[i].ev = "resource"
  <2> SUFFICES ASSUME NEW i \in 1..k PROVE m[i] \in Events /\ m[i].ev = "resource"
    OBVIOUS
  <2>1. i - 1 \in Nat /\ APPLY \in 0..5
    BY <1>1, RequestsAre
  <2>2. m[i] = Event("resource", APPLY, i - 1)
    OBVIOUS
  <2> QED BY <2>1, <2>2, EventsAre DEF Names
<1>3. m \in Seq(Events) /\ Len(m) = k
  <2>1. m \in [1..k -> Events]
    BY <1>2
  <2> HIDE DEF m
  <2> QED BY <1>1, <2>1
<1> HIDE DEF m
<1>4. \A name : name # "resource" => ~Has(m, Named(name))
  BY <1>2, <1>3, NamedIs DEF Has
<1>5. <<x>> \in Seq(Events) /\ \A name : (Has(<<x>>, Named(name)) <=> x.ev = name)
  BY SaysOne
<1>6. v \in Seq(Events) /\ \A name : (Has(v, Named(name)) <=> y.ev = name) /\ Once(v, Named(name))
  BY SaysOne
<1>7. u \in Seq(Events) /\ \A name : Has(u, Named(name)) <=> Has(<<x>>, Named(name)) \/ Has(m, Named(name))
  BY <1>3, <1>5, CatIs, HasCat
<1> HIDE DEF u, v
<1>8. t \in Seq(Events) /\ \A name : Has(t, Named(name)) <=> Has(u, Named(name)) \/ Has(v, Named(name))
  BY <1>6, <1>7, CatIs, HasCat
<1>9. ~Has(u, Named("commit")) => Once(t, Named("commit"))
  BY <1>6, <1>7, HasCat
<1> HIDE DEF t
<1>10. \A name : Has(t, Named(name)) => name \in {"begin", "resource", "commit"}
  BY <1>4, <1>5, <1>6, <1>7, <1>8
<1>11. ~Has(u, Named("commit"))
  BY <1>4, <1>5, <1>7
<1>12. ~Cleaned(t)
  <2> SUFFICES ASSUME NEW i \in 1..Len(t), t[i].ev = "cleanup" PROVE FALSE
    BY DEF Cleaned
  <2>1. t[i] \in Events
    BY <1>8
  <2>2. Has(t, Named("cleanup"))
    BY <2>1, NamedIs DEF Has
  <2> QED BY <1>10, <2>2
<1>13. ~Has(t, Named("challenge")) /\ ~Has(t, Named("plan")) /\ ~Has(t, Named("release"))
  BY <1>10
<1> QED BY <1>8, <1>9, <1>11, <1>12, <1>13 DEF t, u, v, m

LEMMA EngineSendsPlanStep ==
  ASSUME ChannelInv, NEW a \in AttemptId, NEW k \in 0..MaxResource, NEW legal \in BOOLEAN,
         EngineSendsPlan(a, k, legal)
  PROVE  ChannelInv'
<1>1. Alive(a) /\ E.pc = "io" /\ E.native /\ E = eng[a] /\ a = ctl.att
  <2>1. Alive(a) /\ eng[a].pc = "io" /\ eng[a].native
    BY DEF EngineSendsPlan, Alive
  <2> QED BY <2>1, EngineCurrent
<1>2. PICK x \in Events : x = Event("begin", APPLY, k) /\ x.ev = "begin"
  BY EventsAre
<1>3. PICK y \in Events : y = Event("commit", APPLY, IF legal THEN 1 ELSE 0) /\ y.ev = "commit"
  BY EventsAre
<1>e. PICK e : e = [E EXCEPT !.pc = "applying", !.started = TRUE]
  OBVIOUS
<1>4. PICK t : t = <<x>> \o [i \in 1..k |-> Event("resource", APPLY, i - 1)] \o <<y>>
  OBVIOUS
<1>5. /\ UNCHANGED <<driver, manager>> /\ eng' = [eng EXCEPT ![ctl.att] = e]
      /\ events' = [events EXCEPT ![ctl.att] = Q \o t] /\ frames' = [frames EXCEPT ![ctl.att] = F]
      /\ net' = [net EXCEPT ![ctl.att] = N]
  <2>1. /\ eng' = [eng EXCEPT ![a].pc = "applying", ![a].started = TRUE] /\ net' = net /\ frames' = frames
        /\ events' = [events EXCEPT ![a] = @ \o t] /\ UNCHANGED <<driver, manager>>
    BY <1>2, <1>3, <1>4 DEF EngineSendsPlan, Emit
  <2>2. eng' = [eng EXCEPT ![a] = [eng[a] EXCEPT !.pc = "applying", !.started = TRUE]]
    BY <2>1
  <2> QED BY <1>1, <1>e, <2>1, <2>2, EngineCurrent
<1>6. /\ e \in Engines /\ e.pc = "applying" /\ e.otp = E.otp
      /\ e.started /\ e.native = E.native /\ e.stale = E.stale /\ e.refused = E.refused
  <2>1. E \in Engines
    BY <1>1, EngineCurrent
  <2> QED BY <1>e, <2>1, BegunIs
<1>7. driver /\ Shape(e) /\ ~e.refused /\ ~E.started /\ ~E.stale
  BY <1>1, <1>6, EngineCurrent DEF Shape
<1>8. /\ t \in Seq(Events) /\ Once(t, Named("commit"))
      /\ ~Has(t, Named("challenge")) /\ ~Has(t, Named("plan")) /\ ~Has(t, Named("release"))
  BY <1>2, <1>3, <1>4, PlanSays
<1>9. /\ ~OtpPlace(E) /\ ~PlanPlace(E) /\ ~ApplyPlace(E) /\ ~ReleasePlace(E) /\ ApplyPlace(e)
  BY <1>1, <1>6, <1>7 DEF OtpPlace, PlanPlace, ApplyPlace, ReleasePlace
<1>10. N \in Nets /\ Shrinks(F, F) /\ E.pc \notin {"none", "gone"}
  BY <1>1, EngineCurrent DEF Shrinks
<1> QED BY <1>5, <1>6, <1>7, <1>8, <1>9, <1>10, EngineMoves

LEMMA EngineAppliedStep ==
  ASSUME ChannelInv, NEW a \in AttemptId, NEW timeout \in BOOLEAN, NEW ready \in BOOLEAN,
         EngineApplied(a, timeout, ready)
  PROVE  ChannelInv'
<1>1. Alive(a) /\ E.pc = "applying" /\ F = frames[a] /\ E = eng[a] /\ a = ctl.att
  <2>1. Alive(a) /\ eng[a].pc = "applying"
    BY DEF EngineApplied, Alive
  <2> QED BY <2>1, EngineCurrent
<1>2. PICK ok \in BOOLEAN : ok = (~timeout /\ Applied(a))
  OBVIOUS
<1>3. PICK g : /\ Shrinks(F, g) /\ frames' = [frames EXCEPT ![ctl.att] = g]
               /\ \A req : ~timeout /\ Head(F).req = req => Takes(F, g, req)
  BY <1>1, Waits DEF EngineApplied
<1>4. PICK x \in Events : x = Event("applied", APPLY, IF ok THEN 1 ELSE 0) /\ x.ev = "applied"
  BY EventsAre, RequestsAre DEF Names
<1>5. PICK y \in Events : y = Event("tunnel_up", None, 0) /\ y.ev = "tunnel_up"
  BY EventsAre, RequestsAre DEF Names
<1>p. PICK p \in {"up", "down"} : p = IF ok /\ ready /\ ~E.stop THEN "up" ELSE "down"
  OBVIOUS
<1>e. PICK e : e = [E EXCEPT !.pc = p]
  OBVIOUS
<1>6. PICK u : u = IF ok /\ ready THEN <<y>> ELSE <<>>
  OBVIOUS
<1>7. PICK t : t = <<x>> \o u
  OBVIOUS
<1>8. /\ UNCHANGED <<driver, manager>> /\ eng' = [eng EXCEPT ![ctl.att] = e]
      /\ events' = [events EXCEPT ![ctl.att] = Q \o t] /\ net' = [net EXCEPT ![ctl.att] = N]
  <2>1. /\ eng' = [eng EXCEPT ![a].pc = IF ok /\ ready /\ ~eng[a].stop THEN "up" ELSE "down"]
        /\ events' = [events EXCEPT ![a] = @ \o t] /\ net' = net /\ UNCHANGED <<driver, manager>>
    BY <1>2, <1>4, <1>5, <1>6, <1>7 DEF EngineApplied, Emit
  <2>2. eng' = [eng EXCEPT ![a] = [eng[a] EXCEPT !.pc = p]]
    BY <1>1, <1>p, <2>1
  <2> QED BY <1>1, <1>e, <2>1, <2>2, EngineCurrent
<1>9. /\ e \in Engines /\ e.pc \in {"up", "down"} /\ (e.pc = "up" => ok) /\ e.otp = E.otp
      /\ e.started = E.started /\ e.native = E.native /\ e.stale = E.stale /\ e.refused = E.refused
  <2>1. E \in Engines /\ p \in Places
    BY <1>1, EngineCurrent
  <2>2. /\ e \in Engines /\ e.pc = p /\ e.otp = E.otp /\ e.started = E.started
        /\ e.native = E.native /\ e.stale = E.stale /\ e.refused = E.refused
    BY <1>e, <2>1, MovedIs
  <2> QED BY <1>p, <2>2
<1>10. driver /\ Shape(e) /\ ~e.refused /\ E.started
  BY <1>1, <1>9, EngineCurrent DEF Shape
<1>11. /\ t \in Seq(Events)
       /\ \A name \in {"challenge", "plan", "commit", "release", "begin"} : ~Has(t, Named(name))
  <2>1. PICK w \in Seq(Events) : w = <<x>> /\ \A name : Has(w, Named(name)) <=> name = "applied"
    BY <1>4, SaysOne
  <2>2. u \in Seq(Events) /\ \A name : Has(u, Named(name)) => name = "tunnel_up"
    BY <1>5, <1>6, SaysOne, SaysNothing
  <2>3. w \o u \in Seq(Events) /\ \A name : Has(w \o u, Named(name)) <=> Has(w, Named(name)) \/ Has(u, Named(name))
    BY <2>2, CatIs, HasCat
  <2> QED BY <1>7, <2>1, <2>2, <2>3
<1>12. /\ ~OtpPlace(E) /\ ~PlanPlace(E) /\ ~ReleasePlace(E)
       /\ ~ok => (ApplyPlace(E) => ApplyPlace(e))
  BY <1>1, <1>9, <1>10 DEF OtpPlace, PlanPlace, ApplyPlace, ReleasePlace
<1>13. ok => Takes(F, g, APPLY)
  BY <1>1, <1>2, <1>3 DEF Applied, Answers
<1>14. N \in Nets /\ e.pc # "none"
  BY <1>1, <1>9, EngineCurrent
<1> QED BY <1>1, <1>3, <1>8, <1>9, <1>10, <1>11, <1>12, <1>13, <1>14, EngineQuiet

LEMMA EngineLosesTunnelStep ==
  ASSUME ChannelInv, NEW a \in AttemptId, EngineLosesTunnel(a)
  PROVE  ChannelInv'
<1>1. Alive(a) /\ E.pc \in {"io", "up"} /\ E = eng[a] /\ a = ctl.att
  <2>1. Alive(a) /\ eng[a].pc \in {"io", "up"}
    BY DEF EngineLosesTunnel, Alive
  <2> QED BY <2>1, EngineCurrent
<1> DEFINE e == [E EXCEPT !.pc = "down"]
<1>2. /\ UNCHANGED <<driver, manager>> /\ eng' = [eng EXCEPT ![ctl.att] = e]
      /\ events' = [events EXCEPT ![ctl.att] = Q \o <<>>] /\ frames' = [frames EXCEPT ![ctl.att] = F]
      /\ net' = [net EXCEPT ![ctl.att] = N]
  BY <1>1, EngineCurrent DEF EngineLosesTunnel
<1>3. /\ e \in Engines /\ e.pc = "down" /\ e.otp = E.otp
      /\ e.started = E.started /\ e.native = E.native /\ e.stale = E.stale /\ e.refused = E.refused
  BY <1>1, EngineCurrent
<1> HIDE DEF e
<1>4. Shape(e) /\ ~e.refused
  BY <1>1, <1>3, EngineCurrent DEF Shape
<1>5. PICK t \in Seq(Events) : t = <<>>
  BY SaysNothing
<1>6. ~Cleaned(t) /\ \A name \in {"challenge", "plan", "commit", "release", "begin"} : ~Has(t, Named(name))
  BY <1>5, SaysNothing
<1>7. ~OtpPlace(E) /\ ~PlanPlace(E) /\ ~ApplyPlace(E) /\ ~ReleasePlace(E)
  BY <1>1 DEF OtpPlace, PlanPlace, ApplyPlace, ReleasePlace
<1>8. N \in Nets /\ Shrinks(F, F)
  BY <1>1, EngineCurrent DEF Shrinks
<1> QED BY <1>1, <1>2, <1>3, <1>4, <1>5, <1>6, <1>7, <1>8, EngineQuiet

\* What is said at the end of a tunnel.
LEMMA ClosingSays ==
  /\ Closing \in Seq(Events) /\ ~Cleaned(Closing)
  /\ \A name : name # "tunnel_down" => ~Has(Closing, Named(name))
  /\ LET t == Closing \o <<Event("release", RELEASE, 0)>>
     IN  /\ t \in Seq(Events) /\ Once(t, Named("release"))
         /\ \A name : Has(t, Named(name)) => name \in {"tunnel_down", "release"}
<1>1. PICK x \in Events : x = Event("tunnel_down", None, 0) /\ x.ev = "tunnel_down"
  BY EventsAre, RequestsAre DEF Names
<1>2. PICK y \in Events : y = Event("release", RELEASE, 0) /\ y.ev = "release"
  BY EventsAre
<1>3. PICK u : u = Closing
  OBVIOUS
<1>4. u = <<x, x>>
  BY <1>1, <1>3 DEF Closing
<1>5. /\ u \in Seq(Events) /\ ~Cleaned(u) /\ \A name : name # "tunnel_down" => ~Has(u, Named(name))
  BY <1>1, <1>4, SaysTwo
<1>6. PICK v : v = <<y>>
  OBVIOUS
<1>7. v \in Seq(Events) /\ Once(v, Named("release")) /\ \A name : Has(v, Named(name)) <=> name = "release"
  BY <1>2, <1>6, SaysOne
<1>8. /\ u \o v \in Seq(Events) /\ Once(u \o v, Named("release"))
      /\ \A name : Has(u \o v, Named(name)) => name \in {"tunnel_down", "release"}
  BY <1>5, <1>7, CatIs, HasCat
<1> QED BY <1>2, <1>3, <1>5, <1>6, <1>8

LEMMA EngineDownStep ==
  ASSUME ChannelInv, NEW a \in AttemptId, NEW restored \in BOOLEAN, EngineDown(a, restored)
  PROVE  ChannelInv'
<1>1. Alive(a) /\ E.pc = "down" /\ E = eng[a] /\ a = ctl.att
  <2>1. Alive(a) /\ eng[a].pc = "down"
    BY DEF EngineDown, Alive
  <2> QED BY <2>1, EngineCurrent
<1>2. N \in Nets /\ Shrinks(F, F) /\ E.pc \notin {"none", "gone"} /\ Shape(E) /\ E \in Engines /\ ~E.refused
  BY <1>1, EngineCurrent DEF Shrinks
<1>3. CASE E.native /\ E.started
  <2> DEFINE e == [E EXCEPT !.pc = "releasing"]
  <2>1. PICK t : t = Closing \o <<Event("release", RELEASE, 0)>>
    OBVIOUS
  <2>2. /\ UNCHANGED <<driver, manager>> /\ eng' = [eng EXCEPT ![ctl.att] = e]
        /\ events' = [events EXCEPT ![ctl.att] = Q \o t] /\ frames' = [frames EXCEPT ![ctl.att] = F]
        /\ net' = [net EXCEPT ![ctl.att] = N]
    BY <1>1, <1>3, <2>1, EngineCurrent DEF EngineDown, Emit
  <2>3. /\ e \in Engines /\ e.pc = "releasing" /\ e.otp = E.otp
        /\ e.started = E.started /\ e.native = E.native /\ e.stale = E.stale /\ e.refused = E.refused
    BY <1>2
  <2> HIDE DEF e
  <2>4. driver /\ Shape(e) /\ ~E.stale
    BY <1>1, <1>2, <1>3, <2>3 DEF Shape
  <2>5. /\ t \in Seq(Events) /\ Once(t, Named("release")) /\ ~Has(t, Named("begin"))
        /\ ~Has(t, Named("challenge")) /\ ~Has(t, Named("plan")) /\ ~Has(t, Named("commit"))
    BY <2>1, ClosingSays, SMTT(30)
  <2>6. /\ ~OtpPlace(E) /\ ~PlanPlace(E) /\ ~ReleasePlace(E) /\ ReleasePlace(e)
        /\ ApplyPlace(E) => ApplyPlace(e)
    BY <1>1, <1>3, <2>3 DEF OtpPlace, PlanPlace, ApplyPlace, ReleasePlace
  <2> QED BY <1>2, <1>3, <2>1, <2>2, <2>3, <2>4, <2>5, <2>6, EngineMoves
<1>4. CASE ~(E.native /\ E.started)
  <2> DEFINE e == [E EXCEPT !.pc = "ending", !.clean = restored]
  <2>1. PICK n : n = IF restored /\ ~E.native THEN "none" ELSE N
    OBVIOUS
  <2>2. /\ UNCHANGED <<driver, manager>> /\ eng' = [eng EXCEPT ![ctl.att] = e]
        /\ events' = [events EXCEPT ![ctl.att] = Q \o Closing] /\ frames' = [frames EXCEPT ![ctl.att] = F]
        /\ net' = [net EXCEPT ![ctl.att] = n]
    <3>1. ~(eng[a].native /\ eng[a].started)
      BY <1>1, <1>4
    <3>2. /\ eng' = [eng EXCEPT ![a].pc = "ending", ![a].clean = restored]
          /\ net' = IF restored /\ ~eng[a].native THEN [net EXCEPT ![a] = "none"] ELSE net
          /\ Emit(a, Closing) /\ UNCHANGED <<driver, manager, frames>>
      BY <3>1, Zenon DEF EngineDown
    <3>3. /\ UNCHANGED <<driver, manager>> /\ eng' = [eng EXCEPT ![ctl.att] = e]
          /\ events' = [events EXCEPT ![ctl.att] = Q \o Closing] /\ frames' = [frames EXCEPT ![ctl.att] = F]
      BY <1>1, <3>2, EngineCurrent, ZenonT(30) DEF Emit
    <3>4. net' = [net EXCEPT ![ctl.att] = n]
      BY <1>1, <2>1, <3>2, EngineCurrent
    <3> QED BY <3>3, <3>4
  <2>3. /\ e \in Engines /\ e.pc = "ending" /\ e.otp = E.otp /\ e.clean = restored
        /\ e.started = E.started /\ e.native = E.native /\ e.stale = E.stale /\ e.refused = E.refused
    BY <1>2
  <2> HIDE DEF e
  <2>4. ~E.started /\ Shape(e) /\ ~E.stale /\ (E.native => driver)
    BY <1>1, <1>2, <1>4, <2>3 DEF Shape
  <2>5. driver => N = "none"
    <3>1. Begun(Q, E) /\ Handshake(N)
      BY DEF ChannelInv
    <3> QED BY <2>4, <3>1 DEF Begun, Handshake
  <2>6. n \in Nets /\ (n = N \/ ~driver) /\ (n # "none" => N # "none") /\ (~driver /\ restored => n = "none")
    BY <1>2, <2>1, <2>4, <2>5 DEF Nets
  <2>7. PICK t \in Seq(Events) : t = Closing
    BY ClosingSays
  <2>8. ~Cleaned(t) /\ \A name \in {"challenge", "plan", "commit", "release", "begin"} : ~Has(t, Named(name))
    BY <2>7, ClosingSays
  <2>9. /\ OtpPlace(E) => OtpPlace(e)
        /\ PlanPlace(E) => PlanPlace(e)
        /\ ~ApplyPlace(E) /\ ~ReleasePlace(E)
    BY <1>1, <2>3, <2>4 DEF OtpPlace, PlanPlace, ApplyPlace, ReleasePlace
  <2> QED BY <1>1, <1>2, <2>2, <2>3, <2>4, <2>6, <2>7, <2>8, <2>9, EngineQuiet
<1> QED BY <1>3, <1>4

\* It moves on, or ends, without an answer to any of its requests.
LEMMA EngineStays ==
  ASSUME ChannelInv, NEW a \in AttemptId, Alive(a), UNCHANGED <<driver, manager, net>>,
         NEW e \in Engines, NEW t \in Seq(Events), NEW g, Shrinks(F, g),
         eng' = [eng EXCEPT ![a] = e], events' = [events EXCEPT ![a] = Q \o t],
         frames' = [frames EXCEPT ![a] = g],
         \/ e.pc = E.pc
         \/ E.pc \in {"io", "up"} /\ e.pc = "down"
         \/ e.pc = "gone",
         e.otp = E.otp, e.started = E.started, e.native = E.native, e.stale = E.stale,
         e.refused = E.refused, e.clean = E.clean,
         \A name \in {"challenge", "plan", "commit", "release", "begin"} : ~Has(t, Named(name)),
         MaxLoss <= 1 /\ ~driver /\ Cleaned(t) => e.pc = "gone" /\ N = "none"
  PROVE  ChannelInv'
<1>1. E = eng[a] /\ a = ctl.att /\ N \in Nets /\ Shape(E) /\ ~E.refused /\ E.pc \notin {"none", "gone"}
  BY EngineCurrent
<1>2. /\ UNCHANGED <<driver, manager>> /\ eng' = [eng EXCEPT ![ctl.att] = e]
      /\ events' = [events EXCEPT ![ctl.att] = Q \o t] /\ frames' = [frames EXCEPT ![ctl.att] = g]
      /\ net' = [net EXCEPT ![ctl.att] = N]
  BY <1>1, EngineCurrent
<1>3. Shape(e) /\ ~e.refused /\ e.pc # "none"
  BY <1>1 DEF Shape
<1>4. /\ OtpPlace(E) => OtpPlace(e)
      /\ PlanPlace(E) => PlanPlace(e)
      /\ ApplyPlace(E) => ApplyPlace(e)
      /\ ReleasePlace(E) => ReleasePlace(e)
  BY DEF OtpPlace, PlanPlace, ApplyPlace, ReleasePlace
<1>5. ~Has(t, Named("begin")) /\ (E.started \/ Has(t, Named("begin")) => e.started)
  OBVIOUS
<1>6. /\ \/ /\ ~Has(t, Named("challenge")) /\ e.otp = E.otp
            /\ (OtpPlace(E) => OtpPlace(e)) \/ TakesSecret(F, g)
         \/ /\ Once(t, Named("challenge")) /\ ~OtpPlace(E) /\ OtpPlace(e)
            /\ ~Has(t, AskingElse(e.otp))
      /\ \/ ~Has(t, Named("plan")) /\ ((PlanPlace(E) => PlanPlace(e)) \/ Takes(F, g, PLAN))
         \/ Once(t, Named("plan")) /\ ~PlanPlace(E) /\ PlanPlace(e)
      /\ \/ ~Has(t, Named("commit")) /\ ((ApplyPlace(E) => ApplyPlace(e)) \/ Takes(F, g, APPLY))
         \/ Once(t, Named("commit")) /\ ~ApplyPlace(E) /\ ApplyPlace(e)
      /\ \/ ~Has(t, Named("release")) /\ ((ReleasePlace(E) => ReleasePlace(e)) \/ Takes(F, g, RELEASE))
         \/ /\ Once(t, Named("release")) /\ ~ReleasePlace(E) /\ ReleasePlace(e)
            /\ t = Closing \o <<Event("release", RELEASE, 0)>>
  BY <1>4
<1>7. MaxLoss <= 1 /\ ~driver =>
        /\ e.pc = "plan" => E.pc = "plan" \/ Has(t, Named("configuring"))
        /\ e.pc \in {"io", "up"} =>
             E.pc \in {"io", "up"} \/ (E.pc = "plan" /\ Has(t, Named("configuring")))
        /\ N # "none" => N # "none" \/ E.pc \in {"io", "up"}
        /\ e.pc = "ending" /\ e.clean => N = "none"
        /\ Cleaned(t) => e.pc = "gone" /\ N = "none"
  <2>1. MaxLoss <= 1 /\ ~driver => (E.pc = "ending" /\ E.clean => N = "none")
    BY DEF ChannelInv, Reliable, Legacy
  <2> QED BY <2>1
<1>8. PICK n \in Nets : n = N
  BY <1>1
<1> QED BY <1>1, <1>2, <1>3, <1>5, <1>6, <1>7, <1>8, EngineMoves

\* The process ends, wherever it is; its last word, if any, is t.
LEMMA EngineGone ==
  ASSUME ChannelInv, NEW a \in AttemptId, Alive(a), UNCHANGED <<driver, manager, net>>,
         NEW code \in {"exit", "crashed", "killed"}, NEW t \in Seq(Events), NEW g, Shrinks(F, g),
         eng' = [eng EXCEPT ![a].pc = "gone", ![a].code = code],
         events' = [events EXCEPT ![a] = Q \o t], frames' = [frames EXCEPT ![a] = g],
         \A name \in {"challenge", "plan", "commit", "release", "begin"} : ~Has(t, Named(name)),
         MaxLoss <= 1 /\ ~driver /\ Cleaned(t) => N = "none"
  PROVE  ChannelInv'
<1>1. E = eng[a] /\ E \in Engines
  BY EngineCurrent
<1> DEFINE e == [E EXCEPT !.pc = "gone", !.code = code]
<1>2. eng' = [eng EXCEPT ![a] = e]
  BY <1>1
<1>3. /\ e \in Engines /\ e.pc = "gone" /\ e.otp = E.otp /\ e.started = E.started
      /\ e.native = E.native /\ e.stale = E.stale /\ e.refused = E.refused /\ e.clean = E.clean
  BY <1>1
<1> HIDE DEF e
<1> QED BY <1>2, <1>3, EngineStays

\* The last word is about the cleanup.
LEMMA EndedSays ==
  ASSUME NEW ok \in BOOLEAN
  PROVE  \E t \in Seq(Events) : /\ t = <<Event("cleanup", None, IF ok THEN 1 ELSE 0)>>
                                /\ Cleaned(t) => ok
                                /\ \A name \in {"challenge", "plan", "commit", "release", "begin"} : ~Has(t, Named(name))
<1>1. PICK k \in Nat : k = (IF ok THEN 1 ELSE 0)
  OBVIOUS
<1>2. PICK x \in Events : x = Event("cleanup", None, k) /\ x.ev = "cleanup" /\ x.arg = k
  BY EventsAre, RequestsAre DEF Names
<1>3. PICK t \in Seq(Events) : t = <<x>>
  BY SaysOne
<1>4. (Cleaned(t) => ok) /\ \A name \in {"challenge", "plan", "commit", "release", "begin"} : ~Has(t, Named(name))
  BY <1>1, <1>2, <1>3, SaysOne
<1> QED BY <1>1, <1>2, <1>3, <1>4

LEMMA EngineEndsStep ==
  ASSUME ChannelInv, NEW a \in AttemptId, EngineEnds(a)
  PROVE  ChannelInv'
<1>1. Alive(a) /\ E.pc = "ending" /\ E = eng[a] /\ a = ctl.att /\ N = net[a] /\ Q = events[a]
  <2>1. Alive(a) /\ eng[a].pc = "ending"
    BY DEF EngineEnds, Alive
  <2> QED BY <2>1, EngineCurrent
<1>2. PICK ok \in BOOLEAN : ok = (E.clean \/ N = "none")
  OBVIOUS
<1>3. PICK t \in Seq(Events) : /\ t = <<Event("cleanup", None, IF ok THEN 1 ELSE 0)>>
                               /\ Cleaned(t) => ok
                               /\ \A name \in {"challenge", "plan", "commit", "release", "begin"} : ~Has(t, Named(name))
  BY EndedSays
<1>4. /\ UNCHANGED <<driver, manager, net>> /\ eng' = [eng EXCEPT ![a].pc = "gone", ![a].code = "exit"]
      /\ events' = [events EXCEPT ![a] = Q \o t] /\ frames' = [frames EXCEPT ![a] = F]
  BY <1>1, <1>2, <1>3, EngineCurrent DEF EngineEnds, Ended, Emit
<1>5. MaxLoss <= 1 /\ ~driver /\ Cleaned(t) => N = "none"
  BY <1>1, <1>2, <1>3 DEF ChannelInv, Reliable, Legacy
<1>6. Shrinks(F, F)
  BY DEF Shrinks
<1> QED BY <1>1, <1>3, <1>4, <1>5, <1>6, EngineGone

LEMMA EngineReleasedStep ==
  ASSUME ChannelInv, NEW a \in AttemptId, NEW timeout \in BOOLEAN, EngineReleased(a, timeout)
  PROVE  ChannelInv'
<1>1. /\ Alive(a) /\ E.pc = "releasing" /\ E = eng[a] /\ a = ctl.att /\ F = frames[a] /\ Q = events[a] /\ N = net[a]
      /\ Shape(E) /\ E \in Engines /\ ~E.refused /\ N \in Nets /\ F \in Seq(Frames)
  <2>1. Alive(a) /\ eng[a].pc = "releasing"
    BY DEF EngineReleased, Alive
  <2> QED BY <2>1, EngineCurrent
<1>2. driver /\ E.started
  BY <1>1 DEF Shape
<1>3. PICK g : /\ Shrinks(F, g) /\ frames' = [frames EXCEPT ![ctl.att] = g]
               /\ ~timeout => F # <<>> /\ Head(F) \in Frames /\ F[1] = Head(F) /\ Len(F) \in Nat \ {0}
               /\ \A req : ~timeout /\ Head(F).req = req => Takes(F, g, req)
  BY <1>1, Waits DEF EngineReleased
<1>4. UNCHANGED <<driver, manager, net>>
  BY DEF EngineReleased
<1>5. ASSUME NEW ok \in BOOLEAN, Ended(a, ok) PROVE ChannelInv'
  <2>1. PICK t \in Seq(Events) : /\ t = <<Event("cleanup", None, IF ok THEN 1 ELSE 0)>>
                                 /\ \A name \in {"challenge", "plan", "commit", "release", "begin"} : ~Has(t, Named(name))
    BY EndedSays
  <2>2. /\ eng' = [eng EXCEPT ![a].pc = "gone", ![a].code = "exit"]
        /\ events' = [events EXCEPT ![a] = Q \o t] /\ frames' = [frames EXCEPT ![a] = g]
    BY <1>1, <1>3, <1>5, <2>1 DEF Ended, Emit
  <2> QED BY <1>1, <1>2, <1>3, <1>4, <2>1, <2>2, EngineGone
<1>6. CASE timeout
  BY <1>5, <1>6 DEF EngineReleased
<1>7. CASE ~timeout /\ Answers(a, "network_result", RELEASE)
  <2>1. PICK ok \in BOOLEAN : ok = (Head(frames[a]).ans = "released")
    OBVIOUS
  <2>2. Ended(a, ok)
    BY <1>7, <2>1 DEF EngineReleased
  <2> QED BY <1>5, <2>2
<1>8. CASE ~timeout /\ ~Answers(a, "network_result", RELEASE)
  <2>1. Head(F).req = APPLY
    <3>1. 1 \in 1..Len(F) /\ F[1] = Head(F) /\ Head(F) \in Frames
      BY <1>3, <1>8
    <3>2. Has(F, Answering(Head(F).req))
      BY <3>1, AnsweringIs DEF Has
    <3>3. ~Has(F, Secrets) /\ ~Has(F, Answering(PLAN))
      BY <1>2 DEF ChannelInv, OtpAsked, PlanAsked, Open, OtpPlace, PlanPlace
    <3>4. Head(F).req \in Otps \cup {PLAN, APPLY, RELEASE} /\ (Head(F).req \in Otps => Has(F, Secrets))
      BY <3>1, FramesAre, SecretsAre DEF Otps, FORM, TOKEN, PLAN, APPLY, RELEASE, Has
    <3>5. Head(F).req # RELEASE
      BY <1>1, <1>3, <1>8, <3>1, FramesAre DEF Answers
    <3> QED BY <3>2, <3>3, <3>4, <3>5
  <2>2. Takes(F, g, APPLY)
    BY <1>3, <1>8, <2>1
  <2>3. ~E.stale
    <3>1. Has(F, Answering(APPLY))
      BY <1>1, <2>2, HasTail DEF Takes
    <3> QED BY <3>1 DEF ChannelInv, ApplyAsked, Open, ApplyPlace
  <2>4. Stale(a)
    BY <1>1, <1>3, <1>8, <2>1, <2>3, FramesAre DEF Stale, Answers
  <2> DEFINE e == [E EXCEPT !.stale = TRUE]
  <2>5. /\ UNCHANGED <<driver, manager>> /\ eng' = [eng EXCEPT ![ctl.att] = e]
        /\ events' = [events EXCEPT ![ctl.att] = Q \o <<>>] /\ net' = [net EXCEPT ![ctl.att] = N]
    BY <1>1, <1>8, <2>4, EngineCurrent DEF EngineReleased
  <2>6. /\ e \in Engines /\ e.pc = "releasing" /\ e.otp = E.otp /\ e.stale
        /\ e.started = E.started /\ e.native = E.native /\ e.refused = E.refused
    BY <1>1
  <2> HIDE DEF e
  <2>7. Shape(e) /\ ~e.refused
    BY <1>1, <2>6 DEF Shape
  <2>8. PICK t \in Seq(Events) : t = <<>>
    BY SaysNothing
  <2>9. ~Cleaned(t) /\ \A name \in {"challenge", "plan", "commit", "release", "begin"} : ~Has(t, Named(name))
    BY <2>8, SaysNothing
  <2>10. ~OtpPlace(E) /\ ~PlanPlace(E) /\ (ReleasePlace(E) => ReleasePlace(e))
    BY <1>2, <2>6 DEF OtpPlace, PlanPlace, ReleasePlace
  <2> QED BY <1>1, <1>2, <1>3, <2>2, <2>5, <2>6, <2>7, <2>8, <2>9, <2>10, EngineQuiet
<1> QED BY <1>6, <1>7, <1>8

LEMMA EngineSignalledStep ==
  ASSUME ChannelInv, NEW a \in AttemptId, EngineSignalled(a)
  PROVE  ChannelInv'
<1>1. /\ Alive(a) /\ E = eng[a] /\ a = ctl.att /\ Q = events[a] /\ N = net[a] /\ Shape(E) /\ E \in Engines
      /\ ~E.refused /\ N \in Nets /\ Shrinks(F, F) /\ Q \o <<>> = Q
      /\ events = [events EXCEPT ![a] = Q \o <<>>] /\ frames = [frames EXCEPT ![a] = F]
      /\ net = [net EXCEPT ![a] = N]
  <2>1. Alive(a)
    BY DEF EngineSignalled, Alive
  <2> QED BY <2>1, EngineCurrent, CatNothing DEF Shrinks
<1>2. UNCHANGED <<driver, manager, frames, net>>
  BY DEF EngineSignalled
<1>3. PICK s \in Seq(Events) : s = <<>>
  BY SaysNothing
<1>4. ~Cleaned(s) /\ \A name \in {"challenge", "plan", "commit", "release", "begin"} : ~Has(s, Named(name))
  BY <1>3, SaysNothing
<1>5. CASE eng' = [eng EXCEPT ![a].pc = "gone", ![a].code = "exit"] /\ UNCHANGED events
  BY <1>1, <1>2, <1>3, <1>4, <1>5, EngineGone
<1>6. CASE E.pc = "releasing" /\ Ended(a, FALSE)
  <2>1. PICK t \in Seq(Events) : /\ t = <<Event("cleanup", None, IF FALSE THEN 1 ELSE 0)>>
                                 /\ ~Cleaned(t)
                                 /\ \A name \in {"challenge", "plan", "commit", "release", "begin"} : ~Has(t, Named(name))
    BY EndedSays
  <2>2. /\ eng' = [eng EXCEPT ![a].pc = "gone", ![a].code = "exit"]
        /\ events' = [events EXCEPT ![a] = Q \o t] /\ frames' = [frames EXCEPT ![a] = F]
    BY <1>1, <1>2, <1>6, <2>1 DEF Ended, Emit
  <2> QED BY <1>1, <1>2, <2>1, <2>2, EngineGone
<1>7. ASSUME NEW e \in Engines, eng' = [eng EXCEPT ![a] = e], UNCHANGED events,
             e.pc = E.pc \/ (E.pc \in {"io", "up"} /\ e.pc = "down"),
             e.otp = E.otp, e.started = E.started, e.native = E.native, e.stale = E.stale,
             e.refused = E.refused, e.clean = E.clean
      PROVE  ChannelInv'
  <2>1. /\ events' = [events EXCEPT ![a] = Q \o s] /\ frames' = [frames EXCEPT ![a] = F]
        /\ UNCHANGED <<driver, manager, net>>
    BY <1>1, <1>2, <1>3, <1>7
  <2>2. PICK g : g = F
    OBVIOUS
  <2>3. /\ \/ e.pc = E.pc
           \/ E.pc \in {"io", "up"} /\ e.pc = "down"
           \/ e.pc = "gone"
        /\ MaxLoss <= 1 /\ ~driver /\ Cleaned(s) => e.pc = "gone" /\ N = "none"
    BY <1>4, <1>7
  <2>4. Alive(a) /\ Shrinks(F, g) /\ frames' = [frames EXCEPT ![a] = g]
    BY <1>1, <2>1, <2>2
  <2> QED BY <1>4, <1>7, <2>1, <2>3, <2>4, EngineStays
<1>8. CASE E.pc \in {"io", "up"} /\ eng' = [eng EXCEPT ![a].pc = "down", ![a].term = FALSE] /\ UNCHANGED events
  <2> DEFINE e == [E EXCEPT !.pc = "down", !.term = FALSE]
  <2>1. eng' = [eng EXCEPT ![a] = e]
    BY <1>1, <1>8
  <2>2. /\ e \in Engines /\ e.pc = "down" /\ e.otp = E.otp /\ e.started = E.started /\ e.native = E.native
        /\ e.stale = E.stale /\ e.refused = E.refused /\ e.clean = E.clean
    BY <1>1, ZenonT(30)
  <2> HIDE DEF e
  <2> QED BY <1>7, <1>8, <2>1, <2>2
<1>9. CASE eng' = [eng EXCEPT ![a].stop = TRUE, ![a].term = FALSE] /\ UNCHANGED events
  <2> DEFINE e == [E EXCEPT !.stop = TRUE, !.term = FALSE]
  <2>1. eng' = [eng EXCEPT ![a] = e]
    BY <1>1, <1>9
  <2>2. /\ e \in Engines /\ e.pc = E.pc /\ e.otp = E.otp /\ e.started = E.started /\ e.native = E.native
        /\ e.stale = E.stale /\ e.refused = E.refused /\ e.clean = E.clean
    BY <1>1
  <2> HIDE DEF e
  <2> QED BY <1>7, <1>9, <2>1, <2>2
<1>10. CASE eng' = [eng EXCEPT ![a].term = FALSE] /\ UNCHANGED events
  <2> DEFINE e == [E EXCEPT !.term = FALSE]
  <2>1. eng' = [eng EXCEPT ![a] = e]
    BY <1>1, <1>10
  <2>2. /\ e \in Engines /\ e.pc = E.pc /\ e.otp = E.otp /\ e.started = E.started /\ e.native = E.native
        /\ e.stale = E.stale /\ e.refused = E.refused /\ e.clean = E.clean
    BY <1>1
  <2> HIDE DEF e
  <2> QED BY <1>7, <1>10, <2>1, <2>2
<1> QED BY <1>1, <1>5, <1>6, <1>8, <1>9, <1>10 DEF EngineSignalled

LEMMA EngineDiesStep ==
  ASSUME ChannelInv, NEW a \in AttemptId, NEW code \in {"crashed", "killed"}, EngineDies(a, code)
  PROVE  ChannelInv'
<1>1. Alive(a) /\ a = ctl.att /\ Shrinks(F, F)
  BY EngineCurrent DEF EngineDies, Shrinks
<1>2. PICK s \in Seq(Events) : s = <<>>
  BY SaysNothing
<1>3. ~Cleaned(s) /\ \A name \in {"challenge", "plan", "commit", "release", "begin"} : ~Has(s, Named(name))
  BY <1>2, SaysNothing
<1>4. /\ UNCHANGED <<driver, manager, net>> /\ eng' = [eng EXCEPT ![a].pc = "gone", ![a].code = code]
      /\ events' = [events EXCEPT ![a] = Q \o s] /\ frames' = [frames EXCEPT ![a] = F]
  BY <1>1, <1>2, EngineCurrent DEF EngineDies
<1> QED BY <1>1, <1>3, <1>4, EngineGone

LEMMA EngineInv ==
  ASSUME ChannelInv, NEW a \in AttemptId, Engine(a)
  PROVE  ChannelInv'
<1>1. {FORM, TOKEN} = Otps
  BY DEF Otps
<1> QED BY <1>1, EngineChallengeStep, EngineEndsStep, EngineAnsweredStep, EngineReleasedStep, EngineGateStep,
     EngineAppliedStep, EngineAuthenticatedStep, EngineConfiguresStep, EngineDownStep, EngineSendsPlanStep,
     EngineLosesTunnelStep, EngineSignalledStep, EngineDiesStep DEF Engine, EngineRuns
-----------------------------------------------------------------------------
(* The manager's steps, which leave the engine's place alone. *)

Alike(d, e) ==
  /\ d.pc = e.pc /\ d.native = e.native /\ d.started = e.started /\ d.stale = e.stale
  /\ d.clean = e.clean /\ d.otp = e.otp /\ d.refused = e.refused

LEMMA AlikePlaces ==
  ASSUME NEW d, NEW e, Alike(d, e)
  PROVE  /\ OtpPlace(d) <=> OtpPlace(e)
         /\ PlanPlace(d) <=> PlanPlace(e)
         /\ ApplyPlace(d) <=> ApplyPlace(e)
         /\ ReleasePlace(d) <=> ReleasePlace(e)
         /\ Shape(d) <=> Shape(e)
<1> USE DEF Alike
<1>1. OtpPlace(d) <=> OtpPlace(e)
  BY DEF OtpPlace
<1>2. PlanPlace(d) <=> PlanPlace(e)
  BY DEF PlanPlace
<1>3. ApplyPlace(d) <=> ApplyPlace(e)
  BY DEF ApplyPlace
<1>4. ReleasePlace(d) <=> ReleasePlace(e)
  BY DEF ReleasePlace
<1>5. Shape(d) <=> Shape(e)
  BY DEF Shape
<1> QED BY <1>1, <1>2, <1>3, <1>4, <1>5

LEMMA CurrentIs ==
  ASSUME ChannelInv
  PROVE  /\ ctl \in Controls /\ ctl.att \in AttemptId /\ reader \in Readers /\ worker \in Tasks /\ chal \in Challenges
         /\ E \in Engines /\ Q \in Seq(Events) /\ F \in Seq(Frames) /\ N \in Nets /\ Alike(E, E)
         /\ eng = [eng EXCEPT ![ctl.att] = E] /\ events = [events EXCEPT ![ctl.att] = Q]
         /\ frames = [frames EXCEPT ![ctl.att] = F] /\ net = [net EXCEPT ![ctl.att] = N]
         /\ user \in [User -> UserAnswers] /\ driver \in BOOLEAN
<1>1. /\ ctl \in Controls /\ ctl.att \in AttemptId /\ reader \in Readers /\ worker \in Tasks /\ chal \in Challenges
      /\ user \in [User -> UserAnswers] /\ driver \in BOOLEAN
      /\ eng \in [AttemptId -> Engines] /\ events \in [AttemptId -> Seq(Events)]
      /\ frames \in [AttemptId -> Seq(Frames)] /\ net \in [AttemptId -> Nets]
  BY DEF ChannelInv, Types, Controls
<1>2. E \in Engines /\ Q \in Seq(Events) /\ F \in Seq(Frames) /\ N \in Nets
  BY <1>1 DEF E, Q, F, N
<1>3. /\ eng = [eng EXCEPT ![ctl.att] = E] /\ events = [events EXCEPT ![ctl.att] = Q]
      /\ frames = [frames EXCEPT ![ctl.att] = F] /\ net = [net EXCEPT ![ctl.att] = N]
  BY <1>1, SameIs DEF E, Q, F, N
<1> QED BY <1>1, <1>2, <1>3 DEF Alike

\* The signal of fail_private_control and disconnect.
LEMMA SignalledIs ==
  ASSUME ChannelInv
  PROVE  \E d \in Engines : Signalled = [eng EXCEPT ![ctl.att] = d] /\ Alike(d, E)
<1>1. E \in Engines /\ E = eng[ctl.att] /\ eng = [eng EXCEPT ![ctl.att] = E]
  BY CurrentIs DEF E
<1>2. CASE ctl.process /\ Alive(ctl.att)
  <2> DEFINE d == [E EXCEPT !.term = TRUE]
  <2>1. Signalled = [eng EXCEPT ![ctl.att] = d]
    BY <1>1, <1>2 DEF Signalled
  <2>2. d \in Engines /\ Alike(d, E)
    BY <1>1 DEF Alike
  <2> QED BY <2>1, <2>2
<1>3. CASE ~(ctl.process /\ Alive(ctl.att))
  BY <1>1, <1>3 DEF Signalled, Alike
<1> QED BY <1>2, <1>3

\* Only the current attempt is concerned.
Elsewhere ==
  \A a \in AttemptId : a # ctl.att =>
    eng'[a] = eng[a] /\ events'[a] = events[a] /\ frames'[a] = frames[a] /\ net'[a] = net[a]

LEMMA ManagerKeeps ==
  ASSUME ChannelInv, Types', Elsewhere, UNCHANGED <<driver, sup, lease>>,
         ctl'.att = ctl.att, ctl'.process = ctl.process, Alike(E', E),
         \A u \in User : \/ user'[u] = user[u] \/ user'[u] = NoAnswer
                         \/ user'[u].a = ctl.att /\ user'[u].out \in Secrets,
         sup.pc # "run" => Q' = <<>> /\ reader' = Resting,
         sup.pc \in {"finish", "done"} => worker' = NoJob,
         N' = N \/ sup.pc # "done"
  PROVE  Others' /\ Course' /\ Shape(E)' /\ (Owned => Owned')
<1>1. Types /\ Others /\ Course /\ Shape(E)
  BY DEF ChannelInv
<1>2. ctl.att \in AttemptId /\ ctl.att \in Nat \ {0} /\ user \in [User -> UserAnswers]
  BY <1>1, RequestsAre DEF Types, Controls
<1>3. E' = eng'[ctl.att] /\ N' = net'[ctl.att]
  BY DEF E, N
<1>4. \A a \in AttemptId : a # ctl.att => /\ eng'[a] = eng[a] /\ events'[a] = events[a]
                                          /\ frames'[a] = frames[a] /\ net'[a] = net[a]
  BY DEF Elsewhere
<1>5. Others'
  <2>1. \A a \in AttemptId : a # ctl'.att => eng'[a].pc \in {"none", "gone"} /\ events'[a] = <<>>
    BY <1>1, <1>4 DEF Others
  <2>2. \A a \in AttemptId : a > ctl'.att => frames'[a] = <<>> /\ net'[a] = "none"
    <3>1. \A a \in AttemptId : a > ctl.att => a # ctl.att
      BY <1>2, RequestsAre
    <3> QED BY <1>1, <1>4, <3>1 DEF Others
  <2>3. \A a \in AttemptId : ~eng'[a].refused
    <3>1. ~eng'[ctl.att].refused
      BY <1>1, <1>2, <1>3 DEF Others, Alike, E
    <3> QED BY <1>1, <1>4, <3>1 DEF Others
  <2>4. \A u \in User : /\ user'[u].a <= ctl'.att
                        /\ user'[u] # NoAnswer => user'[u].a # None /\ user'[u].out \in Secrets
    <3> SUFFICES ASSUME NEW u \in User
                 PROVE  /\ user'[u].a <= ctl.att
                        /\ user'[u] # NoAnswer => user'[u].a # None /\ user'[u].out \in Secrets
      OBVIOUS
    <3>1. NoAnswer.a = 0 /\ None = 0
      BY RestingIs, RequestsAre
    <3> QED BY <1>1, <1>2, <3>1 DEF Others
  <2> QED BY <2>1, <2>2, <2>3, <2>4 DEF Others
<1>6. Course'
  BY <1>1 DEF Course, Alike
<1>7. Shape(E)'
  <2>1. Shape(E')
    BY <1>1, AlikePlaces
  <2> QED BY <2>1 DEF Shape
<1>8. Owned => Owned'
  <2>1. N' # "none" => N # "none" \/ lease = ctl.att
    BY <1>1 DEF Course
  <2> QED BY <1>2, <1>3, <1>4, <2>1 DEF Owned, N
<1> QED BY <1>5, <1>6, <1>7, <1>8

\* How an action's assignments look from there.
LEMMA AssignedIs ==
  ASSUME ChannelInv, NEW d \in Engines, NEW q \in Seq(Events), NEW f \in Seq(Frames), NEW n \in Nets,
         ctl'.att = ctl.att, eng' = [eng EXCEPT ![ctl.att] = d], events' = [events EXCEPT ![ctl.att] = q],
         frames' = [frames EXCEPT ![ctl.att] = f], net' = [net EXCEPT ![ctl.att] = n]
  PROVE  /\ Elsewhere /\ E' = d /\ Q' = q /\ F' = f /\ N' = n
         /\ eng' \in [AttemptId -> Engines] /\ events' \in [AttemptId -> Seq(Events)]
         /\ frames' \in [AttemptId -> Seq(Frames)] /\ net' \in [AttemptId -> Nets]
<1>1. /\ ctl.att \in AttemptId /\ eng \in [AttemptId -> Engines] /\ events \in [AttemptId -> Seq(Events)]
      /\ frames \in [AttemptId -> Seq(Frames)] /\ net \in [AttemptId -> Nets]
  BY DEF ChannelInv, Types, Controls
<1>2. E' = d /\ Q' = q /\ F' = f /\ N' = n
  BY <1>1 DEF E, Q, F, N
<1>3. Elsewhere
  BY <1>1 DEF Elsewhere
<1> QED BY <1>1, <1>2, <1>3
-----------------------------------------------------------------------------
(* The reader takes the head of the output. *)

LEMMA AskedRead ==
  ASSUME NEW q \in Seq(Events), q # <<>>, NEW f, NEW name, NEW req, Asked(q, f, name, req),
         reader.out.req # req, NEW r,
         r.out.req = req => Head(q).ev = name
  PROVE  /\ Once(Tail(q), Named(name)) /\ Once(f, Answering(req))
         /\ Has(Tail(q), Named(name)) => r.out.req # req /\ ~Has(f, Answering(req))
         /\ r.out.req = req => ~Has(f, Answering(req))
         /\ Has(Tail(q), Named(name)) \/ r.out.req = req \/ Has(f, Answering(req)) => Open(q, f, name, req)
<1>1. Head(q) \in Events
  BY TailIs
<1>2. Head(q) \in Named(name) <=> Head(q).ev = name
  BY <1>1, NamedIs
<1>3. /\ Has(Tail(q), Named(name)) => Has(q, Named(name))
      /\ Head(q) \in Named(name) => Has(q, Named(name))
      /\ Once(q, Named(name)) => Once(Tail(q), Named(name))
      /\ Once(q, Named(name)) /\ Head(q) \in Named(name) => ~Has(Tail(q), Named(name))
  BY HasTail
<1> QED BY <1>2, <1>3 DEF Asked, Open

LEMMA AnnouncedRead ==
  ASSUME NEW q \in Seq(Events), q # <<>>, Announced(q), NEW c, ctl' = c,
         ctl.status = "disconnecting" => c.status = "disconnecting",
         ctl.lost > 0 => c.lost > 0,
         Head(q).ev = "tunnel_down" => c.status = "disconnecting" \/ (~(ctl.lost > 0) /\ c.lost > 0)
  PROVE  \A i \in 1..Len(Tail(q)) : Tail(q)[i].ev = "release" =>
           \/ c.status = "disconnecting"
           \/ i > 2 /\ Tail(q)[i - 1].ev = "tunnel_down" /\ Tail(q)[i - 2].ev = "tunnel_down"
           \/ i = 2 /\ Tail(q)[1].ev = "tunnel_down" /\ c.lost > 0
<1> DEFINE r == Tail(q)
<1>1. /\ Len(q) \in Nat \ {0} /\ Len(r) = Len(q) - 1 /\ Head(q) = q[1]
      /\ \A i \in 1..Len(r) : r[i] = q[i + 1]
  BY TailIs
<1> HIDE DEF r
<1> SUFFICES ASSUME NEW i \in 1..Len(r), r[i].ev = "release", c.status # "disconnecting"
             PROVE  \/ i > 2 /\ r[i - 1].ev = "tunnel_down" /\ r[i - 2].ev = "tunnel_down"
                    \/ i = 2 /\ r[1].ev = "tunnel_down" /\ c.lost > 0
  BY DEF r
<1>2. PICK j \in 1..Len(q) : j = i + 1
  BY <1>1
<1>3. q[j].ev = "release" /\ ctl.status # "disconnecting"
  BY <1>1, <1>2
<1>4. \/ j > 2 /\ q[j - 1].ev = "tunnel_down" /\ q[j - 2].ev = "tunnel_down"
      \/ j = 2 /\ q[1].ev = "tunnel_down" /\ ctl.lost > 0
  BY <1>3 DEF Announced
<1>5. ~(j = 2 /\ q[1].ev = "tunnel_down" /\ ctl.lost > 0)
  BY <1>1
<1>6. j > 2 /\ q[j - 1].ev = "tunnel_down" /\ q[j - 2].ev = "tunnel_down" /\ i \in Nat /\ i > 1
  BY <1>1, <1>2, <1>4, <1>5
<1>7. j - 1 = i /\ j - 2 = i - 1
  BY <1>2, <1>6
<1>8. r[i - 1].ev = "tunnel_down"
  <2>1. i - 1 \in 1..Len(r) /\ (i - 1) + 1 = i
    BY <1>1, <1>6
  <2> QED BY <1>1, <1>6, <1>7, <2>1
<1>9. CASE i = 2
  BY <1>1, <1>6, <1>7, <1>8, <1>9
<1>10. CASE i > 2
  <2>1. i - 2 \in 1..Len(r) /\ (i - 2) + 1 = i - 1
    BY <1>1, <1>6, <1>10
  <2>2. r[i - 2].ev = "tunnel_down"
    BY <1>1, <1>6, <1>7, <2>1
  <2> QED BY <1>8, <1>10, <2>2
<1> QED BY <1>6, <1>9, <1>10

\* What is asked and answered stays what the engine asked last.
LEMMA OtpStill ==
  ASSUME ChannelInv, ctl'.att = ctl.att, Alike(E', E),
         ~Has(Q', AskingElse(E.otp)), ~Has(F', AnsweringElse(E.otp)),
         chal' = chal \/ chal' = NoChallenge \/ chal'.req = E.otp,
         \A u \in User : user'[u].a = ctl.att => user'[u] = user[u] \/ user'[u].out.req = E.otp
  PROVE  OtpCurrent(Q, F, E.otp)'
<1>1. OtpCurrent(Q, F, E.otp)
  BY DEF ChannelInv, OtpAsked
<1>2. E'.otp = E.otp
  BY DEF Alike
<1>3. ~Has(Q', AskingElse(E'.otp)) /\ ~Has(F', AnsweringElse(E'.otp))
  BY <1>2
<1>4. chal' # NoChallenge => chal'.req = E'.otp
  BY <1>1, <1>2 DEF OtpCurrent
<1>5. \A u \in User : user'[u].a = ctl'.att => user'[u].out.req = E'.otp
  BY <1>1, <1>2 DEF OtpCurrent
<1> QED BY <1>3, <1>4, <1>5 DEF OtpCurrent, Has, AskingElse, AnsweringElse, Named, Secrets, Events, Frames

\* What the reader may make of a record, where one at most is lost.
Follows ==
  /\ ctl.status = "disconnecting" => ctl'.status = "disconnecting"
  /\ ctl.lost > 0 => ctl'.lost > 0
  /\ Head(Q).ev = "tunnel_down" => ctl'.status = "disconnecting" \/ (~(ctl.lost > 0) /\ ctl'.lost > 0)
  /\ ~driver /\ Head(Q).ev = "configuring" => Suspect' \/ (~(ctl.lost > 0) /\ ctl'.lost > 0)
  /\ ~driver /\ Suspect => Suspect' \/ (E.pc = "gone" /\ N = "none")

LEMMA ReadStep ==
  ASSUME ChannelInv, reader.pc = "idle", Q # <<>>, Types', Elsewhere, Q' = Tail(Q), F' = F, N' = N,
         Alike(E', E), UNCHANGED <<driver, sup, lease, user>>, ctl'.att = ctl.att, ctl'.process = ctl.process,
         Jobs', Handshake(N)', Decided(F)',
         Started(ctl'.adm) => Started(ctl.adm) \/ Head(Q).ev = "begin",
         \/ chal' = chal \/ chal' = NoChallenge
         \/ Head(Q).ev = "challenge" /\ chal' = [a |-> ctl.att, req |-> Head(Q).req],
         reader'.out.req = PLAN => Head(Q).ev = "plan",
         reader'.out.req = APPLY => Head(Q).ev = "commit",
         reader'.out.req = RELEASE => Head(Q).ev = "release",
         MaxLoss <= 1 => Follows /\ Shown(N)'
  PROVE  ChannelInv'
<1> DEFINE q == Tail(Q)
<1>1. E \in Engines /\ Q \in Seq(Events) /\ F \in Seq(Frames) /\ N \in Nets
  BY CurrentIs
<1>2. q \in Seq(Events) /\ Head(Q) \in Events
  BY <1>1, TailIs
<1>3. /\ sup.pc = "run" /\ ctl.process /\ reader = Resting /\ reader.out.req = None
      /\ OtpAsked(Q, F, E) /\ PlanAsked(Q, F, E) /\ ApplyAsked(Q, F, E) /\ ReleaseAsked(Q, F, E) /\ Begun(Q, E)
      /\ MaxLoss <= 1 => Reliable(Q, E, N) /\ Owned
  BY RestingIs, FramesAre DEF ChannelInv, Course, Jobs
<1>4. Others' /\ Course' /\ Shape(E)' /\ (Owned => Owned')
  <2>1. \A u \in User : \/ user'[u] = user[u] \/ user'[u] = NoAnswer
                        \/ user'[u].a = ctl.att /\ user'[u].out \in Secrets
    OBVIOUS
  <2> QED BY <1>3, <2>1, ManagerKeeps
<1>c. PICK c, r, h, d : c = ctl' /\ r = reader' /\ h = chal' /\ d = E'
  OBVIOUS
<1>d. Q' = q /\ E' = d /\ ctl' = c /\ reader' = r /\ chal' = h /\ Alike(d, E)
  BY <1>c
<1> USE <1>d
<1> HIDE DEF q
<1>5. /\ OtpPlace(d) <=> OtpPlace(E)
      /\ PlanPlace(d) <=> PlanPlace(E)
      /\ ApplyPlace(d) <=> ApplyPlace(E)
      /\ ReleasePlace(d) <=> ReleasePlace(E)
  BY AlikePlaces
<1>6. /\ \A name : Head(Q) \in Named(name) <=> Head(Q).ev = name
      /\ \A S : /\ Has(q, S) => Has(Q, S)
                /\ Head(Q) \in S => Has(Q, S)
                /\ Once(Q, S) => Once(q, S)
                /\ Once(Q, S) /\ Head(Q) \in S => ~Has(q, S)
                /\ Has(Q, S) /\ Head(Q) \notin S => Has(q, S)
                /\ Twice(Q, S) => Has(q, S)
                /\ Twice(Q, S) /\ Head(Q) \notin S => Twice(q, S)
  BY <1>1, <1>2, HasTail, NamedIs DEF q
<1>7. (OtpAsked(Q, F, E))'
  <2>1. /\ Once(q, Named("challenge")) /\ (Has(q, Named("challenge")) => Has(Q, Named("challenge")) /\ Head(Q).ev # "challenge")
        /\ Head(Q).ev = "challenge" => Has(Q, Named("challenge"))
    BY <1>3, <1>6 DEF OtpAsked
  <2>2. Asking' <=> Asking
    BY DEF Asking
  <2>3. Head(Q).ev = "challenge" => Head(Q).req \in Otps /\ Head(Q).req = E.otp
    <3> SUFFICES ASSUME Head(Q).ev = "challenge"
                 PROVE  Head(Q).req \in Otps /\ Head(Q).req = E.otp
      OBVIOUS
    <3>1. ~Has(Q, AskingElse(E.otp))
      BY <1>3 DEF OtpAsked, OtpCurrent
    <3>2. Head(Q) \notin AskingElse(E.otp)
      BY <1>6, <3>1
    <3> QED BY <1>2, <1>6, <3>2, EventsAre DEF AskingElse
  <2>4. /\ Once(q, Named("challenge")) /\ Once(F, Secrets)
        /\ h # NoChallenge => h.a = ctl.att /\ h.req \in Otps /\ c.process
        /\ Has(q, Named("challenge")) => h = NoChallenge /\ ~Asking /\ ~Has(F, Secrets)
        /\ h # NoChallenge => ~Asking /\ ~Has(F, Secrets)
        /\ Asking => ~Has(F, Secrets)
        /\ Has(q, Named("challenge")) \/ h # NoChallenge \/ Asking \/ Has(F, Secrets) => OtpPlace(d)
    <3>1. /\ Once(Q, Named("challenge")) /\ Once(F, Secrets) /\ c.process
          /\ chal # NoChallenge => chal.a = ctl.att /\ chal.req \in Otps
          /\ Has(Q, Named("challenge")) => chal = NoChallenge /\ ~Asking /\ ~Has(F, Secrets)
          /\ chal # NoChallenge => ~Asking /\ ~Has(F, Secrets)
          /\ Asking => ~Has(F, Secrets)
          /\ Has(Q, Named("challenge")) \/ chal # NoChallenge \/ Asking \/ Has(F, Secrets) => OtpPlace(d)
      BY <1>3, <1>5 DEF OtpAsked
    <3>2. CASE h = chal \/ h = NoChallenge
      BY <2>1, <3>1, <3>2
    <3>3. CASE Head(Q).ev = "challenge" /\ h = [a |-> ctl.att, req |-> Head(Q).req]
      BY <2>1, <2>3, <3>1, <3>3
    <3> QED BY <3>2, <3>3
  <2>5. OtpPlace(E)' <=> OtpPlace(d)
    BY <1>4 DEF OtpPlace
  <2>6. \A u, v \in User : user'[u].a = ctl'.att /\ user'[v].a = ctl'.att => u = v
    BY <1>3 DEF OtpAsked
  <2>7. OtpCurrent(Q, F, E.otp)'
    <3>1. ~Has(Q, AskingElse(E.otp)) /\ ~Has(F, AnsweringElse(E.otp))
      BY <1>3 DEF OtpAsked, OtpCurrent
    <3>2. ~Has(q, AskingElse(E.otp))
      BY <1>6, <3>1
    <3>3. chal' = chal \/ chal' = NoChallenge \/ chal'.req = E.otp
      BY <2>3
    <3> QED BY <3>1, <3>2, <3>3, OtpStill
  <2> QED BY <1>4, <2>2, <2>4, <2>5, <2>6, <2>7 DEF OtpAsked
<1>8. (PlanAsked(Q, F, E))'
  <2>1. /\ Once(q, Named("plan")) /\ Once(F, Answering(PLAN))
        /\ Has(q, Named("plan")) => r.out.req # PLAN /\ ~Has(F, Answering(PLAN))
        /\ r.out.req = PLAN => ~Has(F, Answering(PLAN))
        /\ Has(q, Named("plan")) \/ r.out.req = PLAN \/ Has(F, Answering(PLAN)) => Open(Q, F, "plan", PLAN)
    BY <1>1, <1>3, AskedRead, RequestsAre DEF PlanAsked, q
  <2>2. PlanPlace(E)' <=> PlanPlace(d)
    BY <1>4 DEF PlanPlace
  <2>3. Open(Q, F, "plan", PLAN) => PlanPlace(d)
    BY <1>3, <1>5 DEF PlanAsked
  <2> QED BY <1>4, <2>1, <2>2, <2>3 DEF PlanAsked, Asked, Open
<1>9. (ApplyAsked(Q, F, E))'
  <2>1. /\ Once(q, Named("commit")) /\ Once(F, Answering(APPLY))
        /\ Has(q, Named("commit")) => r.out.req # APPLY /\ ~Has(F, Answering(APPLY))
        /\ r.out.req = APPLY => ~Has(F, Answering(APPLY))
        /\ Has(q, Named("commit")) \/ r.out.req = APPLY \/ Has(F, Answering(APPLY)) => Open(Q, F, "commit", APPLY)
    BY <1>1, <1>3, AskedRead, RequestsAre DEF ApplyAsked, q
  <2>2. ApplyPlace(E)' <=> ApplyPlace(d)
    BY <1>4 DEF ApplyPlace
  <2>3. Open(Q, F, "commit", APPLY) => ApplyPlace(d)
    BY <1>3, <1>5 DEF ApplyAsked
  <2> QED BY <1>4, <2>1, <2>2, <2>3 DEF ApplyAsked, Asked, Open
<1>10. (ReleaseAsked(Q, F, E))'
  <2>1. /\ Once(q, Named("release")) /\ Once(F, Answering(RELEASE))
        /\ Has(q, Named("release")) => r.out.req # RELEASE /\ ~Has(F, Answering(RELEASE))
        /\ r.out.req = RELEASE => ~Has(F, Answering(RELEASE))
        /\ Has(q, Named("release")) \/ r.out.req = RELEASE \/ Has(F, Answering(RELEASE)) => Open(Q, F, "release", RELEASE)
    BY <1>1, <1>3, AskedRead, RequestsAre, SMTT(30) DEF ReleaseAsked, q
  <2>2. ReleasePlace(E)' <=> ReleasePlace(d)
    BY <1>4 DEF ReleasePlace
  <2>3. Open(Q, F, "release", RELEASE) => ReleasePlace(d)
    BY <1>3, <1>5 DEF ReleaseAsked
  <2> QED BY <1>4, <2>1, <2>2, <2>3 DEF ReleaseAsked, Asked, Open
<1>11. Begun(Q, E)'
  <2>1. Has(q, Named("begin")) \/ Started(c.adm) => d.started
    BY <1>3, <1>6 DEF Begun, Alike
  <2> QED BY <1>4, <2>1 DEF Begun, Started
<1>12. ASSUME MaxLoss <= 1 PROVE Reliable(Q, E, N)' /\ Owned'
  <2>1. Follows /\ Shown(N)' /\ Announced(Q) /\ (~driver => Legacy(Q, E, N)) /\ Owned
    BY <1>3, <1>12 DEF Reliable
  <2>2. Announced(Q)'
    <3>2. /\ ctl.status = "disconnecting" => c.status = "disconnecting"
          /\ ctl.lost > 0 => c.lost > 0
          /\ Head(Q).ev = "tunnel_down" => c.status = "disconnecting" \/ (~(ctl.lost > 0) /\ c.lost > 0)
      BY <2>1 DEF Follows
    <3>1. \A i \in 1..Len(q) : q[i].ev = "release" =>
            \/ c.status = "disconnecting"
            \/ i > 2 /\ q[i - 1].ev = "tunnel_down" /\ q[i - 2].ev = "tunnel_down"
            \/ i = 2 /\ q[1].ev = "tunnel_down" /\ c.lost > 0
      BY <1>1, <2>1, <3>2, AnnouncedRead, Zenon DEF q
    <3> QED BY <1>4, <3>1 DEF Announced
  <2>3. ASSUME ~driver PROVE Legacy(Q, E, N)'
    <3> DEFINE C == Named("configuring")
    <3>1. /\ Head(Q) \in C => Suspect' \/ (~(ctl.lost > 0) /\ c.lost > 0)
          /\ Suspect => Suspect' \/ (E.pc = "gone" /\ N = "none")
          /\ ctl.lost > 0 => c.lost > 0
      BY <1>6, <2>1, <2>3 DEF Follows
    <3>2. /\ Has(Q, C) /\ Head(Q) \notin C => Has(q, C)
          /\ Twice(Q, C) => Has(q, C)
          /\ Twice(Q, C) /\ Head(Q) \notin C => Twice(q, C)
      BY <1>6
    <3> HIDE DEF C
    <3>3. Warned(Q) => Suspect' \/ Has(q, C) \/ c.lost > 0 \/ (E.pc = "gone" /\ N = "none")
      BY <3>1, <3>2 DEF Warned, C
    <3>4. WarnedTwice(Q) => Suspect' \/ Twice(q, C) \/ (Has(q, C) /\ c.lost > 0) \/ (E.pc = "gone" /\ N = "none")
      BY <3>1, <3>2 DEF WarnedTwice, C
    <3>5. (Suspect' \/ Has(q, C) \/ c.lost > 0 => Warned(Q)')
          /\ (Suspect' \/ Twice(q, C) \/ (Has(q, C) /\ c.lost > 0) => WarnedTwice(Q)')
      BY <1>4 DEF Warned, WarnedTwice, C
    <3>6. Cleaned(Q)' => Cleaned(Q)
      <4>1. /\ Len(Q) \in Nat \ {0} /\ Len(q) = Len(Q) - 1 /\ \A i \in 1..Len(q) : q[i] = Q[i + 1]
        BY <1>1, TailIs DEF q
      <4>2. \A i \in 1..Len(q) : i + 1 \in 1..Len(Q)
        BY <4>1
      <4> QED BY <1>4, <4>1, <4>2 DEF Cleaned
    <3>7. d.pc = E.pc /\ d.clean = E.clean
      BY DEF Alike
    <3>8. /\ d.pc = "plan" => Warned(Q)'
          /\ d.pc \in {"io", "up"} \/ N # "none" => WarnedTwice(Q)'
          /\ d.pc = "ending" /\ d.clean => N = "none"
          /\ Cleaned(Q)' => d.pc = "gone" /\ N = "none"
      BY <1>3, <2>1, <2>3, <3>3, <3>4, <3>5, <3>6, <3>7 DEF Legacy
    <3> QED BY <1>3, <1>4, <3>8 DEF Legacy
  <2> QED BY <1>4, <2>1, <2>2, <2>3 DEF Reliable
<1> QED BY <1>4, <1>7, <1>8, <1>9, <1>10, <1>11, <1>12 DEF ChannelInv

\* An event that starts no work and is answered by nobody.
LEMMA ReadQuiet ==
  ASSUME ChannelInv, reader.pc = "idle", Q # <<>>, ctl' \in Controls, chal' \in Challenges,
         ctl'.att = ctl.att, ctl'.process = ctl.process, ctl'.sel = ctl.sel, ctl'.applied = ctl.applied,
         ctl'.released = ctl.released, ctl'.adm.done = ctl.adm.done, ctl.adm.done => ctl'.adm = ctl.adm,
         Started(ctl'.adm) => Started(ctl.adm) \/ (ctl.sel /\ Head(Q).ev = "begin"),
         eng' = eng \/ eng' = Signalled, reader' = reader \/ reader' = Resting,
         events' = [events EXCEPT ![ctl.att] = Tail(Q)],
         UNCHANGED <<driver, worker, sup, lease, user, frames, net>>,
         \/ chal' = chal \/ chal' = NoChallenge
         \/ Head(Q).ev = "challenge" /\ chal' = [a |-> ctl.att, req |-> Head(Q).req],
         MaxLoss <= 1 => Follows /\ (driver /\ ctl'.status = "connected" => ctl.applied)
  PROVE  ChannelInv'
<1>1. /\ E \in Engines /\ Q \in Seq(Events) /\ F \in Seq(Frames) /\ N \in Nets
      /\ frames' = [frames EXCEPT ![ctl.att] = F] /\ net' = [net EXCEPT ![ctl.att] = N]
      /\ user' \in [User -> UserAnswers] /\ Tail(Q) \in Seq(Events)
  BY CurrentIs, TailIs
<1>2. PICK d \in Engines : eng' = [eng EXCEPT ![ctl.att] = d] /\ Alike(d, E)
  BY CurrentIs, SignalledIs
<1>3. /\ reader = Resting /\ reader' = Resting /\ reader.out = NoFrame /\ reader.ev.ev = "none"
      /\ Jobs /\ Handshake(N) /\ Decided(F) /\ Types
      /\ MaxLoss <= 1 => Shown(N)
  BY RestingIs DEF ChannelInv, Jobs, Reliable
<1>4. /\ Elsewhere /\ E' = d /\ Q' = Tail(Q) /\ F' = F /\ N' = N
      /\ eng' \in [AttemptId -> Engines] /\ events' \in [AttemptId -> Seq(Events)]
      /\ frames' \in [AttemptId -> Seq(Frames)] /\ net' \in [AttemptId -> Nets]
  BY <1>1, <1>2, AssignedIs, ZenonT(30)
<1>5. Types'
  BY <1>1, <1>3, <1>4, RestingIs DEF Types
<1>6. Jobs'
  BY <1>3 DEF Jobs
<1>7. Handshake(N)'
  BY <1>3, <1>4, RestingIs DEF Handshake, Started
<1>8. Decided(F)'
  <2>1. reader' = reader /\ F' = F /\ driver' = driver
    BY <1>3, <1>4
  <2> QED BY <1>3, <2>1 DEF Decided, Excluded
<1>9. reader'.out.req = None
  BY <1>3, RestingIs, FramesAre
<1>10. MaxLoss <= 1 => Follows /\ Shown(N)'
  <2>1. ASSUME MaxLoss <= 1 PROVE Follows /\ Shown(N)'
    <3>1. Follows /\ Shown(N) /\ (driver /\ ctl'.status = "connected" => ctl.applied)
      BY <1>3, <2>1
    <3>2. ctl.status = "disconnecting" => ctl'.status = "disconnecting"
      BY <3>1 DEF Follows
    <3>3. Shown(N)'
      BY <1>3, <1>4, <3>1, <3>2 DEF Shown
    <3> QED BY <3>1, <3>3
  <2> QED BY <2>1
<1>11. Alike(E', E) /\ UNCHANGED <<driver, sup, lease, user>>
  BY <1>2, <1>4
<1>12. Started(ctl'.adm) => Started(ctl.adm) \/ Head(Q).ev = "begin"
  OBVIOUS
<1>13. reader'.out.req \notin {PLAN, APPLY, RELEASE}
  BY <1>9, RequestsAre
<1> QED BY <1>4, <1>5, <1>6, <1>7, <1>8, <1>10, <1>11, <1>12, <1>13, ReadStep

\* What fail_private_control leaves.
LEMMA FailedIs ==
  ASSUME ChannelInv
  PROVE  /\ FailedControl \in Controls /\ FailedControl.att = ctl.att /\ FailedControl.process = ctl.process
         /\ FailedControl.sel = ctl.sel /\ FailedControl.applied = ctl.applied /\ FailedControl.released = ctl.released
         /\ FailedControl.adm = ctl.adm /\ FailedControl.status = ctl.status /\ FailedControl.lost = ctl.lost
         /\ FailedControl.failed
<1>1. ctl \in Controls
  BY CurrentIs
<1>2. FailedControl \in Controls
  BY <1>1 DEF Controls, FailedControl
<1> QED BY <1>1, <1>2 DEF Controls, FailedControl

LEMMA ReadFails ==
  ASSUME ChannelInv, reader.pc = "idle", Q # <<>>, FailPrivateControl, Head(Q).ev # "tunnel_down",
         events' = [events EXCEPT ![ctl.att] = Tail(Q)],
         UNCHANGED <<driver, chal, worker, sup, lease, user, frames, net>>
  PROVE  ChannelInv'
<1>1. /\ ctl' \in Controls /\ ctl'.att = ctl.att /\ ctl'.process = ctl.process /\ ctl'.sel = ctl.sel
      /\ ctl'.applied = ctl.applied /\ ctl'.released = ctl.released /\ ctl'.adm = ctl.adm
      /\ ctl'.status = ctl.status /\ ctl'.lost = ctl.lost /\ ctl'.failed
  BY FailedIs DEF FailPrivateControl
<1>2. reader' = Resting /\ eng' = Signalled /\ chal' = chal /\ chal' \in Challenges
  BY CurrentIs DEF FailPrivateControl
<1>3. Suspect'
  BY <1>1 DEF Suspect
<1>4. MaxLoss <= 1 => Follows /\ (driver /\ ctl'.status = "connected" => ctl.applied)
  BY <1>1, <1>3 DEF Follows, ChannelInv, Reliable, Shown
<1>5. ctl'.adm.done = ctl.adm.done /\ (ctl.adm.done => ctl'.adm = ctl.adm) /\ (Started(ctl'.adm) => Started(ctl.adm))
  BY <1>1
<1> QED BY <1>1, <1>2, <1>4, <1>5, ReadQuiet

LEMMA ReadingIs ==
  ASSUME ChannelInv, NEW name, Reading(name)
  PROVE  /\ reader.pc = "idle" /\ Q # <<>> /\ Head(Q).ev = name /\ Head(Q) \in Events /\ Current = Head(Q)
         /\ events' = [events EXCEPT ![ctl.att] = Tail(Q)]
<1>1. Q \in Seq(Events) /\ Q = events[ctl.att]
  BY CurrentIs DEF Q
<1> QED BY <1>1, TailIs DEF Reading, Current

\* The fields of the control that a reading event leaves alone.
SameControl ==
  /\ ctl'.att = ctl.att /\ ctl'.process = ctl.process /\ ctl'.sel = ctl.sel /\ ctl'.applied = ctl.applied
  /\ ctl'.released = ctl.released

LEMMA ReadStateStep ==
  ASSUME ChannelInv, ReadState
  PROVE  ChannelInv'
<1>1. ctl \in Controls /\ chal' = chal /\ chal' \in Challenges /\ eng' = eng /\ reader' = reader
      /\ UNCHANGED <<driver, worker, sup, lease, user, frames, net>>
  BY CurrentIs DEF ReadState
<1>2. CASE Reading("configuring") /\ ctl' = [ctl EXCEPT !.pending = TRUE]
  <2>1. /\ ctl' \in Controls /\ SameControl /\ ctl'.adm = ctl.adm
        /\ ctl'.status = ctl.status /\ ctl'.lost = ctl.lost /\ ctl'.pending
    BY <1>1, <1>2 DEF Controls, SameControl
  <2>2. /\ reader.pc = "idle" /\ Q # <<>> /\ Head(Q).ev = "configuring"
        /\ events' = [events EXCEPT ![ctl.att] = Tail(Q)]
    BY <1>2, ReadingIs
  <2>3. MaxLoss <= 1 => Follows /\ (driver /\ ctl'.status = "connected" => ctl.applied)
    BY <2>1, <2>2 DEF Follows, Suspect, ChannelInv, Reliable, Shown
  <2>4. ctl'.adm.done = ctl.adm.done /\ (ctl.adm.done => ctl'.adm = ctl.adm) /\ (Started(ctl'.adm) => Started(ctl.adm))
    BY <2>1
  <2> QED BY <1>1, <2>1, <2>2, <2>3, <2>4, ReadQuiet DEF SameControl
<1>3. CASE Reading("tunnel_down") /\ ctl' = [ctl EXCEPT !.status = "disconnecting"]
  <2>1. /\ ctl' \in Controls /\ SameControl /\ ctl'.adm = ctl.adm
        /\ ctl'.status = "disconnecting" /\ ctl'.lost = ctl.lost /\ ctl'.failed = ctl.failed
        /\ ctl'.pending = ctl.pending /\ ctl'.whole = ctl.whole
    BY <1>1, <1>3 DEF Controls, Statuses, SameControl
  <2>2. /\ reader.pc = "idle" /\ Q # <<>> /\ Head(Q).ev = "tunnel_down"
        /\ events' = [events EXCEPT ![ctl.att] = Tail(Q)]
    BY <1>3, ReadingIs
  <2>3. MaxLoss <= 1 => Follows /\ (driver /\ ctl'.status = "connected" => ctl.applied)
    BY <2>1, <2>2 DEF Follows, Suspect
  <2>4. ctl'.adm.done = ctl.adm.done /\ (ctl.adm.done => ctl'.adm = ctl.adm) /\ (Started(ctl'.adm) => Started(ctl.adm))
    BY <2>1
  <2> QED BY <1>1, <2>1, <2>2, <2>3, <2>4, ReadQuiet DEF SameControl
<1> QED BY <1>2, <1>3 DEF ReadState

LEMMA ReadGarbledStep ==
  ASSUME ChannelInv, NEW noticed \in BOOLEAN, ReadGarbled(noticed)
  PROVE  ChannelInv'
<1>1. /\ ctl \in Controls /\ ctl.lost \in Nat /\ chal' = chal /\ chal' \in Challenges /\ eng' = eng /\ reader' = reader
      /\ UNCHANGED <<driver, worker, sup, lease, user, frames, net>> /\ Q = events[ctl.att]
  BY CurrentIs DEF ReadGarbled, Controls, Q
<1>2. /\ ctl' \in Controls /\ SameControl /\ ctl'.adm = ctl.adm
      /\ ctl'.status = ctl.status /\ ctl'.lost = ctl.lost + 1 /\ ctl'.failed = ctl.failed
      /\ ctl'.pending = ctl.pending /\ ctl'.whole = (ctl.whole /\ ~noticed)
  <2>1. PICK b \in BOOLEAN : b = (ctl.whole /\ ~noticed)
    OBVIOUS
  <2>2. PICK k \in Nat : k = ctl.lost + 1
    BY <1>1
  <2>3. ctl' = [ctl EXCEPT !.whole = b, !.lost = k]
    BY <2>1, <2>2 DEF ReadGarbled
  <2>4. ctl' \in Controls
    BY <1>1, <2>3 DEF Controls
  <2> QED BY <1>1, <2>1, <2>2, <2>3, <2>4 DEF Controls, SameControl
<1>3. /\ reader.pc = "idle" /\ Q # <<>> /\ ctl.lost < MaxLoss
      /\ events' = [events EXCEPT ![ctl.att] = Tail(Q)]
  BY <1>1 DEF ReadGarbled
<1>4. MaxLoss <= 1 => Follows /\ (driver /\ ctl'.status = "connected" => ctl.applied)
  <2>1. ASSUME MaxLoss <= 1
        PROVE  ~(ctl.lost > 0) /\ ctl'.lost > 0
    BY <1>1, <1>2, <1>3, <2>1, ChannelAssumption
  <2> QED BY <1>2, <2>1 DEF Follows, Suspect, ChannelInv, Reliable, Shown
<1>5. ctl'.adm.done = ctl.adm.done /\ (ctl.adm.done => ctl'.adm = ctl.adm) /\ (Started(ctl'.adm) => Started(ctl.adm))
  BY <1>2
<1> QED BY <1>1, <1>2, <1>3, <1>4, <1>5, ReadQuiet DEF SameControl

LEMMA ReadTunnelUpStep ==
  ASSUME ChannelInv, ReadTunnelUp
  PROVE  ChannelInv'
<1>1. /\ ctl \in Controls /\ chal' = chal /\ chal' \in Challenges
      /\ UNCHANGED <<driver, worker, sup, lease, user, frames, net>>
  BY CurrentIs DEF ReadTunnelUp
<1>2. /\ reader.pc = "idle" /\ Q # <<>> /\ Head(Q).ev = "tunnel_up"
      /\ events' = [events EXCEPT ![ctl.att] = Tail(Q)]
  BY ReadingIs DEF ReadTunnelUp
<1>3. CASE NativeReady
  <2>1. /\ eng' = eng /\ reader' = reader
        /\ ctl' = IF ctl.status = "disconnecting" THEN ctl ELSE [ctl EXCEPT !.status = "connected"]
    BY <1>3 DEF ReadTunnelUp
  <2>2. /\ ctl' \in Controls /\ SameControl /\ ctl'.adm = ctl.adm
        /\ ctl.status = "disconnecting" => ctl'.status = "disconnecting"
        /\ ctl'.lost = ctl.lost /\ ctl'.failed = ctl.failed
        /\ ctl'.pending = ctl.pending /\ ctl'.whole = ctl.whole
    BY <1>1, <2>1 DEF Controls, Statuses, SameControl
  <2>3. driver => ctl.applied
    BY <1>3 DEF NativeReady
  <2>4. MaxLoss <= 1 => Follows /\ (driver /\ ctl'.status = "connected" => ctl.applied)
    BY <1>2, <2>2, <2>3 DEF Follows, Suspect
  <2>5. ctl'.adm.done = ctl.adm.done /\ (ctl.adm.done => ctl'.adm = ctl.adm) /\ (Started(ctl'.adm) => Started(ctl.adm))
    BY <2>2
  <2> QED BY <1>1, <1>2, <2>1, <2>2, <2>4, <2>5, ReadQuiet DEF SameControl
<1>4. CASE ~NativeReady
  <2>1. FailPrivateControl /\ UNCHANGED <<driver, chal, worker, sup, lease, user, frames, net>>
    BY <1>4 DEF ReadTunnelUp
  <2> QED BY <1>2, <2>1, ReadFails
<1> QED BY <1>3, <1>4

LEMMA ReadCleanupStep ==
  ASSUME ChannelInv, ReadCleanup
  PROVE  ChannelInv'
<1>1. /\ ctl \in Controls /\ chal' = chal /\ chal' \in Challenges /\ reader' = reader
      /\ UNCHANGED <<driver, worker, sup, lease, user, frames, net>>
  BY CurrentIs DEF ReadCleanup
<1>2. /\ reader.pc = "idle" /\ Q # <<>> /\ Head(Q).ev = "cleanup" /\ Current = Head(Q)
      /\ events' = [events EXCEPT ![ctl.att] = Tail(Q)]
  BY ReadingIs DEF ReadCleanup
<1>3. PICK ok \in BOOLEAN : ok = (Current.arg = 1)
  OBVIOUS
<1>4. PICK seen : seen = [ctl EXCEPT !.failed = ctl.failed \/ ~ok, !.pending = ctl.failed \/ ~ok]
  OBVIOUS
<1>5. (ctl' = seen /\ eng' = eng) \/ (ctl' = [seen EXCEPT !.failed = TRUE, !.desired = FALSE] /\ eng' = Signalled)
  BY <1>3, <1>4 DEF ReadCleanup
<1>6. /\ seen \in Controls /\ seen.att = ctl.att /\ seen.process = ctl.process /\ seen.sel = ctl.sel
      /\ seen.applied = ctl.applied /\ seen.released = ctl.released /\ seen.adm = ctl.adm
      /\ seen.status = ctl.status /\ seen.lost = ctl.lost /\ seen.whole = ctl.whole
      /\ seen.failed = (ctl.failed \/ ~ok)
  <2>1. ctl.failed \in BOOLEAN
    BY <1>1 DEF Controls
  <2>2. seen \in Controls
    BY <1>1, <1>4, <2>1 DEF Controls
  <2> QED BY <1>1, <1>4, <2>2 DEF Controls
<1>7. /\ ctl' \in Controls /\ SameControl /\ ctl'.adm = ctl.adm
      /\ ctl'.status = ctl.status /\ ctl'.lost = ctl.lost /\ ctl'.whole = ctl.whole
      /\ ctl.failed \/ ~ok => ctl'.failed
  <2>1. CASE ctl' = seen
    BY <1>6, <2>1 DEF SameControl
  <2>2. CASE ctl' = [seen EXCEPT !.failed = TRUE, !.desired = FALSE]
    <3>1. ctl' \in Controls
      BY <1>6, <2>2 DEF Controls
    <3> QED BY <1>6, <2>2, <3>1 DEF Controls, SameControl
  <2> QED BY <1>5, <2>1, <2>2
<1>8. MaxLoss <= 1 /\ ~driver /\ ok => E.pc = "gone" /\ N = "none"
  <2>1. Len(Q) \in Nat \ {0} /\ Head(Q) = Q[1]
    BY <1>2, CurrentIs, TailIs
  <2>2. 1 \in 1..Len(Q)
    BY <2>1
  <2>3. ok => Cleaned(Q)
    BY <1>2, <1>3, <2>1, <2>2 DEF Cleaned
  <2> QED BY <2>3 DEF ChannelInv, Reliable, Legacy
<1>9. MaxLoss <= 1 => Follows /\ (driver /\ ctl'.status = "connected" => ctl.applied)
  BY <1>2, <1>7, <1>8 DEF Follows, Suspect, ChannelInv, Reliable, Shown
<1>10. ctl'.adm.done = ctl.adm.done /\ (ctl.adm.done => ctl'.adm = ctl.adm) /\ (Started(ctl'.adm) => Started(ctl.adm))
  BY <1>7
<1>11. eng' = eng \/ eng' = Signalled
  BY <1>5
<1> QED BY <1>1, <1>2, <1>7, <1>9, <1>10, <1>11, ReadQuiet DEF SameControl

\* Nothing changes but the challenge.
SameButSeen ==
  /\ ctl'.att = ctl.att /\ ctl'.desired = ctl.desired /\ ctl'.process = ctl.process /\ ctl'.pending = ctl.pending
  /\ ctl'.failed = ctl.failed /\ ctl'.status = ctl.status /\ ctl'.sel = ctl.sel /\ ctl'.adm = ctl.adm
  /\ ctl'.applied = ctl.applied /\ ctl'.acked = ctl.acked /\ ctl'.nreq = ctl.nreq /\ ctl'.released = ctl.released
  /\ ctl'.whole = ctl.whole /\ ctl'.lost = ctl.lost

LEMMA SameFollows ==
  ASSUME ChannelInv, ctl' \in Controls, SameButSeen, Head(Q).ev \notin {"tunnel_down", "configuring"}
  PROVE  /\ ctl' \in Controls /\ SameControl
         /\ ctl'.adm.done = ctl.adm.done /\ (ctl.adm.done => ctl'.adm = ctl.adm) /\ (Started(ctl'.adm) => Started(ctl.adm))
         /\ MaxLoss <= 1 => Follows /\ (driver /\ ctl'.status = "connected" => ctl.applied)
<1>1. MaxLoss <= 1 => Follows /\ (driver /\ ctl'.status = "connected" => ctl.applied)
  BY DEF Follows, Suspect, ChannelInv, Reliable, Shown, SameButSeen
<1> QED BY <1>1, CurrentIs DEF SameControl, SameButSeen

LEMMA ReadChallengeStep ==
  ASSUME ChannelInv, ReadChallenge
  PROVE  ChannelInv'
<1>1. /\ reader.pc = "idle" /\ Q # <<>> /\ Head(Q).ev = "challenge" /\ Current = Head(Q) /\ Head(Q) \in Events
      /\ events' = [events EXCEPT ![ctl.att] = Tail(Q)]
      /\ UNCHANGED <<driver, worker, sup, lease, user, frames, net>>
  BY ReadingIs DEF ReadChallenge
<1>2. CASE ctl.desired /\ Registrable(Current.req)
  <2>1. /\ chal' = [a |-> ctl.att, req |-> Current.req] /\ eng' = eng /\ reader' = reader
        /\ ctl' = [ctl EXCEPT !.seen = @ \cup {Current.req}]
    BY <1>2 DEF ReadChallenge
  <2>2. chal' = [a |-> ctl.att, req |-> Head(Q).req] /\ Head(Q).req \in Otps
    BY <1>1, <2>1, EventsAre
  <2>3. chal' \in Challenges
    <3>1. Head(Q).req \in 0..5
      BY <2>2 DEF Otps, FORM, TOKEN
    <3>2. ctl.att \in AttemptId
      BY CurrentIs
    <3> QED BY <2>2, <3>1, <3>2 DEF Challenges
  <2>5. ctl' \in Controls /\ \A x \in DOMAIN ctl : x # "seen" => ctl'[x] = ctl[x]
    BY <1>1, <2>1, <2>2, CurrentIs DEF Controls
  <2>4. Head(Q).ev \notin {"tunnel_down", "configuring"}
    BY <1>1
  <2>6. SameButSeen
    BY <2>5, CurrentIs DEF SameButSeen, Controls
  <2> QED BY <1>1, <2>1, <2>2, <2>3, <2>4, <2>5, <2>6, SameFollows, ReadQuiet DEF SameControl
<1>3. CASE ~(ctl.desired /\ Registrable(Current.req))
  <2>1. FailPrivateControl /\ UNCHANGED <<driver, chal, worker, sup, lease, user, frames, net>>
    BY <1>3 DEF ReadChallenge
  <2> QED BY <1>1, <2>1, ReadFails
<1> QED BY <1>2, <1>3

LEMMA ReadClosedStep ==
  ASSUME ChannelInv, ReadClosed
  PROVE  ChannelInv'
<1>1. /\ reader.pc = "idle" /\ Q # <<>> /\ Head(Q).ev = "closed"
      /\ events' = [events EXCEPT ![ctl.att] = Tail(Q)]
      /\ UNCHANGED <<driver, worker, sup, lease, user, frames, net>> /\ ctl' = ctl /\ eng' = eng /\ reader' = reader
  BY ReadingIs DEF ReadClosed
<1>2. (chal' = chal \/ chal' = NoChallenge) /\ chal' \in Challenges
  BY CurrentIs, RestingIs DEF ReadClosed
<1>3. Head(Q).ev \notin {"tunnel_down", "configuring"}
  BY <1>1
<1>4. SameButSeen /\ ctl' \in Controls
  BY <1>1, CurrentIs DEF SameButSeen
<1> QED BY <1>1, <1>2, <1>3, <1>4, SameFollows, ReadQuiet DEF SameControl

\* network_begin and network_resource: the admission, which is not complete.
LEMMA ObserveIs ==
  ASSUME NEW adm \in Admissions, NEW e \in Events, e.ev \in {"begin", "resource"}, Acceptable(adm, e)
  PROVE  /\ Observe(adm, e) \in Admissions /\ ~adm.done /\ ~Observe(adm, e).done
         /\ Started(Observe(adm, e)) => Started(adm) \/ e.ev = "begin"
<1>1. ~adm.done /\ adm.exp \in 0..MaxResource /\ adm.got \in 0..MaxResource /\ adm.exp \in Nat /\ adm.got \in Nat
  BY ChannelAssumption DEF Acceptable, Admissions
<1>2. CASE e.ev = "begin"
  <2>1. e.req = APPLY /\ e.arg \in 0..MaxResource
    BY <1>2, EventsAre, ChannelAssumption
  <2>2. Observe(adm, e) = [adm EXCEPT !.req = e.req, !.exp = e.arg]
    BY <1>2 DEF Observe
  <2> QED BY <1>1, <1>2, <2>1, <2>2 DEF Admissions
<1>3. CASE e.ev = "resource"
  <2>1. adm.got < adm.exp
    BY <1>3 DEF Acceptable
  <2>2. PICK k \in 0..MaxResource : k = adm.got + 1
    BY <1>1, <2>1, ChannelAssumption
  <2>3. Observe(adm, e) = [adm EXCEPT !.got = k]
    BY <1>3, <2>2 DEF Observe
  <2> QED BY <1>1, <2>3 DEF Admissions, Started
<1> QED BY <1>2, <1>3

LEMMA ReadResourceStep ==
  ASSUME ChannelInv, ReadResource
  PROVE  ChannelInv'
<1>1. /\ reader.pc = "idle" /\ Q # <<>> /\ Head(Q).ev \in {"begin", "resource"} /\ Current = Head(Q)
      /\ Head(Q) \in Events /\ events' = [events EXCEPT ![ctl.att] = Tail(Q)]
      /\ UNCHANGED <<driver, chal, worker, sup, lease, user, frames, net>>
  BY ReadingIs DEF ReadResource
<1>2. CASE Bound /\ ctl.desired /\ Acceptable(ctl.adm, Current)
  <2>1. ctl \in Controls /\ ctl.adm \in Admissions
    BY CurrentIs DEF Controls
  <2>2. PICK adm : adm = Observe(ctl.adm, Head(Q))
    OBVIOUS
  <2>3. /\ adm \in Admissions /\ ~ctl.adm.done /\ ~adm.done /\ ctl.adm.done \in BOOLEAN /\ adm.done \in BOOLEAN
        /\ Started(adm) => Started(ctl.adm) \/ Head(Q).ev = "begin"
    BY <1>1, <1>2, <2>1, <2>2, ObserveIs DEF Admissions
  <2>4. ctl' = [ctl EXCEPT !.adm = adm] /\ eng' = eng /\ reader' = reader
    BY <1>1, <1>2, <2>2 DEF ReadResource
  <2>5. /\ ctl' \in Controls /\ SameControl /\ ctl'.adm = adm /\ ctl'.status = ctl.status /\ ctl'.lost = ctl.lost
        /\ ctl'.failed = ctl.failed /\ ctl'.pending = ctl.pending /\ ctl'.whole = ctl.whole
    BY <2>1, <2>3, <2>4 DEF Controls, SameControl
  <2>6. MaxLoss <= 1 => Follows /\ (driver /\ ctl'.status = "connected" => ctl.applied)
    BY <1>1, <2>5 DEF Follows, Suspect, ChannelInv, Reliable, Shown
  <2>7. /\ ctl'.adm.done = ctl.adm.done /\ (ctl.adm.done => ctl'.adm = ctl.adm)
        /\ Started(ctl'.adm) => Started(ctl.adm) \/ (ctl.sel /\ Head(Q).ev = "begin")
    BY <1>2, <2>3, <2>5 DEF Bound
  <2>8. chal' = chal /\ chal' \in Challenges
    BY <1>1, CurrentIs
  <2> QED BY <1>1, <2>4, <2>5, <2>6, <2>7, <2>8, ReadQuiet DEF SameControl
<1>3. CASE ~(Bound /\ ctl.desired /\ Acceptable(ctl.adm, Current))
  <2>1. FailPrivateControl /\ Head(Q).ev # "tunnel_down"
    BY <1>1, <1>3 DEF ReadResource
  <2> QED BY <1>1, <2>1, ReadFails
<1> QED BY <1>2, <1>3

LEMMA ReadAppliedStep ==
  ASSUME ChannelInv, ReadApplied
  PROVE  ChannelInv'
<1>1. /\ reader.pc = "idle" /\ Q # <<>> /\ Head(Q).ev = "applied"
      /\ events' = [events EXCEPT ![ctl.att] = Tail(Q)]
      /\ UNCHANGED <<driver, chal, worker, sup, lease, user, frames, net>>
  BY ReadingIs DEF ReadApplied
<1>2. CASE ctl' = [ctl EXCEPT !.acked = TRUE] /\ eng' = eng /\ reader' = reader
  <2>1. ctl \in Controls /\ chal' = chal /\ chal' \in Challenges
    BY <1>1, CurrentIs
  <2>2. /\ ctl' \in Controls /\ SameControl /\ ctl'.adm = ctl.adm /\ ctl'.status = ctl.status /\ ctl'.lost = ctl.lost
        /\ ctl'.failed = ctl.failed /\ ctl'.pending = ctl.pending /\ ctl'.whole = ctl.whole
    BY <1>2, <2>1 DEF Controls, SameControl
  <2>3. MaxLoss <= 1 => Follows /\ (driver /\ ctl'.status = "connected" => ctl.applied)
    BY <1>1, <2>2 DEF Follows, Suspect, ChannelInv, Reliable, Shown
  <2>4. ctl'.adm.done = ctl.adm.done /\ (ctl.adm.done => ctl'.adm = ctl.adm) /\ (Started(ctl'.adm) => Started(ctl.adm))
    BY <2>2
  <2> QED BY <1>1, <1>2, <2>1, <2>2, <2>3, <2>4, ReadQuiet DEF SameControl
<1>3. CASE FailPrivateControl
  BY <1>1, <1>3, ReadFails
<1> QED BY <1>2, <1>3 DEF ReadApplied

LEMMA TakenIs ==
  ASSUME ChannelInv, Q # <<>>, ctl'.att = ctl.att, UNCHANGED <<eng, frames, net>>,
         events' = [events EXCEPT ![ctl.att] = Tail(Q)]
  PROVE  /\ Elsewhere /\ E' = E /\ Q' = Tail(Q) /\ F' = F /\ N' = N
         /\ eng' \in [AttemptId -> Engines] /\ events' \in [AttemptId -> Seq(Events)]
         /\ frames' \in [AttemptId -> Seq(Frames)] /\ net' \in [AttemptId -> Nets]
<1>1. /\ ctl.att \in AttemptId /\ eng \in [AttemptId -> Engines] /\ events \in [AttemptId -> Seq(Events)]
      /\ frames \in [AttemptId -> Seq(Frames)] /\ net \in [AttemptId -> Nets]
  BY DEF ChannelInv, Types, Controls
<1>2. Tail(Q) \in Seq(Events)
  BY CurrentIs, TailIs
<1>3. E' = E /\ Q' = Tail(Q) /\ F' = F /\ N' = N
  <2>1. E' = E /\ F' = F /\ N' = N
    BY DEF E, F, N
  <2>2. Q' = Tail(Q)
    BY <1>1 DEF Q
  <2> QED BY <2>1, <2>2
<1>4. Elsewhere
  BY <1>1 DEF Elsewhere
<1>5. events' \in [AttemptId -> Seq(Events)]
  BY <1>1, <1>2
<1> QED BY <1>1, <1>3, <1>4, <1>5

\* An event that is answered: the request goes to the reader.
LEMMA ReadStarts ==
  ASSUME ChannelInv, reader.pc = "idle", Q # <<>>, ctl' \in Controls, SameControl \/ (driver /\ ctl'.sel),
         ctl'.att = ctl.att, ctl'.process = ctl.process, ctl'.applied = ctl.applied,
         ctl'.released = ctl.released, ctl'.adm = ctl.adm, ctl'.status = ctl.status, ctl'.lost = ctl.lost,
         ctl'.failed = ctl.failed, ctl'.pending = ctl.pending, ctl'.whole = ctl.whole,
         Head(Q).ev \notin {"tunnel_down", "configuring"},
         reader' \in Readers, reader'.pc \in {"send", "epoch", "work"}, worker' \in Tasks, Jobs', Decided(F)',
         worker'.job \in {"none", "epoch"} \/ (worker'.job = "release" /\ ~ctl.released),
         events' = [events EXCEPT ![ctl.att] = Tail(Q)],
         UNCHANGED <<driver, chal, sup, lease, user, eng, frames, net>>,
         reader'.out.req = PLAN => Head(Q).ev = "plan",
         reader'.out.req = APPLY => Head(Q).ev = "commit",
         reader'.out.req = RELEASE => Head(Q).ev = "release",
         MaxLoss <= 1 => (worker'.job = "release" \/ reader'.ev.ev = "release" => ctl.status = "disconnecting")
  PROVE  ChannelInv'
<1>1. /\ E \in Engines /\ Q \in Seq(Events) /\ F \in Seq(Frames) /\ N \in Nets /\ Alike(E, E)
      /\ eng' = [eng EXCEPT ![ctl.att] = E]
      /\ frames' = [frames EXCEPT ![ctl.att] = F] /\ net' = [net EXCEPT ![ctl.att] = N]
      /\ user' \in [User -> UserAnswers] /\ Tail(Q) \in Seq(Events)
  BY CurrentIs, TailIs
<1>2. /\ Elsewhere /\ E' = E /\ Q' = Tail(Q) /\ F' = F /\ N' = N
      /\ eng' \in [AttemptId -> Engines] /\ events' \in [AttemptId -> Seq(Events)]
      /\ frames' \in [AttemptId -> Seq(Frames)] /\ net' \in [AttemptId -> Nets]
  BY TakenIs
<1>3. Handshake(N) /\ Types /\ (MaxLoss <= 1 => Shown(N))
  BY DEF ChannelInv, Reliable
<1>4. Types'
  BY <1>1, <1>2, <1>3 DEF Types
<1>5. Handshake(N)'
  <2>1. (ctl'.sel => driver) /\ (ctl.sel => ctl'.sel)
    BY <1>3 DEF Handshake, SameControl
  <2> QED BY <1>2, <1>3, <2>1 DEF Handshake
<1>6. MaxLoss <= 1 => Follows /\ Shown(N)'
  <2>1. MaxLoss <= 1 => Follows
    BY DEF Follows, Suspect
  <2>2. MaxLoss <= 1 => Shown(N)'
    BY <1>2, <1>3 DEF Shown
  <2> QED BY <2>1, <2>2
<1>7. Alike(E', E) /\ UNCHANGED <<driver, sup, lease, user>> /\ chal' = chal
  BY <1>1, <1>2
<1>8. Started(ctl'.adm) => Started(ctl.adm) \/ Head(Q).ev = "begin"
  OBVIOUS
<1> QED BY <1>2, <1>4, <1>5, <1>6, <1>7, <1>8, ReadStep

\* While the reader is idle, no worker runs for it.
LEMMA IdleIs ==
  ASSUME ChannelInv, reader.pc = "idle", Q # <<>>
  PROVE  /\ reader = Resting /\ worker = NoJob /\ worker.job = "none" /\ worker \in Tasks /\ sup.pc = "run"
         /\ Jobs /\ Decided(F) /\ ctl \in Controls /\ driver \in BOOLEAN /\ ctl.att \in AttemptId
  BY CurrentIs DEF ChannelInv, Jobs, Course

LEMMA ReadPlanStep ==
  ASSUME ChannelInv, ReadPlan
  PROVE  ChannelInv'
<1>1. /\ reader.pc = "idle" /\ Q # <<>> /\ Head(Q).ev = "plan"
      /\ events' = [events EXCEPT ![ctl.att] = Tail(Q)]
      /\ UNCHANGED <<driver, chal, worker, sup, lease, user, frames, net>>
  BY ReadingIs DEF ReadPlan
<1>2. CASE ctl.desired /\ driver /\ ctl.sel
  <2>1. FailPrivateControl /\ Head(Q).ev # "tunnel_down"
    BY <1>1, <1>2 DEF ReadPlan
  <2> QED BY <1>1, <2>1, ReadFails
<1>3. CASE ~(ctl.desired /\ driver /\ ctl.sel)
  <2>1. /\ reader = Resting /\ worker = NoJob /\ worker.job = "none" /\ worker \in Tasks /\ sup.pc = "run"
        /\ Jobs /\ Decided(F) /\ ctl \in Controls /\ driver \in BOOLEAN
    BY <1>1, IdleIs
  <2>2. PICK x \in Decisions : x = IF ~ctl.desired THEN "deny" ELSE IF driver THEN "grant_native" ELSE "grant"
    BY DEF Decisions
  <2>3. PICK f : f = Frame("lease_decision", PLAN, x)
    OBVIOUS
  <2>4. f \in Frames /\ f.req = PLAN /\ f.ans = x /\ f # NoFrame /\ x # Excluded
    <3>1. f \in Answering(PLAN) /\ f.ans = x
      BY <2>3, FramesAre
    <3>2. x # Excluded
      BY <2>1, <2>2 DEF Excluded
    <3> QED BY <3>1, <3>2, FramesAre DEF Answering
  <2>5. /\ reader' = [pc |-> "send", ev |-> NoEvent, out |-> f] /\ eng' = eng
        /\ ctl' = IF ctl.desired /\ driver THEN [ctl EXCEPT !.sel = TRUE] ELSE ctl
    BY <1>3, <2>2, <2>3 DEF ReadPlan, Reply
  <2>6. /\ reader' \in Readers /\ reader'.pc = "send" /\ reader'.out = f /\ reader'.out.req = PLAN /\ reader'.ev.ev = "none"
        /\ reader'.out.ans = x
    BY <2>4, <2>5, EventsAre DEF Readers
  <2>7. /\ ctl' \in Controls /\ (SameControl \/ (driver /\ ctl'.sel)) /\ ctl'.att = ctl.att
        /\ ctl'.process = ctl.process /\ ctl'.applied = ctl.applied
        /\ ctl'.released = ctl.released /\ ctl'.adm = ctl.adm /\ ctl'.status = ctl.status /\ ctl'.lost = ctl.lost
        /\ ctl'.failed = ctl.failed /\ ctl'.pending = ctl.pending /\ ctl'.whole = ctl.whole
    <3>1. CASE ctl.desired /\ driver
      BY <2>1, <2>5, <3>1 DEF Controls, SameControl
    <3>2. CASE ~(ctl.desired /\ driver)
      BY <2>1, <2>5, <3>2 DEF SameControl
    <3> QED BY <3>1, <3>2
  <2>8. Jobs'
    BY <1>1, <2>1, <2>4, <2>6, <2>7, RequestsAre DEF Jobs
  <2>9. Decided(F)'
    <3>1. F' = F
      BY <1>1, <2>7 DEF F
    <3> QED BY <1>1, <2>1, <2>4, <2>6, <3>1 DEF Decided, Excluded
  <2>10. worker' \in Tasks /\ worker'.job = "none" /\ UNCHANGED <<driver, chal, sup, lease, user, eng, frames, net>>
    BY <1>1, <2>1, <2>5
  <2>11. /\ reader'.out.req # APPLY /\ reader'.out.req # RELEASE /\ Head(Q).ev \notin {"tunnel_down", "configuring"}
         /\ reader'.pc \in {"send", "epoch", "work"} /\ reader'.ev.ev # "release"
    BY <1>1, <2>6, RequestsAre
  <2> QED BY <1>1, <2>6, <2>7, <2>8, <2>9, <2>10, <2>11, ReadStarts
<1> QED BY <1>2, <1>3

LEMMA ReadCommitStep ==
  ASSUME ChannelInv, ReadCommit
  PROVE  ChannelInv'
<1>1. /\ reader.pc = "idle" /\ Q # <<>> /\ Head(Q).ev = "commit" /\ Head(Q) \in Events /\ Current = Head(Q)
      /\ events' = [events EXCEPT ![ctl.att] = Tail(Q)] /\ Head(Q).req = APPLY
      /\ UNCHANGED <<driver, ctl, chal, sup, lease, user, eng, frames, net>> /\ driver
  BY ReadingIs, EventsAre DEF ReadCommit
<1>2. /\ reader = Resting /\ worker = NoJob /\ Jobs /\ Decided(F) /\ ctl \in Controls /\ ctl.att \in AttemptId
  BY <1>1, IdleIs
<1>3. PICK f : f = Frame("network_result", APPLY, "applied")
  OBVIOUS
<1>4. f \in Frames /\ f.req = APPLY /\ f # NoFrame
  BY <1>3, FramesAre DEF Answering
<1>5. reader' = [pc |-> "epoch", ev |-> Head(Q), out |-> f] /\ worker' = [a |-> ctl.att, job |-> "epoch"]
  BY <1>1, <1>3 DEF ReadCommit
<1>6. /\ reader' \in Readers /\ reader'.pc = "epoch" /\ reader'.out = f /\ reader'.out.req = APPLY
      /\ reader'.ev.ev = "commit" /\ worker' \in Tasks /\ worker'.job = "epoch" /\ worker'.a = ctl.att
      /\ worker' # NoJob
  BY <1>1, <1>2, <1>4, <1>5, RequestsAre DEF Readers, Tasks, NoJob
<1>7. Jobs'
  BY <1>1, <1>2, <1>4, <1>6, RequestsAre DEF Jobs
<1>8. Decided(F)'
  <2>1. F' = F /\ reader'.out.req # PLAN
    BY <1>1, <1>6, RequestsAre DEF F
  <2> QED BY <1>1, <1>2, <2>1 DEF Decided, Excluded
<1>9. /\ ctl' \in Controls /\ SameControl /\ ctl'.att = ctl.att
      /\ ctl'.process = ctl.process /\ ctl'.applied = ctl.applied
      /\ ctl'.released = ctl.released /\ ctl'.adm = ctl.adm /\ ctl'.status = ctl.status /\ ctl'.lost = ctl.lost
      /\ ctl'.failed = ctl.failed /\ ctl'.pending = ctl.pending /\ ctl'.whole = ctl.whole
  BY <1>1, <1>2 DEF SameControl
<1>10. /\ reader'.out.req # PLAN /\ reader'.out.req # RELEASE /\ Head(Q).ev \notin {"tunnel_down", "configuring"}
       /\ reader'.pc \in {"send", "epoch", "work"} /\ reader'.ev.ev # "release"
  BY <1>1, <1>6, RequestsAre
<1>11. UNCHANGED <<driver, chal, sup, lease, user, eng, frames, net>>
  BY <1>1
<1> QED BY <1>1, <1>6, <1>7, <1>8, <1>9, <1>10, <1>11, ReadStarts

LEMMA ReadReleaseStep ==
  ASSUME ChannelInv, ReadRelease
  PROVE  ChannelInv'
<1>1. /\ reader.pc = "idle" /\ Q # <<>> /\ Head(Q).ev = "release" /\ Head(Q) \in Events /\ Current = Head(Q)
      /\ events' = [events EXCEPT ![ctl.att] = Tail(Q)] /\ Head(Q).req = RELEASE
      /\ UNCHANGED <<driver, chal, sup, lease, user, frames, net>>
  BY ReadingIs, EventsAre DEF ReadRelease
<1>2. CASE Bound /\ Started(ctl.adm)
  <2>1. /\ reader = Resting /\ worker = NoJob /\ Jobs /\ Decided(F) /\ ctl \in Controls /\ ctl.att \in AttemptId
    BY <1>1, IdleIs
  <2>2. PICK f : f = Frame("network_result", RELEASE, "released")
    OBVIOUS
  <2>3. f \in Frames /\ f.req = RELEASE /\ f # NoFrame
    BY <2>2, FramesAre DEF Answering
  <2>4. /\ reader' = [pc |-> "work", ev |-> Head(Q), out |-> f] /\ worker' = [a |-> ctl.att, job |-> "release"]
        /\ ctl' = ctl /\ eng' = eng /\ driver /\ ~ctl.released
    BY <1>1, <1>2, <2>2 DEF ReadRelease, Bound
  <2>5. /\ reader' \in Readers /\ reader'.pc = "work" /\ reader'.out = f /\ reader'.out.req = RELEASE
        /\ reader'.ev.ev = "release" /\ worker' \in Tasks /\ worker'.job = "release" /\ worker'.a = ctl.att
        /\ worker' # NoJob
    BY <1>1, <2>1, <2>3, <2>4, RequestsAre DEF Readers, Tasks, NoJob
  <2>6. Jobs'
    BY <1>1, <2>1, <2>3, <2>4, <2>5, RequestsAre DEF Jobs
  <2>7. Decided(F)'
    <3>1. F' = F /\ reader'.out.req # PLAN
      BY <1>1, <2>4, <2>5, RequestsAre DEF F
    <3> QED BY <1>1, <2>1, <3>1 DEF Decided, Excluded
  <2>8. /\ ctl' \in Controls /\ SameControl /\ ctl'.att = ctl.att
        /\ ctl'.process = ctl.process /\ ctl'.applied = ctl.applied
        /\ ctl'.released = ctl.released /\ ctl'.adm = ctl.adm /\ ctl'.status = ctl.status /\ ctl'.lost = ctl.lost
        /\ ctl'.failed = ctl.failed /\ ctl'.pending = ctl.pending /\ ctl'.whole = ctl.whole
    BY <2>1, <2>4 DEF SameControl
  <2>9. /\ reader'.out.req # PLAN /\ reader'.out.req # APPLY /\ Head(Q).ev \notin {"tunnel_down", "configuring"}
        /\ reader'.pc \in {"send", "epoch", "work"}
    BY <1>1, <2>5, RequestsAre
  <2>10. UNCHANGED <<driver, chal, sup, lease, user, eng, frames, net>>
    BY <1>1, <2>4
  <2>11. MaxLoss <= 1 => ctl.status = "disconnecting"
    <3>1. Len(Q) \in Nat \ {0} /\ Head(Q) = Q[1]
      BY <1>1, CurrentIs, TailIs
    <3>2. 1 \in 1..Len(Q) /\ Q[1].ev = "release" /\ ~(1 > 2)
      BY <1>1, <3>1
    <3> QED BY <3>2 DEF ChannelInv, Reliable, Announced
  <2> QED BY <1>1, <2>4, <2>5, <2>6, <2>7, <2>8, <2>9, <2>10, <2>11, ReadStarts
<1>3. CASE ~(Bound /\ Started(ctl.adm))
  <2>1. FailPrivateControl /\ UNCHANGED worker /\ Head(Q).ev # "tunnel_down"
    BY <1>1, <1>3 DEF ReadRelease
  <2> QED BY <1>1, <2>1, ReadFails
<1> QED BY <1>2, <1>3
-----------------------------------------------------------------------------
(* The manager acts on what it has read. *)

LEMMA AskedMoves ==
  ASSUME NEW q, NEW f \in Seq(Frames), NEW g \in Seq(Frames), NEW name, NEW req, NEW r,
         Asked(q, f, name, req), Once(g, Answering(req)),
         Has(g, Answering(req)) => reader.out.req = req /\ r.out.req # req,
         r.out.req = req => reader.out.req = req
  PROVE  /\ Once(q, Named(name)) /\ Once(f \o g, Answering(req))
         /\ Has(q, Named(name)) => r.out.req # req /\ ~Has(f \o g, Answering(req))
         /\ r.out.req = req => ~Has(f \o g, Answering(req))
         /\ Has(q, Named(name)) \/ r.out.req = req \/ Has(f \o g, Answering(req)) => Open(q, f, name, req)
<1>1. /\ Has(f \o g, Answering(req)) <=> Has(f, Answering(req)) \/ Has(g, Answering(req))
      /\ Once(f, Answering(req)) /\ ~Has(g, Answering(req)) => Once(f \o g, Answering(req))
      /\ ~Has(f, Answering(req)) /\ Once(g, Answering(req)) => Once(f \o g, Answering(req))
  BY HasCat
<1> QED BY <1>1 DEF Asked, Open

\* What the reader held is sent, or dropped.
Moves(g) ==
  /\ g \in Seq(Frames) /\ F' = F \o g
  /\ \A req \in {PLAN, APPLY, RELEASE} :
       /\ Once(g, Answering(req))
       /\ Has(g, Answering(req)) => reader.out.req = req /\ reader'.out.req # req
       /\ reader'.out.req = req => reader.out.req = req

Steady ==
  /\ ctl.status = "disconnecting" => ctl'.status = "disconnecting"
  /\ ctl.lost > 0 => ctl'.lost > 0
  /\ ctl.failed => ctl'.failed
  /\ ctl.pending => ctl'.pending
  /\ ~ctl.whole => ~ctl'.whole

LEMMA ActStep ==
  ASSUME ChannelInv, Types', Elsewhere, Q' = Q, Alike(E', E), UNCHANGED <<driver, sup, lease>>,
         ctl'.att = ctl.att, ctl'.process = ctl.process,
         \A u \in User : \/ user'[u] = user[u] \/ user'[u] = NoAnswer
                         \/ user'[u].a = ctl.att /\ user'[u].out \in Secrets,
         sup.pc # "run" => reader' = Resting,
         sup.pc \in {"finish", "done"} => worker' = NoJob,
         N' = N \/ (driver /\ sup.pc # "done"),
         Jobs', Handshake(N)', Decided(F)', OtpAsked(Q, F, E)',
         Started(ctl'.adm) => Started(ctl.adm), NEW g, Moves(g),
         MaxLoss <= 1 => Steady /\ Shown(N)'
  PROVE  ChannelInv'
<1>1. /\ PlanAsked(Q, F, E) /\ ApplyAsked(Q, F, E) /\ ReleaseAsked(Q, F, E) /\ Begun(Q, E) /\ Course
      /\ MaxLoss <= 1 => Reliable(Q, E, N) /\ Owned
  BY DEF ChannelInv
<1>2. sup.pc # "run" => Q' = <<>>
  BY <1>1 DEF Course
<1>3. Others' /\ Course' /\ Shape(E)' /\ (Owned => Owned')
  BY <1>2, ManagerKeeps
<1>4. F \in Seq(Frames) /\ g \in Seq(Frames) /\ F' = F \o g
  BY CurrentIs DEF Moves
<1>c. PICK c, r, d : c = ctl' /\ r = reader' /\ d = E'
  OBVIOUS
<1>5. /\ OtpPlace(d) <=> OtpPlace(E)
      /\ PlanPlace(d) <=> PlanPlace(E)
      /\ ApplyPlace(d) <=> ApplyPlace(E)
      /\ ReleasePlace(d) <=> ReleasePlace(E)
  BY <1>c, AlikePlaces
<1>6. (PlanAsked(Q, F, E))'
  <2>1. /\ Once(g, Answering(PLAN))
        /\ Has(g, Answering(PLAN)) => reader.out.req = PLAN /\ r.out.req # PLAN
        /\ r.out.req = PLAN => reader.out.req = PLAN
    BY <1>c DEF Moves
  <2>2. /\ Once(Q, Named("plan")) /\ Once(F \o g, Answering(PLAN))
        /\ Has(Q, Named("plan")) => r.out.req # PLAN /\ ~Has(F \o g, Answering(PLAN))
        /\ r.out.req = PLAN => ~Has(F \o g, Answering(PLAN))
        /\ Has(Q, Named("plan")) \/ r.out.req = PLAN \/ Has(F \o g, Answering(PLAN)) => Open(Q, F, "plan", PLAN)
    BY <1>1, <1>4, <2>1, AskedMoves DEF PlanAsked
  <2>3. PlanPlace(E)' <=> PlanPlace(d)
    BY <1>c DEF PlanPlace
  <2>4. Open(Q, F, "plan", PLAN) => PlanPlace(d)
    BY <1>1, <1>5 DEF PlanAsked
  <2> QED BY <1>4, <1>c, <2>2, <2>3, <2>4 DEF PlanAsked, Asked, Open
<1>7. (ApplyAsked(Q, F, E))'
  <2>1. /\ Once(g, Answering(APPLY))
        /\ Has(g, Answering(APPLY)) => reader.out.req = APPLY /\ r.out.req # APPLY
        /\ r.out.req = APPLY => reader.out.req = APPLY
    BY <1>c DEF Moves
  <2>2. /\ Once(Q, Named("commit")) /\ Once(F \o g, Answering(APPLY))
        /\ Has(Q, Named("commit")) => r.out.req # APPLY /\ ~Has(F \o g, Answering(APPLY))
        /\ r.out.req = APPLY => ~Has(F \o g, Answering(APPLY))
        /\ Has(Q, Named("commit")) \/ r.out.req = APPLY \/ Has(F \o g, Answering(APPLY)) => Open(Q, F, "commit", APPLY)
    BY <1>1, <1>4, <2>1, AskedMoves DEF ApplyAsked
  <2>3. ApplyPlace(E)' <=> ApplyPlace(d)
    BY <1>c DEF ApplyPlace
  <2>4. Open(Q, F, "commit", APPLY) => ApplyPlace(d)
    BY <1>1, <1>5 DEF ApplyAsked
  <2> QED BY <1>4, <1>c, <2>2, <2>3, <2>4 DEF ApplyAsked, Asked, Open
<1>8. (ReleaseAsked(Q, F, E))'
  <2>1. /\ Once(g, Answering(RELEASE))
        /\ Has(g, Answering(RELEASE)) => reader.out.req = RELEASE /\ r.out.req # RELEASE
        /\ r.out.req = RELEASE => reader.out.req = RELEASE
    BY <1>c DEF Moves
  <2>2. /\ Once(Q, Named("release")) /\ Once(F \o g, Answering(RELEASE))
        /\ Has(Q, Named("release")) => r.out.req # RELEASE /\ ~Has(F \o g, Answering(RELEASE))
        /\ r.out.req = RELEASE => ~Has(F \o g, Answering(RELEASE))
        /\ Has(Q, Named("release")) \/ r.out.req = RELEASE \/ Has(F \o g, Answering(RELEASE)) => Open(Q, F, "release", RELEASE)
    BY <1>1, <1>4, <2>1, AskedMoves DEF ReleaseAsked
  <2>3. ReleasePlace(E)' <=> ReleasePlace(d)
    BY <1>c DEF ReleasePlace
  <2>4. Open(Q, F, "release", RELEASE) => ReleasePlace(d)
    BY <1>1, <1>5 DEF ReleaseAsked
  <2> QED BY <1>4, <1>c, <2>2, <2>3, <2>4 DEF ReleaseAsked, Asked, Open
<1>9. Begun(Q, E)'
  <2>1. Has(Q, Named("begin")) \/ Started(c.adm) => d.started
    BY <1>1, <1>c DEF Begun, Alike
  <2> QED BY <1>c, <2>1 DEF Begun, Started
<1>10. ASSUME MaxLoss <= 1 PROVE Reliable(Q, E, N)' /\ Owned'
  <2>1. Steady /\ Shown(N)' /\ Announced(Q) /\ (~driver => Legacy(Q, E, N)) /\ Owned
    BY <1>1, <1>10 DEF Reliable
  <2>2. Announced(Q)'
    BY <2>1 DEF Announced, Steady
  <2>3. ASSUME ~driver PROVE Legacy(Q, E, N)'
    <3>1. N' = N /\ sup' = sup /\ E'.pc = E.pc /\ E'.clean = E.clean
      BY <2>3 DEF Alike
    <3>2. (Warned(Q) => Warned(Q)') /\ (WarnedTwice(Q) => WarnedTwice(Q)')
      BY <2>1 DEF Steady, Warned, WarnedTwice, Suspect
    <3>3. Cleaned(Q)' => Cleaned(Q)
      BY DEF Cleaned
    <3>4. Legacy(Q, E, N)
      BY <2>1, <2>3
    <3>5. (ctl.failed => ctl'.failed) /\ (ctl.pending => ctl'.pending)
      BY <2>1 DEF Steady
    <3> QED BY <3>1, <3>2, <3>3, <3>4, <3>5 DEF Legacy
  <2> QED BY <1>3, <2>1, <2>2, <2>3 DEF Reliable
<1> QED BY <1>3, <1>6, <1>7, <1>8, <1>9, <1>10 DEF ChannelInv

\* The users are not concerned.
LEMMA OtpSame ==
  ASSUME ChannelInv, Q' = Q, Alike(E', E), ctl'.att = ctl.att, ctl'.process = ctl.process, user' = user,
         NEW g \in Seq(Frames), F' = F \o g, ~Has(g, Secrets), chal' = chal \/ chal' = NoChallenge
  PROVE  OtpAsked(Q, F, E)'
<1>1. OtpAsked(Q, F, E) /\ F \in Seq(Frames)
  BY CurrentIs DEF ChannelInv
<1>2. (Has(F \o g, Secrets) <=> Has(F, Secrets)) /\ (Once(F, Secrets) => Once(F \o g, Secrets))
  BY <1>1, HasCat
<1>3. OtpPlace(E') <=> OtpPlace(E)
  BY AlikePlaces
<1>4. OtpPlace(E)' <=> OtpPlace(E')
  BY DEF OtpPlace
<1>5. Asking' <=> Asking
  BY DEF Asking
<1>6. /\ Once(Q', Named("challenge")) /\ Once(F', Secrets)
      /\ chal' # NoChallenge => chal'.a = ctl'.att /\ chal'.req \in Otps /\ ctl'.process
      /\ Has(Q', Named("challenge")) => chal' = NoChallenge /\ ~Asking /\ ~Has(F', Secrets)
      /\ chal' # NoChallenge => ~Asking /\ ~Has(F', Secrets)
      /\ Asking => ~Has(F', Secrets)
      /\ \A u, v \in User : user'[u].a = ctl'.att /\ user'[v].a = ctl'.att => u = v
      /\ Has(Q', Named("challenge")) \/ chal' # NoChallenge \/ Asking \/ Has(F', Secrets) => OtpPlace(E')
  BY <1>1, <1>2, <1>3 DEF OtpAsked
<1>7. OtpCurrent(Q, F, E.otp)'
  <2>1. ~Has(Q, AskingElse(E.otp)) /\ ~Has(F, AnsweringElse(E.otp))
    BY <1>1 DEF OtpAsked, OtpCurrent
  <2>2. ~Has(F \o g, AnsweringElse(E.otp))
    BY <1>1, <2>1, HasCat, HasElse
  <2> QED BY <2>1, <2>2, OtpStill
<1> QED BY <1>4, <1>5, <1>6, <1>7 DEF OtpAsked

LEMMA ActIs ==
  ASSUME ChannelInv, ctl' \in Controls, ctl'.att = ctl.att, reader' \in Readers, worker' \in Tasks,
         chal' \in Challenges, user' \in [User -> UserAnswers], UNCHANGED <<driver, sup, lease, events>>,
         eng' = eng \/ eng' = Signalled,
         NEW f \in Seq(Frames), frames' = [frames EXCEPT ![ctl.att] = f],
         NEW n \in Nets, net' = [net EXCEPT ![ctl.att] = n]
  PROVE  Types' /\ Elsewhere /\ Q' = Q /\ F' = f /\ N' = n /\ Alike(E', E)
<1>1. /\ Q \in Seq(Events) /\ events' = [events EXCEPT ![ctl.att] = Q]
      /\ E \in Engines /\ eng = [eng EXCEPT ![ctl.att] = E] /\ Alike(E, E)
  BY CurrentIs
<1>2. PICK d \in Engines : eng' = [eng EXCEPT ![ctl.att] = d] /\ Alike(d, E)
  BY <1>1, SignalledIs
<1>3. /\ Elsewhere /\ E' = d /\ Q' = Q /\ F' = f /\ N' = n
      /\ eng' \in [AttemptId -> Engines] /\ events' \in [AttemptId -> Seq(Events)]
      /\ frames' \in [AttemptId -> Seq(Frames)] /\ net' \in [AttemptId -> Nets]
  BY <1>1, <1>2, AssignedIs
<1>4. Types'
  BY <1>3 DEF ChannelInv, Types
<1> QED BY <1>2, <1>3, <1>4

LEMMA NoFrames == <<>> \in Seq(Frames)
  OBVIOUS

\* It sends nothing.
LEMMA ActQuiet ==
  ASSUME ChannelInv, ctl' \in Controls, ctl'.att = ctl.att, ctl'.process = ctl.process,
         reader' \in Readers, worker' \in Tasks, UNCHANGED <<driver, sup, lease, user, events, frames>>,
         eng' = eng \/ eng' = Signalled, chal' = chal \/ chal' = NoChallenge,
         NEW n \in Nets, net' = [net EXCEPT ![ctl.att] = n], n = N \/ (driver /\ sup.pc # "done"),
         reader'.out = reader.out \/ reader'.out = NoFrame,
         sup.pc # "run" => reader' = Resting, sup.pc \in {"finish", "done"} => worker' = NoJob,
         Jobs', Handshake(N)', Started(ctl'.adm) => Started(ctl.adm),
         MaxLoss <= 1 => Steady /\ Shown(N)'
  PROVE  ChannelInv'
<1>1. /\ F \in Seq(Frames) /\ frames' = [frames EXCEPT ![ctl.att] = F] /\ chal' \in Challenges
      /\ user' \in [User -> UserAnswers]
  BY CurrentIs, RestingIs
<1>2. Types' /\ Elsewhere /\ Q' = Q /\ F' = F /\ N' = n /\ Alike(E', E)
  BY <1>1, ActIs
<1>3. PICK g : g \in Seq(Frames) /\ g = <<>>
  BY NoFrames
<1>4. F' = F \o g
  BY <1>1, <1>2, <1>3, CatNothing
<1>5. \A S : ~Has(g, S) /\ Once(g, S)
  BY <1>3, HasShort
<1>6. OtpAsked(Q, F, E)'
  BY <1>2, <1>3, <1>4, <1>5, OtpSame
<1>7. NoFrame.req = None /\ PLAN # None /\ APPLY # None /\ RELEASE # None
  BY FramesAre, RequestsAre
<1>8. Moves(g)
  BY <1>3, <1>4, <1>5, <1>7 DEF Moves
<1>9. Decided(F)'
  <2>1. Decided(F)
    BY DEF ChannelInv
  <2> QED BY <1>2, <1>7, <2>1 DEF Decided, Excluded
<1>10. N' = N \/ (driver /\ sup.pc # "done")
  BY <1>2
<1>11. UNCHANGED <<driver, sup, lease>> /\ \A u \in User : user'[u] = user[u]
  OBVIOUS
<1> QED BY <1>2, <1>6, <1>8, <1>9, <1>10, <1>11, ActStep

LEMMA SameSteady ==
  ASSUME ctl'.status = ctl.status \/ ctl'.status = "disconnecting", ctl'.lost = ctl.lost,
         ctl.failed => ctl'.failed, ctl'.pending = ctl.pending, ctl'.whole = ctl.whole
  PROVE  Steady
  BY DEF Steady

\* It gives up.
LEMMA ActFails ==
  ASSUME ChannelInv, FailPrivateControl, worker' = NoJob,
         UNCHANGED <<driver, chal, sup, lease, user, events, frames>>,
         NEW n \in Nets, net' = [net EXCEPT ![ctl.att] = n], n = N \/ (driver /\ sup.pc # "done"),
         driver /\ n # "none" => ctl.adm.done, ctl.released => driver /\ n = "none",
         MaxLoss <= 1 => (ctl.applied /\ ctl.status # "disconnecting" => n = "applied")
  PROVE  ChannelInv'
<1>1. /\ ctl' \in Controls /\ ctl'.att = ctl.att /\ ctl'.process = ctl.process /\ ctl'.sel = ctl.sel
      /\ ctl'.applied = ctl.applied /\ ctl'.released = ctl.released /\ ctl'.adm = ctl.adm
      /\ ctl'.status = ctl.status /\ ctl'.lost = ctl.lost /\ ctl'.failed
  BY FailedIs DEF FailPrivateControl
<1>2. ctl \in Controls /\ ctl.att \in AttemptId /\ net \in [AttemptId -> Nets]
  BY DEF ChannelInv, Types, Controls
<1>3. ctl'.pending = ctl.pending /\ ctl'.whole = ctl.whole
  BY <1>2 DEF FailPrivateControl, FailedControl, Controls
<1>4. /\ reader' = Resting /\ eng' = Signalled
      /\ Resting \in Readers /\ Resting.pc = "idle" /\ Resting.ev.ev = "none" /\ Resting.out = NoFrame
      /\ NoJob \in Tasks /\ NoJob.job = "none"
  BY RestingIs DEF FailPrivateControl
<1>5. N' = n
  BY <1>1, <1>2 DEF N
<1>6. Jobs'
  BY <1>4 DEF Jobs
<1>7. Handshake(N)'
  <2>1. Handshake(N)
    BY DEF ChannelInv
  <2> QED BY <1>1, <1>4, <1>5, <2>1 DEF Handshake, Started
<1>8. Steady
  BY <1>1, <1>3, SameSteady
<1>9. MaxLoss <= 1 => Shown(N)'
  <2>1. MaxLoss <= 1 => Shown(N)
    BY DEF ChannelInv, Reliable
  <2> QED BY <1>1, <1>4, <1>5, <2>1 DEF Shown
<1>10. reader' \in Readers /\ worker' \in Tasks /\ reader'.out = NoFrame /\ (Started(ctl'.adm) => Started(ctl.adm))
  BY <1>1, <1>4
<1> QED BY <1>1, <1>4, <1>6, <1>7, <1>8, <1>9, <1>10, ActQuiet

\* While the reader acts, its attempt runs.
LEMMA BusyIs ==
  ASSUME ChannelInv, reader.pc \notin {"idle", "epoch", "work"}
  PROVE  /\ sup.pc = "run" /\ worker = NoJob /\ worker.job = "none" /\ reader.out \in Frames
         /\ worker' = worker => worker' = NoJob
<1>1. sup.pc = "run" /\ worker = NoJob /\ reader.out # NoFrame
  BY RestingIs DEF ChannelInv, Jobs, Course
<1>2. reader.out \in Frames
  BY <1>1, CurrentIs DEF Readers
<1> QED BY <1>1, <1>2, RestingIs

LEMMA GivesUp ==
  ASSUME ChannelInv, FailPrivateControl, worker = NoJob, UNCHANGED worker,
         UNCHANGED <<driver, chal, sup, lease, user, events, frames, net>>
  PROVE  ChannelInv'
<1>1. N \in Nets /\ net' = [net EXCEPT ![ctl.att] = N] /\ worker' = NoJob
  BY CurrentIs
<1>2. /\ driver /\ N # "none" => ctl.adm.done
      /\ ctl.released => driver /\ N = "none"
      /\ MaxLoss <= 1 => (ctl.applied /\ ctl.status # "disconnecting" => N = "applied")
  BY DEF ChannelInv, Handshake, Reliable, Shown
<1> QED BY <1>1, <1>2, ActFails

LEMMA AdmittedIs ==
  ASSUME NEW c \in Controls, NEW y \in Admissions, NEW x \in 0..5
  PROVE  [c EXCEPT !.adm = y, !.nreq = x] \in Controls
  BY DEF Controls

LEMMA CommitStep ==
  ASSUME ChannelInv, Commit
  PROVE  ChannelInv'
<1>1. /\ reader.pc = "admit" /\ UNCHANGED <<driver, chal, sup, lease, user, events, frames, net>>
  BY DEF Commit
<1>2. /\ sup.pc = "run" /\ worker = NoJob /\ Jobs /\ Handshake(N) /\ ctl \in Controls /\ ctl.att \in AttemptId
      /\ reader \in Readers /\ driver /\ reader.ev.ev = "commit" /\ reader.out # NoFrame /\ reader.out.req = APPLY
      /\ N \in Nets /\ net' = [net EXCEPT ![ctl.att] = N]
  BY <1>1, BusyIs, CurrentIs DEF ChannelInv, Jobs
<1>3. CASE Bound /\ ctl.desired /\ Acceptable(ctl.adm, reader.ev)
  <2>1. /\ ~ctl.adm.done /\ ctl.adm.req = reader.ev.req /\ ctl.adm.got = ctl.adm.exp /\ ~ctl.released /\ ctl.sel
    BY <1>2, <1>3 DEF Acceptable, Bound
  <2>2. /\ ctl' = [ctl EXCEPT !.adm = [ctl.adm EXCEPT !.done = TRUE], !.nreq = reader.ev.req]
        /\ worker' = [a |-> ctl.att, job |-> "apply"] /\ reader' = [reader EXCEPT !.pc = "work"] /\ eng' = eng
    BY <1>2, <1>3 DEF Commit, Observe
  <2>3. reader.ev.req = APPLY /\ ~ctl.applied
    <3>1. reader.ev \in Events
      BY <1>2, EventsAre DEF Readers
    <3> QED BY <1>2, <2>1, <3>1, EventsAre DEF Handshake
  <2>4. /\ ctl'.att = ctl.att /\ ctl'.process = ctl.process /\ ctl'.sel /\ ~ctl'.applied /\ ~ctl'.released
        /\ ctl'.status = ctl.status /\ ctl'.lost = ctl.lost /\ ctl'.failed = ctl.failed
        /\ ctl'.pending = ctl.pending /\ ctl'.whole = ctl.whole
    BY <1>2, <2>1, <2>2, <2>3 DEF Controls
  <2>5. ctl.adm \in Admissions
    BY <1>2 DEF Controls
  <2>6. /\ ctl'.adm = [ctl.adm EXCEPT !.done = TRUE] /\ ctl'.adm \in Admissions /\ ctl'.adm.done
        /\ ctl'.adm.got = ctl'.adm.exp /\ ctl'.adm.req = ctl.adm.req /\ ctl.adm.req = APPLY
    BY <1>2, <2>1, <2>2, <2>3, <2>5 DEF Controls, Admissions
  <2>7. ctl' \in Controls
    <3>1. PICK x \in 0..5 : x = reader.ev.req
      BY <2>3, RequestsAre
    <3>2. PICK y \in Admissions : y = [ctl.adm EXCEPT !.done = TRUE]
      BY <2>6
    <3>3. ctl' = [ctl EXCEPT !.adm = y, !.nreq = x]
      BY <2>2, <3>1, <3>2
    <3> QED BY <1>2, <3>3, AdmittedIs
  <2>8. /\ worker' \in Tasks /\ worker'.job = "apply" /\ worker'.a = ctl.att /\ worker' # NoJob
        /\ reader' \in Readers /\ reader'.pc = "work" /\ reader'.ev = reader.ev /\ reader'.out = reader.out
    BY <1>2, <2>2, RequestsAre DEF Tasks, Readers, NoJob
  <2>9. Jobs'
    BY <1>1, <1>2, <2>4, <2>8 DEF Jobs
  <2>10. N' = N
    BY <1>1, <2>4 DEF N
  <2>11. Started(ctl'.adm) /\ Started(ctl.adm)
    BY <2>6, RequestsAre DEF Started
  <2>12. Handshake(N)'
    BY <1>1, <1>2, <2>4, <2>6, <2>8, <2>10, <2>11 DEF Handshake, Started
  <2>13. Steady
    BY <2>4, SameSteady
  <2>14. MaxLoss <= 1 => Shown(N)'
    <3>1. MaxLoss <= 1 => Shown(N)
      BY DEF ChannelInv, Reliable
    <3> QED BY <1>1, <1>2, <2>3, <2>4, <2>8, <2>10, <3>1 DEF Shown
  <2> QED BY <1>1, <1>2, <2>2, <2>4, <2>7, <2>8, <2>9, <2>11, <2>12, <2>13, <2>14, ActQuiet
<1>4. CASE ~(Bound /\ ctl.desired /\ Acceptable(ctl.adm, reader.ev))
  <2>1. FailPrivateControl /\ UNCHANGED worker
    BY <1>4 DEF Commit
  <2> QED BY <1>1, <1>2, <2>1, GivesUp
<1> QED BY <1>3, <1>4

\* What a worker leaves in the operating system.
LEMMA WorkerLeaves ==
  ASSUME ChannelInv, NEW ok \in BOOLEAN, NEW left \in {"none", "dirty"}, WorkerEnds(ok, left)
  PROVE  \E n \in Nets :
           /\ net' = [net EXCEPT ![ctl.att] = n]
           /\ worker.job = "apply" => n = IF ok THEN "applied" ELSE left
           /\ worker.job = "release" => n = N \/ n = "none"
           /\ worker.job = "release" /\ ok => n = "none"
           /\ worker.job \notin {"apply", "release"} => n = N
<1>1. N \in Nets /\ net = [net EXCEPT ![ctl.att] = N]
  BY CurrentIs
<1>2. worker.a = ctl.att
  BY DEF ChannelInv, Jobs, WorkerEnds
<1>3. CASE worker.job = "apply"
  <2>1. PICK n \in Nets : n = IF ok THEN "applied" ELSE left
    BY DEF Nets
  <2>2. net' = [net EXCEPT ![ctl.att] = n]
    BY <1>2, <1>3, <2>1 DEF WorkerEnds
  <2> QED BY <1>3, <2>1, <2>2
<1>4. CASE worker.job = "release" /\ ok
  <2>1. net' = [net EXCEPT ![ctl.att] = "none"] /\ "none" \in Nets
    BY <1>2, <1>4 DEF WorkerEnds, Nets
  <2> QED BY <1>4, <2>1
<1>5. CASE worker.job # "apply" /\ ~(worker.job = "release" /\ ok)
  <2>1. net' = net
    BY <1>5 DEF WorkerEnds
  <2> QED BY <1>1, <1>5, <2>1
<1> QED BY <1>3, <1>4, <1>5

LEMMA WorkerEndsStep ==
  ASSUME ChannelInv, NEW ok \in BOOLEAN, NEW left \in {"none", "dirty"}, WorkerEnds(ok, left)
  PROVE  ChannelInv'
<1>1. PICK n \in Nets :
           /\ net' = [net EXCEPT ![ctl.att] = n]
           /\ worker.job = "apply" => n = IF ok THEN "applied" ELSE left
           /\ worker.job = "release" => n = N \/ n = "none"
           /\ worker.job = "release" /\ ok => n = "none"
           /\ worker.job \notin {"apply", "release"} => n = N
  BY WorkerLeaves
<1>2. /\ worker # NoJob /\ worker' = NoJob /\ UNCHANGED <<driver, chal, sup, lease, user, events, frames>>
  BY DEF WorkerEnds
<1>3. /\ Jobs /\ Handshake(N) /\ Course /\ ctl \in Controls /\ ctl.att \in AttemptId /\ reader \in Readers
      /\ net \in [AttemptId -> Nets] /\ (MaxLoss <= 1 => Shown(N))
  BY DEF ChannelInv, Types, Controls, Reliable
<1>4. /\ driver /\ sup.pc \notin {"finish", "done"} /\ (reader.pc \in {"epoch", "work"} \/ sup.pc = "join")
      /\ reader.pc \in {"idle", "epoch", "work"}
  BY <1>2, <1>3, RestingIs DEF Jobs, Course
<1>5. /\ driver /\ n # "none" => ctl.adm.done
      /\ ctl.released => driver /\ n = "none"
      /\ MaxLoss <= 1 => (ctl.applied /\ ctl.status # "disconnecting" => n = "applied")
  <2>1. CASE worker.job = "apply"
    BY <1>3, <2>1 DEF Handshake
  <2>2. CASE worker.job = "release"
    BY <1>1, <1>3, <2>2 DEF Handshake, Shown
  <2>3. CASE worker.job \notin {"apply", "release"}
    BY <1>1, <1>3, <2>3 DEF Handshake, Shown
  <2> QED BY <2>1, <2>2, <2>3
<1>6. NoJob \in Tasks /\ NoJob.job = "none" /\ Resting.pc = "idle" /\ Resting.out = NoFrame /\ Resting.ev.ev = "none"
  BY RestingIs
<1>7. CASE reader.pc = "idle"
  <2>1. UNCHANGED <<ctl, eng, reader>> /\ reader = Resting
    BY <1>3, <1>7 DEF WorkerEnds, Jobs
  <2>2. N' = n
    BY <1>1, <1>3, <2>1 DEF N
  <2>3. Jobs'
    BY <1>2, <1>3, <1>6, <2>1 DEF Jobs
  <2>4. Handshake(N)'
    BY <1>2, <1>3, <1>5, <1>6, <2>1, <2>2 DEF Handshake
  <2>5. Steady
    BY <2>1, SameSteady
  <2>6. MaxLoss <= 1 => Shown(N)'
    BY <1>2, <1>3, <1>5, <1>6, <2>1, <2>2 DEF Shown
  <2>7. /\ ctl' \in Controls /\ ctl'.att = ctl.att /\ ctl'.process = ctl.process /\ reader' \in Readers
        /\ worker' \in Tasks /\ reader'.out = reader.out /\ (Started(ctl'.adm) => Started(ctl.adm))
        /\ eng' = eng /\ chal' = chal /\ reader' = Resting
    BY <1>2, <1>3, <1>6, <2>1
  <2> QED BY <1>1, <1>2, <1>4, <2>3, <2>4, <2>5, <2>6, <2>7, ActQuiet
<1>8. CASE reader.pc # "idle" /\ ok
  <2>1. PICK p \in {"admit", "post"} : p = IF worker.job = "epoch" THEN "admit" ELSE "post"
    OBVIOUS
  <2>2. UNCHANGED <<ctl, eng>> /\ reader' = [reader EXCEPT !.pc = p]
    BY <1>8, <2>1 DEF WorkerEnds, Succeeded
  <2>3. reader' \in Readers /\ reader'.pc = p /\ reader'.ev = reader.ev /\ reader'.out = reader.out
    BY <1>3, <2>1, <2>2 DEF Readers
  <2>4. sup.pc = "run" /\ reader.pc \in {"epoch", "work"}
    BY <1>3, <1>4, <1>6, <1>8 DEF Course
  <2>5. N' = n
    BY <1>1, <1>3, <2>2 DEF N
  <2>6. Jobs'
    BY <1>2, <1>3, <1>4, <1>6, <2>1, <2>2, <2>3, <2>4 DEF Jobs
  <2>7. p = "post" => /\ reader.ev.ev = "commit" => worker.job = "apply"
                      /\ reader.ev.ev = "release" => worker.job = "release"
    BY <1>3, <2>1, <2>4 DEF Jobs
  <2>8. /\ p = "post" /\ reader.ev.ev = "commit" => ctl.adm.done /\ ~ctl.applied /\ ~ctl.released /\ n = "applied"
        /\ p = "post" /\ reader.ev.ev = "release" => n = "none"
    BY <1>1, <1>3, <1>8, <2>7 DEF Handshake
  <2>9. Handshake(N)'
    BY <1>2, <1>3, <1>5, <1>6, <2>2, <2>3, <2>5, <2>8 DEF Handshake
  <2>10. Steady
    BY <2>2, SameSteady
  <2>11. MaxLoss <= 1 => Shown(N)'
    BY <1>2, <1>3, <1>5, <1>6, <2>2, <2>3, <2>5 DEF Shown
  <2>12. /\ ctl' \in Controls /\ ctl'.att = ctl.att /\ ctl'.process = ctl.process
         /\ worker' \in Tasks /\ (Started(ctl'.adm) => Started(ctl.adm)) /\ eng' = eng /\ chal' = chal
    BY <1>2, <1>3, <1>6, <2>2
  <2> QED BY <1>1, <1>2, <1>4, <2>3, <2>4, <2>6, <2>9, <2>10, <2>11, <2>12, ActQuiet
<1>9. CASE reader.pc # "idle" /\ ~ok
  <2>1. FailPrivateControl
    BY <1>9 DEF WorkerEnds, Succeeded
  <2> QED BY <1>1, <1>2, <1>4, <1>5, <2>1, ActFails
<1> QED BY <1>7, <1>8, <1>9

LEMMA PostResultStep ==
  ASSUME ChannelInv, PostResult
  PROVE  ChannelInv'
<1>1. /\ reader.pc = "post" /\ UNCHANGED <<driver, chal, worker, sup, lease, user, eng, events, frames, net>>
      /\ reader' = [reader EXCEPT !.pc = "send"] /\ ctl' = Posted
  BY DEF PostResult
<1>2. /\ sup.pc = "run" /\ worker = NoJob /\ worker.job = "none" /\ worker \in Tasks
      /\ Jobs /\ Handshake(N) /\ ctl \in Controls /\ reader \in Readers
      /\ N \in Nets /\ net' = [net EXCEPT ![ctl.att] = N] /\ (MaxLoss <= 1 => Shown(N))
  BY <1>1, BusyIs, CurrentIs DEF ChannelInv, Reliable
<1>3. driver /\ reader.ev.ev \in {"commit", "release"}
  BY <1>1, <1>2 DEF Jobs
<1>4. reader' \in Readers /\ reader'.pc = "send" /\ reader'.ev = reader.ev /\ reader'.out = reader.out
  BY <1>1, <1>2 DEF Readers
<1>5. /\ ctl' \in Controls /\ ctl'.att = ctl.att /\ ctl'.process = ctl.process /\ ctl'.sel = ctl.sel
      /\ ctl'.adm = ctl.adm /\ ctl'.status = ctl.status /\ ctl'.lost = ctl.lost /\ ctl'.failed = ctl.failed
      /\ ctl'.pending = ctl.pending /\ ctl'.whole = ctl.whole
      /\ reader.ev.ev = "commit" => ctl'.applied /\ ctl'.released = ctl.released
      /\ reader.ev.ev = "release" => ~ctl'.applied /\ ctl'.released
  <2>1. CASE reader.ev.ev = "release"
    <3>1. ctl' = [ctl EXCEPT !.released = TRUE, !.applied = FALSE, !.acked = FALSE]
      BY <1>1, <2>1 DEF Posted
    <3> QED BY <1>2, <2>1, <3>1 DEF Controls
  <2>2. CASE reader.ev.ev = "commit"
    <3>1. ctl' = [ctl EXCEPT !.applied = TRUE]
      BY <1>1, <2>2 DEF Posted
    <3> QED BY <1>2, <2>2, <3>1 DEF Controls
  <2> QED BY <1>3, <2>1, <2>2
<1>6. Jobs'
  BY <1>1, <1>2, <1>4, <1>5 DEF Jobs
<1>7. N' = N
  BY <1>1, <1>5 DEF N
<1>8. Handshake(N)'
  BY <1>1, <1>2, <1>3, <1>4, <1>5, <1>7 DEF Handshake, Started
<1>9. Steady
  BY <1>5, SameSteady
<1>10. MaxLoss <= 1 => Shown(N)'
  <2>1. CASE reader.ev.ev = "commit"
    <3>1. N = "applied"
      BY <1>1, <1>2, <2>1 DEF Handshake
    <3> QED BY <1>1, <1>2, <1>4, <1>5, <1>7, <2>1, <3>1 DEF Shown
  <2>2. CASE reader.ev.ev = "release"
    BY <1>1, <1>2, <1>4, <1>5, <1>7, <2>2 DEF Shown
  <2> QED BY <1>3, <2>1, <2>2
<1>11. worker' \in Tasks /\ (Started(ctl'.adm) => Started(ctl.adm))
  BY <1>1, <1>2, <1>5
<1> QED BY <1>1, <1>2, <1>4, <1>5, <1>6, <1>8, <1>9, <1>10, <1>11, ActQuiet

LEMMA ExpireStep ==
  ASSUME ChannelInv, Expire
  PROVE  ChannelInv'
<1>1. chal' = NoChallenge /\ UNCHANGED <<driver, ctl, reader, worker, sup, lease, user, eng, events, frames, net>>
  BY DEF Expire
<1>2. /\ ctl \in Controls /\ reader \in Readers /\ worker \in Tasks /\ Jobs /\ Handshake(N) /\ Course
      /\ N \in Nets /\ net' = [net EXCEPT ![ctl.att] = N] /\ (MaxLoss <= 1 => Shown(N))
  BY <1>1, CurrentIs DEF ChannelInv, Reliable
<1>3. /\ ctl' \in Controls /\ ctl'.att = ctl.att /\ ctl'.process = ctl.process /\ reader' \in Readers /\ worker' \in Tasks
      /\ reader'.out = reader.out /\ (Started(ctl'.adm) => Started(ctl.adm)) /\ N' = N
  BY <1>1, <1>2 DEF N
<1>4. (sup.pc # "run" => reader' = Resting) /\ (sup.pc \in {"finish", "done"} => worker' = NoJob)
  BY <1>1, <1>2 DEF Course
<1>5. Jobs'
  BY <1>1, <1>2 DEF Jobs
<1>6. Handshake(N)' /\ (MaxLoss <= 1 => Shown(N)')
  BY <1>1, <1>2, <1>3 DEF Handshake, Shown
<1>7. Steady
  BY <1>1, SameSteady
<1> QED BY <1>1, <1>2, <1>3, <1>4, <1>5, <1>6, <1>7, ActQuiet

LEMMA DisconnectStep ==
  ASSUME ChannelInv, Disconnect
  PROVE  ChannelInv'
<1>1. /\ UNCHANGED <<driver, chal, reader, worker, sup, lease, user, events, frames, net>> /\ eng' = Signalled
      /\ ctl' = [ctl EXCEPT !.desired = FALSE, !.status = "disconnecting"]
  BY DEF Disconnect
<1>2. /\ ctl \in Controls /\ reader \in Readers /\ worker \in Tasks /\ Jobs /\ Handshake(N) /\ Course
      /\ N \in Nets /\ net' = [net EXCEPT ![ctl.att] = N] /\ (MaxLoss <= 1 => Shown(N))
  BY <1>1, CurrentIs DEF ChannelInv, Reliable
<1>3. /\ ctl' \in Controls /\ ctl'.att = ctl.att /\ ctl'.process = ctl.process /\ ctl'.sel = ctl.sel
      /\ ctl'.adm = ctl.adm /\ ctl'.status = "disconnecting" /\ ctl'.lost = ctl.lost /\ ctl'.failed = ctl.failed
      /\ ctl'.pending = ctl.pending /\ ctl'.whole = ctl.whole /\ ctl'.applied = ctl.applied
      /\ ctl'.released = ctl.released
  BY <1>1, <1>2 DEF Controls, Statuses
<1>4. /\ reader' \in Readers /\ worker' \in Tasks /\ reader'.out = reader.out /\ N' = N
      /\ (Started(ctl'.adm) => Started(ctl.adm))
  BY <1>1, <1>2, <1>3 DEF N
<1>5. (sup.pc # "run" => reader' = Resting) /\ (sup.pc \in {"finish", "done"} => worker' = NoJob)
  BY <1>1, <1>2 DEF Course
<1>6. Jobs'
  BY <1>1, <1>2, <1>3 DEF Jobs
<1>7. Handshake(N)'
  BY <1>1, <1>2, <1>3, <1>4 DEF Handshake, Started
<1>8. MaxLoss <= 1 => Shown(N)'
  BY <1>1, <1>2, <1>3, <1>4 DEF Shown
<1>9. Steady
  BY <1>3, SameSteady
<1> QED BY <1>1, <1>2, <1>3, <1>4, <1>5, <1>6, <1>7, <1>8, <1>9, ActQuiet

LEMMA AppendIs ==
  ASSUME NEW f \in Seq(Frames), NEW x \in Frames
  PROVE  /\ <<x>> \in Seq(Frames) /\ Append(f, x) = f \o <<x>> /\ f \o <<x>> \in Seq(Frames)
         /\ \A i \in 1..Len(f \o <<x>>) : (f \o <<x>>)[i] = x \/ \E j \in 1..Len(f) : (f \o <<x>>)[i] = f[j]
<1> DEFINE g == <<x>>
           h == f \o g
<1>1. g \in Seq(Frames) /\ Append(f, x) = h /\ Len(g) = 1 /\ g[1] = x
  OBVIOUS
<1>2. /\ h \in Seq(Frames) /\ Len(h) = Len(f) + 1 /\ Len(f) \in Nat
      /\ \A i \in 1..Len(f) : h[i] = f[i]
      /\ h[Len(f) + 1] = x
  <2> HIDE DEF g
  <2>1. /\ f \o g \in Seq(Frames) /\ Len(f \o g) = Len(f) + Len(g) /\ Len(f) \in Nat /\ Len(g) \in Nat
        /\ \A i \in 1..Len(f) : (f \o g)[i] = f[i]
        /\ \A i \in 1..Len(g) : (f \o g)[Len(f) + i] = g[i]
    BY <1>1, CatIs
  <2> QED BY <1>1, <2>1
<1> HIDE DEF h, g
<1>3. \A i \in 1..Len(h) : i \in 1..Len(f) \/ i = Len(f) + 1
  BY <1>2
<1>4. \A i \in 1..Len(h) : h[i] = x \/ \E j \in 1..Len(f) : h[i] = f[j]
  BY <1>2, <1>3
<1> QED BY <1>1, <1>2, <1>4 DEF g, h

LEMMA SendStep ==
  ASSUME ChannelInv, Send
  PROVE  ChannelInv'
<1>1. reader.pc = "send" /\ UNCHANGED <<driver, chal, worker, sup, lease, user, events, net>>
  BY DEF Send
<1>2. /\ sup.pc = "run" /\ worker = NoJob /\ worker.job = "none" /\ reader.out \in Frames /\ Jobs /\ Handshake(N)
      /\ ctl \in Controls /\ N \in Nets /\ net' = [net EXCEPT ![ctl.att] = N] /\ F \in Seq(Frames)
      /\ (MaxLoss <= 1 => Shown(N)) /\ Decided(F) /\ worker \in Tasks /\ chal \in Challenges
      /\ user \in [User -> UserAnswers]
  BY <1>1, BusyIs, CurrentIs DEF ChannelInv, Reliable
<1>3. CASE Alive(ctl.att)
  <2>1. /\ frames' = [frames EXCEPT ![ctl.att] = Append(F, reader.out)] /\ reader' = Resting /\ ctl' = ctl /\ eng' = eng
    BY <1>3 DEF Send, F
  <2>2. PICK x \in Frames : x = reader.out
    BY <1>2
  <2>3. PICK g : g = <<x>>
    OBVIOUS
  <2>4. /\ g \in Seq(Frames) /\ Append(F, x) = F \o g /\ F \o g \in Seq(Frames)
        /\ \A i \in 1..Len(F \o g) : (F \o g)[i] = x \/ \E j \in 1..Len(F) : (F \o g)[i] = F[j]
    BY <1>2, <2>2, <2>3, AppendIs
  <2>5. frames' = [frames EXCEPT ![ctl.att] = F \o g]
    BY <2>1, <2>2, <2>4
  <2>6. /\ Resting \in Readers /\ Resting.pc = "idle" /\ Resting.ev.ev = "none" /\ Resting.out = NoFrame
        /\ NoFrame.req = None
    BY RestingIs, FramesAre
  <2>7. /\ ctl' \in Controls /\ ctl'.att = ctl.att /\ ctl'.process = ctl.process /\ reader' \in Readers
        /\ worker' \in Tasks /\ chal' \in Challenges /\ user' \in [User -> UserAnswers]
    BY <1>1, <1>2, <2>1, <2>6
  <2>8. Types' /\ Elsewhere /\ Q' = Q /\ F' = F \o g /\ N' = N /\ Alike(E', E)
    BY <1>1, <1>2, <2>1, <2>4, <2>5, <2>7, ActIs
  <2>9. Jobs'
    BY <1>1, <1>2, <2>1, <2>6 DEF Jobs
  <2>10. Handshake(N)' /\ (MaxLoss <= 1 => Shown(N)')
    BY <1>1, <1>2, <2>1, <2>6, <2>8 DEF Handshake, Shown
  <2>11. Decided(F)'
    <3>1. reader'.out.req # PLAN
      BY <2>1, <2>6, RequestsAre
    <3>2. \A i \in 1..Len(F \o g) : (F \o g)[i].req = PLAN => (F \o g)[i].ans # Excluded
      BY <1>2, <2>2, <2>4 DEF Decided
    <3> QED BY <1>1, <2>8, <3>1, <3>2 DEF Decided, Excluded
  <2>12. \A req : Has(g, Answering(req)) => x.req = req
    BY <2>3, HasShort DEF Answering
  <2>13. x.req \notin Otps
    BY <1>1, <1>2, <2>2 DEF Jobs
  <2>14. OtpAsked(Q, F, E)'
    <3>1. ~Has(g, Secrets)
      BY <2>3, <2>13, HasShort, SecretsAre
    <3>2. user' = user /\ chal' = chal
      BY <1>1
    <3> QED BY <2>4, <2>7, <2>8, <3>1, <3>2, OtpSame
  <2>15. Moves(g)
    <3>1. \A req : Once(g, Answering(req))
      BY <2>3, HasShort
    <3>2. \A req \in {PLAN, APPLY, RELEASE} : reader'.out.req # req
      BY <2>1, <2>6, RequestsAre
    <3> QED BY <2>2, <2>4, <2>8, <2>12, <3>1, <3>2 DEF Moves
  <2>16. Steady
    BY <2>1, SameSteady
  <2>17. UNCHANGED <<driver, sup, lease>> /\ \A u \in User : user'[u] = user[u]
    BY <1>1
  <2>18. Started(ctl'.adm) => Started(ctl.adm)
    BY <2>1
  <2> QED BY <1>2, <2>1, <2>7, <2>8, <2>9, <2>10, <2>11, <2>14, <2>15, <2>16, <2>17, <2>18, ActStep
<1>4. CASE ~Alive(ctl.att)
  <2>1. FailPrivateControl /\ UNCHANGED <<worker, frames>>
    BY <1>1, <1>4 DEF Send
  <2> QED BY <1>1, <1>2, <2>1, GivesUp
<1> QED BY <1>3, <1>4

\* A step of a user, who may have written to the current engine.
LEMMA UserStep ==
  ASSUME ChannelInv, UNCHANGED <<driver, reader, worker, sup, lease, events, net>>, eng' = eng \/ eng' = Signalled,
         ctl' = ctl \/ ctl' = [ctl EXCEPT !.desired = FALSE], chal' \in Challenges, user' \in [User -> UserAnswers],
         \A u \in User : \/ user'[u] = user[u] \/ user'[u] = NoAnswer
                         \/ user'[u].a = ctl.att /\ user'[u].out \in Secrets,
         NEW g, g = <<>> \/ \E x \in Secrets : g = <<x>>,
         frames' = [frames EXCEPT ![ctl.att] = F \o g],
         Q' = Q /\ F' = F \o g /\ Alike(E', E) /\ ctl'.att = ctl.att /\ ctl'.process = ctl.process => OtpAsked(Q, F, E)'
  PROVE  ChannelInv'
<1>1. /\ ctl \in Controls /\ reader \in Readers /\ worker \in Tasks /\ Jobs /\ Handshake(N) /\ Course
      /\ N \in Nets /\ net' = [net EXCEPT ![ctl.att] = N] /\ (MaxLoss <= 1 => Shown(N)) /\ Decided(F)
      /\ F \in Seq(Frames)
  BY CurrentIs DEF ChannelInv, Reliable
<1>2. /\ ctl' \in Controls /\ ctl'.att = ctl.att /\ ctl'.process = ctl.process /\ ctl'.sel = ctl.sel
      /\ ctl'.adm = ctl.adm /\ ctl'.status = ctl.status /\ ctl'.lost = ctl.lost /\ ctl'.failed = ctl.failed
      /\ ctl'.pending = ctl.pending /\ ctl'.whole = ctl.whole /\ ctl'.applied = ctl.applied
      /\ ctl'.released = ctl.released
  BY <1>1 DEF Controls
<1>3. /\ g \in Seq(Frames) /\ F \o g \in Seq(Frames)
      /\ \A i \in 1..Len(F \o g) : (F \o g)[i].req \in Otps \/ \E j \in 1..Len(F) : (F \o g)[i] = F[j]
      /\ \A req \in {PLAN, APPLY, RELEASE} : Once(g, Answering(req)) /\ ~Has(g, Answering(req))
  <2>1. CASE g = <<>>
    <3>1. F \o g = F /\ g \in Seq(Frames)
      BY <1>1, <2>1, CatNothing, NoFrames
    <3> QED BY <1>1, <2>1, <3>1, HasShort
  <2>2. CASE \E x \in Secrets : g = <<x>>
    <3>1. PICK x \in Secrets : g = <<x>>
      BY <2>2
    <3>2. x \in Frames /\ x.req \in Otps
      BY DEF Secrets
    <3>3. /\ g \in Seq(Frames) /\ F \o g \in Seq(Frames)
          /\ \A i \in 1..Len(F \o g) : (F \o g)[i] = x \/ \E j \in 1..Len(F) : (F \o g)[i] = F[j]
      BY <1>1, <3>1, <3>2, AppendIs
    <3>4. \A req \in {PLAN, APPLY, RELEASE} : x \notin Answering(req)
      BY <3>2, RequestsAre DEF Answering
    <3> QED BY <3>1, <3>2, <3>3, <3>4, HasShort
  <2> QED BY <2>1, <2>2
<1>4. reader' \in Readers /\ worker' \in Tasks /\ UNCHANGED <<driver, sup, lease, events>>
  BY <1>1
<1>5. Types' /\ Elsewhere /\ Q' = Q /\ F' = F \o g /\ N' = N /\ Alike(E', E)
  BY <1>1, <1>2, <1>3, <1>4, ActIs
<1>6. Jobs'
  BY <1>1, <1>2 DEF Jobs
<1>7. Handshake(N)' /\ (MaxLoss <= 1 => Shown(N)')
  BY <1>1, <1>2, <1>5 DEF Handshake, Shown, Started
<1>8. Decided(F)'
  <2>1. \A i \in 1..Len(F \o g) : (F \o g)[i].req = PLAN => (F \o g)[i].ans # Excluded
    BY <1>1, <1>3, RequestsAre DEF Decided
  <2> QED BY <1>1, <1>5, <2>1 DEF Decided, Excluded
<1>9. OtpAsked(Q, F, E)'
  BY <1>2, <1>5
<1>10. Moves(g)
  BY <1>3, <1>5 DEF Moves
<1>11. Steady
  BY <1>2, SameSteady
<1>12. UNCHANGED <<driver, sup, lease>> /\ (Started(ctl'.adm) => Started(ctl.adm))
  BY <1>2
<1>13. (sup.pc # "run" => reader' = Resting) /\ (sup.pc \in {"finish", "done"} => worker' = NoJob)
  BY <1>1 DEF Course
<1> QED BY <1>2, <1>5, <1>6, <1>7, <1>8, <1>9, <1>10, <1>11, <1>12, <1>13, ActStep

LEMMA RespondStep ==
  ASSUME ChannelInv, NEW u \in User, NEW a \in AttemptId, Respond(u, a)
  PROVE  ChannelInv'
<1>1. /\ ctl.att = a /\ chal # NoChallenge /\ chal' = NoChallenge
      /\ UNCHANGED <<driver, ctl, reader, worker, sup, lease, eng, events, frames, net>>
  BY DEF Respond, Answered
<1>2. PICK x : x = Frame("auth_response", chal.req, "secret")
  OBVIOUS
<1>3. x \in Secrets /\ x \in Frames /\ x.req = E.otp
  <2>1. chal.req \in Otps /\ chal.req = E.otp
    BY <1>1 DEF ChannelInv, OtpAsked, OtpCurrent
  <2> QED BY <1>2, <2>1, FramesAre DEF Secrets
<1>4. PICK y \in UserAnswers : y.a = ctl.att /\ y.out = x /\ user' = [user EXCEPT ![u] = y]
  <2> DEFINE y == [a |-> a, out |-> x]
  <2>1. y \in UserAnswers /\ y.a = ctl.att /\ y.out = x
    BY <1>1, <1>3 DEF UserAnswers
  <2>2. user' = [user EXCEPT ![u] = y]
    BY <1>2 DEF Respond
  <2> QED BY <2>1, <2>2
<1>5. /\ user \in [User -> UserAnswers] /\ F \in Seq(Frames) /\ frames' = [frames EXCEPT ![ctl.att] = F]
      /\ OtpAsked(Q, F, E) /\ NoChallenge \in Challenges
  BY <1>1, CurrentIs, RestingIs DEF ChannelInv
<1>6. /\ user' \in [User -> UserAnswers] /\ user'[u] = y /\ \A v \in User : v # u => user'[v] = user[v]
  BY <1>4, <1>5
<1>8. /\ ~Asking /\ ~Has(F, Secrets) /\ ~Has(Q, Named("challenge")) /\ OtpPlace(E)
      /\ Once(Q, Named("challenge")) /\ Once(F, Secrets)
  BY <1>1, <1>5 DEF OtpAsked
<1>9. PICK g : g = <<>>
  OBVIOUS
<1>10. F \o g = F
  BY <1>5, <1>9, CatNothing
<1>11. ASSUME Q' = Q, F' = F \o g, Alike(E', E), ctl'.att = ctl.att, ctl'.process = ctl.process
       PROVE  OtpAsked(Q, F, E)'
  <2>1. OtpPlace(E)'
    <3>1. OtpPlace(E')
      BY <1>8, <1>11, AlikePlaces
    <3> QED BY <3>1 DEF OtpPlace
  <2>2. \A v, w \in User : user'[v].a = ctl'.att /\ user'[w].a = ctl'.att => v = w
    BY <1>6, <1>8, <1>11 DEF Asking
  <2>3. F' = F
    BY <1>10, <1>11
  <2>4. OtpCurrent(Q, F, E.otp)'
    <3>1. ~Has(Q, AskingElse(E.otp)) /\ ~Has(F, AnsweringElse(E.otp))
      BY <1>5 DEF OtpAsked, OtpCurrent
    <3>2. \A v \in User : user'[v] = user[v] \/ user'[v].out.req = E.otp
      BY <1>3, <1>4, <1>6
    <3> QED BY <1>1, <1>11, <2>3, <3>1, <3>2, OtpStill
  <2> QED BY <1>1, <1>8, <1>11, <2>1, <2>2, <2>3, <2>4 DEF OtpAsked
<1>12. \A v \in User : user'[v] = user[v] \/ (user'[v].a = ctl.att /\ user'[v].out \in Secrets)
  BY <1>3, <1>4, <1>6
<1>13. frames' = [frames EXCEPT ![ctl.att] = F \o g] /\ eng' = eng /\ ctl' = ctl /\ chal' \in Challenges
  BY <1>1, <1>5, <1>10
<1>14. UNCHANGED <<driver, reader, worker, sup, lease, events, net>>
  BY <1>1
<1> QED BY <1>6, <1>9, <1>11, <1>12, <1>13, <1>14, UserStep

LEMMA DeliverStep ==
  ASSUME ChannelInv, NEW u \in User, Deliver(u)
  PROVE  ChannelInv'
<1>1. /\ user[u] # NoAnswer /\ user' = [user EXCEPT ![u] = NoAnswer]
      /\ UNCHANGED <<driver, chal, reader, worker, sup, lease, events, net>>
  BY DEF Deliver
<1>2. /\ user \in [User -> UserAnswers] /\ F \in Seq(Frames) /\ frames = [frames EXCEPT ![ctl.att] = F]
      /\ OtpAsked(Q, F, E) /\ Others /\ chal \in Challenges /\ ctl.att \in AttemptId
  BY CurrentIs DEF ChannelInv
<1>3. /\ user[u].a # None /\ user[u].a \in AttemptId /\ user[u].out \in Secrets
  BY <1>1, <1>2 DEF Others, UserAnswers
<1>4. /\ user' \in [User -> UserAnswers] /\ user'[u] = NoAnswer /\ \A v \in User : v # u => user'[v] = user[v]
  BY <1>1, <1>2, RestingIs
<1>5. NoAnswer.a # ctl.att
  BY <1>2, RestingIs, RequestsAre
<1>6. /\ \A v \in User : user'[v].a = ctl.att => user[v].a = ctl.att /\ v # u
      /\ \A v \in User : user'[v] = user[v] \/ user'[v] = NoAnswer
  BY <1>4, <1>5
<1>7. chal' \in Challenges /\ chal' = chal /\ UNCHANGED <<driver, reader, worker, sup, lease, events, net>>
  BY <1>1, <1>2
<1>8. CASE Alive(user[u].a)
  <2>1. user[u].a = ctl.att
    BY <1>2, <1>3, <1>8 DEF Others, Alive
  <2>2. PICK x \in Secrets : x = user[u].out
    BY <1>3
  <2>3. PICK g : g = <<x>>
    OBVIOUS
  <2>4. g \in Seq(Frames) /\ Append(F, x) = F \o g
    BY <1>2, <2>2, <2>3, AppendIs DEF Secrets
  <2>5. /\ frames' = [frames EXCEPT ![ctl.att] = F \o g] /\ ctl' = ctl /\ eng' = eng
    BY <1>8, <2>1, <2>2, <2>4 DEF Deliver, F
  <2>6. /\ Asking /\ ~Has(F, Secrets) /\ chal = NoChallenge /\ ~Has(Q, Named("challenge")) /\ OtpPlace(E)
        /\ Once(Q, Named("challenge"))
    <3>1. Asking
      BY <2>1 DEF Asking
    <3> QED BY <1>2, <3>1 DEF OtpAsked
  <2>7. Once(F \o g, Secrets)
    <3>1. Once(g, Secrets)
      BY <2>3, HasShort
    <3> QED BY <1>2, <2>4, <2>6, <3>1, HasCat
  <2>8. \A v \in User : user'[v].a # ctl.att
    <3>1. \A v \in User : user[v].a = ctl.att => v = u
      BY <1>2, <2>1 DEF OtpAsked
    <3> QED BY <1>6, <3>1
  <2>9. ASSUME Q' = Q, F' = F \o g, Alike(E', E), ctl'.att = ctl.att, ctl'.process = ctl.process
        PROVE  OtpAsked(Q, F, E)'
    <3>1. OtpPlace(E)'
      <4>1. OtpPlace(E')
        BY <2>6, <2>9, AlikePlaces
      <4> QED BY <4>1 DEF OtpPlace
    <3>2. ~Asking'
      BY <2>8, <2>9 DEF Asking
    <3>3. \A v, w \in User : user'[v].a = ctl'.att /\ user'[w].a = ctl'.att => v = w
      BY <2>8, <2>9
    <3>4. OtpCurrent(Q, F, E.otp)'
      <4>1. /\ ~Has(Q, AskingElse(E.otp)) /\ ~Has(F, AnsweringElse(E.otp))
            /\ user[u].out.req = E.otp
        BY <1>2, <2>1 DEF OtpAsked, OtpCurrent
      <4>2. ~Has(g, AnsweringElse(E.otp))
        BY <2>2, <2>3, <4>1, HasShort DEF AnsweringElse
      <4>3. ~Has(F \o g, AnsweringElse(E.otp))
        BY <1>2, <2>4, <4>1, <4>2, HasCat
      <4> QED BY <1>7, <2>8, <2>9, <4>1, <4>3, OtpStill
    <3> QED BY <1>7, <2>6, <2>7, <2>9, <3>1, <3>2, <3>3, <3>4 DEF OtpAsked
  <2> QED BY <1>4, <1>6, <1>7, <2>3, <2>5, <2>9, UserStep
<1>9. CASE ~Alive(user[u].a)
  <2>1. PICK g : g = <<>>
    OBVIOUS
  <2>2. F \o g = F
    BY <1>2, <2>1, CatNothing
  <2>3. frames' = [frames EXCEPT ![ctl.att] = F \o g]
    BY <1>2, <1>9, <2>2 DEF Deliver
  <2>4. (ctl' = ctl \/ ctl' = [ctl EXCEPT !.desired = FALSE]) /\ (eng' = eng \/ eng' = Signalled)
    BY <1>9 DEF Deliver
  <2>5. ASSUME Q' = Q, F' = F \o g, Alike(E', E), ctl'.att = ctl.att, ctl'.process = ctl.process
        PROVE  OtpAsked(Q, F, E)'
    <3>1. OtpPlace(E)' <=> OtpPlace(E)
      <4>1. OtpPlace(E') <=> OtpPlace(E)
        BY <2>5, AlikePlaces
      <4> QED BY <4>1 DEF OtpPlace
    <3>2. Asking' => Asking
      BY <1>6, <2>5 DEF Asking
    <3>3. \A v, w \in User : user'[v].a = ctl'.att /\ user'[w].a = ctl'.att => v = w
      BY <1>2, <1>6, <2>5 DEF OtpAsked
    <3>4. F' = F
      BY <2>2, <2>5
    <3>5. OtpCurrent(Q, F, E.otp)'
      <4>1. ~Has(Q, AskingElse(E.otp)) /\ ~Has(F, AnsweringElse(E.otp))
        BY <1>2 DEF OtpAsked, OtpCurrent
      <4>2. \A v \in User : user'[v].a = ctl.att => user'[v] = user[v]
        BY <1>4, <1>6
      <4> QED BY <1>7, <2>5, <3>4, <4>1, <4>2, OtpStill
    <3> QED BY <1>2, <1>7, <2>5, <3>1, <3>2, <3>3, <3>4, <3>5 DEF OtpAsked
  <2> QED BY <1>4, <1>6, <1>7, <2>1, <2>3, <2>4, <2>5, UserStep
<1> QED BY <1>8, <1>9
-----------------------------------------------------------------------------
(* The supervisor, and the first state of an attempt. *)

\* What concerns the requests, when nothing is left to be read and the reader
\* rests.
LEMMA ReadOut ==
  ASSUME ChannelInv, Q' = <<>>, F' = F, E' = E, reader' = Resting, ctl'.att = ctl.att, user' = user,
         chal' = NoChallenge \/ (chal' = chal /\ ctl'.process = ctl.process), ctl'.adm = ctl.adm, driver' = driver
  PROVE  /\ Decided(F)' /\ Shape(E)' /\ Begun(Q, E)' /\ OtpAsked(Q, F, E)'
         /\ PlanAsked(Q, F, E)' /\ ApplyAsked(Q, F, E)' /\ ReleaseAsked(Q, F, E)' /\ Announced(Q)'
<1>1. /\ Decided(F) /\ Shape(E) /\ Begun(Q, E) /\ OtpAsked(Q, F, E) /\ PlanAsked(Q, F, E)
      /\ ApplyAsked(Q, F, E) /\ ReleaseAsked(Q, F, E)
  BY DEF ChannelInv
<1>2. \A S : ~Has(<<>>, S) /\ Once(<<>>, S)
  BY HasShort
<1>3. \A req \in {PLAN, APPLY, RELEASE} : reader'.out.req # req
  BY RestingIs, FramesAre, RequestsAre
<1>4. Decided(F)' /\ Shape(E)' /\ Begun(Q, E)'
  BY <1>1, <1>2, <1>3 DEF Decided, Excluded, Shape, Begun, Started
<1>5. OtpAsked(Q, F, E)'
  <2>1. (Asking' <=> Asking) /\ (OtpPlace(E)' <=> OtpPlace(E))
    BY DEF Asking, OtpPlace
  <2>2. OtpCurrent(Q, F, E.otp)'
    <3>1. Alike(E', E) /\ ~Has(F, AnsweringElse(E.otp))
      BY <1>1 DEF Alike, OtpAsked, OtpCurrent
    <3> QED BY <1>2, <3>1, OtpStill
  <2> QED BY <1>1, <1>2, <2>1, <2>2 DEF OtpAsked
<1>6. PlanAsked(Q, F, E)' /\ ApplyAsked(Q, F, E)' /\ ReleaseAsked(Q, F, E)'
  <2>1. /\ PlanPlace(E)' <=> PlanPlace(E)
        /\ ApplyPlace(E)' <=> ApplyPlace(E)
        /\ ReleasePlace(E)' <=> ReleasePlace(E)
    BY DEF PlanPlace, ApplyPlace, ReleasePlace
  <2>2. PlanAsked(Q, F, E)'
    BY <1>1, <1>2, <1>3, <2>1 DEF PlanAsked, Asked, Open
  <2>3. ApplyAsked(Q, F, E)'
    BY <1>1, <1>2, <1>3, <2>1 DEF ApplyAsked, Asked, Open
  <2>4. ReleaseAsked(Q, F, E)'
    BY <1>1, <1>2, <1>3, <2>1 DEF ReleaseAsked, Asked, Open
  <2> QED BY <2>2, <2>3, <2>4
<1>7. Announced(Q)'
  BY DEF Announced
<1> QED BY <1>4, <1>5, <1>6, <1>7

LEMMA DrainStep ==
  ASSUME ChannelInv, NEW c \in BOOLEAN, Drain(c)
  PROVE  ChannelInv'
<1>1. /\ sup.pc = "run" /\ E.pc = "gone" /\ (c => Q = <<>>) /\ reader' = Resting
      /\ events' = [events EXCEPT ![ctl.att] = <<>>] /\ sup' = [pc |-> "join", complete |-> c /\ ctl.whole]
      /\ UNCHANGED <<driver, ctl, chal, worker, lease, user, eng, frames, net>>
  BY DEF Drain, E, Q
<1>2. /\ Types /\ Others /\ Course /\ Jobs /\ Handshake(N) /\ (MaxLoss <= 1 => Reliable(Q, E, N) /\ Owned)
      /\ ctl \in Controls /\ ctl.att \in AttemptId /\ events \in [AttemptId -> Seq(Events)]
  BY CurrentIs DEF ChannelInv, Types
<1>3. PICK z \in BOOLEAN : z = (c /\ ctl.whole)
  BY <1>2 DEF Controls
<1>4. sup'.pc = "join" /\ sup'.complete = z /\ sup' \in Supervisors
  BY <1>1, <1>3 DEF Supervisors
<1>5. Q' = <<>> /\ F' = F /\ E' = E /\ N' = N
  BY <1>1, <1>2 DEF Q, F, E, N
<1>6. /\ Decided(F)' /\ Shape(E)' /\ Begun(Q, E)' /\ OtpAsked(Q, F, E)'
      /\ PlanAsked(Q, F, E)' /\ ApplyAsked(Q, F, E)' /\ ReleaseAsked(Q, F, E)' /\ Announced(Q)'
  BY <1>1, <1>5, ReadOut
<1>7. /\ Resting \in Readers /\ Resting.pc = "idle" /\ Resting.ev.ev = "none" /\ Resting.out = NoFrame
  BY RestingIs
<1>8. Types'
  <2>1. events' \in [AttemptId -> Seq(Events)]
    BY <1>1, <1>2, SaysNothing
  <2> QED BY <1>1, <1>2, <1>4, <1>7, <2>1 DEF Types
<1>9. Others'
  <2>1. \A a \in AttemptId : a # ctl.att => events'[a] = events[a]
    BY <1>1, <1>2
  <2> QED BY <1>1, <1>2, <2>1 DEF Others
<1>10. Course'
  BY <1>1, <1>2, <1>4, <1>5 DEF Course
<1>11. Jobs'
  BY <1>1, <1>2, <1>4, <1>7 DEF Jobs
<1>12. Handshake(N)'
  BY <1>1, <1>2, <1>5, <1>7 DEF Handshake
<1>13. ASSUME MaxLoss <= 1 PROVE Reliable(Q, E, N)' /\ Owned'
  <2>1. Shown(N)'
    BY <1>1, <1>2, <1>5, <1>7, <1>13 DEF Shown, Reliable
  <2>2. ASSUME ~driver PROVE Legacy(Q, E, N)'
    <3>1. Legacy(Q, E, N)
      BY <1>2, <1>13, <2>2 DEF Reliable
    <3>2. N # "none" => ~z \/ ctl.failed \/ ctl.pending
      <4>1. CASE c
        <5>1. Q = <<>>
          BY <1>1, <4>1
        <5>2. ~Has(Q, Named("configuring")) /\ ~Twice(Q, Named("configuring"))
          BY <5>1 DEF Has, Twice
        <5> QED BY <1>1, <1>3, <3>1, <5>2 DEF Legacy, WarnedTwice, Suspect
      <4>2. CASE ~c
        BY <1>3, <4>2
      <4> QED BY <4>1, <4>2
    <3>3. ~Cleaned(Q)'
      BY <1>5, SaysNothing DEF Cleaned
    <3> QED BY <1>1, <1>4, <1>5, <3>2, <3>3 DEF Legacy
  <2>3. Owned'
    BY <1>1, <1>2, <1>13 DEF Owned
  <2> QED BY <1>1, <1>6, <2>1, <2>2, <2>3 DEF Reliable
<1> QED BY <1>6, <1>8, <1>9, <1>10, <1>11, <1>12, <1>13 DEF ChannelInv

LEMMA ReapStep ==
  ASSUME ChannelInv, Reap
  PROVE  ChannelInv'
<1>1. /\ sup.pc = "join" /\ worker = NoJob /\ sup' = [sup EXCEPT !.pc = "finish"] /\ chal' = Cancelled
      /\ UNCHANGED <<driver, reader, worker, lease, user, eng, events, frames, net>>
  BY DEF Reap, Joined
<1>2. /\ Types /\ Others /\ Course /\ Jobs /\ Handshake(N) /\ (MaxLoss <= 1 => Reliable(Q, E, N) /\ Owned)
      /\ ctl \in Controls /\ ctl.att \in AttemptId /\ sup \in Supervisors /\ E \in Engines /\ OtpAsked(Q, F, E)
  BY CurrentIs DEF ChannelInv, Types
<1>3. PICK z \in BOOLEAN : z = (ctl.failed \/ ~sup.complete \/ eng[ctl.att].code = "killed" \/ ctl.pending)
  BY <1>2 DEF Controls, Supervisors
<1>4. ctl' = [ctl EXCEPT !.process = FALSE, !.seen = {}, !.failed = z]
  BY <1>3 DEF Reap
<1>5. /\ ctl' \in Controls /\ ctl'.att = ctl.att /\ ~ctl'.process /\ ctl'.sel = ctl.sel /\ ctl'.failed = z
      /\ ctl'.adm = ctl.adm /\ ctl'.status = ctl.status /\ ctl'.applied = ctl.applied /\ ctl'.released = ctl.released
  BY <1>2, <1>4 DEF Controls
<1>6. sup'.pc = "finish" /\ sup' \in Supervisors
  BY <1>1, <1>2 DEF Supervisors
<1>7. E.pc = "gone" /\ Q = <<>> /\ reader = Resting /\ lease = ctl.att
  BY <1>1, <1>2 DEF Course
<1>8. Q' = <<>> /\ F' = F /\ E' = E /\ N' = N /\ reader' = Resting
  BY <1>1, <1>5, <1>7 DEF Q, F, E, N
<1>9. chal' = NoChallenge /\ NoChallenge \in Challenges
  <2>1. chal # NoChallenge => chal.a = ctl.att
    BY <1>2 DEF OtpAsked
  <2> QED BY <1>1, <2>1, RestingIs DEF Cancelled
<1>10. /\ Decided(F)' /\ Shape(E)' /\ Begun(Q, E)' /\ OtpAsked(Q, F, E)'
       /\ PlanAsked(Q, F, E)' /\ ApplyAsked(Q, F, E)' /\ ReleaseAsked(Q, F, E)' /\ Announced(Q)'
  <2>1. user' = user /\ driver' = driver
    BY <1>1
  <2> QED BY <1>5, <1>8, <1>9, <2>1, ReadOut
<1>11. /\ Resting \in Readers /\ Resting.pc = "idle" /\ Resting.ev.ev = "none" /\ Resting.out = NoFrame
       /\ NoJob \in Tasks /\ NoJob.job = "none"
  BY RestingIs
<1>12. Types'
  BY <1>1, <1>2, <1>5, <1>6, <1>9 DEF Types
<1>13. Others'
  BY <1>1, <1>2, <1>5 DEF Others
<1>14. Course'
  BY <1>1, <1>2, <1>5, <1>6, <1>7, <1>8 DEF Course
<1>15. Jobs'
  BY <1>1, <1>7, <1>11 DEF Jobs
<1>16. Handshake(N)'
  BY <1>1, <1>2, <1>5, <1>7, <1>8, <1>11 DEF Handshake, Started
<1>17. ASSUME MaxLoss <= 1 PROVE Reliable(Q, E, N)' /\ Owned'
  <2>1. Shown(N)'
    BY <1>1, <1>2, <1>5, <1>7, <1>8, <1>11, <1>17 DEF Shown, Reliable
  <2>2. ASSUME ~driver PROVE Legacy(Q, E, N)'
    <3>1. Legacy(Q, E, N)
      BY <1>2, <1>17, <2>2 DEF Reliable
    <3>2. N # "none" => z
      BY <1>1, <1>3, <3>1 DEF Legacy
    <3>3. ~Cleaned(Q)'
      BY <1>8, SaysNothing DEF Cleaned
    <3> QED BY <1>5, <1>6, <1>7, <1>8, <3>2, <3>3 DEF Legacy
  <2>3. Owned'
    BY <1>1, <1>2, <1>17 DEF Owned
  <2> QED BY <1>1, <1>10, <2>1, <2>2, <2>3 DEF Reliable
<1> QED BY <1>10, <1>12, <1>13, <1>14, <1>15, <1>16, <1>17 DEF ChannelInv

LEMMA FinishStep ==
  ASSUME ChannelInv, Finish
  PROVE  ChannelInv'
<1>1. /\ sup.pc = "finish" /\ lease' = (IF CleanupConfirmed THEN None ELSE lease) /\ sup' = [sup EXCEPT !.pc = "done"]
      /\ UNCHANGED <<driver, ctl, chal, reader, worker, user, eng, events, frames, net>>
  BY DEF Finish
<1>2. /\ Types /\ Others /\ Course /\ Jobs /\ Handshake(N) /\ (MaxLoss <= 1 => Reliable(Q, E, N) /\ Owned)
      /\ ctl \in Controls /\ ctl.att \in AttemptId /\ sup \in Supervisors
  BY CurrentIs DEF ChannelInv, Types
<1>3. sup'.pc = "done" /\ sup' \in Supervisors
  BY <1>1, <1>2 DEF Supervisors
<1>4. E.pc = "gone" /\ Q = <<>> /\ reader = Resting /\ lease = ctl.att /\ worker = NoJob
  BY <1>1, <1>2 DEF Course
<1>5. Q' = <<>> /\ F' = F /\ E' = E /\ N' = N /\ reader' = Resting
  BY <1>1, <1>4 DEF Q, F, E, N
<1>6. /\ Decided(F)' /\ Shape(E)' /\ Begun(Q, E)' /\ OtpAsked(Q, F, E)'
      /\ PlanAsked(Q, F, E)' /\ ApplyAsked(Q, F, E)' /\ ReleaseAsked(Q, F, E)' /\ Announced(Q)'
  BY <1>1, <1>5, ReadOut
<1>7. Types'
  BY <1>1, <1>2, <1>3 DEF Types
<1>8. Others'
  BY <1>1, <1>2 DEF Others
<1>9. Course'
  BY <1>1, <1>2, <1>3, <1>4, <1>5 DEF Course
<1>10. Jobs'
  BY <1>1, <1>2, <1>3, <1>4 DEF Jobs
<1>11. Handshake(N)'
  BY <1>1, <1>2, <1>5 DEF Handshake
<1>12. ASSUME MaxLoss <= 1 PROVE Reliable(Q, E, N)' /\ Owned'
  <2>1. Shown(N)'
    BY <1>1, <1>2, <1>5, <1>12 DEF Shown, Reliable
  <2>2. ASSUME ~driver PROVE Legacy(Q, E, N)'
    <3>1. ~Cleaned(Q)'
      BY <1>5, SaysNothing DEF Cleaned
    <3> QED BY <1>3, <1>4, <1>5, <3>1 DEF Legacy
  <2>3. N # "none" => ~CleanupConfirmed
    <3>1. CASE driver
      BY <1>2, <3>1 DEF Handshake, CleanupConfirmed
    <3>2. CASE ~driver
      BY <1>1, <1>2, <1>12, <3>2 DEF Reliable, Legacy, CleanupConfirmed
    <3> QED BY <3>1, <3>2
  <2>4. Owned'
    <3>1. \A a \in AttemptId : net[a] # "none" => a = ctl.att
      BY <1>2, <1>4, <1>12 DEF Owned
    <3> QED BY <1>1, <1>4, <2>3, <3>1 DEF Owned, N
  <2> QED BY <1>1, <1>6, <2>1, <2>2, <2>4 DEF Reliable
<1> QED BY <1>6, <1>7, <1>8, <1>9, <1>10, <1>11, <1>12 DEF ChannelInv

\* The first state of an attempt.
Fresh ==
  /\ Types /\ Others /\ (MaxLoss <= 1 => Owned) /\ ~Asking
  /\ E = NewEngine /\ Q = <<>> /\ F = <<>> /\ N = "none" /\ ctl = NewControl(ctl.att)
  /\ chal = NoChallenge /\ reader = Resting /\ worker = NoJob
  /\ sup = [pc |-> "run", complete |-> FALSE] /\ lease = ctl.att

LEMMA FreshInv == Fresh => ChannelInv
<1> SUFFICES ASSUME Fresh PROVE ChannelInv
  OBVIOUS
<1>1. /\ Types /\ Others /\ (MaxLoss <= 1 => Owned) /\ ~Asking /\ Q = <<>> /\ F = <<>> /\ N = "none"
      /\ chal = NoChallenge /\ reader = Resting /\ worker = NoJob /\ lease = ctl.att
      /\ sup.pc = "run"
  BY DEF Fresh
<1>2. /\ E.pc = "auth" /\ ~E.native /\ ~E.started /\ ~E.stale
  BY DEF Fresh, NewEngine
<1>3. /\ ctl.process /\ ~ctl.sel /\ ctl.adm = NewAdmission /\ ~ctl.applied /\ ~ctl.released /\ ctl.status = "connecting"
  <2>1. PICK a : a = ctl.att
    OBVIOUS
  <2>2. ctl = NewControl(a)
    BY <2>1 DEF Fresh
  <2> QED BY <2>2 DEF NewControl
<1>4. ~Started(ctl.adm) /\ ~ctl.adm.done
  BY <1>3 DEF NewAdmission, Started
<1>5. /\ Resting.pc = "idle" /\ Resting.ev.ev = "none" /\ Resting.out = NoFrame /\ NoJob.job = "none"
      /\ NoFrame.req = None /\ PLAN # None /\ APPLY # None /\ RELEASE # None
  BY RestingIs, FramesAre, RequestsAre
<1>6. \A S : ~Has(<<>>, S) /\ Once(<<>>, S)
  BY HasShort
<1>7. Course
  BY <1>1, <1>2, <1>3 DEF Course
<1>8. Jobs
  BY <1>1, <1>5 DEF Jobs
<1>9. Handshake(N)
  BY <1>1, <1>3, <1>4, <1>5 DEF Handshake
<1>10. Decided(F) /\ Announced(Q) /\ ~Cleaned(Q)
  BY <1>1, <1>5 DEF Decided, Announced, Cleaned
<1>11. Shape(E) /\ Begun(Q, E)
  <2>1. Begun(Q, E)
    BY <1>1, <1>4, <1>6 DEF Begun
  <2>2. Shape(E)
    BY <1>2 DEF Shape
  <2> QED BY <2>1, <2>2
<1>12. OtpAsked(Q, F, E)
  <2>1. \A u, v \in User : user[u].a = ctl.att /\ user[v].a = ctl.att => u = v
    BY <1>1 DEF Asking
  <2> QED BY <1>1, <1>6, <2>1 DEF OtpAsked, OtpCurrent, Asking
<1>13. PlanAsked(Q, F, E) /\ ApplyAsked(Q, F, E) /\ ReleaseAsked(Q, F, E)
  BY <1>1, <1>5, <1>6 DEF PlanAsked, ApplyAsked, ReleaseAsked, Asked, Open
<1>14. Reliable(Q, E, N)
  <2>1. Shown(N)
    BY <1>1, <1>3, <1>5 DEF Shown
  <2>2. Legacy(Q, E, N)
    BY <1>1, <1>2, <1>10 DEF Legacy
  <2> QED BY <1>10, <2>1, <2>2 DEF Reliable
<1> QED BY <1>1, <1>7, <1>8, <1>9, <1>10, <1>11, <1>12, <1>13, <1>14 DEF ChannelInv

LEMMA NewIs ==
  /\ NewEngine \in Engines /\ NoEngine \in Engines /\ NoEngine.pc = "none" /\ ~NoEngine.refused /\ ~NewEngine.refused
  /\ \A a \in AttemptId : NewControl(a) \in Controls /\ NewControl(a).att = a
  /\ [pc |-> "run", complete |-> FALSE] \in Supervisors
<1>1. /\ NewEngine \in Engines /\ NoEngine \in Engines /\ NoEngine.pc = "none" /\ ~NoEngine.refused /\ ~NewEngine.refused
  BY DEF NewEngine, NoEngine, Engines, Places
<1>2. NewAdmission \in Admissions
  BY ChannelAssumption DEF NewAdmission, Admissions, None
<1>3. \A a \in AttemptId : NewControl(a) \in Controls /\ NewControl(a).att = a
  BY <1>2 DEF NewControl, Controls, Statuses, None
<1>4. [pc |-> "run", complete |-> FALSE] \in Supervisors
  BY DEF Supervisors
<1> QED BY <1>1, <1>3, <1>4

LEMMA InitFresh ==
  ASSUME Init
  PROVE  Fresh
<1>1. /\ driver \in BOOLEAN /\ ctl = NewControl(1) /\ chal = NoChallenge /\ reader = Resting /\ worker = NoJob
      /\ sup = [pc |-> "run", complete |-> FALSE] /\ lease = 1
      /\ eng = [a \in AttemptId |-> IF a = 1 THEN NewEngine ELSE NoEngine]
      /\ events = [a \in AttemptId |-> <<>>] /\ frames = [a \in AttemptId |-> <<>>]
      /\ user = [u \in User |-> NoAnswer] /\ net = [a \in AttemptId |-> "none"]
  BY DEF Init
<1>2. /\ 1 \in AttemptId /\ AttemptId \subseteq Nat \ {0} /\ None = 0
  BY RequestsAre
<1>3. ctl.att = 1 /\ ctl \in Controls /\ ctl = NewControl(ctl.att)
  BY <1>1, <1>2, NewIs
<1>4. /\ NoChallenge \in Challenges /\ Resting \in Readers /\ NoJob \in Tasks /\ NoAnswer \in UserAnswers /\ NoAnswer.a = 0
  BY <1>2, RestingIs
<1>5. Types
  <2>1. eng \in [AttemptId -> Engines] /\ net \in [AttemptId -> Nets] /\ user \in [User -> UserAnswers]
    BY <1>1, <1>4, NewIs DEF Nets
  <2>2. events \in [AttemptId -> Seq(Events)] /\ frames \in [AttemptId -> Seq(Frames)]
    BY <1>1, SaysNothing, NoFrames
  <2> QED BY <1>1, <1>2, <1>3, <1>4, <2>1, <2>2, NewIs DEF Types
<1>6. Others
  BY <1>1, <1>3, <1>4, NewIs DEF Others
<1>7. Owned /\ ~Asking
  BY <1>1, <1>3, <1>4 DEF Owned, Asking
<1>8. E = NewEngine /\ Q = <<>> /\ F = <<>> /\ N = "none"
  BY <1>1, <1>2, <1>3 DEF E, Q, F, N
<1> QED BY <1>1, <1>3, <1>5, <1>6, <1>7, <1>8 DEF Fresh

LEMMA UserIs ==
  ASSUME user \in [User -> UserAnswers]
  PROVE  \A u \in User : user[u].a \in Nat
<1>1. \A x \in AttemptId \cup {None} : x \in Nat
  BY RequestsAre
<1>2. \A y \in UserAnswers : y.a \in AttemptId \cup {None}
  BY DEF UserAnswers
<1> QED BY <1>1, <1>2

LEMMA AttemptsStep ==
  ASSUME ChannelInv, NEW a \in AttemptId, Attempts(a)
  PROVE  ChannelInv'
<1>1. /\ sup.pc = "done" /\ lease = None /\ a = ctl.att + 1 /\ lease' = a /\ ctl' = NewControl(a)
      /\ eng' = [eng EXCEPT ![a] = NewEngine] /\ sup' = [pc |-> "run", complete |-> FALSE]
      /\ UNCHANGED <<driver, chal, reader, worker, user, events, frames, net>>
  BY DEF Attempts
<1>2. /\ Types /\ Others /\ Course /\ ctl.att \in AttemptId /\ OtpAsked(Q, F, E) /\ (MaxLoss <= 1 => Owned)
      /\ eng \in [AttemptId -> Engines]
  BY CurrentIs DEF ChannelInv, Types
<1>3. /\ ctl.att \in Nat /\ a # ctl.att /\ a > ctl.att /\ AttemptId \subseteq Nat \ {0} /\ None = 0
  <2>1. AttemptId \subseteq Nat \ {0} /\ None = 0
    BY RequestsAre
  <2>2. PICK k \in Nat : k = ctl.att
    BY <1>2, <2>1
  <2>3. a = k + 1
    BY <1>1, <2>2
  <2> QED BY <2>1, <2>2, <2>3
<1>4. /\ ctl' \in Controls /\ ctl'.att = a /\ ctl' = NewControl(ctl'.att) /\ NewEngine \in Engines /\ ~NewEngine.refused
      /\ sup' \in Supervisors
  BY <1>1, NewIs
<1>5. chal' = NoChallenge /\ reader' = Resting /\ worker' = NoJob
  BY <1>1, <1>2 DEF Course, OtpAsked
<1>6. Types'
  <2>1. eng' \in [AttemptId -> Engines]
    BY <1>1, <1>2, <1>4
  <2> QED BY <1>1, <1>2, <1>4, <2>1 DEF Types
<1>7. /\ eng'[a] = NewEngine /\ \A b \in AttemptId : b # a => eng'[b] = eng[b]
  BY <1>1, <1>2
<1>8. E.pc = "gone" /\ Q = <<>>
  BY <1>1, <1>2 DEF Course
<1>9. Others'
  <2>1. \A b \in AttemptId : b # ctl'.att => eng'[b].pc \in {"none", "gone"} /\ events'[b] = <<>>
    BY <1>1, <1>2, <1>4, <1>7, <1>8 DEF Others, E, Q
  <2>2. \A b \in AttemptId : b > ctl'.att => frames'[b] = <<>> /\ net'[b] = "none"
    <3>1. \A b \in AttemptId : b > a => b > ctl.att
      BY <1>3
    <3> QED BY <1>1, <1>2, <1>4, <3>1 DEF Others
  <2>3. \A b \in AttemptId : ~eng'[b].refused
    BY <1>2, <1>4, <1>7 DEF Others
  <2>4. \A u \in User : /\ user'[u].a <= ctl'.att
                        /\ user'[u] # NoAnswer => user'[u].a # None /\ user'[u].out \in Secrets
    <3>1. \A u \in User : user[u].a \in Nat
      BY <1>2, <1>3, UserIs DEF Types
    <3> QED BY <1>1, <1>2, <1>3, <1>4, <3>1 DEF Others
  <2> QED BY <2>1, <2>2, <2>3, <2>4 DEF Others
<1>10. (MaxLoss <= 1 => Owned)'
  <2>1. MaxLoss <= 1 => \A b \in AttemptId : net'[b] = "none"
    BY <1>1, <1>2, <1>3 DEF Owned
  <2> QED BY <2>1 DEF Owned
<1>11. ~Asking'
  <2>1. \A u \in User : user[u].a \in Nat /\ user[u].a <= ctl.att
    BY <1>2, <1>3, UserIs DEF Types, Others
  <2>2. \A u \in User : user[u].a # a
    BY <1>3, <2>1
  <2> QED BY <1>1, <1>4, <2>2 DEF Asking
<1>12. E' = NewEngine /\ Q' = <<>> /\ F' = <<>> /\ N' = "none"
  <2>1. events[a] = <<>> /\ frames[a] = <<>> /\ net[a] = "none"
    BY <1>2, <1>3 DEF Others
  <2> QED BY <1>1, <1>4, <1>7, <2>1 DEF E, Q, F, N
<1>13. Fresh'
  BY <1>1, <1>4, <1>5, <1>6, <1>9, <1>10, <1>11, <1>12 DEF Fresh, NewEngine, NewControl, NewAdmission,
     NoChallenge, Resting, NoJob
<1>14. Fresh' => ChannelInv'
  BY FreshInv, PTL
<1> QED BY <1>13, <1>14
-----------------------------------------------------------------------------
(* The theorems. *)

LEMMA Stutters ==
  ASSUME ChannelInv, UNCHANGED cvars
  PROVE  ChannelInv'
<1>1. UNCHANGED <<driver, ctl, chal, reader, worker, sup, lease, user, eng, events, frames, net>>
  BY DEF cvars, manager
<1>2. Q' = Q /\ F' = F /\ E' = E /\ N' = N
  BY <1>1 DEF Q, F, E, N
<1>3. Types' /\ Others' /\ Course' /\ Jobs'
  BY <1>1, <1>2 DEF ChannelInv, Types, Others, Course, Jobs
<1>4. Handshake(N)' /\ Decided(F)' /\ Shape(E)' /\ Begun(Q, E)'
  BY <1>1, <1>2 DEF ChannelInv, Handshake, Decided, Excluded, Shape, Begun
<1>5. OtpAsked(Q, F, E)'
  BY <1>1, <1>2 DEF ChannelInv, OtpAsked, OtpCurrent, Asking, OtpPlace
<1>6. PlanAsked(Q, F, E)' /\ ApplyAsked(Q, F, E)' /\ ReleaseAsked(Q, F, E)'
  BY <1>1, <1>2 DEF ChannelInv, PlanAsked, ApplyAsked, ReleaseAsked, Asked, Open, PlanPlace, ApplyPlace, ReleasePlace
<1>7. MaxLoss <= 1 => Reliable(Q, E, N)' /\ Owned'
  BY <1>1, <1>2 DEF ChannelInv, Reliable, Owned, Announced, Shown, Legacy, Warned, WarnedTwice, Suspect, Cleaned
<1> QED BY <1>3, <1>4, <1>5, <1>6, <1>7 DEF ChannelInv

LEMMA NextInv ==
  ASSUME ChannelInv, [Next]_cvars
  PROVE  ChannelInv'
<1>1. ASSUME NEW a \in AttemptId, Engine(a) \/ Attempts(a) PROVE ChannelInv'
  BY <1>1, EngineInv, AttemptsStep
<1>2. ASSUME Reader PROVE ChannelInv'
  BY <1>2, ReadGarbledStep, ReadStateStep, ReadTunnelUpStep, ReadCleanupStep, ReadChallengeStep, ReadClosedStep,
     ReadPlanStep, ReadResourceStep, ReadCommitStep, ReadReleaseStep, ReadAppliedStep, CommitStep,
     PostResultStep, SendStep DEF Reader
<1>3. ASSUME Worker PROVE ChannelInv'
  BY <1>3, WorkerEndsStep DEF Worker
<1>4. ASSUME Supervisor PROVE ChannelInv'
  BY <1>4, DrainStep, ReapStep, FinishStep DEF Supervisor
<1>5. ASSUME NEW u \in User, Deliver(u) \/ \E a \in AttemptId : Respond(u, a) PROVE ChannelInv'
  BY <1>5, DeliverStep, RespondStep
<1>6. ASSUME Expire \/ Disconnect PROVE ChannelInv'
  BY <1>6, ExpireStep, DisconnectStep
<1>7. ASSUME UNCHANGED cvars PROVE ChannelInv'
  BY <1>7, Stutters
<1> QED BY <1>1, <1>2, <1>3, <1>4, <1>5, <1>6, <1>7 DEF Next

\* The control protocol keeps its invariant: each request of an engine is in
\* one place, the manager's view of the handshake agrees with the operating
\* system, and run_once outlives the blocking worker.
THEOREM ChannelInductive == Spec => []ChannelInv
<1>1. Init => ChannelInv
  BY InitFresh, FreshInv
<1>2. ChannelInv /\ [Next]_cvars => ChannelInv'
  BY NextInv
<1> QED BY <1>1, <1>2, PTL DEF Spec

\* A plan in the operating system is the engine's whole plan (Admission::observe
\* counts the resources before network_commit admits it), whatever records of
\* the attempt are lost.
THEOREM PlanWholeAlways == Spec => []PlanWhole
<1>1. ChannelInv => PlanWhole
  BY DEF ChannelInv, PlanWhole, Handshake, N
<1> QED BY <1>1, ChannelInductive, PTL

\* A question of try_otp_auth or auth_log_in is answered once, however many
\* users call respond_to_authentication, and no answer is left for the next
\* question or for what follows the log-in; a challenge dies with the process
\* that asked (cancel_attempt).
THEOREM ChallengesAlwaysSound == Spec => []ChallengesSound
<1>1. ChannelInv => ChallengesSound
  <2> SUFFICES ASSUME ChannelInv PROVE ChallengesSound
    OBVIOUS
  <2>1. OtpAsked(Q, F, E) /\ Others /\ F \in Seq(Frames) /\ Shape(E)
    BY CurrentIs DEF ChannelInv
  <2>2. ChallengeCurrent
    BY <2>1 DEF ChallengeCurrent, OtpAsked
  <2>3. \A i \in 1..Len(F) : F[i].act = "auth_response" => F[i] \in Secrets
    <3>1. \A i \in 1..Len(F) : F[i] \in Frames
      BY <2>1
    <3> QED BY <3>1, FramesAre, SecretsAre
  <2>4. ASSUME NEW a \in AttemptId, Alive(a)
        PROVE  /\ a = ctl.att /\ eng[a] = E /\ Queued(a) \subseteq {i \in 1..Len(F) : F[i] \in Secrets}
               /\ frames[a] = F
    <3>1. a = ctl.att
      BY <2>1, <2>4 DEF Others, Alive
    <3> QED BY <2>3, <3>1 DEF Queued, E, F
  <2>5. ASSUME NEW a \in AttemptId, eng[a].pc = "otp"
        PROVE  /\ \A i \in Queued(a) : frames[a][i].req = eng[a].otp /\ Underway(a) = {}
               /\ \A u \in Underway(a) : user[u].out.req = eng[a].otp
               /\ \A i, j \in Queued(a) : i = j
               /\ \A u, v \in Underway(a) : u = v
    <3>1. /\ a = ctl.att /\ eng[a] = E /\ frames[a] = F
          /\ Queued(a) \subseteq {i \in 1..Len(F) : F[i] \in Secrets}
      BY <2>4, <2>5 DEF Alive
    <3>2. /\ ~Has(F, AnsweringElse(E.otp)) /\ Once(F, Secrets) /\ (Asking => ~Has(F, Secrets))
          /\ \A u \in User : user[u].a = ctl.att => user[u].out.req = E.otp
          /\ \A u, v \in User : user[u].a = ctl.att /\ user[v].a = ctl.att => u = v
      BY <2>1 DEF OtpAsked, OtpCurrent
    <3>3. \A i \in Queued(a) : F[i].req = E.otp /\ ~Asking
      BY <3>1, <3>2 DEF Has, AnsweringElse
    <3>4. \A i, j \in Queued(a) : i = j
      BY <3>1, <3>2 DEF Once
    <3> QED BY <3>1, <3>2, <3>3, <3>4 DEF Underway, Asking
  <2>6. ASSUME NEW a \in AttemptId, eng[a].pc \in {"auth", "plan", "io", "applying", "up", "releasing"}
        PROVE  Queued(a) = {} /\ Underway(a) = {}
    <3>1. /\ a = ctl.att /\ eng[a] = E /\ Queued(a) \subseteq {i \in 1..Len(F) : F[i] \in Secrets}
      BY <2>4, <2>6 DEF Alive
    <3>2. ~Asking /\ ~Has(F, Secrets)
      BY <2>1, <2>6, <3>1 DEF OtpAsked, OtpPlace
    <3> QED BY <3>1, <3>2 DEF Has, Underway, Asking
  <2>7. AnsweredOnce
    BY <2>5, <2>6 DEF AnsweredOnce
  <2> QED BY <2>2, <2>7 DEF ChallengesSound
<1> QED BY <1>1, ChannelInductive, PTL

\* While at most one record of an attempt is lost, a profile is shown as
\* connected only while its plan is in the operating system: network_commit
\* comes before readiness, and the end of a tunnel is shown before its release.
THEOREM ReadyAlwaysMeansApplied ==
  ASSUME MaxLoss <= 1
  PROVE  Spec => []ReadyMeansApplied
<1>1. ChannelInv => ReadyMeansApplied
  BY DEF ChannelInv, Reliable, Shown, ReadyMeansApplied, N
<1> QED BY <1>1, ChannelInductive, PTL

\* The answer to a question and to the plan exclude those to the other two.
LEMMA FewFrames ==
  ASSUME ChannelInv
  PROVE  Len(F) <= 3
<1>1. /\ F \in Seq(Frames) /\ Len(F) \in Nat /\ \A i \in 1..Len(F) : F[i] \in Frames
  BY CurrentIs
<1>2. /\ Once(F, Secrets) /\ (Has(F, Secrets) => ~E.started)
      /\ Once(F, Answering(PLAN)) /\ (Has(F, Answering(PLAN)) => ~E.started)
      /\ Once(F, Answering(APPLY)) /\ (Has(F, Answering(APPLY)) => E.started)
      /\ Once(F, Answering(RELEASE)) /\ (Has(F, Answering(RELEASE)) => E.started)
  BY DEF ChannelInv, OtpAsked, PlanAsked, ApplyAsked, ReleaseAsked, Asked, Open, OtpPlace, PlanPlace, ApplyPlace,
     ReleasePlace
<1> DEFINE kind(i) == IF F[i].req \in Otps THEN FORM ELSE F[i].req
<1>3. \A i \in 1..Len(F) : kind(i) \in {FORM, PLAN, APPLY, RELEASE}
  BY <1>1, FramesAre DEF Otps, FORM, TOKEN, PLAN, APPLY, RELEASE
<1>4. \A i \in 1..Len(F) : /\ kind(i) \in {FORM, PLAN} => ~E.started
                           /\ kind(i) \in {APPLY, RELEASE} => E.started
  <2>1. \A i \in 1..Len(F) : /\ F[i].req \in Otps => ~E.started
                             /\ F[i].req = PLAN => ~E.started
                             /\ F[i].req \in {APPLY, RELEASE} => E.started
    BY <1>1, <1>2, AnsweringIs, SecretsAre DEF Has
  <2> QED BY <2>1 DEF Otps, FORM, TOKEN, PLAN, APPLY, RELEASE
<1>5. \A i, j \in 1..Len(F) : kind(i) = kind(j) => i = j
  <2>1. \A i, j \in 1..Len(F) : /\ F[i].req \in Otps /\ F[j].req \in Otps => i = j
                                /\ F[i].req \in {PLAN, APPLY, RELEASE} /\ F[i].req = F[j].req => i = j
    BY <1>1, <1>2, AnsweringIs, SecretsAre DEF Once
  <2> QED BY <1>3, <2>1 DEF Otps, FORM, TOKEN, PLAN, APPLY, RELEASE
<1> HIDE DEF kind
<1> SUFFICES ASSUME Len(F) > 3 PROVE FALSE
  BY <1>1
<1>6. 1 \in 1..Len(F) /\ 2 \in 1..Len(F) /\ 3 \in 1..Len(F)
  BY <1>1
<1>7. kind(1) # kind(2) /\ kind(1) # kind(3) /\ kind(2) # kind(3)
  BY <1>5, <1>6
<1> QED BY <1>3, <1>4, <1>6, <1>7

\* Only the current engine's pipe is written or read.
Piped == ctl'.att = ctl.att /\ \A a \in AttemptId : a # ctl.att => frames'[a] = frames[a]

LEMMA PipeStep ==
  ASSUME ChannelInv, [Next]_cvars
  PROVE  frames' = frames \/ Piped
<1>1. /\ ctl.att \in AttemptId /\ frames \in [AttemptId -> Seq(Frames)]
      /\ \A a \in AttemptId : eng[a].pc \notin {"none", "gone"} => a = ctl.att
      /\ \A u \in User : user[u] # NoAnswer => user[u].a \in AttemptId
  <2>1. \A u \in User : user[u] # NoAnswer => user[u].a \in AttemptId \cup {None} /\ user[u].a # None
    BY DEF ChannelInv, Types, Others, UserAnswers
  <2> QED BY <2>1, CurrentIs DEF ChannelInv, Types, Others
<1>2. ASSUME NEW a \in AttemptId, a = ctl.att, Consume(a), ctl' = ctl PROVE Piped
  BY <1>1, <1>2 DEF Consume, Piped
<1>3. ASSUME NEW a \in AttemptId, Engine(a) PROVE frames' = frames \/ Piped
  <2>1. \/ frames' = frames
        \/ eng[a].pc \in {"otp", "plan", "applying", "releasing"} /\ Consume(a) /\ UNCHANGED manager
    <3> DEFINE waits == \E t \in BOOLEAN : EngineAnswered(a, t) \/ EngineReleased(a, t)
                          \/ (\E b \in BOOLEAN : EngineGate(a, t, b) \/ EngineApplied(a, t, b))
    <3>1. CASE waits
      BY <3>1 DEF EngineAnswered, EngineReleased, EngineGate, EngineApplied
    <3>2. CASE EngineRuns(a) /\ ~waits
      BY <3>2 DEF EngineRuns, EngineChallenge, EngineEnds, EngineAuthenticated, EngineConfigures, EngineDown,
         EngineSendsPlan
    <3>3. CASE Engine(a) /\ ~EngineRuns(a)
      BY <3>3 DEF Engine, EngineLosesTunnel, EngineSignalled, EngineDies
    <3> QED BY <1>3, <3>1, <3>2, <3>3
  <2> QED BY <1>1, <1>2, <2>1 DEF manager
<1>4. ASSUME Reader PROVE frames' = frames \/ Piped
  <2>1. CASE Send
    BY <1>1, <2>1 DEF Send, Piped, FailPrivateControl, FailedControl
  <2>2. CASE ~Send
    BY <1>4, <2>2 DEF Reader, ReadGarbled, ReadState, ReadTunnelUp, ReadCleanup, ReadChallenge, ReadClosed, ReadPlan,
       ReadResource, ReadCommit, ReadRelease, ReadApplied, Commit, PostResult
  <2> QED BY <2>1, <2>2
<1>5. ASSUME NEW u \in User, Deliver(u) PROVE frames' = frames \/ Piped
  BY <1>1, <1>5 DEF Deliver, Alive, Piped
<1>6. ASSUME \/ Worker \/ Supervisor \/ Expire \/ Disconnect \/ UNCHANGED cvars
             \/ (\E a \in AttemptId : Attempts(a))
             \/ (\E u \in User, a \in AttemptId : Respond(u, a))
      PROVE  frames' = frames
  BY <1>6 DEF Worker, WorkerEnds, Supervisor, Drain, Reap, Finish, Expire, Disconnect, Attempts, Respond, cvars
<1> QED BY <1>3, <1>4, <1>5, <1>6 DEF Next

Pipes == \A a \in AttemptId : Len(frames[a]) <= 3

LEMMA PipesInductive == Spec => []Pipes
<1>1. Init => Pipes
  BY DEF Init, Pipes
<1>2. ChannelInv => Len(F) <= 3
  BY FewFrames
<1>3. ChannelInv' => (Len(F) <= 3)'
  BY <1>2, PTL
<1>4. ChannelInv /\ ChannelInv' /\ Pipes /\ [Next]_cvars => Pipes'
  <2> SUFFICES ASSUME ChannelInv, ChannelInv', Pipes, [Next]_cvars PROVE Pipes'
    OBVIOUS
  <2>1. CASE frames' = frames
    BY <2>1 DEF Pipes
  <2>2. CASE Piped
    <3>1. Len(frames'[ctl.att]) <= 3
      BY <1>3, <2>2 DEF F, Piped
    <3> QED BY <2>2, <3>1 DEF Pipes, Piped
  <2> QED BY <2>1, <2>2, PipeStep
<1> QED BY <1>1, <1>4, ChannelInductive, PTL DEF Spec

\* Whatever records are lost, the release of manager_control_network_release
\* finds at most the one late result in its pipe that it understands, and a
\* pipe holds few frames.
THEOREM ReleaseAlwaysUnderstood == Spec => [](ChannelTypeOK /\ ReleaseUnderstood)
<1>1. ChannelInv /\ Pipes => ChannelTypeOK /\ ReleaseUnderstood
  <2> SUFFICES ASSUME ChannelInv, Pipes PROVE ChannelTypeOK /\ ReleaseUnderstood
    OBVIOUS
  <2>1. Types /\ Others
    BY DEF ChannelInv
  <2>2. ChannelTypeOK
    <3>1. /\ ctl.att \in AttemptId /\ ctl.adm \in Admissions /\ ctl.status \in Statuses
          /\ reader \in Readers /\ worker \in Tasks /\ sup \in Supervisors /\ lease \in AttemptId \cup {None}
          /\ net \in [AttemptId -> Nets]
      BY <2>1 DEF Types, Controls
    <3>2. /\ ctl.adm.got \in 0..MaxResource
          /\ reader.pc \in {"idle", "epoch", "admit", "work", "post", "send"}
          /\ worker.job \in {"none", "epoch", "apply", "release"}
          /\ sup.pc \in {"run", "join", "finish", "done"}
      BY <3>1 DEF Admissions, Readers, Tasks, Supervisors
    <3> QED BY <3>1, <3>2 DEF ChannelTypeOK, Statuses, Nets, Pipes
  <2>3. ReleaseUnderstood
    BY <2>1 DEF ReleaseUnderstood, Others
  <2> QED BY <2>2, <2>3
<1> QED BY <1>1, ChannelInductive, PipesInductive, PTL

\* While at most one record of an attempt is lost, the machine stays reserved
\* for an attempt while its blocking worker runs or its changes are in the
\* operating system: run_once waits for the worker (Workers::wait) before the
\* lease is given back, and keeps the lease unless the cleanup is confirmed.
THEOREM NetworkAlwaysOwned ==
  ASSUME MaxLoss <= 1
  PROVE  Spec => []NetworkOwned
<1>1. ChannelInv => MutationOwned
  <2> SUFFICES ASSUME ChannelInv PROVE MutationOwned
    OBVIOUS
  <2>1. Course /\ Jobs /\ Owned /\ sup \in Supervisors
    BY DEF ChannelInv, Types
  <2>2. worker # NoJob => lease = worker.a /\ ctl.att = worker.a /\ ctl.process
    BY <2>1, RestingIs DEF Jobs, Course, Supervisors
  <2> QED BY <2>1, <2>2 DEF MutationOwned, Owned
<1>2. MutationOwned /\ ChannelTypeOK /\ ReleaseUnderstood => NetworkOwned
  BY DEF NetworkOwned
<1> QED BY <1>1, <1>2, ChannelInductive, ReleaseAlwaysUnderstood, PTL
=============================================================================

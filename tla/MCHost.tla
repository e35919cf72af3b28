------------------------------- MODULE MCHost -------------------------------
(* Two parts with durable state on a host, which share none of it: the Linux   *)
(* network worker (NetworkWorker) and the installed bundle (ComponentBundle),  *)
(* on a machine with failures, with losses of power, or with uninstalls.  In a *)
(* behaviour one of them moves.                                                *)
(*                                                                             *)
(* Two attempts of two profiles.  The first submits a route and a DNS scope    *)
(* behind it, scope first, or only the route; the second wants the same route, *)
(* or a scope whose server no route reaches.                                   *)
(*                                                                             *)
(* Two targets are enough for a mixture, three generations for a bundle, its   *)
(* predecessor and a new one.                                                  *)
EXTENDS NetworkWorker, ComponentBundle

CONSTANTS a1, a2, own, alien

VARIABLE part

Split == Route(0, 1, FALSE, "ppp0")
Zone == Dns({<<"corp">>}, {1})

Resources == {Split, Zone}

Ask(a, resources) == [attempt |-> a, profile |-> a, resources |-> resources]

Submissions == {Ask(a1, <<Zone, Split>>), Ask(a1, <<Split>>),
                Ask(a2, <<Split>>), Ask(a2, <<Zone>>)}
Requests == Submissions \cup {Ask(a1, <<Split, Zone>>)}

Generations == {1, 2, 3}

MCInit ==
  /\ part \in {"worker", "failures", "power", "uninstall"}
  /\ WorkerInit /\ BundleInit
  /\ part = "worker" => vis.t = All(Missing)
  /\ part # "worker" => \A r \in Resource : os[r] = Absent
  /\ uninstaller = "none" <=> part # "uninstall"

MCNext ==
  /\ UNCHANGED part
  /\ \/ part = "worker" /\ WorkerNext /\ UNCHANGED bundleVars
     \/ part # "worker" /\ Step /\ UNCHANGED wvars
     \/ part = "power" /\ PowerFailure /\ UNCHANGED wvars

MCSpec == MCInit /\ [][MCNext]_<<part, wvars, bundleVars>>

\* Two generations only.
TwoGenerations == run.gen # 3 /\ \A i \in 1..N : <<i, 3>> \notin blobs

\* Bounds.  Two failures and a crash; or three interruptions of which some lose
\* power, or one of them and a failure, as long as no rename stays unflushed; or
\* a failure, a crash and uninstalls.
Bounds ==
  CASE part = "worker" -> TRUE
    [] part = "failures" -> crashes <= 1
    [] part = "power" -> NamesFlushed /\ (failures = 0 \/ (crashes <= 1 /\ failures <= 1 /\ TwoGenerations))
    [] part = "uninstall" -> crashes <= 1 /\ failures <= 1 /\ TwoGenerations
=============================================================================

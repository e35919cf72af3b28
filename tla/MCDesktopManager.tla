-------------------------- MODULE MCDesktopManager --------------------------
(* DesktopManager for TLC. *)
EXTENDS DesktopManager, TLC

Symmetry == Permutations(Profile)

\* The profiles something has been asked of.
Involved ==
  {p \in Profile : \/ inst[p] # NoInst \/ queue[p] # <<>> \/ th[p] # NoThread
                   \/ gen[p] # 0 \/ p \notin exists \/ \E r \in timers : r.p = p}

Mutations == {"save", "delete"}
Mutating ==
  \E p \in Profile : \/ th[p].op \in Mutations \/ p \notin exists
                     \/ \E i \in DOMAIN queue[p] : queue[p][i].op \in Mutations

\* Bounds.  Three commands of one profile, or two of two profiles that neither
\* edit nor delete them; two commands of one profile with a failure and a death
\* of the application.
Bounds ==
  \/ faults + crashes = 0 /\ (Cardinality(Involved) <= 1 \/ (~Mutating /\ asks <= 2))
  \/ Cardinality(Involved) <= 1 /\ asks <= 2
=============================================================================

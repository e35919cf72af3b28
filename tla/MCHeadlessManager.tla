------------------------- MODULE MCHeadlessManager -------------------------
(* One manager with one or two profiles, alone or beside a helper.            *)
EXTENDS HeadlessManager, TLC

CONSTANTS p1, p2, x1, x2, h1

\* Ids are drawn at random and profiles are alike.
Symmetries == Permutations(Fresh) \cup Permutations(Profile)

\* Profiles that somebody has connected, as far as anything remembers it.
Involved ==
  {p \in Profile : ctl[p] # NewControl \/ view[p] # NoView
                     \/ \E a \in Fresh : run[a].profile = p}

\* The helper has run.
Helped == \E h \in Helpers : engine[h] # NoEngine \/ owner.attempt = h

\* Two profiles, a second attempt, reboots, a helper and an engine without gate
\* are not all met at once: that adds states and no new encounter.
OneByOne ==
  /\ Helped => boot = 0 /\ gated /\ Cardinality(used) <= 1
  /\ ~gated => Cardinality(Involved) <= 1
=============================================================================

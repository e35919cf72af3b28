-------------------------- MODULE ProfileCatalogue --------------------------
(***************************************************************************)
(* What a profile repository promises: profiles and their passwords change *)
(* together, in one step, and every change of a profile advances its       *)
(* revision.                                                               *)
(***************************************************************************)
EXTENDS Naturals

CONSTANTS Ids, Passwords

VARIABLE cat   \* [prof |-> revisions by id, sec |-> passwords by id]

With(f, i, v) == [j \in DOMAIN f \cup {i} |-> IF j = i THEN v ELSE f[j]]
Without(f, i) == [j \in DOMAIN f \ {i} |-> f[j]]
Revision(f, i) == IF i \in DOMAIN f THEN f[i] ELSE 0

\* A save keeps, replaces or removes the password.
Save(i) ==
  /\ cat'.prof = With(cat.prof, i, Revision(cat.prof, i) + 1)
  /\ cat'.sec \in {cat.sec, Without(cat.sec, i)} \cup {With(cat.sec, i, w) : w \in Passwords}

Delete(i) ==
  /\ i \in DOMAIN cat.prof
  /\ cat' = [prof |-> Without(cat.prof, i), sec |-> Without(cat.sec, i)]

\* An archive replaces everything; no revision is used again.
Restore ==
  /\ DOMAIN cat'.sec \subseteq DOMAIN cat'.prof
  /\ \A i \in DOMAIN cat'.prof : cat'.prof[i] > Revision(cat.prof, i)

Next == Restore \/ \E i \in Ids : Save(i) \/ Delete(i)

Spec == [][Next]_cat

=============================================================================

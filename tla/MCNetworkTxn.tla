---------------------------- MODULE MCNetworkTxn ----------------------------
(* Attempts, each of a profile of its own, that share a gateway exception   *)
(* route; the first one has a private route too, and the second may ask for *)
(* that route instead.  The conflict relation behind it is compared, for    *)
(* every pair of small resources, with what it is for: no packet            *)
(* destination and no name may be claimed twice.                            *)
EXTENDS NetworkTxn

CONSTANTS a1, a2, own, alien,
          Label  \* DNS labels

Gate == Route(4, 3, TRUE, "wan")
Split == Route(0, 1, FALSE, "ppp0")

GateAndSplit == {Gate, Split}

\* A profile is named after its only attempt.
Ask(a, resources) == [attempt |-> a, profile |-> a, resources |-> resources]

TwoAttempts == {Ask(a1, <<Gate, Split>>), Ask(a1, <<Gate>>),
                Ask(a2, <<Gate>>), Ask(a2, <<Split>>)}

\* Bound: changes of the network, and a first attempt without private route, are
\* met with plans of the gateway exception alone.
Asked(a) == {r.plan.request.resources : r \in {mem.records[a], disk.records[a]} \ {NoRecord}}

OneByOne ==
  mem.epoch + disk.epoch > 0 \/ <<Gate>> \in Asked(a1) =>
    os[Split] = Absent /\ \A a \in Attempt : Asked(a) \subseteq {<<Gate>>}
-----------------------------------------------------------------------------
Address == 0 .. 2 ^ AddressBits - 1

\* Routes in any form a plan may ask for, canonical or not.
Routes == {Route(a, b, e, "ppp0") : a \in Address, b \in 0..AddressBits, e \in BOOLEAN}

Domain == UNION {[1..n -> Label] : n \in 1..2}

Scopes == {Dns(d, "ppp0") : d \in {d \in SUBSET Domain : Cardinality(d) <= 2}}

\* Bit k of an address, counted from the most significant one.
Bit(address, k) == (address \div 2 ^ (AddressBits - 1 - k)) % 2

\* Packets the route r applies to.
Covers(r) ==
  {x \in Address : \A k \in 0 .. r.bits - 1 : Bit(x, k) = Bit(r.address, k)}

\* Names up to one label longer than a domain; a scope without domains takes all.
Name == UNION {[1..n -> Label] : n \in 1..3}
Resolves(d) ==
  {n \in Name : d.domains = {} \/ \E x \in d.domains : \E i \in DOMAIN n :
                  SubSeq(n, i, Len(n)) = x}

\* Transactions run over NoPair; beside them, every pair is looked at once.
VARIABLES left, right

NoPair == [kind |-> "none"]

Compared == Routes \cup Scopes

MCInit ==
  /\ Init
  /\ left \in Compared \cup {NoPair} /\ right = left
  /\ left # NoPair => \A r \in Resource : os[r] = Absent

Compare ==
  /\ left # NoPair
  /\ right' \in Compared
  /\ UNCHANGED <<vars, left>>

MCNext ==
  \/ Compare
  \/ left = NoPair /\ Next /\ UNCHANGED <<left, right>>

MCSpec == MCInit /\ [][MCNext]_<<vars, left, right>>
-----------------------------------------------------------------------------
\* prefix() accepts one spelling of a destination only, so comparing spellings
\* (duplicate resources, shareable, gateway exceptions) compares destinations.
CanonicalUnique ==
  (left.kind = "route" /\ right.kind = "route" /\ Canonical(left) /\ Canonical(right)) =>
    (Covers(left) = Covers(right) => left.address = right.address /\ left.bits = right.bits)

\* conflicts() refuses exactly the pairs that would compete for a packet or a
\* name: overlapping routes of one kind, a gateway exception and a route with
\* the very same destination, DNS scopes that both resolve some name.
ConflictsExact ==
  (left # NoPair /\ ValidResource(left) /\ ValidResource(right)) =>
    (Conflicts(left, right) <=>
       \/ /\ left.kind = "route" /\ right.kind = "route"
          /\ IF left.gateway_exception = right.gateway_exception
             THEN Covers(left) \cap Covers(right) # {}
             ELSE Covers(left) = Covers(right)
       \/ /\ left.kind = "dns" /\ right.kind = "dns"
          /\ Resolves(left) \cap Resolves(right) # {})

\* Comparing plans is comparing what they claim (prefix, overlaps, conflicts).
ResourcesExact == CanonicalUnique /\ ConflictsExact
=============================================================================

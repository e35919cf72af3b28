-------------------------- MODULE NetworkResources --------------------------
(***************************************************************************)
(* Routes and DNS scopes a VPN session may reserve, and the two relations  *)
(* the lease journal decides with: shareable (several sessions may own it) *)
(* and conflicts (no two sessions may own both).                           *)
(*                                                                         *)
(* A route destination is an address of AddressBits bits and a prefix      *)
(* length; a DNS domain is the sequence of its labels, top-level last.     *)
(* The remaining attributes (gateway, interface, metric, servers) only     *)
(* distinguish resources from each other: they are the field "via".        *)
(***************************************************************************)
EXTENDS Integers, SequencesExt

CONSTANT AddressBits  \* width of an address: 32 in the code

ASSUME AddressBitsAssumption == AddressBits \in Nat \ {0}

Route(address, bits, exception, via) ==
  [kind |-> "route", address |-> address, bits |-> bits,
   gateway_exception |-> exception, via |-> via]

Dns(domains, via) == [kind |-> "dns", domains |-> domains, via |-> via]

\* address & mask, where the mask keeps the leading `bits` bits.
Masked(address, bits) ==
  LET block == 2 ^ (AddressBits - bits) IN (address \div block) * block

\* Canonical CIDR: the host part of the address is zero.
Canonical(r) == r.bits <= AddressBits /\ Masked(r.address, r.bits) = r.address

\* Equal under the shorter of the two masks.
Overlaps(a, b) ==
  LET bits == IF a.bits < b.bits THEN a.bits ELSE b.bits
  IN  Masked(a.address, bits) = Masked(b.address, bits)

\* Mutant: only a subdomain of b is found.
DomainBelow(a, b) == IsSuffix(b, a)

\* Equal, or one is a subdomain of the other, label by label.
DomainOverlaps(a, b) == IsSuffix(a, b) \/ IsSuffix(b, a)

Shareable(a, b) ==
  /\ a.kind = "route" /\ b.kind = "route"
  /\ a.gateway_exception /\ b.gateway_exception
  /\ a = b

Conflicts(a, b) ==
  \/ /\ a.kind = "route" /\ b.kind = "route"
     /\ IF a.gateway_exception # b.gateway_exception
        THEN a.address = b.address /\ a.bits = b.bits
        ELSE Overlaps(a, b)
  \/ /\ a.kind = "dns" /\ b.kind = "dns"
     /\ \/ a.domains = {} \/ b.domains = {}
        \/ \E x \in a.domains, y \in b.domains : DomainOverlaps(x, y)

\* Plan::validate, as far as resources are concerned.
ValidResource(r) == r.kind = "route" => Canonical(r)

ValidResources(seq) ==
  /\ \A i \in DOMAIN seq : ValidResource(seq[i])
  /\ \A i, j \in DOMAIN seq : seq[i] = seq[j] => i = j

=============================================================================

--------------------------- MODULE NativeBackends ---------------------------
(***************************************************************************)
(* The providers that install one route or one DNS rule in the operating   *)
(* system, behind inspect, apply and remove of network.rs's Backend:       *)
(* rtnetlink (network_linux.rs), the routing socket and the Dynamic Store  *)
(* of macOS (network_macos_routes.rs, network_macos.rs), IP Helper         *)
(* (network_windows.rs) and the NRPT cmdlets (network_windows_dns.rs).     *)
(*                                                                         *)
(* None of them owns the table it writes to.  A call looks, writes and     *)
(* looks again, and other programs change the table, or the interface goes *)
(* away, between any two of these.  Any of them can fail; a write can take *)
(* effect and be reported as failed.                                       *)
(***************************************************************************)
EXTENDS Naturals

VARIABLES kind,    \* the provider of this machine
          table,   \* for each class of entry, whose it is
          bound,   \* the interface is the one that the launcher bound
          stage,   \* where the running call is
          op, want,\* what it is to do; the fingerprint to remove, or to return
          wrote,   \* its write has taken effect
          late,    \* a script of an abandoned call that may yet write
          reply,   \* the last call's answer
          stale,   \* history: the table has changed since the last look
          meddled  \* history: the table has changed since the call began

backVars == <<kind, table, bound, stage, op, want, wrote, late, reply, stale, meddled>>

Kinds == {"linux", "darwin", "store", "windows", "nrpt"}
RouteKinds == {"linux", "darwin", "windows"}

\* Entries at the place of the resource: "exact" is what apply creates;
\* "variant" matches the resource but has another fingerprint; "rival" has the
\* same key in the system and is not the resource.
Class == {"exact", "variant", "rival"}
Owner == {"nobody", "us", "them"}
Ops == {"inspect", "apply", "remove"}
Nowhere == [c \in Class |-> "nobody"]

BackInit ==
  /\ kind \in Kinds
  /\ table \in {[Nowhere EXCEPT ![c] = "them"] : c \in Class} \cup {Nowhere}
  /\ kind = "store" => table["variant"] = "nobody"
  /\ kind = "nrpt" => table["exact"] = "nobody" /\ table["variant"] = "nobody"
  /\ bound = TRUE /\ stage = "idle" /\ op = "inspect" /\ want = "exact" /\ wrote = FALSE
  /\ late = "none" /\ reply = [op |-> "none", ok |-> FALSE, id |-> "none"]
  /\ stale = TRUE /\ meddled = TRUE
-----------------------------------------------------------------------------
(* What a look finds: a class, "none", or "error". *)

There(c) == table[c] # "nobody"

\* The identity of the one entry that matches.
Sole(found) ==
  IF found = {} THEN "none"
  ELSE IF found = {"exact"} THEN "exact"
  ELSE IF found = {"variant"} THEN "variant" ELSE "error"

\* matching compares destination, device, gateway, priority and table.
LinuxMatching(c) == c # "rival"

\* The one route of a dump that matches.
LinuxFind == Sole({c \in Class : There(c) /\ LinuxMatching(c)})

\* A global route to the same destination that differs in gateway, interface,
\* flags or hop count is a conflict.
DarwinAccepts(c) == c # "rival"

\* The whole table, read at once, holds one global route to the destination.
DarwinFind ==
  IF \A c \in Class : There(c) => DarwinAccepts(c) THEN Sole({c \in Class : There(c)}) ELSE "error"

\* The dictionary under the service's key equals the wanted one, or is another.
StoreValue ==
  IF There("exact") THEN "exact"
  ELSE IF \A c \in Class : ~There(c) THEN "none" ELSE "error"

\* GetIpForwardEntry2; a row with another metric is not the resource.
WindowsQuery ==
  IF There("exact") THEN "exact"
  ELSE IF There("variant") THEN "variant"
  ELSE IF There("rival") THEN "error" ELSE "none"

\* overlaps: a rule of somebody else for one of the suffixes, or for all.
NrptOverlaps == There("rival")

\* validate_owned: rules with our display name and our values.
NrptOwned == {c \in {"exact", "variant"} : There(c)}

\* policy::inspect over the local rules and the effective ones.
NrptInspect == IF NrptOverlaps THEN "error" ELSE Sole(NrptOwned)

Found ==
  [linux |-> LinuxFind, darwin |-> DarwinFind, store |-> StoreValue,
   windows |-> WindowsQuery, nrpt |-> NrptInspect][kind]
-----------------------------------------------------------------------------
(* Which steps insist on the bound interface. *)

\* if_nametoindex of the interface, in every message.
LinuxBound == bound

\* Index, link address and time of the last change are those of the beginning.
DarwinBinding == bound

\* spec, once in a call.
StoreSpec == bound \/ stage # "look"

\* The alias still leads to the LUID.
WindowsRow == bound

\* bound and routed around the scripts; remove needs the adapter no more.
NrptBound == bound \/ op = "remove" \/ stage \in {"write", "confirm"}

Bound ==
  [linux |-> LinuxBound, darwin |-> DarwinBinding, store |-> StoreSpec,
   windows |-> WindowsRow, nrpt |-> NrptBound][kind]
-----------------------------------------------------------------------------
(* Writes: the tables they can leave; none where the system refuses. *)

Holding(c, o) == [table EXCEPT ![c] = o]
Vacant == \A c \in Class : ~There(c)

\* RTM_NEWROUTE with CREATE and EXCL.
LinuxCreate == IF Vacant THEN {Holding("exact", "us")} ELSE {}

\* RTM_DELROUTE with every attribute of the route that was found.
LinuxDelete == IF There(want) THEN {Holding(want, "nobody")} ELSE {}

\* RTM_ADD; EEXIST where the destination has a route.
DarwinCreate == IF Vacant THEN {Holding("exact", "us")} ELSE {}

\* RTM_DELETE finds the route by destination and mask.
DarwinDelete == IF Vacant THEN {} ELSE {Nowhere}

\* SCDynamicStoreSetValue sets, whatever is there.
StoreSet == {[Nowhere EXCEPT !["exact"] = "us"]}

StoreRemove == IF Vacant THEN {} ELSE {Nowhere}

\* CreateIpForwardEntry2 never replaces.
WindowsCreate == IF Vacant THEN {Holding("exact", "us")} ELSE {}

\* DeleteIpForwardEntry2 goes by interface, destination and next hop.
WindowsDelete == IF Vacant THEN {} ELSE {Nowhere}

\* Add-DnsClientNrptRule makes a rule of its own name beside any other.
NrptAdd == {Holding(IF There("exact") THEN "variant" ELSE "exact", "us")}

\* Remove-DnsClientNrptRule goes by name, which an edited rule keeps.
NrptRemove(fingerprint) ==
  IF There(fingerprint) THEN {Holding(fingerprint, "nobody")}
  ELSE {Holding(c, "nobody") : c \in NrptOwned}

WriteNew ==
  [linux |-> LinuxCreate, darwin |-> DarwinCreate, store |-> StoreSet,
   windows |-> WindowsCreate, nrpt |-> NrptAdd][kind]

WriteGone ==
  [linux |-> LinuxDelete, darwin |-> DarwinDelete, store |-> StoreRemove,
   windows |-> WindowsDelete, nrpt |-> NrptRemove(want)][kind]

WriteResult == IF op = "apply" THEN WriteNew ELSE WriteGone
-----------------------------------------------------------------------------
(* A call. *)

Answer(ok, id) == stage' = "idle" /\ reply' = [op |-> op, ok |-> ok, id |-> id]
Proceed(s) == stage' = s /\ UNCHANGED reply

\* CreateIpForwardEntry2 is tried without a look.
FirstStage(o) == IF kind = "windows" /\ o = "apply" THEN "write" ELSE "look"

\* The coordinator removes by the fingerprint that an apply has returned.
CallBackend(o, w) ==
  /\ stage = "idle"
  /\ o # "remove" => w = "exact"
  /\ stage' = FirstStage(o) /\ op' = o /\ want' = w /\ wrote' = FALSE
  /\ stale' = FALSE /\ meddled' = FALSE
  /\ UNCHANGED <<kind, table, bound, late, reply>>

\* The first look, and the one that the NRPT script takes for itself.
AfterLook == IF kind = "nrpt" /\ stage = "look" THEN "script" ELSE "write"

Look ==
  /\ stage \in {"look", "script"} /\ Bound
  /\ \/ op = "inspect" /\ Found # "error" /\ Answer(TRUE, Found)
     \/ op = "apply" /\ Found = "none" /\ Proceed(AfterLook)
     \/ op = "remove" /\ Found = "none" /\ stage = "look" /\ Answer(TRUE, "none")
     \/ op = "remove" /\ Found = want /\ Proceed(AfterLook)
  /\ stale' = FALSE
  /\ UNCHANGED <<kind, table, bound, op, want, wrote, late, meddled>>

\* What is found is not what the call needs, the interface is another one, or
\* the system does not answer.
GiveUp ==
  /\ stage # "idle"
  /\ Answer(FALSE, "none")
  /\ UNCHANGED <<kind, table, bound, op, want, wrote, late, stale, meddled>>

\* The write is carried out, and the call learns of it or does not.
WriteEntry(told) ==
  /\ stage = "write" /\ Bound
  /\ table' \in WriteResult
  /\ wrote' = TRUE
  /\ IF told THEN Proceed("confirm") ELSE Answer(FALSE, "none")
  /\ UNCHANGED <<kind, bound, op, want, late, stale, meddled>>

\* Mutant: whatever is there now will be what apply made.
AnythingConfirmed == IF Found = "none" THEN {} ELSE {"exact"}

\* What apply takes for its own: the store only the wanted dictionary, macOS
\* only a static route and Windows only one of our protocol (GiveUp if not).
Confirmed == IF Found \in {"exact", "variant"} THEN {Found} ELSE {}

Confirm ==
  /\ stage = "confirm" /\ Bound
  /\ IF op = "apply" THEN \E id \in Confirmed :
       /\ want' = id
       /\ IF kind = "nrpt" THEN Proceed("routed") ELSE Answer(TRUE, id)
     ELSE Found = "none" /\ Answer(TRUE, "none") /\ UNCHANGED want
  /\ stale' = FALSE
  /\ UNCHANGED <<kind, table, bound, op, wrote, late, meddled>>

\* The script has read its rule back; the name servers are still behind the
\* adapter.
StillRouted ==
  /\ stage = "routed" /\ Bound
  /\ Answer(TRUE, want)
  /\ UNCHANGED <<kind, table, bound, op, want, wrote, late, stale, meddled>>

\* The script does not end in time and something of its job survives (bound:
\* one such script).
Abandon ==
  /\ kind = "nrpt" /\ stage = "write" /\ late = "none"
  /\ late' = op /\ Answer(FALSE, "none")
  /\ UNCHANGED <<kind, table, bound, op, want, wrote, stale, meddled>>

LateWrite ==
  /\ late # "none"
  /\ \/ late = "apply" /\ table' \in NrptAdd
     \/ late = "remove" /\ \E f \in {"exact", "variant"} : table' \in NrptRemove(f)
     \/ UNCHANGED table
  /\ late' = "none" /\ stale' = TRUE /\ meddled' = TRUE
  /\ UNCHANGED <<kind, bound, stage, op, want, wrote, reply>>
-----------------------------------------------------------------------------
(* The others. *)

\* One entry for a destination, or for a key, except on Linux.  Nobody else
\* makes rules with our display name, but ours can be edited or removed.
Possible(t) ==
  /\ kind \in {"darwin", "store", "windows"} =>
       \A c, d \in Class : t[c] # "nobody" /\ t[d] # "nobody" => c = d
  /\ kind = "store" => t["variant"] = "nobody"
  /\ kind \in RouteKinds /\ ~bound => t["exact"] = "nobody" /\ t["variant"] = "nobody"
  /\ kind = "nrpt" =>
       /\ t["exact"] \in {table["exact"], "nobody"}
       /\ t["variant"] = "them" /\ table["variant"] = "nobody" => There("exact") /\ t["exact"] = "nobody"

OthersChange(t) ==
  /\ Possible(t) /\ t # table
  /\ \A c \in Class : t[c] = "us" => table[c] = "us"
  /\ table' = t /\ stale' = TRUE /\ meddled' = TRUE
  /\ UNCHANGED <<kind, bound, stage, op, want, wrote, late, reply>>

\* The interface is gone, and its routes with it.
Detach ==
  /\ bound /\ bound' = FALSE
  /\ table' = IF kind \in RouteKinds THEN [Nowhere EXCEPT !["rival"] = table["rival"]] ELSE table
  /\ stale' = TRUE /\ meddled' = TRUE
  /\ UNCHANGED <<kind, stage, op, want, wrote, late, reply>>

\* It comes back under its old name and number; on macOS it is seen to be another.
Reattach ==
  /\ ~bound /\ kind # "darwin" /\ bound' = TRUE
  /\ UNCHANGED <<kind, table, stage, op, want, wrote, late, reply, stale, meddled>>

Provider ==
  \/ \E o \in Ops, w \in {"exact", "variant"} : CallBackend(o, w)
  \/ Look \/ GiveUp \/ Confirm \/ StillRouted \/ Abandon \/ LateWrite
  \/ \E told \in BOOLEAN : WriteEntry(told)

BackNext ==
  \/ Provider
  \/ \E t \in [Class -> Owner] : OthersChange(t)
  \/ Detach \/ Reattach

BackSpec == BackInit /\ [][BackNext]_backVars
-----------------------------------------------------------------------------
Stages == {"idle", "look", "script", "write", "confirm", "routed"}

BackTypeOK ==
  /\ kind \in Kinds /\ table \in [Class -> Owner] /\ bound \in BOOLEAN
  /\ stage \in Stages /\ op \in Ops /\ want \in {"exact", "variant"} /\ wrote \in BOOLEAN
  /\ late \in {"none", "apply", "remove"}
  /\ reply \in [op : Ops \cup {"none"}, ok : BOOLEAN, id : {"none", "exact", "variant"}]
  /\ stale \in BOOLEAN /\ meddled \in BOOLEAN

\* An answer is true until somebody changes the table after the look that it
\* rests on: an identity is one that is there, absence and removal mean that
\* nothing matches the resource.  apply answers only after a write of its own,
\* and without interference the entry it names is its own, alone in its place;
\* with it, it may be one that was put in its place (Backend of network.rs:381,
\* whose answers the coordinator writes to its journal).
AnswersTrue ==
  stage = "idle" /\ reply.ok =>
    /\ ~stale => IF reply.id = "none" THEN \A c \in {"exact", "variant"} : ~There(c)
                 ELSE There(reply.id)
    /\ reply.op = "apply" =>
         /\ wrote /\ reply.id # "none"
         /\ ~meddled => reply.id = "exact" /\ table = [Nowhere EXCEPT !["exact"] = "us"]

\* What a provider removes or overwrites is what it was told to remove by its
\* fingerprint, or came into its place after the last look; on Linux only the
\* former, however the calls of others fall (rtnetlink compares before it
\* deletes and creates exclusively).  No apply overwrites anything, except in
\* the Dynamic Store.
KeepsEntries ==
  table' # table /\ Provider => \A c \in Class : There(c) /\ table'[c] # table[c] =>
    \/ stage = "write" /\ op = "remove" /\ c = want
    \/ stage = "write" /\ stale /\ ((op = "remove" /\ kind # "linux") \/ kind = "store")
    \/ kind = "nrpt" /\ late = "remove" /\ c # "rival"

EntriesKept == [][KeepsEntries]_backVars

\* The providers' answers can be relied upon and what is not theirs is left alone.
BackendsSound == [](BackTypeOK /\ AnswersTrue) /\ EntriesKept
=============================================================================

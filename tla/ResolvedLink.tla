---------------------------- MODULE ResolvedLink ----------------------------
(***************************************************************************)
(* Scoped DNS on Linux: the provider that sets servers, routing domains    *)
(* and default route of the VPN's link in systemd-resolved by three calls  *)
(* over D-Bus (network_resolved.rs).                                       *)
(*                                                                         *)
(* After every call the link is read back, property by property.  When a   *)
(* later one fails, RevertLink takes back the earlier ones, which takes    *)
(* everything of the link away: it may be sent only while the link is what *)
(* was read back last.  The whole call has five seconds; what has been     *)
(* sent when they end is carried out or not, but before anything later     *)
(* that comes over the same connection.                                    *)
(***************************************************************************)
EXTENDS Naturals

VARIABLES dnsLink,     \* what resolved has for the link
          scoped,      \* the resource has domains
          errand,      \* inspect, apply or remove
          talk,        \* idle, reading the link, or in a call
          goal,        \* why it is read, or what is called
          readSoFar,   \* properties read so far
          view,        \* and their values
          confirmed,   \* the link as last read back
          pendingCall, \* a call whose sender has given up
          unsure,      \* an effect may be there that the call was not told of
          outcome,     \* the last answer
          viewStale,   \* history: the link changed since its reading began
          disturbed    \* history: others changed it since the call began

linkVars == <<dnsLink, scoped, errand, talk, goal, readSoFar, view, confirmed, pendingCall, unsure,
              outcome, viewStale, disturbed>>

Values == {"empty", "wanted", "other"}
Links == [dns : Values, domains : Values, dflt : BOOLEAN]

\* desired(dns, index); without domains the link is for every name.
Desired == [dns |-> "wanted", domains |-> IF scoped THEN "wanted" ELSE "empty", dflt |-> ~scoped]

Blank == [dns |-> "empty", domains |-> "empty", dflt |-> FALSE]

Unset(l) == l.dns = "empty" /\ l.domains = "empty"

LinkInit ==
  /\ dnsLink \in {l \in Links : "wanted" \notin {l.dns, l.domains}}
  /\ scoped \in BOOLEAN
  /\ errand = "inspect" /\ talk = "idle" /\ goal = "first" /\ readSoFar = 0
  /\ view = Blank /\ confirmed = Blank /\ pendingCall = "none" /\ unsure = FALSE
  /\ outcome = [op |-> "none", ok |-> FALSE, found |-> FALSE]
  /\ viewStale = TRUE /\ disturbed = TRUE
-----------------------------------------------------------------------------
\* The call ends, reads the link, or sends a request; what it has confirmed.
Tell(ok, found) ==
  /\ talk' = "idle" /\ outcome' = [op |-> errand, ok |-> ok, found |-> found]
  /\ readSoFar' = 0 /\ view' = Blank /\ confirmed' = Blank /\ UNCHANGED goal
Reading(g, c) ==
  /\ talk' = "read" /\ goal' = g /\ readSoFar' = 0 /\ view' = Blank /\ confirmed' = c /\ UNCHANGED outcome
Calling(g, c) ==
  /\ talk' = "call" /\ goal' = g /\ confirmed' = c /\ UNCHANGED <<readSoFar, view, outcome>>

Refuse == Tell(FALSE, FALSE)

SetGoals == {"dns", "domains", "dflt"}

\* Mutant: whatever was set is taken back without another look.
TakeBackBlindly == Calling("revert", confirmed)

\* set_recoverable after a failure: only steps that were read back are taken
\* back, and only if the link is read to be as it was then.
TakeBack == IF Unset(confirmed) THEN Refuse ELSE Reading("undo", confirmed)

CallResolved(o) ==
  /\ talk = "idle"
  /\ errand' = o /\ Reading("first", Blank)
  /\ unsure' = FALSE /\ viewStale' = FALSE /\ disturbed' = FALSE
  /\ UNCHANGED <<dnsLink, scoped, pendingCall>>

\* state: one property after the other.
ReadProperty ==
  /\ talk = "read" /\ readSoFar < 3 /\ pendingCall = "none"
  /\ \/ readSoFar = 0 /\ view' = [view EXCEPT !.dns = dnsLink.dns]
     \/ readSoFar = 1 /\ view' = [view EXCEPT !.domains = dnsLink.domains]
     \/ readSoFar = 2 /\ view' = [view EXCEPT !.dflt = dnsLink.dflt]
  /\ readSoFar' = readSoFar + 1
  /\ viewStale' = (readSoFar # 0 /\ viewStale)
  /\ UNCHANGED <<dnsLink, scoped, errand, talk, goal, confirmed, pendingCall, unsure, outcome, disturbed>>

\* What a read-back must show: the last one, with the field that was set.
Expected ==
  IF goal = "dns" THEN [confirmed EXCEPT !.dns = "wanted"]
  ELSE IF goal = "domains" THEN [confirmed EXCEPT !.domains = Desired.domains]
  ELSE Desired

InspectDecides ==
  \/ view = Desired /\ Tell(TRUE, TRUE)
  \/ Unset(view) /\ Tell(TRUE, FALSE)
  \/ view # Desired /\ ~Unset(view) /\ Refuse

ApplyDecides ==
  \/ goal = "first" /\ IF Unset(view) THEN Calling("dns", view) ELSE Refuse
  \/ goal = "dns" /\ view = Expected /\ Calling("domains", view)
  \/ goal = "domains" /\ view = Expected /\ Calling("dflt", view)
  \/ goal = "dflt" /\ view = Expected /\ Reading("final", confirmed)
  \/ goal \in SetGoals /\ view # Expected /\ TakeBack
  \/ goal = "undo" /\ IF view = confirmed THEN Calling("revert", confirmed) ELSE Refuse
  \/ goal = "final" /\ Tell(view = Desired, TRUE)

\* The identity that apply has returned is that of the desired link.
RemoveDecides ==
  \/ goal = "gone" /\ Tell(Unset(view), FALSE)
  \/ goal = "first" /\ Unset(view) /\ Tell(TRUE, FALSE)
  \/ goal = "first" /\ view = Desired /\ Calling("revert", confirmed)
  \/ goal = "first" /\ ~Unset(view) /\ view # Desired /\ Refuse

Decide ==
  /\ talk = "read" /\ readSoFar = 3
  /\ \/ errand = "inspect" /\ InspectDecides
     \/ errand = "apply" /\ ApplyDecides
     \/ errand = "remove" /\ RemoveDecides
  /\ UNCHANGED <<dnsLink, scoped, errand, pendingCall, unsure, viewStale, disturbed>>

\* SetLinkDNS, SetLinkDomains, SetLinkDefaultRoute and RevertLink.
Effect(call) ==
  IF call = "dns" THEN {[dnsLink EXCEPT !.dns = "wanted"]}
  ELSE IF call = "domains" THEN {[dnsLink EXCEPT !.domains = Desired.domains]}
  ELSE IF call = "dflt" THEN {[dnsLink EXCEPT !.dflt = Desired.dflt]}
  ELSE {l \in Links : Unset(l)}

\* The call is answered.
Called ==
  /\ talk = "call" /\ pendingCall = "none" /\ dnsLink' \in Effect(goal)
  /\ \/ goal # "revert" /\ Reading(goal, confirmed)
     \/ goal = "revert" /\ errand = "remove" /\ Reading("gone", confirmed)
     \/ goal = "revert" /\ errand = "apply" /\ Refuse
  /\ UNCHANGED <<scoped, errand, pendingCall, unsure, viewStale, disturbed>>

\* An error instead: nothing was done, or the answer was lost.
CallFails(done) ==
  /\ talk = "call" /\ pendingCall = "none"
  /\ IF done THEN dnsLink' \in Effect(goal) ELSE UNCHANGED dnsLink
  /\ unsure' = (unsure \/ done \/ goal = "revert")
  /\ IF goal \in SetGoals THEN TakeBack ELSE Refuse
  /\ UNCHANGED <<scoped, errand, pendingCall, viewStale, disturbed>>

\* A property cannot be read.
PropertyFails ==
  /\ talk = "read"
  /\ unsure' = TRUE
  /\ IF errand = "apply" /\ goal \in SetGoals THEN TakeBack ELSE Refuse
  /\ UNCHANGED <<dnsLink, scoped, errand, pendingCall, viewStale, disturbed>>

\* The five seconds are over, wherever the call stands.
Timeout ==
  /\ talk # "idle" /\ pendingCall = "none"
  /\ pendingCall' = IF talk = "call" THEN goal ELSE "none"
  /\ unsure' = TRUE /\ Refuse
  /\ UNCHANGED <<dnsLink, scoped, errand, viewStale, disturbed>>

\* The abandoned call is carried out, or was never sent.
SentArrives ==
  /\ pendingCall # "none" /\ pendingCall' = "none"
  /\ dnsLink' \in Effect(pendingCall) \cup {dnsLink}
  /\ viewStale' = TRUE
  /\ UNCHANGED <<scoped, errand, talk, goal, readSoFar, view, confirmed, unsure, outcome, disturbed>>

\* Another program sets one property of the link, or reverts it.
LinkChanged(l) ==
  /\ l # dnsLink /\ dnsLink' = l
  /\ \/ \E v \in Values : l \in {[dnsLink EXCEPT !.dns = v], [dnsLink EXCEPT !.domains = v]}
     \/ l = [dnsLink EXCEPT !.dflt = ~@]
     \/ Unset(l)
  /\ viewStale' = TRUE /\ disturbed' = TRUE
  /\ UNCHANGED <<scoped, errand, talk, goal, readSoFar, view, confirmed, pendingCall, unsure, outcome>>

Resolver ==
  \/ \E o \in {"inspect", "apply", "remove"} : CallResolved(o)
  \/ ReadProperty \/ PropertyFails \/ Decide \/ Called \/ Timeout \/ SentArrives
  \/ \E done \in BOOLEAN : CallFails(done)

LinkNext == Resolver \/ \E l \in Links : LinkChanged(l)

LinkSpec == LinkInit /\ [][LinkNext]_linkVars
-----------------------------------------------------------------------------
LinkTypeOK ==
  /\ dnsLink \in Links /\ scoped \in BOOLEAN /\ errand \in {"inspect", "apply", "remove"}
  /\ talk \in {"idle", "read", "call"} /\ readSoFar \in 0..3
  /\ goal \in {"first", "undo", "final", "gone", "revert"} \cup SetGoals
  /\ view \in Links /\ confirmed \in Links
  /\ pendingCall \in {"none", "revert"} \cup SetGoals
  /\ unsure \in BOOLEAN /\ viewStale \in BOOLEAN /\ disturbed \in BOOLEAN
  /\ outcome \in [op : {"none", "inspect", "apply", "remove"}, ok : BOOLEAN, found : BOOLEAN]

\* An answer is true of the link until it changes after the reading that it
\* rests on, although the link is not read at once.  An apply that fails,
\* undisturbed and without a call or a reading it does not know the end of,
\* has taken back whatever it had set; the others leave the link to the
\* journal's uncertain reservation (network_resolved.rs:172-173).
LinkAnswers ==
  talk = "idle" =>
    /\ outcome.ok /\ ~viewStale =>
         IF outcome.found THEN dnsLink = Desired ELSE Unset(dnsLink)
    /\ outcome.op = "apply" /\ outcome.ok => outcome.found
    /\ outcome.op = "apply" /\ ~outcome.ok /\ goal # "first" /\ ~disturbed /\ ~unsure =>
         Unset(dnsLink)

\* Configuration that the provider overwrites or takes away is what it last
\* read there, or came after that reading began.
KeepsLink ==
  dnsLink' # dnsLink /\ pendingCall = "none" /\ Resolver =>
    /\ talk = "call"
    /\ viewStale \/ dnsLink = view
    /\ goal = "revert" /\ ~viewStale => dnsLink \in {confirmed, Desired}

LinkKept == [][KeepsLink]_linkVars

\* The resolver's link can be trusted to the answers, and is changed with care.
LinkSound == [](LinkTypeOK /\ LinkAnswers) /\ LinkKept
=============================================================================

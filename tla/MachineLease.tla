---------------------------- MODULE MachineLease ----------------------------
(***************************************************************************)
(* What the network authority promises to the machine: an attempt changes  *)
(* the network only while it owns the reservation, and the reservation is  *)
(* given up only when its attempt has stopped and cleaned up.              *)
(***************************************************************************)

CONSTANTS Attempt, Nobody

VARIABLES
  leaseholder,  \* who owns the machine's network
  busy          \* attempts with an engine running or network changes left

vars == <<leaseholder, busy>>

Init == leaseholder = Nobody /\ busy = {}

Claim(a) == leaseholder = Nobody /\ leaseholder' = a /\ UNCHANGED busy

Work == leaseholder # Nobody /\ busy' = busy \cup {leaseholder} /\ UNCHANGED leaseholder

Rest(a) == busy' = busy \ {a} /\ UNCHANGED leaseholder

Yield == leaseholder \notin busy /\ leaseholder' = Nobody /\ UNCHANGED busy

Next == (\E a \in Attempt : Claim(a) \/ Rest(a)) \/ Work \/ Yield

Spec == Init /\ [][Next]_vars

=============================================================================

-------------------------- MODULE MCControlChannel --------------------------
(* ControlChannel for TLC; users are interchangeable. *)
EXTENDS ControlChannel, TLC

Users == Permutations(User)

\* Unreadable records, second questions and plans of two resources within the
\* first attempt; the second one meets what the first has left.
FirstAttempt ==
  ctl.att > 1 =>
    /\ ctl.lost = 0 /\ eng[ctl.att].otp < TOKEN
    /\ \A a \in AttemptId : \A i \in DOMAIN events[a] : events[a][i].arg < 2
=============================================================================

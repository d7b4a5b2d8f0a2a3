-------------------------- MODULE MCActionApproval --------------------------
(* Two actions and two operators in concurrent processes. *)
EXTENDS ActionApproval

CONSTANTS a1, a2, o1, o2

TwoActions == {a1, a2}
TwoOperators == {o1, o2}
=============================================================================

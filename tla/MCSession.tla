------------------------------ MODULE MCSession ------------------------------
(* Model-checking instance of Session.                                     *)
EXTENDS Session, TLC

CONSTANTS a1, a2
TwoActivities == {a1, a2}
Symmetric == Permutations(TwoActivities)
=============================================================================

---------------------------- MODULE MCLiveLocation ----------------------------
(* Model-checking instance of LiveLocation: senders are interchangeable.   *)
EXTENDS LiveLocation, TLC

SenderSymmetry == Permutations(Senders)
=============================================================================

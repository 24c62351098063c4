---------------------------- MODULE MCChatRetention ----------------------------
(* Model-checking instance of ChatRetention.                               *)
EXTENDS ChatRetention, TLC
=============================================================================

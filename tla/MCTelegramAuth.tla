---------------------------- MODULE MCTelegramAuth ----------------------------
(* Model-checking instance of TelegramAuth: contacts are interchangeable,  *)
(* and so are the requests.                                                *)
EXTENDS TelegramAuth, TLC

TelegramSymmetry == Permutations(Contact) \cup Permutations(Request)
=============================================================================

----------------------------- MODULE MCBleButton -----------------------------
(* Model-checking instance of BleButton.                                   *)
EXTENDS BleButton
=============================================================================

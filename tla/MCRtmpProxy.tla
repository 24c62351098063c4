------------------------------ MODULE MCRtmpProxy ------------------------------
(* Model-checking instance of RtmpProxy.                                   *)
EXTENDS RtmpProxy
=============================================================================

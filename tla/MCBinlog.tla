------------------------------- MODULE MCBinlog -------------------------------
(* Model-checking instance of Binlog.                                      *)
EXTENDS Binlog
=============================================================================

--------------------------- MODULE MCSegmentPipeline ---------------------------
(* Model-checking instance of SegmentPipeline.                             *)
EXTENDS SegmentPipeline, TLC
=============================================================================

------------------------- MODULE MCSchedulePipeline -------------------------
(***************************************************************************)
(* Instances of SchedulePipeline for TLC.                                  *)
(***************************************************************************)
EXTENDS SchedulePipeline, TLC

CONSTANTS v1, v2, j1, j2, x1, x2, g1, g2, a1, a2
=============================================================================

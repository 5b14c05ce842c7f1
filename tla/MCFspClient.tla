---------------------------- MODULE MCFspClient -----------------------------
(***************************************************************************)
(* Instances of FspClient for TLC.                                         *)
(***************************************************************************)
EXTENDS FspClient

CONSTANTS c1, c2, c3
=============================================================================

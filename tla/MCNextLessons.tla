---------------------------- MODULE MCNextLessons ---------------------------
(***************************************************************************)
(* Instances of NextLessons for TLC.                                       *)
(***************************************************************************)
EXTENDS NextLessons, TLC

CONSTANTS e1, s1, o1

OneEnrollment == e1 :> s1
=============================================================================

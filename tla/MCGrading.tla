------------------------------ MODULE MCGrading ------------------------------
(***************************************************************************)
(* A small instance of JudgeGrading for TLC.                               *)
(***************************************************************************)
EXTENDS JudgeGrading

\* A submission of two cases, then one of a single case.
CaseCounts == <<2, 1>>
===============================================================================

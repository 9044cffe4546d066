------------------------------ MODULE MCOracle ------------------------------
(***************************************************************************)
(* One command on the loop node, two at a time on the Director's           *)
(* checkout. Directors' commands are alike.                                *)
(***************************************************************************)
EXTENDS Oracle, TLC

MCSymmetry == Permutations(Directors)

\* A planted event makes a task's log richer, a second run the run log; not both.
MCPlantsOrRuns == plants + Cardinality(Runs) + (IF session.pc = "none" THEN 0 ELSE 1) <= 2
=============================================================================

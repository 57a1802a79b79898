------------------------- MODULE MCFunctionExecution -------------------------
(* Small instances of FunctionExecution for TLC.                           *)
EXTENDS FunctionExecution, TLC

\* Neither calls nor feeders are told apart by any action or property.
Symmetry == Permutations(Calls) \cup Permutations(Feeders)
=============================================================================

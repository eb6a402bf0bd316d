---------------------------- MODULE MCDecisions -----------------------------
(* Decisions on small sets of model values. *)
EXTENDS Decisions, TLC

Symmetry == Permutations(Runs) \cup Permutations(Clients)
                \cup Permutations(Scenarios) \cup Permutations(Passed)
=============================================================================

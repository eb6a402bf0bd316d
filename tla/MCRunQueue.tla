---------------------------- MODULE MCRunQueue -----------------------------
(* RunQueue on small sets of model values. *)
EXTENDS RunQueue, TLC

Symmetry == Permutations(Workers) \cup Permutations(Clients)
                \cup Permutations(Payloads) \cup Permutations(Bodies)
=============================================================================

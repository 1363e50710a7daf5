------------------------------ MODULE MCRetrier ------------------------------
(* Retrier on small instances. *)
EXTENDS Retrier, TLC

Symmetry == Permutations(Endpoint) \union Permutations(Run)
=============================================================================

-------------------------- MODULE MCSubscriptions --------------------------
(* Subscriptions on small instances. *)
EXTENDS Subscriptions, TLC

Symmetry == Permutations(Auth) \union Permutations(Arn) \union Permutations(Call)
============================================================================

---------------------------- MODULE MCPipeline ----------------------------
(* Pipeline on small instances: a few messages, rows, requests and workers. *)
EXTENDS Pipeline, TLC

Symmetry == Permutations(Message) \union Permutations(Handler) \union Permutations(Proc)
             \union Permutations(Rowid)
============================================================================

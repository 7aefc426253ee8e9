---------------------------- MODULE MCMcpTools ----------------------------
(* Model-checking instances of McpTools: one seller, two calls of each     *)
(* server at a time.                                                       *)
EXTENDS McpTools, TLC

AllPrices == 0..100

Symmetry == Permutations(Calls)

=============================================================================

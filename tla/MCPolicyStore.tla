--------------------------- MODULE MCPolicyStore ---------------------------
(* PolicyStore on a small instance: three apps compete for two tags.       *)
EXTENDS PolicyStore, TLC
CONSTANTS a, b, c

MCGuids == {a, b, c}
Symmetry == Permutations(MCGuids)
=============================================================================

--------------------------- MODULE MCAutoApproval ---------------------------
(* Instances of AutoApproval for TLC.                                      *)
EXTENDS AutoApproval, TLC

SymbolPermutations == Permutations(Symbols)
=============================================================================

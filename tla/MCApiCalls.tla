----------------------------- MODULE MCApiCalls -----------------------------
EXTENDS ApiCalls, TLC

Symmetry == Permutations(Key)
=============================================================================

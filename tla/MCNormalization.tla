--------------------------- MODULE MCNormalization ---------------------------
EXTENDS Normalization, TLC

Symmetry == Permutations(Provider \ Payg)
=============================================================================

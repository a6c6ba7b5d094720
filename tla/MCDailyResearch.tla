-------------------------- MODULE MCDailyResearch --------------------------
(***************************************************************************)
(* Instances of DailyResearch for TLC.                                     *)
(***************************************************************************)
EXTENDS DailyResearch, TLC

\* No property distinguishes candidates.
Symmetry == Permutations(Item)
=============================================================================

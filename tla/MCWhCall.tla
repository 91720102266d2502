------------------------------ MODULE MCWhCall ------------------------------
(***************************************************************************)
(* WhCall for TLC: the branches are interchangeable.                       *)
(***************************************************************************)
EXTENDS WhCall, TLC

BranchSymmetry == Permutations(Branches)

=============================================================================

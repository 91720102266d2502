---------------------------- MODULE MCWorktrees ----------------------------
(* Worktrees with clients that TLC may exchange: they differ only in the   *)
(* task they are given.                                                    *)
EXTENDS Worktrees, TLC

Symmetry == Permutations(Clients)

=============================================================================

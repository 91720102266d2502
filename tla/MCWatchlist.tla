---------------------------- MODULE MCWatchlist ----------------------------
(* Watchlist for TLC: one process may schedule one owner's jobs, the other  *)
(* both owners'.                                                            *)
EXTENDS Watchlist, TLC

CONSTANTS o1, o2, narrow, wide

MCHandles == {narrow, wide}
MCOwners == {o1, o2}
MCAllowed == narrow :> {o1} @@ wide :> {o1, o2}

=============================================================================

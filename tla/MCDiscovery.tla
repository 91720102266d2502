---------------------------- MODULE MCDiscovery ----------------------------
(* Discovery for TLC: an owner with two repositories and one with one. *)
EXTENDS Discovery

MCOwners == {"o1", "o2"}
MCRepos == {"a", "b", "c"}
MCItems == {"issue", "pr", "pr2", "pr3"}
MCOwnerOf == [a |-> "o1", b |-> "o1", c |-> "o2"]
MCHome == [issue |-> "a", pr |-> "a", pr2 |-> "a", pr3 |-> "c"]
MCRequests == {"pr", "pr2", "pr3"}
MCSlugs == {{}, {"c"}}
MCAllowlists == {{}, {"o1"}, {"o1", "o2"}}
MCStarts == {{"a", "b", "c"}, {"a", "c"}}
MCAsked == {<<"o1", "o2">>, <<"o1", "o1">>}

Run(s, c) == [status |-> s, conclusion |-> c, state |-> ""]
Commit(s) == [status |-> "", conclusion |-> "", state |-> s]
Green == Run("COMPLETED", "SUCCESS")
MCRollups ==
  {{Green, Run("COMPLETED", "STALE")}, {Green, Commit("EXPECTED")}}

=============================================================================

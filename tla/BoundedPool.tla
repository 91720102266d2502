---------------------------- MODULE BoundedPool ----------------------------
(***************************************************************************)
(* What a pool with a concurrency limit promises: every job waits, then    *)
(* works, then is over; no more than limit jobs work at once; a job that   *)
(* is over stays so and is over once.                                      *)
(***************************************************************************)
EXTENDS FiniteSets, Naturals

CONSTANT Jobs

VARIABLES
  limit,     \* fixed when the pool is made
  waiting,
  working,
  over

poolVars == <<limit, waiting, working, over>>

Init ==
  /\ limit \in Nat \ {0}
  /\ waiting = Jobs
  /\ working = {}
  /\ over = {}

Start(j) ==
  /\ j \in waiting
  /\ Cardinality(working) < limit
  /\ waiting' = waiting \ {j}
  /\ working' = working \cup {j}
  /\ UNCHANGED <<limit, over>>

Finish(j) ==
  /\ j \in working
  /\ working' = working \ {j}
  /\ over' = over \cup {j}
  /\ UNCHANGED <<limit, waiting>>

\* A job is given up before it started.
Abandon(j) ==
  /\ j \in waiting
  /\ waiting' = waiting \ {j}
  /\ over' = over \cup {j}
  /\ UNCHANGED <<limit, working>>

Next == \E j \in Jobs : Start(j) \/ Finish(j) \/ Abandon(j)

Spec == Init /\ [][Next]_poolVars

=============================================================================

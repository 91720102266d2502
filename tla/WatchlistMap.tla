---------------------------- MODULE WatchlistMap ----------------------------
(***************************************************************************)
(* What a watchlist file promises to the processes that share it: one map  *)
(* from job ids to records that every operation reads and changes at once, *)
(* as if no process kept a copy of its own.  Only named jobs change, and a *)
(* fix is counted only while the jobs of its PR and cycle have budget.     *)
(***************************************************************************)
EXTENDS WatchlistData

VARIABLES
  jobs,      \* job id -> record
  damaged    \* the file was once unparseable: its content may be lost

Init ==
  /\ jobs \in [JobIds -> Entries]
  /\ damaged = FALSE

Put(id, r) == jobs' = [jobs EXCEPT ![id] = r]

Add(id) ==
  /\ jobs[id] = NoJob
  /\ \E o \in Owners, m \in 0..Ceiling, n \in Notes : Put(id, Fresh(o, m, n))

Remove(id) == Put(id, NoJob)

\* The fields nobody counts with, and the PR of a job.
Annotate(id) ==
  /\ jobs[id] \in Job
  /\ \E n \in Notes, pr \in Prs \cup {None} :
       Put(id, [jobs[id] EXCEPT !.notes = n, !.pr = pr])

BeginCycle(ids, c) ==
  /\ \A id \in ids : jobs[id] \in Job
  /\ jobs' = [id \in JobIds |->
                IF id \in ids THEN EnterCycle(jobs[id], c) ELSE jobs[id]]

CountFix(id, c) ==
  LET entered == [jobs EXCEPT ![id] = EnterCycle(@, c)] IN
  /\ jobs[id] \in Job
  /\ HasBudget(entered, id)
  /\ jobs' = AddFix(entered, id)

Damage == damaged' = TRUE /\ jobs' = Empty

\* A file that was found unparseable is put aside, and with it all it holds.
Lose == damaged /\ jobs' = Empty /\ UNCHANGED damaged

Next ==
  \/ /\ \/ \E id \in JobIds : Add(id) \/ Remove(id) \/ Annotate(id)
        \/ \E ids \in SUBSET JobIds, c \in Cycles : BeginCycle(ids, c)
        \/ \E id \in JobIds, c \in Cycles \cup {None} : CountFix(id, c)
     /\ UNCHANGED damaged
  \/ Damage
  \/ Lose

Spec == Init /\ [][Next]_<<jobs, damaged>>

=============================================================================

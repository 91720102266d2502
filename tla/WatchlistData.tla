--------------------------- MODULE WatchlistData ---------------------------
(***************************************************************************)
(* The records of watchlist.json and what watchlist.py computes from them. *)
(* The repo name is fixed, so a PR number identifies a pull request of its *)
(* owner.  The fields that setters overwrite and no rule reads (status,    *)
(* blockers, error, timestamps) are one value, notes.                      *)
(***************************************************************************)
EXTENDS Integers, Functions

CONSTANTS
  JobIds,
  Owners,
  Prs,         \* pull request numbers
  Cycles,      \* babysit cycle ids
  Notes,
  None,        \* a field that is not set
  NoJob,       \* no entry under a job id
  Unreadable,  \* an object JobState cannot be built from
  Bare,        \* an entry that is not even an object
  Wrapped,     \* the object {"_invalid_job_entry": ...} around it
  Ceiling      \* MAX_FIXES_CEILING

ASSUME DataAssumption ==
  /\ None \notin Prs \cup Cycles
  /\ Ceiling \in Nat \ {0}

Job == [owner: Owners, pr: Prs \cup {None}, cycle: Cycles \cup {None},
        fixes: Int, max: Int, notes: Notes]
Invalid == {Unreadable, Bare, Wrapped}
ASSUME EntryAssumption ==
  /\ NoJob \notin Job \cup Invalid
  /\ Invalid \cap Job = {}
  /\ Bare \notin {Unreadable, Wrapped}
Entries == Job \cup Invalid \cup {NoJob}
Empty == [id \in JobIds |-> NoJob]

\* JobState as `add` builds it: no PR, no cycle, nothing used.
Fresh(owner, max, notes) ==
  [owner |-> owner, pr |-> None, cycle |-> None,
   fixes |-> 0, max |-> max, notes |-> notes]

LesserOf(a, b) == IF a <= b THEN a ELSE b

\* An entry that is not an object is kept under a wrapper; the next _load
\* finds an object without the fields of a job.
Wrap(r) == IF r = Bare THEN Wrapped ELSE r

\* What _load makes of an entry someone else may have written, if its owner
\* may be scheduled: the numbers of a job are put in range.
Clamp(r) ==
  IF r \in Job
  THEN [r EXCEPT !.max = IF @ < 0 THEN 0 ELSE LesserOf(@, Ceiling),
                 !.fixes = IF @ < 0 THEN 0 ELSE @]
  ELSE Wrap(r)

\* A record that enters cycle c, if one is given: the count restarts when the
\* id differs.
EnterCycle(r, c) ==
  IF c \in {None, r.cycle} THEN r ELSE [r EXCEPT !.cycle = c, !.fixes = 0]

\* Jobs whose fixes count against the budget of job id: those sharing its
\* owner, PR and cycle.
Siblings(jobs, id) ==
  {i \in JobIds : /\ jobs[i] \in Job
                  /\ jobs[i].owner = jobs[id].owner
                  /\ jobs[i].pr = jobs[id].pr
                  /\ jobs[i].cycle = jobs[id].cycle}

\* What increment_fix_count compares with the budget.
Used(jobs, id) ==
  IF jobs[id].pr = None
  THEN jobs[id].fixes
  ELSE SumFunction([i \in Siblings(jobs, id) |-> jobs[i].fixes])

HasBudget(jobs, id) == Used(jobs, id) < LesserOf(jobs[id].max, Ceiling)

AddFix(jobs, id) == [jobs EXCEPT ![id].fixes = @ + 1]

=============================================================================

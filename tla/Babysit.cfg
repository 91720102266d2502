\* Two threads that ask for a change, one of them without a database id, and a
\* question; no budget or two commits; one or two commits a call; one change by
\* others during the cycle.
SPECIFICATION Spec
CONSTANTS
  Threads = {t1, t2, q}
  Questions = {q}
  Unnumbered = {t2}
  Limits = {0, 2}
  PerCall = 2
  MaxEvents = 1
  Lives = {"open", "merged"}
  Merges = {"clean", "blocked", "conflicting"}
  Reviews = {"none", "changes_requested"}
  None = None
INVARIANTS ChildrenWaitForBase AnswersHold HealthyIsFresh PushesAccounted
CHECK_DEADLOCK FALSE

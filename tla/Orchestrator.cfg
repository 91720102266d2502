\* Three workers, one or two slots: a queue forms, and newcomers arrive while
\* a granted worker has not resumed.
SPECIFICATION FairSpec
CONSTANTS
  Workers = {w1, w2, w3}
  Limits = {1, 2}
INVARIANTS StatusesInOrder NoIdleSlot
PROPERTIES ImplementsPool DeadlinesEndTheRun
CHECK_DEADLOCK FALSE

\* Two runs, one or two permits, two branches: a queue forms, groups overlap.
SPECIFICATION FairSpec
CONSTANTS
  Runs = {r1, r2}
  Limits = {0, 2}
  Branches = {b1, b2}
  None = None
INVARIANTS NothingOutlives AccountingHolds
PROPERTIES StartsOnBranch TimedRunEnds ImplementsPool
CHECK_DEADLOCK FALSE

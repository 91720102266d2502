\* Two jobs, one PR, two cycles, a ceiling of two fixes: enough for siblings to
\* share a budget, for a cycle to restart a count, for a deferred entry beside
\* an active one, one failed save and one damaged file.
SPECIFICATION Spec
CONSTANTS
  narrow = narrow
  wide = wide
  o1 = o1
  o2 = o2
  Handles <- MCHandles
  Owners <- MCOwners
  Allowed <- MCAllowed
  JobIds = {j1, j2}
  Prs = {pr}
  Cycles = {c1, c2}
  Notes = {n}
  None = None
  NoJob = NoJob
  Unreadable = Unreadable
  Bare = Bare
  Wrapped = Wrapped
  Ceiling = 2
  Budgets = {2}
  MaxOps = 3
  MaxFailures = 1
  MaxDamages = 1
INVARIANT SiblingBudget
PROPERTIES DeferredKept ImplementsMap
CHECK_DEADLOCK FALSE

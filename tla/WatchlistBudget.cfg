\* One job with a PR, the real ceiling of three, two cycles that overlap.
SPECIFICATION Spec
CONSTANTS
  narrow = narrow
  wide = wide
  o1 = o1
  o2 = o2
  Handles <- MCHandles
  Owners <- MCOwners
  Allowed <- MCAllowed
  JobIds = {j1}
  Prs = {pr}
  Cycles = {c1, c2}
  Notes = {n}
  None = None
  NoJob = NoJob
  Unreadable = Unreadable
  Bare = Bare
  Wrapped = Wrapped
  Ceiling = 3
  Budgets = {3}
  MaxOps = 5
  MaxFailures = 0
  MaxDamages = 0
INVARIANT BudgetPerCycle
CHECK_DEADLOCK FALSE

\* Two calls: an earlier one that may be lost, and the one that meets its git.
SPECIFICATION Spec
CONSTANTS
  MaxCalls = 2
  Branches = {b1, b2}
  None = None
SYMMETRY BranchSymmetry
INVARIANTS DoneIsDone RefusedIsUntouched NothingLate ActsOnExpected
CHECK_DEADLOCK FALSE

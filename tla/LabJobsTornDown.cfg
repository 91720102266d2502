\* Two agents, one job id, no timeouts: a teardown that overlaps an allocate.
SPECIFICATION Spec
CONSTANTS
  Procs = {a, b}
  JobIds = {j1}
  None = None
  MaxTimeouts = 0
INVARIANT TornDownTreeGone
CHECK_DEADLOCK FALSE

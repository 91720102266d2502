\* Three agents contend for one job id; any of them may die and any operation
\* of the store may fail, and one wh call may time out.  Ids do not interact,
\* so one is enough.
SPECIFICATION FairSpec
CONSTANTS
  Procs = {a, b, c}
  JobIds = {j1}
  None = None
  MaxTimeouts = 1
INVARIANTS ReservationHeld TreesHold
PROPERTIES ImplementsRegistry ReservationResolves
CHECK_DEADLOCK FALSE

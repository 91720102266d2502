\* Two runs that ask for the same job id: at most one of them gets it; the
\* unit of either is collected.
SPECIFICATION BatchSpec
CONSTANTS
  Runs = {r1, r2}
  JobIds = {j1}
  Branch = Branch
  None = None
INVARIANTS CreditedIsOwn NoneOutlives ReportedPairStands FailureIsSettled UnitAgreesWithRun
PROPERTY RunEnds
CHECK_DEADLOCK FALSE

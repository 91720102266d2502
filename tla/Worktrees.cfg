\* Three clients with any of the four tasks of an issue: two claims of one
\* branch, a rerun of a run, a claim of the branch a run works on.
SPECIFICATION Spec
CONSTANTS
  Clients = {c1, c2, c3}
  Issues = {n1}
  None = None
INVARIANTS HoldersHaveTheirTree NoStrayBranches PushesBase
PROPERTIES CheckedOutTipsAreSafe
SYMMETRY Symmetry
CHECK_DEADLOCK FALSE

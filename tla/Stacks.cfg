\* Three requests on pages of two, three branches: chains, forks in the road,
\* rings with a tail, two requests with the same head, heads of deleted forks, a
\* release request from the default branch, a lookup that fails.
SPECIFICATION StackSpec
CONSTANTS
  N = 3
  PageSize = 2
  Branches = {a, main, trunk}
  Gone = {a}
  Default = trunk
  Fallback = main
  Nil = Nil
INVARIANTS ScheduleIsRight NothingDropped
CHECK_DEADLOCK FALSE

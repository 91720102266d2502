\* An owner with two repositories, one of them empty, and an owner with one;
\* lists of one or two entries; one change on GitHub.
SPECIFICATION DiscoverySpec
CONSTANTS
  Owners <- MCOwners
  Repos <- MCRepos
  Items <- MCItems
  OwnerOf <- MCOwnerOf
  Home <- MCHome
  Requests <- MCRequests
  Asked <- MCAsked
  Slugs <- MCSlugs
  Allowlists <- MCAllowlists
  Starts <- MCStarts
  Rollups <- MCRollups
  ItemLimits = {1, 2}
  MaxChanges = 1
  Absent = Absent
INVARIANTS OmissionsTold PlanIsComplete OnlyAllowedContacted GreenIsGreen
CHECK_DEADLOCK FALSE

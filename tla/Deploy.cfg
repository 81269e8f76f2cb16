SPECIFICATION Spec
CONSTANTS
  Releases <- ConstReleases
  Upgraded <- ConstUpgraded
  MaxFaults = 2
INVARIANTS TypeOK GapsAreKnown HandlersRely FailuresExplained HalvesFollowTheCommit
PROPERTIES RevertsAreExact
CHECK_DEADLOCK FALSE

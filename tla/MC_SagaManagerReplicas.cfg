\* Two nodes share the reply channel, and the saga begins with a local step.
CONSTANTS
  NumSteps = 3
  Local <- MCLocalFirst
  LocalCompensation <- MCLocalFirst
  Truthy <- MCLocalFirst
  Data = {"d1", "d2"}
  Invocable <- MCRemote
  Compensable <- MCRemote
  Saga = {s1}
  Node = {n1, n2}
  Home <- MCHome
  Partition = {p1, p2}
  NoPartition = NoPartition
  Locking = {}
  CompensationMayFail = FALSE
  MaxRuns = 2
  MaxCrashes = 1
  MaxRedeliveries = 0
SYMMETRY MCSymmetry
SPECIFICATION Spec
INVARIANTS NothingSkipped CompensationJustified
CHECK_DEADLOCK FALSE

CONSTANTS
  NumSteps = 3
  Local <- MCLocal
  LocalCompensation <- MCLocalCompensation
  Truthy <- MCTruthy
  Data = {"d"}
  Invocable <- MCInvocable
  Compensable <- MCCompensable
  Saga = {s1}
  Node = {n1}
  Home <- MCHome
  Partition = {p1}
  NoPartition = NoPartition
  Locking = {}
  CompensationMayFail = FALSE
  MaxRuns = 2
  MaxCrashes = 0
  MaxRedeliveries = 0
SPECIFICATION Spec
INVARIANT RollbackIsComplete
CHECK_DEADLOCK FALSE

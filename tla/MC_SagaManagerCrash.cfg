\* One node that crashes, and participants that handle a command twice.
CONSTANTS
  NumSteps = 3
  Local <- MCLocal
  LocalCompensation <- MCLocal
  Truthy = {}
  Data = {"d1", "d2"}
  Invocable <- MCInvocable
  Compensable <- MCCompensable
  Saga = {s1}
  Node = {n1}
  Home <- MCHome
  Partition = {p1, p2}
  NoPartition = NoPartition
  Locking = {}
  CompensationMayFail = TRUE
  MaxRuns = 9
  MaxCrashes = 2
  MaxRedeliveries = 1
SYMMETRY MCSymmetry
SPECIFICATION Spec
INVARIANTS NothingSkipped CompensationJustified
PROPERTIES EndIsFinal NeverForwardAgain

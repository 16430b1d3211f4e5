\* One node, nothing lost and nothing repeated.
CONSTANTS
  NumSteps = 4
  Local <- MCLocal
  LocalCompensation <- MCLocal
  Truthy = {}
  Data = {"d1", "d2"}
  Invocable <- MCInvocable
  Compensable <- MCCompensable
  Saga = {s1, s2}
  Node = {n1}
  Home <- MCHome
  Partition = {p1, p2}
  NoPartition = NoPartition
  Locking = {0, 3}
  CompensationMayFail = TRUE
  MaxRuns = 9
  MaxCrashes = 0
  MaxRedeliveries = 0
SPECIFICATION FairSpec
INVARIANTS TypeOK OnceEach UnlocksComeLast
PROPERTIES ImplementsPattern EverySagaEnds

\* Two members that are evicted and come back, with every kind of fault.
CONSTANTS
  Member = {m1, m2}
  Partition = {p1, p2}
  Handler = {h1, h2}
  LastOffset = 1
  Fault = {"throw", "refused", "unacknowledged", "eviction", "crash"}
  MaxFaults = 2
SPECIFICATION FairSpec
INVARIANTS HandledBeforeCommitted HandledInOrder
PROPERTIES EverythingHandled

\* One member: handlers throw, commits are refused, the process restarts.
CONSTANTS
  Member = {m1}
  Partition = {p1, p2}
  Handler = {h1, h2}
  LastOffset = 2
  Fault = {"throw", "refused", "crash"}
  MaxFaults = 3
SPECIFICATION FairSpec
INVARIANT KafkaTypeOK
PROPERTIES CommitsForward EverythingCommitted

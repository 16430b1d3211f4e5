\* Two calls, another service that stores two events, two subscriptions.
CONSTANTS
  Call = {c1, c2}
  Outcomes <- MCOutcomes
  Interests <- MCInterests
  Trigger = {t1}
  NoTrigger = NoTrigger
  Repository = {"snapshots", "events"}
  MaxOutside = 2
  MaxSubscriptions = 2
SYMMETRY MCSymmetry
SPECIFICATION Spec
INVARIANTS AggregateTypeOK OneWinner ProcessedOnce
  RejectedUpdateLeavesNoTrace NewMeansDelivered
\* The calls end.
CHECK_DEADLOCK FALSE

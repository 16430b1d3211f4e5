\* The schema and the events of event-schema-manager.spec.ts.
CONSTANTS
  Aggregate = {"Account", "Order"}
  Calls <- MCCalls
  Stored <- MCStored
SPECIFICATION Spec
INVARIANTS UpcastOnce
CHECK_DEADLOCK FALSE

-------------------------- MODULE MC_EventSchema ----------------------------
EXTENDS EventSchema

\* The schema of the event schema manager's test.
MCCalls ==
  << [call |-> "forAggregate", aggregate |-> "Account"],
     [call |-> "version", version |-> 1],
     [call |-> "rename", old |-> "OldEvent", new |-> "NewEventA"],
     [call |-> "transform", eventType |-> "NewEventA"],
     [call |-> "transform", eventType |-> "NewEventB"],
     [call |-> "version", version |-> 2],
     [call |-> "transform", eventType |-> "SomeEvent"],
     [call |-> "transform", eventType |-> "NewEventB"],
     [call |-> "forAggregate", aggregate |-> "Order"],
     [call |-> "version", version |-> 1],
     [call |-> "transform", eventType |-> "SomeOtherEvent"],
     [call |-> "customize"] >>

MCStored ==
  {[aggregate |-> "Account", eventType |-> "OldEvent", version |-> NoVersion],
   [aggregate |-> "Account", eventType |-> "NewEventB", version |-> NoVersion],
   [aggregate |-> "Account", eventType |-> "SomeEventX", version |-> NoVersion],
   [aggregate |-> "Account", eventType |-> "NewEventB", version |-> 1],
   [aggregate |-> "Account", eventType |-> "NewEventB", version |-> 2],
   [aggregate |-> "Order", eventType |-> "SomeOtherEvent", version |-> 1]}
=============================================================================

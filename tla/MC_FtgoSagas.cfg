\* Two create sagas, a kitchen that accepts tickets, and one crash.
CONSTANTS
  NumOrders = 2
  Price <- MCPrice
  Ordered <- MCOrdered
  Revision <- MCRevision
  Minimum = 20
  Balance = 20
  Worker = {w1, w2}
  Caller = {k1}
  CalledOps <- KitchenCalls
  Started = {"create"}
  MaxCalls = 1
  MaxCrashes = 1
SPECIFICATION FairSpec
INVARIANTS FtgoTypeOK  
   
  
\* The sagas end, or stay with a refused compensation.
CHECK_DEADLOCK FALSE

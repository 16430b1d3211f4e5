--------------------------- MODULE MC_FtgoOrders ---------------------------
EXTENDS FtgoOrders, TLC

MCPrice == [i \in {"dish", "drink"} |-> IF i = "dish" THEN 5 ELSE 2]
MCOrdered == [i \in {"dish", "drink"} |-> IF i = "dish" THEN 2 ELSE 1]

\* Less of everything, more of everything, one item only, and an unknown item.
MCRevision ==
  {[i \in {"dish", "drink"} |-> IF i = "dish" THEN 1 ELSE 3],
   [i \in {"dish", "drink"} |-> 9],
   [i \in {"dish"} |-> 1],
   [i \in {"dish", "wine"} |-> 1]}

KitchenCalls == {"accept"}
AllOps ==
  {"create", "confirmCreate", "accept", "cancel", "undoCancel",
   "confirmCancel", "beginReviseOrder", "undoBeginReviseOrder",
   "confirmReviseTicket", "approve", "reject", "beginCancel", "beginRevise",
   "undoPendingRevision", "confirmRevision"}
=============================================================================

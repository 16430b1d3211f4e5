\* Two orders, two workers, and trouble of any kind twice.
CONSTANTS
  Order = {"o1", "o2"}
  CustomerOf <- MCCustomerOf
  OrderTotal <- MCOrderTotal
  CreditLimit <- MCCreditLimit
  Worker = {w1, w2}
  Handled = {"ReserveCreditCommand"}
  WithLock = {"ReserveCreditCommand"}
  MaxTrouble = 2
SPECIFICATION FairSpec
INVARIANTS  ApprovedOrdersAreCovered 
  
 
CHECK_DEADLOCK FALSE

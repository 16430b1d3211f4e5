------------------------ MODULE MC_CustomerOrders ---------------------------
EXTENDS CustomerOrders, TLC

\* Two orders of a customer whose limit is enough for one of them; the second
\* may be of a customer there is not.
MCCustomerOf == ("o1" :> {"ann"}) @@ ("o2" :> {"ann", "bob"})
MCOrderTotal == ("o1" :> 2) @@ ("o2" :> 1)
MCCreditLimit == ("ann" :> 2)
=============================================================================

-------------------------- MODULE MCShopLifecycle ---------------------------
\* The instance of ShopLifecycle that TLC checks: everybody comes once.
EXTENDS ShopLifecycle

OneVisit == [c \in Customers |-> 1]
=============================================================================

---------------------------- MODULE MCBarberShop ----------------------------
\* The instance of BarberShop that TLC checks.  There are more customers than
\* seats and chair together, so some find the waiting room full; the regulars
\* come back, to a queue and a signal handler that served them before.
EXTENDS BarberShop

CONSTANT Regulars

MCVisits == [c \in Customers |-> IF c \in Regulars THEN 2 ELSE 1]
=============================================================================

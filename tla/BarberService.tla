--------------------------- MODULE BarberService ----------------------------
(***************************************************************************)
(* What the barber shop of lab 7 promises: one chair, a waiting line of    *)
(* bounded length served in order of arrival, and nobody leaves the chair  *)
(* without a haircut.                                                      *)
(***************************************************************************)
EXTENDS Integers, Sequences

CONSTANTS Customers, Seats, Nobody

VARIABLES
  line,       \* the customers in the waiting room, first to be served first
  occupant,   \* the customer in the chair, or Nobody
  trimmed,    \* has the occupant had the haircut?
  haircuts    \* haircuts each customer left with

vars == <<line, occupant, trimmed, haircuts>>

Init ==
  /\ line = <<>>
  /\ occupant = Nobody
  /\ trimmed = FALSE
  /\ haircuts = [c \in Customers |-> 0]

InShop(c) == c = occupant \/ \E i \in DOMAIN line : line[i] = c

WalkIn(c) ==
  /\ ~InShop(c)
  /\ line = <<>>
  /\ occupant = Nobody
  /\ occupant' = c
  /\ UNCHANGED <<line, trimmed, haircuts>>

JoinLine(c) ==
  /\ ~InShop(c)
  /\ Len(line) < Seats
  /\ line' = Append(line, c)
  /\ UNCHANGED <<occupant, trimmed, haircuts>>

SitDown ==
  /\ occupant = Nobody
  /\ line # <<>>
  /\ occupant' = Head(line)
  /\ line' = Tail(line)
  /\ UNCHANGED <<trimmed, haircuts>>

Cut ==
  /\ occupant # Nobody
  /\ ~trimmed
  /\ trimmed' = TRUE
  /\ UNCHANGED <<line, occupant, haircuts>>

Leave ==
  /\ occupant # Nobody
  /\ trimmed
  /\ haircuts' = [haircuts EXCEPT ![occupant] = @ + 1]
  /\ occupant' = Nobody
  /\ trimmed' = FALSE
  /\ UNCHANGED line

Next ==
  \/ SitDown
  \/ Cut
  \/ Leave
  \/ \E c \in Customers : WalkIn(c) \/ JoinLine(c)

Spec == Init /\ [][Next]_vars
=============================================================================

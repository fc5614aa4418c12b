-------------------------- MODULE BarberShopProofs --------------------------
(***************************************************************************)
(* Proofs about BarberShop, and about ShopLifecycle around it, for any set *)
(* of customers, any number of seats and of visits.                        *)
(*                                                                         *)
(* The places of the barber and of the one customer it serves determine    *)
(* each other and the values of the semaphores; Protocol writes this down. *)
(***************************************************************************)
EXTENDS ShopLifecycle, CommonLemmas

USE CustomersAssumption, SeatsAssumption

\* "data" is 0 as long as somebody is between taking and giving it.
DataGuard ==
  /\ semaphore["data"] \in {0, 1}
  /\ BarberInside => semaphore["data"] = 0
  /\ \A c \in Customers : Inside(c) => semaphore["data"] = 0

\* The waiting room: the queue holds customers that wait there, each once.
InLine(c) == customer[c] \in {"waiting", "invited", "called"}

Entries == {n \in Nat : queue_head <= n /\ n < queue_tail}

Room ==
  /\ queue_head <= queue_tail /\ queue_tail <= queue_head + Seats
  /\ \A n \in Entries : queue[(n % Seats)] \in Customers /\ InLine(queue[(n % Seats)])
  /\ \A m, n \in Entries : m # n => queue[(m % Seats)] # queue[(n % Seats)]

\* From the invitation, or from waking the barber, to the end of the visit a customer
\* is served.
Summoned(c) == invitations[c] > 0 \/ customer[c] \in {"invited", "called"}
Served(c) == Summoned(c) \/ InChair(c)

OneServed == \A c, d \in Customers : Served(c) /\ Served(d) => c = d

\* What the place of the customer says about the barber.
CustomerSees ==
  \A c \in Customers :
    /\ Summoned(c) => queue_length > 0 /\ queue_top = c /\ barber = "call"
    /\ customer[c] = "sit" =>
         chair = c /\ barber \in {"call", "sleep"} /\ semaphore["chair"] = 0
    /\ customer[c] = "seated" =>
         /\ chair = c
         /\ \/ barber \in {"call", "sleep"} /\ semaphore["chair"] = 1
            \/ barber \in {"cut", "finish", "wait"} /\ semaphore["chair"] = 0
    /\ customer[c] = "leave" =>
         barber = "wait" /\ semaphore["chair"] = 0 /\ semaphore["done"] = 0

\* What the place of the barber says about the customers.
BarberSees ==
  /\ barber \in {"look", "inside"} =>
       semaphore["chair"] = 0 /\ \A c \in Customers : ~Served(c)
  /\ barber \in {"call", "sleep"} /\ semaphore["chair"] > 0 =>
       \E c \in Customers : customer[c] = "seated"
  /\ barber \in {"cut", "finish"} =>
       semaphore["chair"] = 0 /\ \E c \in Customers : customer[c] = "seated"
  /\ barber = "wait" /\ semaphore["chair"] > 0 => \A c \in Customers : ~Served(c)
  /\ barber = "finish" => cutting = chair
  /\ semaphore["chair"] \in {0, 1} /\ semaphore["done"] \in {0, 1}
  /\ semaphore["done"] = 1 => barber = "wait" /\ \E c \in Customers : customer[c] = "seated"

\* The barber's status is what it is told by the customer that wakes it.
Status ==
  /\ barber_status = "SLEEPING" =>
       /\ barber = "sleep" /\ queue_length = 0 /\ semaphore["chair"] = 0
       /\ \A c \in Customers : ~Served(c)
  /\ barber = "sleep" /\ barber_status = "WORKING" =>
       \E c \in Customers : customer[c] \in {"sit", "seated"}

Protocol == OneServed /\ InvitesOnlyWaiting /\ CustomerSees /\ BarberSees /\ Status

IInv == TypeOK /\ DataExclusive /\ DataGuard /\ Room /\ Protocol

-----------------------------------------------------------------------------
(* The invariant.                                                          *)

LEMMA InitInvariant == Init => IInv
<1> SUFFICES ASSUME Init PROVE IInv
  OBVIOUS
<1> USE DEF Init
<1>1. TypeOK
  <2>1. customer \in [Customers -> CustomerPlaces]
    BY DEF CustomerPlaces
  <2>2. semaphore \in [Semaphores -> Nat]
    BY DEF Semaphores
  <2>3. barber \in BarberPlaces /\ queue \in [0 .. Seats - 1 -> Customers \cup {Nobody}]
    BY DEF BarberPlaces
  <2> QED
    BY <2>1, <2>2, <2>3 DEF TypeOK
<1>2. \A c \in Customers : customer[c] \in {"gone", "arrive"} /\ invitations[c] = 0
  OBVIOUS
<1>3. DataExclusive /\ DataGuard
  BY <1>2 DEF DataExclusive, DataGuard, Inside, BarberInside
<1>4. Room
  BY DEF Room, Entries
<1>5. Protocol
  BY <1>2 DEF Protocol, OneServed, InvitesOnlyWaiting, CustomerSees, BarberSees, Status,
              Served, Summoned, InChair
<1> QED
  BY <1>1, <1>3, <1>4, <1>5 DEF IInv

\* What a step that leaves the queue alone, and nobody in the waiting room, preserves.
LEMMA RoomUnchanged ==
  ASSUME Room, UNCHANGED <<queue, queue_head, queue_tail>>,
         \A c \in Customers : InLine(c) => InLine(c)'
  PROVE  Room' /\ queue_length' = queue_length /\ queue_top' = queue_top
<1>1. Entries' = Entries
  BY DEF Entries
<1>2. Room'
  BY <1>1 DEF Room
<1> QED
  BY <1>2 DEF queue_length, queue_top

\* Whoever is at the head of a queue that is not empty is a customer in the waiting room.
LEMMA FirstInLine ==
  ASSUME TypeOK, Room, queue_length > 0
  PROVE  queue_top \in Customers /\ InLine(queue_top)
<1>1. queue_head \in Entries
  BY DEF TypeOK, Entries, queue_length
<1> QED
  BY <1>1 DEF Room, queue_top

\* The steps of the barber.
LEMMA BarberPreserves ==
  ASSUME IInv, Barber
  PROVE  IInv'
<1> USE DEF IInv, BarberGoes
<1>1. ASSUME BarberTakesData PROVE IInv'
  <2> USE <1>1 DEF BarberTakesData, take_semaphore, shop
  <2>1. TypeOK'
    BY DEF TypeOK, Semaphores, BarberPlaces
  <2>2. DataExclusive' /\ DataGuard'
    BY DEF TypeOK, Semaphores, DataExclusive, DataGuard, Inside, BarberInside
  <2>3. Room' /\ queue_length' = queue_length /\ queue_top' = queue_top
    BY RoomUnchanged DEF InLine, TypeOK
  <2>4. Protocol'
    BY <2>3 DEF TypeOK, Semaphores, Served, Summoned, InChair, Protocol, OneServed,
                InvitesOnlyWaiting, CustomerSees, BarberSees, Status
  <2> QED
    BY <2>1, <2>2, <2>3, <2>4
<1>2. ASSUME InviteClient PROVE IInv'
  <2> USE <1>2 DEF InviteClient, give_semaphore, shop
  <2>0. queue_top \in Customers /\ customer[queue_top] = "waiting"
    BY FirstInLine DEF Protocol, BarberSees, Served, Summoned, InChair, InLine, TypeOK
  <2>1. TypeOK'
    BY <2>0 DEF TypeOK, Semaphores, BarberPlaces
  <2>2. DataExclusive' /\ DataGuard'
    BY DEF TypeOK, Semaphores, DataExclusive, DataGuard, Inside, BarberInside
  <2>3. Room' /\ queue_length' = queue_length /\ queue_top' = queue_top
    BY RoomUnchanged DEF InLine, TypeOK
  <2>4. OneServed'
    BY <2>3 DEF TypeOK, Semaphores, Served, Summoned, InChair, Protocol, OneServed,
                InvitesOnlyWaiting, CustomerSees, BarberSees, Status
  <2>5. InvitesOnlyWaiting'
    BY <2>0 DEF TypeOK, Protocol, InvitesOnlyWaiting, BarberSees, Served, Summoned
  <2>6. CustomerSees' /\ BarberSees' /\ Status'
    BY <2>3 DEF TypeOK, Semaphores, Served, Summoned, InChair, Protocol, OneServed,
                InvitesOnlyWaiting, CustomerSees, BarberSees, Status
  <2> QED
    BY <2>1, <2>2, <2>3, <2>4, <2>5, <2>6 DEF Protocol
<1>3. ASSUME FallAsleep PROVE IInv'
  <2> USE <1>3 DEF FallAsleep, give_semaphore
  <2>1. TypeOK'
    BY DEF TypeOK, Semaphores, BarberPlaces
  <2>2. DataExclusive' /\ DataGuard'
    BY DEF TypeOK, Semaphores, DataExclusive, DataGuard, Inside, BarberInside
  <2>3. Room' /\ queue_length' = queue_length /\ queue_top' = queue_top
    BY RoomUnchanged DEF InLine, TypeOK
  <2>4. Protocol'
    BY <2>3 DEF TypeOK, Semaphores, Served, Summoned, InChair, Protocol, OneServed,
                InvitesOnlyWaiting, CustomerSees, BarberSees, Status
  <2> QED
    BY <2>1, <2>2, <2>3, <2>4
<1>4. ASSUME ClientSatDown PROVE IInv'
  <2> USE <1>4 DEF ClientSatDown, take_semaphore, shop
  <2>1. TypeOK'
    BY DEF TypeOK, Semaphores, BarberPlaces
  <2>2. DataExclusive' /\ DataGuard'
    BY DEF TypeOK, Semaphores, DataExclusive, DataGuard, Inside, BarberInside
  <2>3. Room' /\ queue_length' = queue_length /\ queue_top' = queue_top
    BY RoomUnchanged DEF InLine, TypeOK
  <2>4. Protocol'
    BY <2>3 DEF TypeOK, Semaphores, Served, Summoned, InChair, Protocol, OneServed,
                InvitesOnlyWaiting, CustomerSees, BarberSees, Status
  <2> QED
    BY <2>1, <2>2, <2>3, <2>4
<1>5. ASSUME StartCutting PROVE IInv'
  <2> USE <1>5 DEF StartCutting, shop
  <2>1. TypeOK'
    BY DEF TypeOK, Semaphores, BarberPlaces
  <2>2. DataExclusive' /\ DataGuard'
    BY DEF TypeOK, Semaphores, DataExclusive, DataGuard, Inside, BarberInside
  <2>3. Room' /\ queue_length' = queue_length /\ queue_top' = queue_top
    BY RoomUnchanged DEF InLine, TypeOK
  <2>4. Protocol'
    BY <2>3 DEF TypeOK, Semaphores, Served, Summoned, InChair, Protocol, OneServed,
                InvitesOnlyWaiting, CustomerSees, BarberSees, Status
  <2> QED
    BY <2>1, <2>2, <2>3, <2>4
<1>6. ASSUME EndCutting PROVE IInv'
  <2> USE <1>6 DEF EndCutting, give_semaphore, shop
  <2>1. TypeOK'
    BY DEF TypeOK, Semaphores, BarberPlaces
  <2>2. DataExclusive' /\ DataGuard'
    BY DEF TypeOK, Semaphores, DataExclusive, DataGuard, Inside, BarberInside
  <2>3. Room' /\ queue_length' = queue_length /\ queue_top' = queue_top
    BY RoomUnchanged DEF InLine, TypeOK
  <2>4. Protocol'
    BY <2>3 DEF TypeOK, Semaphores, Served, Summoned, InChair, Protocol, OneServed,
                InvitesOnlyWaiting, CustomerSees, BarberSees, Status
  <2> QED
    BY <2>1, <2>2, <2>3, <2>4
<1>7. ASSUME ClientLeft PROVE IInv'
  <2> USE <1>7 DEF ClientLeft, take_semaphore, shop
  <2>1. TypeOK'
    BY DEF TypeOK, Semaphores, BarberPlaces
  <2>2. DataExclusive' /\ DataGuard'
    BY DEF TypeOK, Semaphores, DataExclusive, DataGuard, Inside, BarberInside
  <2>3. Room' /\ queue_length' = queue_length /\ queue_top' = queue_top
    BY RoomUnchanged DEF InLine, TypeOK
  <2>4. Protocol'
    BY <2>3 DEF TypeOK, Semaphores, Served, Summoned, InChair, Protocol, OneServed,
                InvitesOnlyWaiting, CustomerSees, BarberSees, Status
  <2> QED
    BY <2>1, <2>2, <2>3, <2>4
<1> QED
  BY <1>1, <1>2, <1>3, <1>4, <1>5, <1>6, <1>7 DEF Barber

\* The steps of a customer.
LEMMA CustomerPreserves ==
  ASSUME IInv, NEW p \in Customers, Customer(p)
  PROVE  IInv'
<1> USE DEF IInv, CustomerGoes
<1>1. ASSUME NEW c \in Customers, EnterShop(c) PROVE IInv'
  <2> USE <1>1 DEF EnterShop, take_semaphore, shop
  <2>1. TypeOK'
    BY DEF TypeOK, Semaphores, CustomerPlaces
  <2>2. DataExclusive' /\ DataGuard'
    BY DEF TypeOK, Semaphores, DataExclusive, DataGuard, Inside, BarberInside
  <2>3. Room' /\ queue_length' = queue_length /\ queue_top' = queue_top
    BY RoomUnchanged DEF InLine, TypeOK
  <2>4. OneServed' /\ InvitesOnlyWaiting'
    <3>1. \A d \in Customers : Served(d)' => Served(d)
      BY DEF TypeOK, Served, Summoned, InChair
    <3> QED
      BY <3>1 DEF TypeOK, Protocol, OneServed, InvitesOnlyWaiting
  <2>6. CustomerSees'
    BY <2>3 DEF TypeOK, Semaphores, Served, Summoned, InChair, Protocol, OneServed,
                InvitesOnlyWaiting, CustomerSees, BarberSees, Status
  <2>7. BarberSees' /\ Status'
    BY <2>3 DEF TypeOK, Semaphores, Served, Summoned, InChair, Protocol, OneServed,
                InvitesOnlyWaiting, CustomerSees, BarberSees, Status
  <2> QED
    BY <2>1, <2>2, <2>3, <2>4, <2>6, <2>7 DEF Protocol
<1>2. ASSUME NEW c \in Customers, WakeUpBarber(c) PROVE IInv'
  <2> USE <1>2 DEF WakeUpBarber, give_semaphore
  <2>1. TypeOK'
    BY DEF TypeOK, Semaphores, CustomerPlaces
  <2>2. DataExclusive' /\ DataGuard'
    BY DEF TypeOK, Semaphores, DataExclusive, DataGuard, Inside, BarberInside
  <2>3. Room' /\ queue_length' = queue_length /\ queue_top' = queue_top
    BY RoomUnchanged DEF InLine, TypeOK
  <2>4. Protocol'
    BY <2>3 DEF TypeOK, Semaphores, Served, Summoned, InChair, Protocol, OneServed,
                InvitesOnlyWaiting, CustomerSees, BarberSees, Status
  <2> QED
    BY <2>1, <2>2, <2>3, <2>4
<1>3. ASSUME NEW c \in Customers, LeaveFullShop(c) PROVE IInv'
  <2> USE <1>3 DEF LeaveFullShop, give_semaphore, shop
  <2>1. TypeOK'
    BY DEF TypeOK, Semaphores, CustomerPlaces
  <2>2. DataExclusive' /\ DataGuard'
    BY DEF TypeOK, Semaphores, DataExclusive, DataGuard, Inside, BarberInside
  <2>3. Room' /\ queue_length' = queue_length /\ queue_top' = queue_top
    BY RoomUnchanged DEF InLine, TypeOK
  <2>4. OneServed' /\ InvitesOnlyWaiting'
    BY <2>3 DEF TypeOK, Semaphores, Served, Summoned, InChair, Protocol, OneServed,
                InvitesOnlyWaiting, CustomerSees, BarberSees, Status
  <2>6. CustomerSees'
    BY <2>3 DEF TypeOK, Semaphores, Served, Summoned, InChair, Protocol, OneServed,
                InvitesOnlyWaiting, CustomerSees, BarberSees, Status
  <2>7. BarberSees' /\ Status'
    BY <2>3 DEF TypeOK, Semaphores, Served, Summoned, InChair, Protocol, OneServed,
                InvitesOnlyWaiting, CustomerSees, BarberSees, Status
  <2> QED
    BY <2>1, <2>2, <2>3, <2>4, <2>6, <2>7 DEF Protocol
<1>4. ASSUME NEW c \in Customers, JoinQueue(c) PROVE IInv'
  <2> USE <1>4 DEF JoinQueue, give_semaphore, queue_push
  <2>0. /\ (queue_tail % Seats) \in 0 .. Seats - 1
        /\ \A n \in Entries : (n % Seats) \in 0 .. Seats - 1 /\ (n % Seats) # (queue_tail % Seats)
    <3>1. queue_tail < queue_head + Seats /\ Seats \in Nat \ {0}
      BY DEF Room, queue_length, TypeOK
    <3> QED
      BY <3>1, SlotIsFree DEF Entries, TypeOK
  <2>1. TypeOK'
    <3>1. queue' \in [0 .. Seats - 1 -> Customers \cup {Nobody}] /\ queue_tail' \in Nat
      BY <2>0 DEF TypeOK
    <3>2. customer' \in [Customers -> CustomerPlaces] /\ semaphore' \in [Semaphores -> Nat]
      BY DEF TypeOK, CustomerPlaces, Semaphores
    <3> QED
      BY <3>1, <3>2 DEF TypeOK
  <2>2. DataExclusive' /\ DataGuard'
    BY DEF TypeOK, Semaphores, DataExclusive, DataGuard, Inside, BarberInside
  <2>3. Room'
    <3>1. Entries' = Entries \cup {queue_tail} /\ queue_tail \notin Entries
      BY DEF Entries, TypeOK, Room
    <3>2. /\ queue'[(queue_tail % Seats)] = c
          /\ \A n \in Entries : queue'[(n % Seats)] = queue[(n % Seats)] /\ queue[(n % Seats)] # c
      BY <2>0 DEF TypeOK, Room, InLine
    <3>3. \A d \in Customers : InLine(d) => InLine(d)'
      BY DEF TypeOK, InLine
    <3>4. InLine(c)'
      BY DEF TypeOK, InLine
    <3>5. queue_head' <= queue_tail' /\ queue_tail' <= queue_head' + Seats
      BY DEF TypeOK, Room, queue_length
    <3> QED
      BY <3>1, <3>2, <3>3, <3>4, <3>5 DEF Room
  <2>4. OneServed'
    BY <2>3 DEF TypeOK, Semaphores, Served, Summoned, InChair, Protocol, OneServed,
                InvitesOnlyWaiting, CustomerSees, BarberSees, Status
  <2>5. InvitesOnlyWaiting'
    BY <2>3 DEF TypeOK, Semaphores, Served, Summoned, InChair, Protocol, OneServed,
                InvitesOnlyWaiting, CustomerSees, BarberSees, Status
  <2>6. CustomerSees'
    <3>1. queue_length > 0 => queue_length' > 0 /\ queue_top' = queue_top
      <4>1. queue_length > 0 => queue_head \in Entries
        BY DEF Entries, TypeOK, queue_length
      <4> QED
        BY <2>0, <4>1 DEF TypeOK, queue_length, queue_top
    <3>2. \A d \in Customers : Summoned(d)' => Summoned(d)
      BY DEF TypeOK, Summoned
    <3> QED
      BY <3>1, <3>2 DEF TypeOK, Semaphores, Protocol, CustomerSees
  <2>7. BarberSees'
    BY <2>3 DEF TypeOK, Semaphores, Served, Summoned, InChair, Protocol, OneServed,
                InvitesOnlyWaiting, CustomerSees, BarberSees, Status
  <2>8. Status'
    BY <2>3 DEF TypeOK, Semaphores, Served, Summoned, InChair, Protocol, OneServed,
                InvitesOnlyWaiting, CustomerSees, BarberSees, Status
  <2> QED
    BY <2>1, <2>2, <2>3, <2>4, <2>5, <2>6, <2>7, <2>8 DEF Protocol
<1>5. ASSUME NEW c \in Customers, Notified(c) PROVE IInv'
  <2> USE <1>5 DEF Notified, shop
  <2>1. TypeOK'
    BY DEF TypeOK, Semaphores, CustomerPlaces
  <2>2. DataExclusive' /\ DataGuard'
    BY DEF TypeOK, Semaphores, DataExclusive, DataGuard, Inside, BarberInside
  <2>3. Room' /\ queue_length' = queue_length /\ queue_top' = queue_top
    BY RoomUnchanged DEF InLine, TypeOK
  <2>4. OneServed' /\ InvitesOnlyWaiting'
    BY <2>3 DEF TypeOK, Semaphores, Served, Summoned, InChair, Protocol, OneServed,
                InvitesOnlyWaiting, CustomerSees, BarberSees, Status
  <2>6. CustomerSees'
    BY <2>3 DEF TypeOK, Semaphores, Served, Summoned, InChair, Protocol, OneServed,
                InvitesOnlyWaiting, CustomerSees, BarberSees, Status
  <2>7. BarberSees' /\ Status'
    BY <2>3 DEF TypeOK, Semaphores, Served, Summoned, InChair, Protocol, OneServed,
                InvitesOnlyWaiting, CustomerSees, BarberSees, Status
  <2> QED
    BY <2>1, <2>2, <2>3, <2>4, <2>6, <2>7 DEF Protocol
<1>6. ASSUME NEW c \in Customers, TakeDataInvited(c) PROVE IInv'
  <2> USE <1>6 DEF TakeDataInvited, take_semaphore, shop
  <2>1. TypeOK'
    BY DEF TypeOK, Semaphores, CustomerPlaces
  <2>2. DataExclusive' /\ DataGuard'
    BY DEF TypeOK, Semaphores, DataExclusive, DataGuard, Inside, BarberInside
  <2>3. Room' /\ queue_length' = queue_length /\ queue_top' = queue_top
    BY RoomUnchanged DEF InLine, TypeOK
  <2>4. Protocol'
    BY <2>3 DEF TypeOK, Semaphores, Served, Summoned, InChair, Protocol, OneServed,
                InvitesOnlyWaiting, CustomerSees, BarberSees, Status
  <2> QED
    BY <2>1, <2>2, <2>3, <2>4
<1>7. ASSUME NEW c \in Customers, LeaveQueue(c) PROVE IInv'
  <2> USE <1>7 DEF LeaveQueue, give_semaphore, queue_pop
  <2>0. /\ queue_length > 0 /\ queue_top = c /\ invitations[c] = 0
        /\ \A d \in Customers \ {c} : ~Served(d)
    <3>1. Summoned(c) /\ Served(c)
      BY DEF Summoned, Served
    <3> QED
      <4>1. queue_length > 0 /\ queue_top = c
        BY <3>1 DEF Protocol, CustomerSees
      <4>2. invitations[c] = 0
        <5>1. invitations[c] \in Nat /\ ~(invitations[c] > 0)
          BY DEF TypeOK, Protocol, InvitesOnlyWaiting
        <5> QED
          BY <5>1
      <4>3. \A d \in Customers \ {c} : ~Served(d)
        BY <3>1 DEF Protocol, OneServed
      <4> QED
        BY <4>1, <4>2, <4>3
  <2>1. TypeOK'
    BY DEF TypeOK, Semaphores, CustomerPlaces
  <2>2. DataExclusive' /\ DataGuard'
    BY DEF TypeOK, Semaphores, DataExclusive, DataGuard, Inside, BarberInside
  <2>3. Room'
    <3>1. queue_head \in Entries /\ Entries' = Entries \ {queue_head}
      BY <2>0 DEF Entries, TypeOK, queue_length
    <3>2. \A n \in Entries' : queue[(n % Seats)] # c
      BY <2>0, <3>1 DEF Room, queue_top
    <3>3. \A d \in Customers : d # c /\ InLine(d) => InLine(d)'
      BY DEF TypeOK, InLine
    <3>4. queue_head' <= queue_tail' /\ queue_tail' <= queue_head' + Seats
      BY <2>0 DEF TypeOK, Room, queue_length
    <3> QED
      BY <3>1, <3>2, <3>3, <3>4 DEF Room
  <2>4. OneServed'
    BY <2>0 DEF TypeOK, Semaphores, Served, Summoned, InChair, Protocol, OneServed,
                InvitesOnlyWaiting, CustomerSees, BarberSees, Status
  <2>5. InvitesOnlyWaiting'
    BY <2>0 DEF TypeOK, Semaphores, Served, Summoned, InChair, Protocol, OneServed,
                InvitesOnlyWaiting, CustomerSees, BarberSees, Status
  <2>6. CustomerSees'
    <3>1. barber = "call" /\ semaphore["chair"] = 0
      BY DEF TypeOK, Semaphores, Protocol, CustomerSees, BarberSees, Served, Summoned,
             OneServed, InChair
    <3>2. \A d \in Customers : ~Summoned(d)'
      BY <2>0 DEF TypeOK, Served, Summoned
    <3>3. \A d \in Customers : customer'[d] \in {"sit", "seated", "leave"} => d = c
      BY <2>0 DEF TypeOK, Served, InChair
    <3>4. customer'[c] = "sit" /\ semaphore'["chair"] = 0
      BY <3>1 DEF TypeOK, Semaphores
    <3> QED
      BY <3>1, <3>2, <3>3, <3>4 DEF CustomerSees
  <2>7. BarberSees'
    BY <2>0 DEF TypeOK, Semaphores, Served, Summoned, InChair, Protocol, OneServed,
                InvitesOnlyWaiting, CustomerSees, BarberSees, Status
  <2>8. Status'
    BY <2>0 DEF TypeOK, Semaphores, Served, Summoned, InChair, Protocol, OneServed,
                InvitesOnlyWaiting, CustomerSees, BarberSees, Status
  <2> QED
    BY <2>1, <2>2, <2>3, <2>4, <2>5, <2>6, <2>7, <2>8 DEF Protocol
<1>8. ASSUME NEW c \in Customers, SitDown(c) PROVE IInv'
  <2> USE <1>8 DEF SitDown, give_semaphore, shop
  <2>1. TypeOK'
    BY DEF TypeOK, Semaphores, CustomerPlaces
  <2>2. DataExclusive' /\ DataGuard'
    BY DEF TypeOK, Semaphores, DataExclusive, DataGuard, Inside, BarberInside
  <2>3. Room' /\ queue_length' = queue_length /\ queue_top' = queue_top
    BY RoomUnchanged DEF InLine, TypeOK
  <2>4. OneServed' /\ InvitesOnlyWaiting'
    BY <2>3 DEF TypeOK, Semaphores, Served, Summoned, InChair, Protocol, OneServed,
                InvitesOnlyWaiting, CustomerSees, BarberSees, Status
  <2>6. CustomerSees'
    BY <2>3 DEF TypeOK, Semaphores, Served, Summoned, InChair, Protocol, OneServed,
                InvitesOnlyWaiting, CustomerSees, BarberSees, Status
  <2>7. BarberSees' /\ Status'
    BY <2>3 DEF TypeOK, Semaphores, Served, Summoned, InChair, Protocol, OneServed,
                InvitesOnlyWaiting, CustomerSees, BarberSees, Status
  <2> QED
    BY <2>1, <2>2, <2>3, <2>4, <2>6, <2>7 DEF Protocol
<1>9. ASSUME NEW c \in Customers, HaircutDone(c) PROVE IInv'
  <2> USE <1>9 DEF HaircutDone, take_semaphore, shop
  <2>1. TypeOK'
    BY DEF TypeOK, Semaphores, CustomerPlaces
  <2>2. DataExclusive' /\ DataGuard'
    BY DEF TypeOK, Semaphores, DataExclusive, DataGuard, Inside, BarberInside
  <2>3. Room' /\ queue_length' = queue_length /\ queue_top' = queue_top
    BY RoomUnchanged DEF InLine, TypeOK
  <2>4. OneServed' /\ InvitesOnlyWaiting'
    BY <2>3 DEF TypeOK, Semaphores, Served, Summoned, InChair, Protocol, OneServed,
                InvitesOnlyWaiting, CustomerSees, BarberSees, Status
  <2>6. CustomerSees'
    <3>1. semaphore["done"] = 1 /\ barber = "wait" /\ semaphore["chair"] = 0
      BY DEF TypeOK, Semaphores, Protocol, BarberSees, CustomerSees
    <3>2. semaphore'["done"] = 0 /\ semaphore'["chair"] = 0
      BY <3>1 DEF TypeOK, Semaphores
    <3>3. \A d \in Customers : d # c => customer'[d] = customer[d]
      BY DEF TypeOK
    <3>4. \A d \in Customers : ~Summoned(d)' /\ customer'[d] # "sit"
      BY <3>1 DEF TypeOK, Protocol, CustomerSees, Summoned
    <3>5. \A d \in Customers : customer'[d] = "seated" => customer[d] = "seated"
      BY DEF TypeOK
    <3> QED
      BY <3>1, <3>2, <3>4, <3>5 DEF TypeOK, Protocol, CustomerSees
  <2>7. BarberSees'
    <3>1. semaphore["done"] = 1 /\ barber = "wait" /\ semaphore["chair"] = 0
      BY DEF TypeOK, Semaphores, Protocol, BarberSees, CustomerSees
    <3> QED
      BY <3>1 DEF TypeOK, Semaphores, BarberSees
  <2>8. Status'
    BY <2>3 DEF TypeOK, Semaphores, Served, Summoned, InChair, Protocol, OneServed,
                InvitesOnlyWaiting, CustomerSees, BarberSees, Status
  <2> QED
    BY <2>1, <2>2, <2>3, <2>4, <2>6, <2>7, <2>8 DEF Protocol
<1>10. ASSUME NEW c \in Customers, LeaveShop(c) PROVE IInv'
  <2> USE <1>10 DEF LeaveShop, give_semaphore, shop
  <2>1. TypeOK'
    BY DEF TypeOK, Semaphores, CustomerPlaces
  <2>2. DataExclusive' /\ DataGuard'
    BY DEF TypeOK, Semaphores, DataExclusive, DataGuard, Inside, BarberInside
  <2>3. Room' /\ queue_length' = queue_length /\ queue_top' = queue_top
    BY RoomUnchanged DEF InLine, TypeOK
  <2>4. OneServed' /\ InvitesOnlyWaiting'
    BY <2>3 DEF TypeOK, Semaphores, Served, Summoned, InChair, Protocol, OneServed,
                InvitesOnlyWaiting, CustomerSees, BarberSees, Status
  <2>6. CustomerSees'
    <3>1. \A d \in Customers : ~Served(d)'
      BY DEF TypeOK, Protocol, OneServed, InvitesOnlyWaiting, Served, Summoned, InChair
    <3> QED
      BY <3>1 DEF CustomerSees, Served, Summoned, InChair
  <2>7. BarberSees'
    <3>1. barber = "wait" /\ semaphore["chair"] = 0 /\ semaphore["done"] = 0
      BY DEF Protocol, CustomerSees
    <3>2. \A d \in Customers : ~Served(d)'
      BY DEF TypeOK, Protocol, OneServed, InvitesOnlyWaiting, Served, Summoned, InChair
    <3> QED
      BY <3>1, <3>2 DEF TypeOK, Semaphores, BarberSees
  <2>8. Status'
    BY <2>3 DEF TypeOK, Semaphores, Served, Summoned, InChair, Protocol, OneServed,
                InvitesOnlyWaiting, CustomerSees, BarberSees, Status
  <2> QED
    BY <2>1, <2>2, <2>3, <2>4, <2>6, <2>7, <2>8 DEF Protocol
<1> QED
  BY <1>1, <1>2, <1>3, <1>4, <1>5, <1>6, <1>7, <1>8, <1>9, <1>10 DEF Customer, TakesData

LEMMA NextInvariant == IInv /\ [Next]_vars => IInv'
<1>1. ASSUME IInv, UNCHANGED vars PROVE IInv'
  BY <1>1 DEF IInv, vars, shop, TypeOK, DataExclusive, DataGuard, Inside, BarberInside,
              Room, Entries, InLine, queue_length, queue_top, Protocol, OneServed,
              InvitesOnlyWaiting, CustomerSees, BarberSees, Status, Served, Summoned, InChair
<1> QED
  BY <1>1, BarberPreserves, CustomerPreserves DEF Next

\* IInv holds in every state of the shop.
THEOREM Invariance == Spec => []IInv
BY InitInvariant, NextInvariant, PTL DEF Spec

\* Every variable keeps its type: the values of the semaphores, which semop never lets
\* below zero, and the queue, whose slots hold a customer or nobody.
THEOREM TypeCorrectness == Spec => []TypeOK
<1>1. IInv => TypeOK
  BY DEF IInv
<1> QED
  BY <1>1, Invariance, PTL

\* The barber and its customers agree on who is inside, in the chair, invited and
\* awake, for any number of customers and of seats.
THEOREM RolesAlwaysAgree == Spec => []RolesAgree
<1>1. ASSUME IInv PROVE CutsTheSeated
  <2>1. \A c, d \in Customers : InChair(c) /\ InChair(d) => c = d
    BY <1>1 DEF IInv, Protocol, OneServed, Served
  <2>2. barber \in {"cut", "finish"} => \E c \in Customers : customer[c] = "seated" /\ chair = c
    BY <1>1 DEF IInv, Protocol, BarberSees, CustomerSees
  <2>3. barber = "finish" => cutting = chair
    BY <1>1 DEF IInv, Protocol, BarberSees
  <2> QED
    BY <2>1, <2>2, <2>3 DEF CutsTheSeated
<1>2. ASSUME IInv PROVE NoSleepWhileWaited
  BY <1>2 DEF IInv, TypeOK, Protocol, Status, NoSleepWhileWaited
<1>3. IInv => RolesAgree
  BY <1>1, <1>2 DEF IInv, Protocol, RolesAgree
<1> QED
  BY <1>3, Invariance, PTL

-----------------------------------------------------------------------------
(* The service.                                                            *)

LEMMA LineType ==
  ASSUME TypeOK, Room
  PROVE  /\ queue_length \in Nat /\ queue_length <= Seats
         /\ Line \in [1 .. queue_length -> Customers]
         /\ \A i \in 1 .. queue_length : InLine(Line[i])
<1>0. /\ queue_head \in Nat /\ queue_tail \in Nat /\ Seats \in Nat
      /\ queue_head <= queue_tail /\ queue_tail <= queue_head + Seats
  BY DEF TypeOK, Room
<1>1. queue_length \in Nat /\ queue_length <= Seats
  BY <1>0 DEF queue_length
<1>2. ASSUME NEW i \in 1 .. queue_length
      PROVE  /\ queue[((queue_head + i - 1) % Seats)] \in Customers
             /\ InLine(queue[((queue_head + i - 1) % Seats)])
  <2>1. queue_head + i - 1 \in Entries
    BY <1>0, <1>2 DEF Entries, queue_length
  <2> QED
    BY <2>1 DEF Room
<1> QED
  BY <1>1, <1>2 DEF Line

\* The same of the next state.
LEMMA LineTypeNext ==
  ASSUME TypeOK', Room'
  PROVE  queue_length' \in Nat /\ Line' \in [1 .. queue_length' -> Customers]
<1> DEFINE head == queue_head'  tail == queue_tail'
<1>1. /\ head \in Nat /\ tail \in Nat /\ head <= tail /\ queue_length' = tail - head
      /\ \A n \in Nat : head <= n /\ n < tail => queue'[(n % Seats)] \in Customers
  BY DEF TypeOK, Room, Entries, queue_length
<1>2. Line' = [i \in 1 .. queue_length' |-> queue'[((head + i - 1) % Seats)]]
  BY DEF Line
<1> HIDE DEF head, tail
<1>3. queue_length' \in Nat
  BY <1>1
<1>4. ASSUME NEW i \in 1 .. queue_length' PROVE queue'[((head + i - 1) % Seats)] \in Customers
  <2>1. head + i - 1 \in Nat /\ head <= head + i - 1 /\ head + i - 1 < tail
    BY <1>1, <1>4
  <2> QED
    BY <1>1, <2>1
<1> QED
  BY <1>2, <1>3, <1>4

\* The occupant is the one customer in the chair.
LEMMA OccupantType ==
  ASSUME OneServed
  PROVE  /\ \A c \in Customers : InChair(c) => Occupant = c
         /\ (\A c \in Customers : ~InChair(c)) => Occupant = Nobody
<1>1. ASSUME NEW c \in Customers, InChair(c) PROVE Occupant = c
  <2>1. Occupant \in Customers /\ InChair(Occupant)
    BY <1>1 DEF Occupant
  <2> QED
    BY <1>1, <2>1 DEF OneServed, Served
<1> QED
  BY <1>1 DEF Occupant

\* The same of the next state.
LEMMA OccupantNext ==
  ASSUME OneServed'
  PROVE  /\ \A c \in Customers : InChair(c)' => Occupant' = c
         /\ (\A c \in Customers : ~InChair(c)') => Occupant' = Nobody
<1>1. ASSUME NEW c \in Customers, InChair(c)' PROVE Occupant' = c
  <2>1. Occupant' \in Customers /\ InChair(Occupant)'
    BY <1>1 DEF Occupant, InChair
  <2> QED
    BY <1>1, <2>1 DEF OneServed, Served, InChair
<1> QED
  BY <1>1 DEF Occupant

\* A customer that is neither in the waiting room nor in the chair is not in the shop.
LEMMA NotInShop ==
  ASSUME IInv, NEW c \in Customers, ~InLine(c), ~InChair(c)
  PROVE  ~Service!InShop(c)
<1>1. c # Occupant
  BY CustomersAssumption DEF Occupant
<1>2. DOMAIN Line = 1 .. queue_length /\ \A i \in 1 .. queue_length : Line[i] # c
  BY LineType DEF IInv
<1> QED
  BY <1>1, <1>2 DEF Service!InShop

LEMMA InitRefines == Init => Service!Init
<1> SUFFICES ASSUME Init PROVE Service!Init
  OBVIOUS
<1>1. queue_length = 0 /\ TypeOK /\ Room
  BY InitInvariant DEF Init, IInv, queue_length
<1>2. Line = << >>
  BY <1>1, LineType, FunctionIsSequence
<1>3. \A c \in Customers : customer[c] \in {"gone", "arrive"}
  BY DEF Init
<1>4. Occupant = Nobody /\ Trimmed = FALSE
  BY <1>3 DEF Occupant, Trimmed, InChair, Init
<1> QED
  BY <1>2, <1>4 DEF Service!Init, Init

\* A step that moves nobody to or from the waiting room or the chair is none of the
\* service's, unless a haircut ends.
LEMMA Unseen ==
  ASSUME IInv, IInv', UNCHANGED <<queue, queue_head, queue_tail, visits>>,
         \A c \in Customers : InChair(c)' <=> InChair(c),
         Trimmed' = Trimmed
  PROVE  UNCHANGED Service!vars
<1>1. Line' = Line
  BY DEF Line, queue_length
<1>2. Occupant' = Occupant
  BY OccupantType, OccupantNext DEF IInv, Protocol
<1> QED
  BY <1>1, <1>2 DEF Service!vars

LEMMA BarberRefines ==
  ASSUME IInv, IInv', Barber
  PROVE  [Service!Next]_(Service!vars)
<1>1. ASSUME BarberTakesData \/ InviteClient \/ FallAsleep \/ ClientSatDown \/ StartCutting
             \/ ClientLeft
      PROVE  UNCHANGED Service!vars
  <2>1. UNCHANGED <<queue, queue_head, queue_tail, visits, customer>>
    BY <1>1 DEF BarberTakesData, InviteClient, FallAsleep, ClientSatDown, StartCutting,
                ClientLeft, shop
  <2>2. semaphore'["done"] = semaphore["done"]
    BY <1>1 DEF BarberTakesData, InviteClient, FallAsleep, ClientSatDown, StartCutting,
                ClientLeft, take_semaphore, give_semaphore, IInv, TypeOK, Semaphores
  <2> QED
    BY <2>1, <2>2, Unseen DEF InChair, Trimmed
<1>2. ASSUME EndCutting PROVE Service!Cut
  <2>1. UNCHANGED <<queue, queue_head, queue_tail, visits, customer>>
    BY <1>2 DEF EndCutting, shop
  <2>2. barber = "finish" /\ semaphore["done"] = 0 /\ semaphore'["done"] = 1
    BY <1>2 DEF EndCutting, BarberGoes, give_semaphore, IInv, TypeOK, Semaphores, Protocol,
                BarberSees
  <2>3. ~Trimmed /\ Trimmed' = TRUE
    BY <2>2 DEF Trimmed, IInv, Protocol, CustomerSees
  <2>4. PICK c \in Customers : customer[c] = "seated"
    BY <2>2 DEF IInv, Protocol, BarberSees
  <2>5. Occupant = c /\ Occupant' = c
    BY <2>1, <2>4, OccupantType, OccupantNext DEF InChair, IInv, Protocol
  <2>6. Line' = Line
    BY <2>1 DEF Line, queue_length
  <2> QED
    BY <2>1, <2>3, <2>5, <2>6, CustomersAssumption DEF Service!Cut
<1> QED
  BY <1>1, <1>2 DEF Barber, Service!Next

\* Between the steps in and out of the chair, a customer's steps are its own business.
LEMMA CustomerUnseen ==
  ASSUME IInv, IInv', NEW c \in Customers,
         EnterShop(c) \/ LeaveFullShop(c) \/ Notified(c) \/ TakeDataInvited(c) \/ SitDown(c)
  PROVE  UNCHANGED Service!vars
<1> USE DEF EnterShop, LeaveFullShop, Notified, TakeDataInvited, SitDown, CustomerGoes
<1>1. UNCHANGED <<queue, queue_head, queue_tail, visits>>
  BY DEF shop
<1>2. \A d \in Customers : /\ InChair(d)' <=> InChair(d)
                           /\ customer'[d] = "leave" <=> customer[d] = "leave"
  BY DEF IInv, TypeOK, InChair
<1>3. semaphore'["done"] = semaphore["done"]
  BY DEF take_semaphore, give_semaphore, IInv, TypeOK, Semaphores
<1> QED
  BY <1>1, <1>2, <1>3, Unseen DEF Trimmed

LEMMA HaircutDoneUnseen ==
  ASSUME IInv, IInv', NEW c \in Customers, HaircutDone(c)
  PROVE  UNCHANGED Service!vars
<1> USE DEF HaircutDone, CustomerGoes
<1>1. UNCHANGED <<queue, queue_head, queue_tail, visits>>
  BY DEF shop
<1>2. \A d \in Customers : InChair(d)' <=> InChair(d)
  BY DEF IInv, TypeOK, InChair
<1>3. semaphore["done"] = 1 /\ customer'[c] = "leave"
  BY DEF take_semaphore, IInv, TypeOK, Semaphores, Protocol, BarberSees
<1> QED
  BY <1>1, <1>2, <1>3, Unseen DEF Trimmed

LEMMA WakeUpRefines ==
  ASSUME IInv, IInv', NEW c \in Customers, WakeUpBarber(c)
  PROVE  Service!WalkIn(c)
<1> USE DEF WakeUpBarber, CustomerGoes
<1>1. queue_length = 0 /\ \A d \in Customers : ~Served(d)
  BY DEF IInv, Protocol, Status
<1>2. Line = << >> /\ Line' = Line
  BY <1>1, LineType, FunctionIsSequence DEF IInv, Line, queue_length
<1>3. Occupant = Nobody /\ Occupant' = c
  <2>1. InChair(c)'
    BY DEF IInv, TypeOK, InChair
  <2> QED
    BY <1>1, <2>1, OccupantType, OccupantNext DEF IInv, Protocol, Served
<1>4. Trimmed' = Trimmed
  <2>1. \A d \in Customers : customer'[d] = "leave" <=> customer[d] = "leave"
    BY DEF IInv, TypeOK
  <2>2. semaphore'["done"] = semaphore["done"]
    BY DEF give_semaphore, IInv, TypeOK, Semaphores
  <2> QED
    BY <2>1, <2>2 DEF Trimmed
<1>5. ~Service!InShop(c)
  BY NotInShop DEF InLine, InChair
<1> QED
  BY <1>2, <1>3, <1>4, <1>5 DEF Service!WalkIn

LEMMA JoinRefines ==
  ASSUME IInv, IInv', NEW c \in Customers, JoinQueue(c)
  PROVE  Service!JoinLine(c)
<1> USE DEF JoinQueue, CustomerGoes
<1>1. queue_length < Seats /\ queue_length' = queue_length + 1 /\ UNCHANGED visits
  BY DEF queue_push, queue_length, IInv, TypeOK
<1>2. /\ queue_length \in Nat
      /\ Line \in [1 .. queue_length -> Customers]
      /\ Line' \in [1 .. queue_length + 1 -> Customers]
  BY <1>1, LineType, LineTypeNext DEF IInv
<1>3. /\ \A i \in 1 .. queue_length : Line'[i] = Line[i]
      /\ Line'[queue_length + 1] = c
  <2>0. /\ queue_head \in Nat /\ queue_tail \in Nat /\ Seats \in Nat
        /\ queue_head <= queue_tail
    BY DEF IInv, TypeOK, Room
  <2>1. queue_tail < queue_head + Seats /\ Seats \in Nat \ {0}
    BY <1>1, <2>0 DEF queue_length
  <2>2. /\ (queue_tail % Seats) \in 0 .. Seats - 1
        /\ \A n \in Nat : queue_head <= n /\ n < queue_tail =>
             (n % Seats) \in 0 .. Seats - 1 /\ (n % Seats) # (queue_tail % Seats)
    BY <2>1, SlotIsFree DEF IInv, TypeOK
  <2>3. /\ queue'[(queue_tail % Seats)] = c
        /\ \A n \in Nat : queue_head <= n /\ n < queue_tail =>
             queue'[(n % Seats)] = queue[(n % Seats)]
    BY <2>2 DEF queue_push, IInv, TypeOK
  <2>4. \A i \in 1 .. queue_length :
          queue'[((queue_head + i - 1) % Seats)] = queue[((queue_head + i - 1) % Seats)]
    <3> TAKE i \in 1 .. queue_length
    <3> DEFINE n == queue_head + i - 1
    <3>1. n \in Nat /\ queue_head <= n /\ n < queue_tail
      BY <2>0 DEF queue_length
    <3> HIDE DEF n
    <3>2. queue'[(n % Seats)] = queue[(n % Seats)]
      BY <2>3, <3>1
    <3> QED
      BY <3>2 DEF n
  <2>5. queue_head + (queue_length + 1) - 1 = queue_tail /\ queue_head' = queue_head
    BY DEF queue_push, queue_length, IInv, TypeOK
  <2> QED
    BY <1>1, <1>2, <2>3, <2>4, <2>5 DEF Line
<1>4. Line' = Append(Line, c) /\ Len(Line) = queue_length
  BY <1>2, <1>3, LongerByLast, FunctionIsSequence
<1>5. \A d \in Customers : /\ InChair(d)' <=> InChair(d)
                           /\ customer'[d] = "leave" <=> customer[d] = "leave"
  BY DEF IInv, TypeOK, InChair
<1>6. Occupant' = Occupant
  BY <1>5, OccupantType, OccupantNext DEF IInv, Protocol
<1>7. Trimmed' = Trimmed
  <2>1. semaphore'["done"] = semaphore["done"]
    BY DEF give_semaphore, IInv, TypeOK, Semaphores
  <2> QED
    BY <1>5, <2>1 DEF Trimmed
<1>8. ~Service!InShop(c)
  BY NotInShop DEF InLine, InChair
<1> QED
  BY <1>1, <1>4, <1>6, <1>7, <1>8 DEF Service!JoinLine

LEMMA LeaveQueueRefines ==
  ASSUME IInv, IInv', NEW c \in Customers, LeaveQueue(c)
  PROVE  Service!SitDown
<1> USE DEF LeaveQueue, CustomerGoes
<1>1. queue_length > 0 /\ queue_top = c /\ \A d \in Customers \ {c} : ~Served(d)
  <2>1. Summoned(c) /\ Served(c)
    BY DEF Summoned, Served
  <2> QED
    BY <2>1 DEF IInv, Protocol, CustomerSees, OneServed
<1>2. queue_head \in Nat /\ queue_tail \in Nat /\ queue_head < queue_tail
  BY <1>1 DEF queue_length, IInv, TypeOK
<1>3. /\ queue' = queue /\ queue_tail' = queue_tail /\ queue_head' = queue_head + 1
      /\ UNCHANGED visits
  BY <1>1 DEF queue_pop
<1>4. queue_length' = queue_length - 1 /\ queue_length' \in Nat
  BY <1>2, <1>3 DEF queue_length
<1>5. /\ Line \in [1 .. queue_length' + 1 -> Customers]
      /\ Line' \in [1 .. queue_length' -> Customers]
  <2>1. queue_length' + 1 = queue_length
    BY <1>2, <1>3 DEF queue_length
  <2> QED
    BY <2>1, LineType, LineTypeNext DEF IInv
<1>6. Line[1] = c /\ \A i \in 1 .. queue_length' : Line'[i] = Line[i + 1]
  <2>1. 1 \in 1 .. queue_length /\ \A i \in 1 .. queue_length' : i + 1 \in 1 .. queue_length
    BY <1>2, <1>3 DEF queue_length
  <2>2. queue_head + 1 - 1 = queue_head
        /\ \A i \in 1 .. queue_length' : queue_head' + i - 1 = queue_head + (i + 1) - 1
    BY <1>2, <1>3, <1>4
  <2> QED
    BY <1>1, <1>3, <2>1, <2>2 DEF Line, queue_top
<1>7. Line' = Tail(Line) /\ Head(Line) = c /\ Line # << >>
  <2>1. Line' = Tail(Line) /\ Line[1] = Head(Line)
    BY <1>4, <1>5, <1>6, ShorterByFirst
  <2>2. Line # << >>
    BY <1>4, <1>5, FunctionIsSequence
  <2> QED
    BY <1>6, <2>1, <2>2
<1>8. InChair(c)' /\ \A d \in Customers : /\ ~InChair(d)
                                          /\ customer'[d] = "leave" <=> customer[d] = "leave"
  BY <1>1 DEF IInv, TypeOK, InChair, Served
<1>9. Occupant = Nobody /\ Occupant' = c
  BY <1>8, OccupantType, OccupantNext DEF IInv, Protocol
<1>10. Trimmed' = Trimmed
  <2>1. semaphore'["done"] = semaphore["done"]
    BY DEF give_semaphore, IInv, TypeOK, Semaphores
  <2> QED
    BY <1>8, <2>1 DEF Trimmed
<1> QED
  BY <1>3, <1>7, <1>9, <1>10 DEF Service!SitDown

LEMMA LeaveShopRefines ==
  ASSUME IInv, IInv', NEW c \in Customers, LeaveShop(c)
  PROVE  Service!Leave
<1> USE DEF LeaveShop, CustomerGoes
<1>1. UNCHANGED <<queue, queue_head, queue_tail>> /\ visits' = [visits EXCEPT ![c] = @ + 1]
  BY DEF shop
<1>2. Line' = Line
  BY <1>1 DEF Line, queue_length
<1>3. \A d \in Customers \ {c} : ~Served(d)
  <2>1. Served(c)
    BY DEF Served, InChair
  <2> QED
    BY <2>1 DEF IInv, Protocol, OneServed
<1>4. \A d \in Customers : ~InChair(d)'
  BY <1>3 DEF IInv, TypeOK, InChair, Served
<1>5. Occupant = c /\ Occupant' = Nobody
  BY <1>4, OccupantType, OccupantNext DEF InChair, IInv, Protocol
<1>6. Trimmed /\ Trimmed' = FALSE
  <2>1. semaphore'["done"] = 0
    BY DEF give_semaphore, IInv, TypeOK, Semaphores, Protocol, CustomerSees
  <2> QED
    BY <1>4, <2>1 DEF Trimmed, InChair
<1> QED
  BY <1>1, <1>2, <1>5, <1>6, CustomersAssumption DEF Service!Leave

LEMMA StepRefines ==
  ASSUME IInv, IInv', [Next]_vars
  PROVE  [Service!Next]_(Service!vars)
<1>1. ASSUME UNCHANGED vars PROVE UNCHANGED Service!vars
  BY <1>1, Unseen DEF vars, shop, InChair, Trimmed
<1>2. ASSUME NEW c \in Customers, Customer(c) PROVE [Service!Next]_(Service!vars)
  BY <1>2, CustomerUnseen, HaircutDoneUnseen, WakeUpRefines, JoinRefines, LeaveQueueRefines,
     LeaveShopRefines DEF Customer, TakesData, Service!Next
<1> QED
  BY <1>1, <1>2, BarberRefines DEF Next

\* The shop implements the service: nobody is overtaken in the waiting room, whoever is
\* invited is the one that sits down, and nobody leaves the chair before the haircut.
THEOREM Refinement == Spec => ImplementsService
BY InitRefines, StepRefines, Invariance, PTL DEF Spec, ImplementsService, Service!Spec

-----------------------------------------------------------------------------
(* The life of the shop.                                                   *)

\* A shop that cannot be found yet has no customers.
NotYet == stage \in {"start", "semaphores", "ready"}

NobodyYet ==
  NotYet =>
    /\ "shop" \notin names
    /\ \A c \in Customers :
         customer[c] \in {"arrive", "gone"} /\ member[c] \notin {"in", "killed"}

\* As long as the barber serves nobody customers only come and wait.
Preparing ==
  /\ semaphore \in [Semaphores -> Nat] /\ semaphore["chair"] = 0 /\ semaphore["done"] = 0
  /\ barber = "look" /\ barber_status \in {"NONE", "WORKING"}
  /\ chair = Nobody /\ cutting = Nobody
  /\ queue \in [0 .. Seats - 1 -> Customers \cup {Nobody}]
  /\ queue_head = 0 /\ queue_tail \in Nat
  /\ customer \in [Customers -> {"arrive", "inside", "waiting", "gone"}]
  /\ invitations \in [Customers -> {0}] /\ visits \in [Customers -> Nat]
  /\ DataExclusive /\ DataGuard /\ Room

\* The slots up to the one that was written are those of customers that wait, and of
\* the one in queue_push: whatever tail it reads and writes, no slot before it is empty.
Slots ==
  \E last \in Nat :
    /\ last < Seats /\ queue_tail <= last /\ queue[(last % Seats)] = pushing
    /\ tail_read = Unread \/ tail_read \in 0 .. last
    /\ \A n \in 0 .. last : n # last =>
         queue[(n % Seats)] \in Customers /\ customer[queue[(n % Seats)]] = "waiting"
    /\ \A m, n \in 0 .. last : m # n => queue[(m % Seats)] # queue[(n % Seats)]

\* Nobody is served while somebody is in the middle of a push that began before the reset.
MidPush ==
  IF pushing = Nobody
    THEN tail_read = Unread
    ELSE /\ stage \in {"sized", "reset", "open"}
         /\ Preparing /\ Slots
         /\ customer[pushing] = "inside"
         /\ stage # "sized" => queue_tail = 0 /\ pushing \in early

Covered ==
  \A c \in Customers :
    customer[c] = "waiting" => InQueue(c) \/ invitations[c] > 0 \/ c \in early

LifeType ==
  /\ program \in {"zad1", "zad2"}
  /\ stage \in Stages /\ closed \in BOOLEAN
  /\ names \subseteq Named
  /\ member \in [Customers -> {"new", "opened", "in", "out", "killed"}]
  /\ pushing \in Customers \cup {Nobody}
  /\ early \subseteq Customers

NamesKept ==
  ~closed /\ program = "zad1" =>
    /\ stage # "start" => "semaphores" \in names
    /\ ~NotYet => "shop" \in names

LifeInv ==
  /\ LifeType
  /\ IF stage = "open" THEN IInv ELSE Preparing /\ barber_status = "NONE"
  /\ MidPush
  /\ stage \in {"reset", "open"} => Covered
  /\ NobodyYet /\ NamesKept

LEMMA LifeInitInvariant == LifeInit => LifeInv
<1> SUFFICES ASSUME LifeInit PROVE LifeInv
  OBVIOUS
<1> USE DEF LifeInit
<1>1. \A c \in Customers : customer[c] \in {"arrive", "gone"} /\ member[c] = "new"
  OBVIOUS
<1>2. Preparing
  <2>1. semaphore \in [Semaphores -> Nat] /\ semaphore["chair"] = 0 /\ semaphore["done"] = 0
    BY DEF Semaphores
  <2>2. DataExclusive /\ DataGuard
    BY <1>1 DEF DataExclusive, DataGuard, Inside, BarberInside, Semaphores
  <2>3. Room
    BY DEF Room, Entries
  <2>4. queue \in [0 .. Seats - 1 -> Customers \cup {Nobody}]
    OBVIOUS
  <2> QED
    BY <1>1, <2>1, <2>2, <2>3, <2>4 DEF Preparing
<1>3. LifeType /\ NobodyYet /\ NamesKept
  BY <1>1 DEF LifeType, Stages, NobodyYet, NotYet, NamesKept
<1> QED
  BY <1>2, <1>3 DEF LifeInv, MidPush

\* The opening, with the protocol's invariant from then on.
LEMMA OpeningEstablishes ==
  ASSUME Preparing', barber_status' = "WORKING"
  PROVE  IInv'
<1> USE DEF Preparing
<1>1. TypeOK'
  <2>1. customer' \in [Customers -> CustomerPlaces] /\ barber' \in BarberPlaces
    BY DEF CustomerPlaces, BarberPlaces
  <2>2. invitations' \in [Customers -> Nat]
    OBVIOUS
  <2> QED
    BY <2>1, <2>2 DEF TypeOK
<1>2. DataExclusive' /\ DataGuard'
  BY DEF DataExclusive, DataGuard, Inside, BarberInside
<1>3. Room'
  OBVIOUS
<1>4. \A c \in Customers : customer'[c] \in {"arrive", "inside", "waiting", "gone"}
                           /\ invitations'[c] = 0
  OBVIOUS
<1>5. ASSUME NEW c \in Customers PROVE ~Summoned(c)' /\ ~InChair(c)'
  <2>1. ~(invitations'[c] > 0)
    BY <1>4
  <2>2. customer'[c] \notin {"invited", "called", "sit", "seated", "leave"}
    BY <1>4
  <2> QED
    BY <2>1, <2>2 DEF Summoned, InChair
<1>6. OneServed' /\ InvitesOnlyWaiting' /\ CustomerSees'
  BY <1>4, <1>5 DEF OneServed, InvitesOnlyWaiting, CustomerSees, Served, InChair
<1>7. BarberSees' /\ Status'
  BY <1>5 DEF BarberSees, Status, Served
<1> QED
  BY <1>1, <1>2, <1>3, <1>6, <1>7 DEF IInv, Protocol

\* A push keeps its slots when the tail is reset, too.
LEMMA SlotsKept ==
  ASSUME Slots, UNCHANGED <<push, queue, customer>>, queue_tail' = queue_tail \/ queue_tail' = 0
  PROVE  Slots'
<1>1. PICK last \in Nat :
        /\ last < Seats /\ queue_tail <= last /\ queue[(last % Seats)] = pushing
        /\ tail_read = Unread \/ tail_read \in 0 .. last
        /\ \A n \in 0 .. last : n # last =>
             queue[(n % Seats)] \in Customers /\ customer[queue[(n % Seats)]] = "waiting"
        /\ \A m, n \in 0 .. last : m # n => queue[(m % Seats)] # queue[(n % Seats)]
  BY DEF Slots
<1>2. queue_tail' <= last
  BY <1>1
<1> QED
  BY <1>1, <1>2 DEF Slots, push

LEMMA SetUpPreserves ==
  ASSUME LifeInv, SetUp
  PROVE  LifeInv'
<1> USE DEF LifeInv, LifeType, BarberReaches, Stages, Named
<1>1. ASSUME CreateSemaphores PROVE LifeInv'
  <2> USE <1>1 DEF CreateSemaphores, shop
  <2>1. Preparing'
    <3>1. \A c \in Customers : customer[c] \in {"arrive", "gone"}
      BY DEF NobodyYet, NotYet
    <3>2. /\ semaphore' \in [Semaphores -> Nat] /\ semaphore'["data"] \in {0, 1}
          /\ semaphore'["chair"] = 0 /\ semaphore'["done"] = 0
      BY DEF Preparing, Semaphores
    <3>3. DataExclusive' /\ DataGuard'
      BY <3>1, <3>2 DEF Preparing, DataExclusive, DataGuard, Inside, BarberInside
    <3>4. Room'
      BY RoomUnchanged DEF Preparing, InLine
    <3> QED
      BY <3>1, <3>2, <3>3, <3>4 DEF Preparing
  <2>2. NobodyYet' /\ NamesKept' /\ MidPush'
    BY DEF NobodyYet, NamesKept, NotYet, MidPush, push
  <2> QED
    BY <2>1, <2>2 DEF push
<1>2. ASSUME SetSemaphores PROVE LifeInv'
  <2> USE <1>2 DEF SetSemaphores, shop
  <2>1. Preparing'
    <3>1. \A c \in Customers : customer[c] \in {"arrive", "gone"}
      BY DEF NobodyYet, NotYet
    <3>2. /\ semaphore' \in [Semaphores -> Nat] /\ semaphore'["data"] \in {0, 1}
          /\ semaphore'["chair"] = 0 /\ semaphore'["done"] = 0
      BY DEF Preparing, Semaphores
    <3>3. DataExclusive' /\ DataGuard'
      BY <3>1, <3>2 DEF Preparing, DataExclusive, DataGuard, Inside, BarberInside
    <3>4. Room'
      BY RoomUnchanged DEF Preparing, InLine
    <3> QED
      BY <3>1, <3>2, <3>3, <3>4 DEF Preparing
  <2>2. NobodyYet' /\ NamesKept' /\ MidPush'
    BY DEF NobodyYet, NamesKept, NotYet, MidPush, push
  <2> QED
    BY <2>1, <2>2 DEF push
<1>3. ASSUME CreateShop \/ SizeShop PROVE LifeInv'
  <2> USE <1>3 DEF CreateShop, SizeShop, vars, shop
  <2>1. Preparing'
    <3>1. Room'
      BY RoomUnchanged DEF Preparing, InLine
    <3> QED
      BY <3>1 DEF Preparing, DataExclusive, DataGuard, Inside, BarberInside
  <2>2. NobodyYet' /\ NamesKept' /\ MidPush'
    BY DEF NobodyYet, NamesKept, NotYet, MidPush, push
  <2> QED
    BY <2>1, <2>2 DEF push
<1>4. ASSUME ResetQueue PROVE LifeInv'
  <2> USE <1>4 DEF ResetQueue
  <2>1. Preparing'
    <3>1. Room'
      BY DEF Room, Entries, Preparing
    <3> QED
      BY <3>1 DEF Preparing, DataExclusive, DataGuard, Inside, BarberInside
  <2>2. Covered'
    BY DEF Preparing, Covered
  <2>3. NobodyYet' /\ NamesKept'
    BY DEF NobodyYet, NamesKept, NotYet
  <2>4. MidPush'
    BY <2>1, SlotsKept DEF MidPush, push
  <2> QED
    BY <2>1, <2>2, <2>3, <2>4 DEF push
<1>5. ASSUME OpenShop PROVE LifeInv'
  <2> USE <1>5 DEF OpenShop
  <2>1. Preparing'
    <3>1. Room'
      BY RoomUnchanged DEF Preparing, InLine
    <3> QED
      BY <3>1 DEF Preparing, DataExclusive, DataGuard, Inside, BarberInside
  <2>2. IInv'
    BY <2>1, OpeningEstablishes
  <2>3. Covered'
    BY DEF Covered, InQueue
  <2>4. NobodyYet' /\ NamesKept'
    BY DEF NobodyYet, NamesKept, NotYet
  <2>5. MidPush'
    BY <2>1, SlotsKept DEF MidPush, push
  <2> QED
    BY <2>2, <2>3, <2>4, <2>5 DEF push
<1> QED
  BY <1>1, <1>2, <1>3, <1>4, <1>5 DEF SetUp

\* What the protocol does in an open shop covers those that wait: they leave the queue
\* by way of the invitation.
LEMMA BarberCovers ==
  ASSUME IInv, Covered, Barber, early' = early
  PROVE  Covered'
<1>1. UNCHANGED <<queue, queue_head, queue_tail, customer>>
  BY DEF Barber, BarberTakesData, InviteClient, FallAsleep, ClientSatDown, StartCutting,
         EndCutting, ClientLeft, shop
<1>2. \A c \in Customers : InQueue(c)' <=> InQueue(c)
  BY <1>1 DEF InQueue
<1>3. \A c \in Customers : invitations[c] > 0 => invitations'[c] > 0
  <2>1. CASE InviteClient
    BY <2>1 DEF InviteClient, IInv, TypeOK
  <2>2. CASE ~InviteClient
    BY <2>2 DEF Barber, BarberTakesData, FallAsleep, ClientSatDown, StartCutting, EndCutting,
                ClientLeft
  <2> QED
    BY <2>1, <2>2
<1> QED
  BY <1>1, <1>2, <1>3 DEF Covered

\* A customer that is put into the queue, or taken from its head, leaves the others in.
LEMMA JoinCovers ==
  ASSUME TypeOK \/ Preparing, Room, Covered, NEW p \in Customers, JoinQueue(p),
         early \subseteq early'
  PROVE  Covered'
<1>0. /\ queue_head \in Nat /\ queue_tail \in Nat /\ Seats \in Nat
      /\ queue \in [0 .. Seats - 1 -> Customers \cup {Nobody}]
  BY DEF TypeOK, Preparing
<1>1. customer' = [customer EXCEPT ![p] = "waiting"] /\ DOMAIN customer = Customers
      /\ invitations' = invitations
  BY DEF JoinQueue, CustomerGoes, TypeOK, Preparing
<1>2. queue_length < Seats /\ queue_head' = queue_head /\ queue_tail' = queue_tail + 1
      /\ queue' = [queue EXCEPT ![(queue_tail % Seats)] = p]
  BY DEF JoinQueue, queue_push
<1>3. queue_tail < queue_head + Seats /\ queue_head <= queue_tail /\ Seats \in Nat \ {0}
  BY <1>0, <1>2 DEF queue_length, Room
<1>4. /\ (queue_tail % Seats) \in 0 .. Seats - 1
      /\ \A n \in Nat : queue_head <= n /\ n < queue_tail =>
           (n % Seats) \in 0 .. Seats - 1 /\ (n % Seats) # (queue_tail % Seats)
  BY <1>0, <1>3, SlotIsFree
<1>5. InQueue(p)'
  <2>1. queue'[(queue_tail % Seats)] = p
    BY <1>0, <1>2, <1>4
  <2>2. queue_tail \in queue_head .. (queue_tail + 1) - 1
    BY <1>0, <1>3
  <2> QED
    BY <1>2, <2>1, <2>2 DEF InQueue
<1>6. ASSUME NEW c \in Customers, InQueue(c) PROVE InQueue(c)'
  <2>1. PICK n \in queue_head .. queue_tail - 1 : queue[(n % Seats)] = c
    BY <1>6 DEF InQueue
  <2>2. queue'[(n % Seats)] = c
    <3>1. n \in Nat /\ queue_head <= n /\ n < queue_tail
      BY <1>0, <2>1
    <3>2. (n % Seats) \in 0 .. Seats - 1 /\ (n % Seats) # (queue_tail % Seats)
      BY <1>4, <3>1
    <3> QED
      BY <1>0, <1>2, <2>1, <3>2
  <2>3. n \in queue_head .. (queue_tail + 1) - 1
    BY <1>0
  <2> QED
    BY <1>2, <2>2, <2>3 DEF InQueue
<1> QED
  BY <1>1, <1>5, <1>6 DEF Covered

LEMMA LeaveQueueCovers ==
  ASSUME IInv, Covered, NEW p \in Customers, LeaveQueue(p), early' = early
  PROVE  Covered'
<1>1. queue_length > 0 /\ queue_top = p
  BY DEF LeaveQueue, CustomerGoes, IInv, Protocol, CustomerSees, Summoned
<1>2. /\ queue_head' = queue_head + 1 /\ UNCHANGED <<queue, queue_tail, invitations>>
      /\ customer' = [customer EXCEPT ![p] = "sit"]
  BY <1>1 DEF LeaveQueue, CustomerGoes, queue_pop
<1>3. ASSUME NEW c \in Customers \ {p}, InQueue(c) PROVE InQueue(c)'
  <2>1. PICK n \in queue_head .. queue_tail - 1 : queue[(n % Seats)] = c
    BY <1>3 DEF InQueue
  <2>2. n # queue_head
    BY <1>1, <1>3, <2>1 DEF queue_top
  <2>3. n \in (queue_head + 1) .. queue_tail - 1
    BY <2>2 DEF IInv, TypeOK
  <2> QED
    BY <1>2, <2>1, <2>3 DEF InQueue
<1> QED
  BY <1>2, <1>3 DEF Covered, IInv, TypeOK

LEMMA CustomerCovers ==
  ASSUME IInv, Covered, NEW p \in Customers, Customer(p), early' = early
  PROVE  Covered'
<1>1. CASE JoinQueue(p)
  BY <1>1, JoinCovers DEF IInv
<1>2. CASE LeaveQueue(p)
  BY <1>2, LeaveQueueCovers
<1>3. CASE ~JoinQueue(p) /\ ~LeaveQueue(p)
  <2>1. UNCHANGED <<queue, queue_head, queue_tail>>
    BY <1>3 DEF Customer, TakesData, EnterShop, TakeDataInvited, WakeUpBarber, LeaveFullShop,
                Notified, SitDown, HaircutDone, LeaveShop, shop
  <2>2. \A c \in Customers : InQueue(c)' <=> InQueue(c)
    BY <2>1 DEF InQueue
  <2>3. \A c \in Customers :
          customer'[c] = "waiting" => customer[c] = "waiting" /\ invitations'[c] = invitations[c]
    BY <1>3 DEF Customer, TakesData, EnterShop, TakeDataInvited, WakeUpBarber, LeaveFullShop,
                Notified, SitDown, HaircutDone, LeaveShop, CustomerGoes, IInv, TypeOK
  <2> QED
    BY <2>2, <2>3 DEF Covered
<1> QED
  BY <1>1, <1>2, <1>3

\* Steps outside the protocol.
LEMMA ProtocolKept ==
  ASSUME UNCHANGED vars, stage' = stage, early' = early
  PROVE  /\ (IInv => IInv') /\ (Preparing => Preparing') /\ (Covered => Covered')
         /\ (UNCHANGED push /\ MidPush => MidPush')
<1>1. IInv => IInv'
  BY NextInvariant
<1> USE DEF vars, shop
<1>2. Preparing => Preparing'
  <2>1. Entries' = Entries
    BY DEF Entries
  <2>2. Room => Room'
    BY <2>1 DEF Room, InLine
  <2>3. DataExclusive /\ DataGuard => DataExclusive' /\ DataGuard'
    BY DEF DataExclusive, DataGuard, Inside, BarberInside
  <2> QED
    BY <2>2, <2>3 DEF Preparing
<1>3. Covered => Covered'
  BY DEF Covered, InQueue
<1>4. UNCHANGED push /\ MidPush => MidPush'
  BY <1>2, SlotsKept DEF MidPush, push
<1> QED
  BY <1>1, <1>2, <1>3, <1>4

\* While somebody is in the middle of a push the others wait for "data".
LEMMA PushBlocks ==
  ASSUME MidPush, pushing \in Customers
  PROVE  /\ ~Barber /\ \A c \in Customers : invitations[c] = 0
         /\ \A c \in Customers \ {pushing} : ~Customer(c) /\ ~Inside(c)
<1>1. Preparing /\ customer[pushing] = "inside"
  BY CustomersAssumption DEF MidPush
<1>2. Inside(pushing) /\ semaphore["data"] = 0
  BY <1>1 DEF Preparing, DataGuard, Inside
<1>3. ~Barber
  BY <1>1, <1>2 DEF Preparing, Barber, BarberTakesData, InviteClient, FallAsleep, ClientSatDown,
                    StartCutting, EndCutting, ClientLeft, BarberGoes, take_semaphore
<1>4. \A c \in Customers : invitations[c] = 0
  BY <1>1 DEF Preparing
<1>5. ASSUME NEW c \in Customers \ {pushing} PROVE ~Customer(c) /\ ~Inside(c)
  <2>1. ~Inside(c)
    BY <1>1, <1>2 DEF Preparing, DataExclusive
  <2>2. customer[c] \in {"arrive", "waiting", "gone"} /\ ~(invitations[c] > 0)
    BY <1>1, <2>1 DEF Preparing, Inside
  <2> QED
    BY <1>2, <2>1, <2>2 DEF Customer, TakesData, EnterShop, TakeDataInvited, WakeUpBarber,
           LeaveFullShop, JoinQueue, Notified, LeaveQueue, SitDown, HaircutDone, LeaveShop,
           CustomerGoes, take_semaphore
<1> QED
  BY <1>3, <1>4, <1>5

\* The steps of a customer that comes while the barber prepares the shop.
LEMMA EarlySteps ==
  ASSUME Preparing, barber_status = "NONE", NEW p \in Customers, Customer(p)
  PROVE  EnterShop(p) \/ LeaveFullShop(p) \/ JoinQueue(p)
<1>1. customer[p] \in {"arrive", "inside", "waiting", "gone"} /\ ~(invitations[p] > 0)
      /\ barber_status # "SLEEPING"
  BY DEF Preparing
<1> QED
  BY <1>1 DEF Customer, TakesData, TakeDataInvited, WakeUpBarber, Notified, LeaveQueue,
              SitDown, HaircutDone, LeaveShop, CustomerGoes

\* Those that take "data", or give it back without having joined the queue.
LEMMA EarlyPassing ==
  ASSUME Preparing, NEW p \in Customers, early' = early,
         UNCHANGED <<shop, barber, cutting, invitations, visits>>,
         \/ CustomerGoes(p, "arrive", "inside") /\ take_semaphore("data")
         \/ CustomerGoes(p, "inside", "arrive") /\ give_semaphore("data")
  PROVE  Preparing' /\ (Covered => Covered')
<1> USE DEF Preparing, CustomerGoes, take_semaphore, give_semaphore, shop
<1>0. /\ \/ semaphore["data"] > 0 /\ semaphore' = [semaphore EXCEPT !["data"] = @ - 1]
         \/ semaphore' = [semaphore EXCEPT !["data"] = @ + 1]
      /\ \/ customer' = [customer EXCEPT ![p] = "inside"]
         \/ customer' = [customer EXCEPT ![p] = "arrive"]
  OBVIOUS
<1>1. /\ semaphore' \in [Semaphores -> Nat] /\ semaphore'["chair"] = 0 /\ semaphore'["done"] = 0
      /\ customer' \in [Customers -> {"arrive", "inside", "waiting", "gone"}]
  <2>1. semaphore' \in [Semaphores -> Nat]
    BY <1>0 DEF Semaphores
  <2>2. semaphore'["chair"] = 0 /\ semaphore'["done"] = 0
    BY <1>0 DEF Semaphores
  <2>3. customer' \in [Customers -> {"arrive", "inside", "waiting", "gone"}]
    BY <1>0
  <2> QED
    BY <2>1, <2>2, <2>3
<1>2. DataExclusive' /\ DataGuard'
  <2>1. CASE CustomerGoes(p, "arrive", "inside") /\ take_semaphore("data")
    <3>1. semaphore["data"] = 1 /\ semaphore'["data"] = 0
      BY <2>1 DEF Semaphores, DataGuard
    <3>2. \A c \in Customers : ~Inside(c) /\ (Inside(c)' => c = p)
      BY <2>1, <3>1 DEF DataGuard, Inside
    <3> QED
      BY <3>1, <3>2 DEF DataExclusive, DataGuard, BarberInside
  <2>2. CASE CustomerGoes(p, "inside", "arrive") /\ give_semaphore("data")
    <3>1. Inside(p) /\ semaphore["data"] = 0
      BY <2>2 DEF DataGuard, Inside
    <3>2. semaphore'["data"] = 1
      BY <2>2, <3>1 DEF Semaphores
    <3>3. \A c \in Customers : ~Inside(c)'
      BY <2>2, <3>1 DEF DataExclusive, Inside
    <3> QED
      BY <3>2, <3>3 DEF DataExclusive, DataGuard, BarberInside
  <2> QED
    BY <2>1, <2>2
<1>3. \A c \in Customers : customer'[c] = "waiting" <=> customer[c] = "waiting"
  OBVIOUS
<1>4. Room'
  <2>1. \A c \in Customers : InLine(c) => InLine(c)'
    BY <1>3 DEF InLine
  <2> QED
    BY <2>1, RoomUnchanged
<1>5. Preparing'
  BY <1>1, <1>2, <1>3, <1>4
<1>6. Covered => Covered'
  BY <1>3 DEF Covered, InQueue
<1> QED
  BY <1>5, <1>6

LEMMA EarlyJoining ==
  ASSUME Preparing, NEW p \in Customers, JoinQueue(p), early' = early
  PROVE  Preparing' /\ (Covered => Covered')
<1> USE DEF JoinQueue, CustomerGoes, give_semaphore, queue_push
<1>1. /\ semaphore' \in [Semaphores -> Nat] /\ semaphore'["chair"] = 0 /\ semaphore'["done"] = 0
      /\ customer' \in [Customers -> {"arrive", "inside", "waiting", "gone"}]
  BY DEF Preparing, Semaphores
<1>2. DataExclusive' /\ DataGuard'
  BY DEF Preparing, Semaphores, DataExclusive, DataGuard, Inside, BarberInside
<1>3. /\ (queue_tail % Seats) \in 0 .. Seats - 1
      /\ \A n \in Entries : (n % Seats) \in 0 .. Seats - 1 /\ (n % Seats) # (queue_tail % Seats)
  <2>1. queue_tail < queue_head + Seats /\ Seats \in Nat \ {0}
    BY DEF Preparing, queue_length
  <2> QED
    BY <2>1, SlotIsFree DEF Entries, Preparing
<1>4. queue' \in [0 .. Seats - 1 -> Customers \cup {Nobody}] /\ queue_tail' \in Nat
  BY <1>3 DEF Preparing
<1>5. Room'
  <2>1. Entries' = Entries \cup {queue_tail} /\ queue_tail \notin Entries
    BY DEF Entries, Preparing, Room
  <2>2. /\ queue'[(queue_tail % Seats)] = p
        /\ \A n \in Entries : queue'[(n % Seats)] = queue[(n % Seats)] /\ queue[(n % Seats)] # p
    BY <1>3 DEF Preparing, Room, InLine
  <2>3. \A d \in Customers : InLine(d) => InLine(d)'
    BY DEF Preparing, InLine
  <2>4. InLine(p)'
    BY DEF Preparing, InLine
  <2>5. queue_head' <= queue_tail' /\ queue_tail' <= queue_head' + Seats
    BY DEF Preparing, Room, queue_length
  <2>6. (\A n \in Entries : queue[(n % Seats)] \in Customers /\ InLine(queue[(n % Seats)]))'
    <3> HIDE DEF JoinQueue, CustomerGoes, give_semaphore, queue_push
    <3>1. \A n \in Entries : queue[(n % Seats)] \in Customers /\ InLine(queue[(n % Seats)])
      BY DEF Room, Preparing
    <3> QED
      BY <2>1, <2>2, <2>3, <2>4, <3>1
  <2>7. \A m, n \in Entries' : m # n => queue'[(m % Seats)] # queue'[(n % Seats)]
    BY <2>1, <2>2 DEF Room, Preparing
  <2> QED
    BY <2>5, <2>6, <2>7 DEF Room
<1>7. Preparing'
  BY <1>1, <1>2, <1>4, <1>5 DEF Preparing
<1>8. Covered => Covered'
  BY JoinCovers DEF Preparing
<1> QED
  BY <1>7, <1>8

LEMMA VisitPreserves ==
  ASSUME LifeInv, NEW p \in Customers, Visit(p)
  PROVE  LifeInv'
<1> USE DEF Visit, LifeInv
<1>1. Customer(p) /\ UNCHANGED life
  BY DEF Customer
<1>2. ~NotYet
  BY DEF NobodyYet
<1>3. pushing = Nobody
  BY <1>1, PushBlocks DEF LifeType
<1>4. LifeType' /\ NobodyYet' /\ NamesKept' /\ MidPush'
  BY <1>1, <1>2, <1>3 DEF life, push, LifeType, NobodyYet, NamesKept, NotYet, MidPush
<1>5. CASE stage = "open"
  <2>1. IInv'
    BY <1>1, <1>5, CustomerPreserves
  <2>2. Covered'
    BY <1>1, <1>5, CustomerCovers DEF life
  <2> QED
    BY <1>1, <1>4, <1>5, <2>1, <2>2 DEF life
<1>6. CASE stage # "open"
  <2>1. Preparing /\ barber_status = "NONE" /\ early' = early
    BY <1>1, <1>6 DEF life
  <2>2. Preparing' /\ (Covered => Covered') /\ barber_status' = barber_status
    <3>1. CASE EnterShop(p) \/ LeaveFullShop(p)
      BY <2>1, <3>1, EarlyPassing DEF EnterShop, LeaveFullShop, shop
    <3>2. CASE JoinQueue(p)
      BY <2>1, <3>2, EarlyJoining DEF JoinQueue
    <3> QED
      BY <1>1, <2>1, <3>1, <3>2, EarlySteps
  <2> QED
    BY <1>1, <1>4, <1>6, <2>1, <2>2 DEF life
<1> QED
  BY <1>5, <1>6

LEMMA WriteSlotPreserves ==
  ASSUME LifeInv, NEW p \in Customers, WriteSlot(p)
  PROVE  LifeInv'
<1> USE DEF WriteSlot, LifeInv
<1>1. pushing = Nobody /\ tail_read = Unread
  BY PushBlocks DEF LifeType, MidPush, Inside
<1>2. /\ Preparing /\ barber_status = "NONE" /\ Room
      /\ queue_head = 0 /\ queue_tail \in Nat /\ queue_tail < Seats /\ Seats \in Nat \ {0}
      /\ queue \in [0 .. Seats - 1 -> Customers \cup {Nobody}]
  BY SeatsAssumption DEF Preparing, queue_length
<1>3. /\ (queue_tail % Seats) \in 0 .. Seats - 1
      /\ \A n \in Nat : queue_head <= n /\ n < queue_tail =>
           (n % Seats) \in 0 .. Seats - 1 /\ (n % Seats) # (queue_tail % Seats)
  <2>1. queue_head \in Nat /\ queue_tail < queue_head + Seats
    BY <1>2
  <2> QED
    BY <1>2, <2>1, SlotIsFree
<1>4. queue'[(queue_tail % Seats)] = p /\ queue' \in [0 .. Seats - 1 -> Customers \cup {Nobody}]
  BY <1>2, <1>3
<1>5. Entries' = Entries /\ \A n \in Entries :
        /\ queue'[(n % Seats)] = queue[(n % Seats)]
        /\ queue[(n % Seats)] \in Customers /\ customer[queue[(n % Seats)]] = "waiting"
  <2>1. Entries' = Entries
    BY DEF Entries
  <2>2. ASSUME NEW n \in Entries PROVE queue'[(n % Seats)] = queue[(n % Seats)]
    BY <1>2, <1>3 DEF Entries
  <2>3. ASSUME NEW n \in Entries
        PROVE  queue[(n % Seats)] \in Customers /\ customer[queue[(n % Seats)]] = "waiting"
    BY <1>2 DEF Room, InLine, Preparing
  <2> QED
    BY <2>1, <2>2, <2>3
<1>6. Room'
  <2>1. \A c \in Customers : InLine(c)' <=> InLine(c)
    BY DEF InLine
  <2>2. (\A n \in Entries : queue[(n % Seats)] \in Customers /\ InLine(queue[(n % Seats)]))'
    BY <1>5, <2>1 DEF InLine
  <2>3. (\A m, n \in Entries : m # n => queue[(m % Seats)] # queue[(n % Seats)])'
    BY <1>2, <1>5 DEF Room
  <2> QED
    BY <1>2, <2>2, <2>3 DEF Room
<1>7. Preparing'
  BY <1>2, <1>4, <1>6 DEF Preparing, DataExclusive, DataGuard, Inside, BarberInside
<1>8. Slots'
  <2>1. \A n \in 0 .. queue_tail : n # queue_tail =>
          queue'[(n % Seats)] \in Customers /\ customer'[queue'[(n % Seats)]] = "waiting"
    BY <1>2, <1>5 DEF Entries
  <2>2. ASSUME NEW m \in 0 .. queue_tail, NEW n \in 0 .. queue_tail, m # n
        PROVE  queue'[(m % Seats)] # queue'[(n % Seats)]
    <3>1. CASE m # queue_tail /\ n # queue_tail
      <4>1. m \in Entries /\ n \in Entries
        BY <1>2, <3>1 DEF Entries
      <4> QED
        BY <1>2, <1>5, <2>2, <4>1 DEF Room
    <3>2. CASE m = queue_tail
      BY <1>4, <2>1, <2>2, <3>2
    <3>3. CASE n = queue_tail
      BY <1>4, <2>1, <2>2, <3>3
    <3> QED
      BY <3>1, <3>2, <3>3
  <2>3. queue_tail' = queue_tail /\ pushing' = p /\ tail_read' = Unread
    BY <1>1
  <2>4. queue_tail \in Nat /\ queue_tail < Seats /\ queue_tail' <= queue_tail
    BY <1>2
  <2> HIDE DEF WriteSlot, LifeInv
  <2> QED
    BY <1>4, <2>1, <2>2, <2>3, <2>4 DEF Slots
<1>9. LifeType' /\ NobodyYet' /\ NamesKept' /\ MidPush'
  BY <1>7, <1>8, CustomersAssumption DEF LifeType, NobodyYet, NamesKept, NotYet, MidPush
<1> QED
  BY <1>2, <1>7, <1>9

LEMMA ReadTailPreserves ==
  ASSUME LifeInv, NEW p \in Customers, ReadTail(p)
  PROVE  LifeInv'
<1> USE DEF ReadTail
<1>1. /\ (IInv => IInv') /\ (Preparing => Preparing') /\ (Covered => Covered')
  BY ProtocolKept
<1>2. MidPush /\ pushing # Nobody
  BY CustomersAssumption DEF LifeInv
<1>3. Slots'
  <2>1. PICK last \in Nat :
          /\ last < Seats /\ queue_tail <= last /\ queue[(last % Seats)] = pushing
          /\ \A n \in 0 .. last : n # last =>
               queue[(n % Seats)] \in Customers /\ customer[queue[(n % Seats)]] = "waiting"
          /\ \A m, n \in 0 .. last : m # n => queue[(m % Seats)] # queue[(n % Seats)]
    BY <1>2 DEF MidPush, Slots
  <2>2. tail_read' \in 0 .. last /\ UNCHANGED <<queue_tail, queue, pushing, customer>>
    BY <1>2, <2>1 DEF MidPush, Preparing, vars, shop
  <2> QED
    BY <2>1, <2>2 DEF Slots
<1>4. MidPush'
  BY <1>1, <1>2, <1>3 DEF MidPush, vars, shop
<1>5. LifeType' /\ NobodyYet' /\ NamesKept'
  BY DEF LifeInv, LifeType, NobodyYet, NamesKept, NotYet, vars
<1> QED
  BY <1>1, <1>4, <1>5 DEF LifeInv, vars, shop

\* Whatever tail it has read, the push leaves a queue of customers that wait.
LEMMA WriteTailPreserves ==
  ASSUME LifeInv, NEW p \in Customers, WriteTail(p)
  PROVE  LifeInv'
<1> USE DEF WriteTail, CustomerGoes, give_semaphore
<1>1. /\ pushing = p /\ Preparing /\ Slots
      /\ stage \in {"sized", "reset", "open"}
      /\ stage # "sized" => queue_tail = 0 /\ p \in early
  BY CustomersAssumption DEF LifeInv, MidPush
<1>2. PICK last \in Nat :
        /\ last < Seats /\ queue[(last % Seats)] = p /\ tail_read \in 0 .. last
        /\ \A n \in 0 .. last : n # last =>
             queue[(n % Seats)] \in Customers /\ customer[queue[(n % Seats)]] = "waiting"
        /\ \A m, n \in 0 .. last : m # n => queue[(m % Seats)] # queue[(n % Seats)]
  BY <1>1 DEF Slots
<1>3. /\ semaphore' \in [Semaphores -> Nat] /\ semaphore'["chair"] = 0 /\ semaphore'["done"] = 0
      /\ customer' \in [Customers -> {"arrive", "inside", "waiting", "gone"}]
  BY <1>1 DEF Preparing, Semaphores
<1>4. DataExclusive' /\ DataGuard'
  BY <1>1 DEF Preparing, Semaphores, DataExclusive, DataGuard, Inside, BarberInside
<1>5. Room'
  <2>1. queue_head' = 0 /\ queue_tail' \in Nat /\ queue_tail' <= Seats
        /\ tail_read + 1 <= last + 1 /\ Seats \in Nat
    BY <1>1, <1>2, SeatsAssumption DEF Preparing
  <2>2. ASSUME NEW n \in Entries' PROVE n \in 0 .. last
    BY <1>2, <2>1 DEF Entries
  <2>3. \A n \in 0 .. last :
          queue[(n % Seats)] \in Customers /\ customer'[queue[(n % Seats)]] = "waiting"
    <3> HIDE DEF WriteTail, CustomerGoes, give_semaphore
    <3>1. customer' = [customer EXCEPT ![p] = "waiting"] /\ DOMAIN customer = Customers
      BY <1>1 DEF WriteTail, CustomerGoes, Preparing
    <3> QED
      BY <1>2, <3>1
  <2>4. (\A n \in Entries : queue[(n % Seats)] \in Customers /\ InLine(queue[(n % Seats)]))'
    BY <2>2, <2>3 DEF InLine
  <2>5. (\A m, n \in Entries : m # n => queue[(m % Seats)] # queue[(n % Seats)])'
    BY <1>2, <2>2
  <2> QED
    BY <2>1, <2>4, <2>5 DEF Room
<1>6. Preparing' /\ barber_status' = barber_status
  <2>1. queue_tail' \in Nat
    BY <1>2
  <2> QED
    BY <1>1, <1>3, <1>4, <1>5, <2>1 DEF Preparing
<1>7. stage \in {"reset", "open"} => Covered'
  <2>1. SUFFICES ASSUME stage # "sized", Covered, NEW c \in Customers, customer'[c] = "waiting"
                 PROVE  InQueue(c)' \/ invitations'[c] > 0 \/ c \in early'
    BY <1>1 DEF LifeInv, Covered
  <2>2. CASE c = p
    BY <1>1, <2>1, <2>2
  <2>3. CASE c # p
    <3>1. customer[c] = "waiting" /\ ~(invitations[c] > 0)
      BY <1>1, <2>1, <2>3 DEF Preparing
    <3>2. queue_tail = 0 /\ queue_head = 0
      BY <1>1, <2>1 DEF Preparing
    <3>3. ~InQueue(c)
      BY <3>2 DEF InQueue
    <3> QED
      BY <2>1, <3>1, <3>3 DEF Covered
  <2> QED
    BY <2>2, <2>3
<1>8. stage = "open" => IInv'
  <2>1. stage = "open" => barber_status' = "WORKING"
    BY <1>1, <1>6 DEF LifeInv, IInv, TypeOK, Preparing
  <2> QED
    BY <1>6, <2>1, OpeningEstablishes
<1>9. LifeType' /\ NobodyYet' /\ NamesKept' /\ MidPush'
  BY <1>1 DEF LifeInv, LifeType, NobodyYet, NamesKept, NotYet, MidPush
<1> QED
  BY <1>1, <1>6, <1>7, <1>8, <1>9 DEF LifeInv

LEMMA CustomerLifePreserves ==
  ASSUME LifeInv, NEW p \in Customers, CustomerLives(p)
  PROVE  LifeInv'
<1>1. ASSUME OpenSemaphores(p) \/ AttachShop(p) \/ BusError(p) \/ SemaphoreFails(p)
      PROVE  LifeInv'
  <2>1. UNCHANGED <<vars, stage, early, program, closed, names, customer, push, barber_status>>
    BY <1>1 DEF OpenSemaphores, AttachShop, BusError, SemaphoreFails, Becomes, vars, shop
  <2>2. /\ (IInv => IInv') /\ (Preparing => Preparing') /\ (Covered => Covered')
        /\ (MidPush => MidPush')
    BY <2>1, ProtocolKept
  <2>3. LifeType'
    BY <1>1, <2>1 DEF LifeInv, LifeType, OpenSemaphores, AttachShop, BusError,
                      SemaphoreFails, Becomes, push
  <2>4. NobodyYet'
    BY <1>1, <2>1 DEF LifeInv, LifeType, NobodyYet, NotYet, OpenSemaphores, AttachShop,
                      BusError, SemaphoreFails, Becomes
  <2>5. NamesKept'
    BY <2>1 DEF LifeInv, NamesKept, NotYet
  <2> QED
    BY <2>1, <2>2, <2>3, <2>4, <2>5 DEF LifeInv
<1>2. ASSUME LeaveUnsizedShop(p) PROVE LifeInv'
  <2>1. UNCHANGED <<life, barber_status>> /\ stage = "zero" /\ pushing = Nobody
    BY <1>2 DEF LeaveUnsizedShop, shop, LifeInv, MidPush
  <2>2. Preparing'
    BY <1>2, <2>1, EarlyPassing DEF LeaveUnsizedShop, LifeInv, life
  <2>3. LifeType' /\ NobodyYet' /\ NamesKept' /\ MidPush'
    BY <2>1 DEF LifeInv, LifeType, NobodyYet, NamesKept, NotYet, life, push, MidPush
  <2> QED
    BY <2>1, <2>2, <2>3 DEF LifeInv, life
<1>3. ASSUME NotifiedAfterClosing(p) PROVE LifeInv'
  <2>1. Customer(p) /\ UNCHANGED life /\ Notified(p)
    BY <1>3 DEF NotifiedAfterClosing, Customer
  <2>2. stage = "open" /\ IInv /\ Covered /\ pushing = Nobody
    BY <2>1, PushBlocks DEF LifeInv, LifeType, Preparing, Notified
  <2>3. IInv' /\ Covered'
    BY <2>1, <2>2, CustomerPreserves, CustomerCovers DEF life
  <2>4. LifeType' /\ NobodyYet' /\ NamesKept' /\ MidPush'
    BY <2>1, <2>2 DEF LifeInv, LifeType, NobodyYet, NamesKept, NotYet, life, push, MidPush
  <2> QED
    BY <2>1, <2>2, <2>3, <2>4 DEF LifeInv, life
<1> QED
  BY <1>1, <1>2, <1>3, VisitPreserves, WriteSlotPreserves, ReadTailPreserves,
     WriteTailPreserves DEF CustomerLives

LEMMA LifeNextInvariant == LifeInv /\ [LifeNext]_allvars => LifeInv'
<1> SUFFICES ASSUME LifeInv, [LifeNext]_allvars PROVE LifeInv'
  OBVIOUS
<1>1. ASSUME UNCHANGED allvars \/ CloseShop \/ SecondBarber PROVE LifeInv'
  <2>1. UNCHANGED <<vars, stage, early, program, member, push, barber_status>>
    BY <1>1 DEF allvars, life, CloseShop, SecondBarber, vars, shop
  <2>2. /\ (IInv => IInv') /\ (Preparing => Preparing') /\ (Covered => Covered')
        /\ (MidPush => MidPush')
    BY <2>1, ProtocolKept
  <2>3. /\ names' = names \/ names' = {}
        /\ closed' \in BOOLEAN
        /\ ~closed' /\ program = "zad1" => ~closed /\ names' = names
    BY <1>1 DEF allvars, life, CloseShop, SecondBarber, LifeInv, LifeType
  <2>4. LifeType'
    BY <2>1, <2>3 DEF LifeInv, LifeType, push
  <2>5. NobodyYet'
    BY <2>1, <2>3 DEF LifeInv, NobodyYet, NotYet, vars
  <2>6. NamesKept'
    BY <2>1, <2>3 DEF LifeInv, NamesKept, NotYet
  <2> QED
    BY <2>1, <2>2, <2>4, <2>5, <2>6 DEF LifeInv
<1>2. ASSUME BarberWorks PROVE LifeInv'
  <2>1. stage = "open" /\ Barber /\ UNCHANGED life /\ pushing = Nobody
    BY <1>2, PushBlocks DEF BarberWorks, Open, LifeInv, LifeType
  <2>2. IInv' /\ Covered'
    BY <2>1, BarberPreserves, BarberCovers DEF LifeInv, life
  <2>3. LifeType' /\ NobodyYet' /\ NamesKept' /\ MidPush'
    BY <2>1 DEF LifeInv, LifeType, NobodyYet, NamesKept, NotYet, life, push, MidPush
  <2> QED
    BY <2>1, <2>2, <2>3 DEF LifeInv, life
<1> QED
  BY <1>1, <1>2, SetUpPreserves, CustomerLifePreserves DEF LifeNext

\* However customers, the barber's set-up, SIGINT and a second barber interleave.
THEOREM LifeInvariance == LifeSpec => []LifeInv
BY LifeInitInvariant, LifeNextInvariant, PTL DEF LifeSpec

\* In an open shop nobody is forgotten but those that sat in the queue, or were in the
\* middle of queue_push, when queue_init reset the tail without "data"; and in zad1 the open shop is found, for any number of customers and seats.
THEOREM NobodyEverForgotten == LifeSpec => []NobodyForgotten
<1>1. ASSUME LifeInv PROVE LifeTypeOK
  <2>1. /\ semaphore \in [Semaphores -> Nat] /\ queue_head \in Nat
        /\ barber_status \in {"NONE", "SLEEPING", "WORKING"}
        /\ customer \in [Customers -> CustomerPlaces]
    BY <1>1 DEF LifeInv, IInv, TypeOK, Preparing, CustomerPlaces
  <2>2. queue_tail \in queue_head .. queue_head + Seats
    BY <1>1 DEF LifeInv, IInv, TypeOK, Preparing, Room
  <2>3. tail_read \in {Unread} \cup 0 .. Seats - 1
    <3>1. CASE pushing = Nobody
      BY <1>1, <3>1 DEF LifeInv, MidPush
    <3>2. CASE pushing # Nobody
      BY <1>1, <3>2, SeatsAssumption DEF LifeInv, MidPush, Slots
    <3> QED
      BY <3>1, <3>2
  <2> QED
    BY <1>1, <2>1, <2>2, <2>3 DEF LifeInv, LifeType, LifeTypeOK
<1>2. ASSUME LifeInv PROVE ForgottenWereEarly
  BY <1>2 DEF LifeInv, ForgottenWereEarly, Forgotten, Open, Covered, IInv, TypeOK
<1>3. ASSUME LifeInv PROVE OpenShopIsFound
  BY <1>3 DEF LifeInv, LifeType, OpenShopIsFound, Open, NamesKept, NotYet, Named
<1>4. LifeInv => NobodyForgotten
  BY <1>1, <1>2, <1>3 DEF NobodyForgotten
<1> QED
  BY <1>4, LifeInvariance, PTL
=============================================================================

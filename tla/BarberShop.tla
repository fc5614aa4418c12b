----------------------------- MODULE BarberShop -----------------------------
(***************************************************************************)
(* src/lab07-Semaphores: a barber and its customers, processes that share  *)
(* the shop_data record and three semaphores and invite one another with a *)
(* signal.  zad1 (System V) and zad2 (POSIX) run the same protocol; the    *)
(* definitions follow zad1.  This module starts where setup_semaphores and *)
(* setup_shop have returned in every process.                              *)
(*                                                                         *)
(* Taking and giving a semaphore are steps of their own.  What a process   *)
(* does to the shop between taking and giving "data" is one step, with the *)
(* giving: the other processes touch these fields only with "data" taken.  *)
(* The exception is the chair, which the barber reads without "data".      *)
(***************************************************************************)
EXTENDS Integers, Sequences, FiniteSets

CONSTANTS
  Customers,    \* the pids of the customers
  Seats,        \* <seats> of the barber's command line, shop->queue_size
  Visits,       \* of each customer, <visits> of the command line it comes from
  Nobody        \* a pid no customer has

ASSUME CustomersAssumption == Customers # {} /\ Nobody \notin Customers

\* SHOP_MAX_SEATS: the length of shop->queue.  Neither program checks that
\* <seats> respects it; with more seats a push writes behind the array.
SHOP_MAX_SEATS == 20

ASSUME SeatsAssumption == Seats \in 0 .. SHOP_MAX_SEATS /\ Visits \in [Customers -> Nat]

VARIABLES
  semaphore,      \* the values of the three semaphores
  chair,          \* shop->chair
  barber_status,
  queue, queue_head, queue_tail,
  barber,         \* where the barber is in handle_shop
  cutting,        \* the customer the barber read from the chair at the start
  customer,       \* where each customer is in customer_main and visit_shop
  invitations,    \* SHOP_SIGNALs pending for each customer
  visits          \* i of customer_main: visits that ended with a haircut

shop == <<chair, barber_status, queue, queue_head, queue_tail>>
vars == <<semaphore, shop, barber, cutting, customer, invitations, visits>>

Semaphores == {"data", "chair", "done"}

BarberPlaces == {"look", "inside", "call", "sleep", "cut", "finish", "wait"}

CustomerPlaces == {"arrive", "inside", "waiting", "invited", "called", "sit",
                   "seated", "leave", "gone"}

Init ==
  /\ semaphore = [data |-> 1, chair |-> 0, done |-> 0]
  /\ chair = Nobody
  /\ barber_status = "WORKING"
  /\ queue = [s \in 0 .. Seats - 1 |-> Nobody]
  /\ queue_head = 0
  /\ queue_tail = 0
  /\ barber = "look"
  /\ cutting = Nobody
  /\ customer = [c \in Customers |-> IF Visits[c] = 0 THEN "gone" ELSE "arrive"]
  /\ invitations = [c \in Customers |-> 0]
  /\ visits = [c \in Customers |-> 0]

-----------------------------------------------------------------------------
take_semaphore(s) ==
  semaphore[s] > 0 /\ semaphore' = [semaphore EXCEPT ![s] = @ - 1]

give_semaphore(s) == semaphore' = [semaphore EXCEPT ![s] = @ + 1]

queue_length == queue_tail - queue_head

\* The exit(1) of a full queue is behind the same test in visit_shop.
\* Mutant of queue_push: increments the tail before it uses it.
push_behind(pid) ==
  /\ queue' = [queue EXCEPT ![(queue_tail + 1) % Seats] = pid]
  /\ queue_tail' = queue_tail + 1
  /\ UNCHANGED queue_head

queue_push(pid) ==
  /\ queue' = [queue EXCEPT ![queue_tail % Seats] = pid]
  /\ queue_tail' = queue_tail + 1
  /\ UNCHANGED queue_head

\* The result, and which pid it is, is ignored by the caller; an empty queue
\* stays as it is.
queue_pop ==
  /\ queue_head' = IF queue_length = 0 THEN queue_head ELSE queue_head + 1
  /\ UNCHANGED <<queue, queue_tail>>

\* Mutant of queue_top: the customer that came last.
queue_last == queue[(queue_tail - 1) % Seats]

queue_top == queue[queue_head % Seats]

-----------------------------------------------------------------------------
(* handle_shop, the barber                                                 *)

BarberGoes(from, to) == barber = from /\ barber' = to

BarberTakesData ==
  /\ BarberGoes("look", "inside")
  /\ take_semaphore("data")
  /\ UNCHANGED <<shop, cutting, customer, invitations, visits>>

InviteClient ==
  /\ BarberGoes("inside", "call")
  /\ queue_length > 0
  /\ invitations' = [invitations EXCEPT ![queue_top] = @ + 1]
  /\ give_semaphore("data")
  /\ UNCHANGED <<shop, cutting, customer, visits>>

FallAsleep ==
  /\ BarberGoes("inside", "sleep")
  /\ queue_length = 0
  /\ barber_status' = "SLEEPING"
  /\ give_semaphore("data")
  /\ UNCHANGED <<chair, queue, queue_head, queue_tail, cutting, customer,
                 invitations, visits>>

\* Somebody sat down: the client invited, or the one that woke the barber.
ClientSatDown ==
  /\ BarberGoes("call", "cut") \/ BarberGoes("sleep", "cut")
  /\ take_semaphore("chair")
  /\ UNCHANGED <<shop, cutting, customer, invitations, visits>>

StartCutting ==
  /\ BarberGoes("cut", "finish")
  /\ cutting' = chair
  /\ UNCHANGED <<semaphore, shop, customer, invitations, visits>>

EndCutting ==
  /\ BarberGoes("finish", "wait")
  /\ cutting' = Nobody
  /\ give_semaphore("done")
  /\ UNCHANGED <<shop, customer, invitations, visits>>

\* Mutant of ClientLeft: does not wait for the client to leave the chair.
LookAtOnce ==
  /\ BarberGoes("wait", "look")
  /\ UNCHANGED <<semaphore, shop, cutting, customer, invitations, visits>>

ClientLeft ==
  /\ BarberGoes("wait", "look")
  /\ take_semaphore("chair")
  /\ UNCHANGED <<shop, cutting, customer, invitations, visits>>

Barber ==
  \/ BarberTakesData \/ InviteClient \/ FallAsleep \/ ClientSatDown
  \/ StartCutting \/ EndCutting \/ ClientLeft

-----------------------------------------------------------------------------
(* visit_shop, a customer                                                  *)

CustomerGoes(c, from, to) ==
  customer[c] = from /\ customer' = [customer EXCEPT ![c] = to]

EnterShop(c) ==
  /\ CustomerGoes(c, "arrive", "inside")
  /\ take_semaphore("data")
  /\ UNCHANGED <<shop, barber, cutting, invitations, visits>>

WakeUpBarber(c) ==
  /\ CustomerGoes(c, "inside", "sit")
  /\ barber_status = "SLEEPING"
  /\ barber_status' = "WORKING"
  /\ chair' = c
  /\ give_semaphore("data")
  /\ UNCHANGED <<queue, queue_head, queue_tail, barber, cutting, invitations, visits>>

\* visit_shop returns 0, and customer_main tries again at once.
LeaveFullShop(c) ==
  /\ CustomerGoes(c, "inside", "arrive")
  /\ barber_status # "SLEEPING"
  /\ queue_length >= Seats
  /\ give_semaphore("data")
  /\ UNCHANGED <<shop, barber, cutting, invitations, visits>>

\* The signal is blocked from here on, and let in by sigsuspend only.
JoinQueue(c) ==
  /\ CustomerGoes(c, "inside", "waiting")
  /\ barber_status # "SLEEPING"
  /\ queue_length < Seats
  /\ queue_push(c)
  /\ give_semaphore("data")
  /\ UNCHANGED <<chair, barber_status, barber, cutting, invitations, visits>>

\* sigsuspend lets the signal in, the handler sets "notified".
Notified(c) ==
  /\ CustomerGoes(c, "waiting", "invited")
  /\ invitations[c] > 0
  /\ invitations' = [invitations EXCEPT ![c] = @ - 1]
  /\ UNCHANGED <<semaphore, shop, barber, cutting, visits>>

TakeDataInvited(c) ==
  /\ CustomerGoes(c, "invited", "called")
  /\ take_semaphore("data")
  /\ UNCHANGED <<shop, barber, cutting, invitations, visits>>

LeaveQueue(c) ==
  /\ CustomerGoes(c, "called", "sit")
  /\ queue_pop
  /\ chair' = c
  /\ give_semaphore("data")
  /\ UNCHANGED <<barber_status, barber, cutting, invitations, visits>>

SitDown(c) ==
  /\ CustomerGoes(c, "sit", "seated")
  /\ give_semaphore("chair")
  /\ UNCHANGED <<shop, barber, cutting, invitations, visits>>

HaircutDone(c) ==
  /\ CustomerGoes(c, "seated", "leave")
  /\ take_semaphore("done")
  /\ UNCHANGED <<shop, barber, cutting, invitations, visits>>

\* Mutant of LeaveShop: leaves without telling the barber.
LeaveSilently(c) ==
  /\ CustomerGoes(c, "leave", IF visits[c] + 1 < Visits[c] THEN "arrive" ELSE "gone")
  /\ visits' = [visits EXCEPT ![c] = @ + 1]
  /\ UNCHANGED <<semaphore, shop, barber, cutting, invitations>>

\* visit_shop returns 1.
LeaveShop(c) ==
  /\ CustomerGoes(c, "leave", IF visits[c] + 1 < Visits[c] THEN "arrive" ELSE "gone")
  /\ visits' = [visits EXCEPT ![c] = @ + 1]
  /\ give_semaphore("chair")
  /\ UNCHANGED <<shop, barber, cutting, invitations>>

TakesData(c) == EnterShop(c) \/ TakeDataInvited(c)

Customer(c) ==
  \/ TakesData(c) \/ WakeUpBarber(c) \/ LeaveFullShop(c) \/ JoinQueue(c)
  \/ Notified(c) \/ LeaveQueue(c) \/ SitDown(c) \/ HaircutDone(c) \/ LeaveShop(c)

Next == Barber \/ \E c \in Customers : Customer(c)

\* The kernel serves the processes blocked in semop on "data" in the order of
\* their calls: none of them is overtaken for ever by customers that find the
\* waiting room full and try again at once.
Fairness ==
  /\ WF_vars(Barber) /\ SF_vars(BarberTakesData)
  /\ \A c \in Customers : WF_vars(Customer(c)) /\ SF_vars(TakesData(c))

Spec == Init /\ [][Next]_vars /\ Fairness

-----------------------------------------------------------------------------
TypeOK ==
  /\ semaphore \in [Semaphores -> Nat]
  /\ chair \in Customers \cup {Nobody}
  /\ barber_status \in {"SLEEPING", "WORKING"}
  /\ queue \in [0 .. Seats - 1 -> Customers \cup {Nobody}]
  /\ queue_head \in Nat
  /\ queue_tail \in Nat
  /\ barber \in BarberPlaces
  /\ cutting \in Customers \cup {Nobody}
  /\ customer \in [Customers -> CustomerPlaces]
  /\ invitations \in [Customers -> Nat]
  /\ visits \in [Customers -> Nat]

\* Who has taken "data" and not given it back.
BarberInside == barber = "inside"
Inside(c) == customer[c] \in {"inside", "called"}

\* At most one process is between taking and giving "data".
DataExclusive ==
  /\ \A c, d \in Customers : Inside(c) /\ Inside(d) => c = d
  /\ \A c \in Customers : ~(Inside(c) /\ BarberInside)

InChair(c) == customer[c] \in {"sit", "seated", "leave"}

\* The chair changes hands correctly though "data" does not guard the barber's
\* reads of it, and though one semaphore announces both a client that sat down
\* and one that left: the barber ends on the client it started on, who is in
\* the chair all the time and waits for the end.
CutsTheSeated ==
  /\ \A c, d \in Customers : InChair(c) /\ InChair(d) => c = d
  /\ barber \in {"cut", "finish"} => \E c \in Customers : customer[c] = "seated" /\ chair = c
  /\ barber = "finish" => cutting = chair

\* A signal reaches a customer only inside the sigsuspend of its visit to the
\* waiting room.  One that arrived anywhere else would be lost when "notified"
\* is reset, or interrupt a semaphore operation and end the process.
InvitesOnlyWaiting ==
  \A c \in Customers :
    invitations[c] > 0 => customer[c] = "waiting" /\ invitations[c] = 1

\* The wake-up is not lost: if the barber is blocked in its sleep while somebody
\* is in the waiting room, the client that wakes it is on the way to the chair.
NoSleepWhileWaited ==
  (barber = "sleep" /\ queue_length > 0)
    => \E c \in Customers : customer[c] \in {"sit", "seated"}

\* The barber and the customers agree on who is inside, in the chair, invited and
\* awake, whatever comes between the statements of one visit.
RolesAgree == DataExclusive /\ CutsTheSeated /\ InvitesOnlyWaiting /\ NoSleepWhileWaited

\* What the service sees of the shop: who waits, in the order of the queue, who is
\* in the chair, and whether the haircut of the one in the chair is done.
Line == [i \in 1 .. queue_length |-> queue[(queue_head + i - 1) % Seats]]

Occupant ==
  IF \E c \in Customers : InChair(c)
    THEN CHOOSE c \in Customers : InChair(c) ELSE Nobody

Trimmed == semaphore["done"] = 1 \/ \E c \in Customers : customer[c] = "leave"

\* The shop serves its customers in the order of arrival: see BarberService.
Service ==
  INSTANCE BarberService WITH
    line <- Line, occupant <- Occupant, trimmed <- Trimmed, haircuts <- visits

\* Every step of the protocol is a step of the service, or none of its: the
\* customer that pops the queue is the one invited, whoever came in between.
ImplementsService == Service!Spec

\* Every customer gets all the haircuts it came for.
AllServed == <>[](\A c \in Customers : customer[c] = "gone" /\ visits[c] = Visits[c])
=============================================================================

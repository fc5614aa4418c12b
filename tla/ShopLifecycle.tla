--------------------------- MODULE ShopLifecycle ----------------------------
(***************************************************************************)
(* src/lab07-Semaphores: what is around the protocol of BarberShop.  The   *)
(* barber creates the semaphores, then the shared memory, and initialises  *)
(* it; customers, started at any time, look for both by name and leave if  *)
(* they find nothing; SIGINT makes the barber remove everything; somebody  *)
(* may start a second barber.                                              *)
(*                                                                         *)
(* The names mean different things.  In zad1 (System V) a semaphore that   *)
(* is removed fails under its users; in zad2 (POSIX) they keep it.         *)
(***************************************************************************)
EXTENDS BarberShop

VARIABLES
  program,    \* "zad1" or "zad2"
  stage,      \* how far the barber got with its set-up
  closed,     \* has it ended?
  names,      \* what can be found by name
  member,     \* how far each customer is
  pushing,    \* who is in the middle of queue_push while the queue is set up
  tail_read,  \* the value its "queue_tail += 1" has read, or Unread
  early       \* history: who was in the queue, or in queue_push, at its reset

push    == <<pushing, tail_read>>
life    == <<program, stage, closed, names, member, push, early>>
allvars == <<vars, life>>

Named == {"semaphores", "shop"}

\* "empty" is shared memory of size 0, "zero" of the right size and all zero,
\* "sized" after the first line of queue_init, "reset" after the others.
Stages == {"start", "semaphores", "ready", "empty", "zero", "sized", "reset",
           "open"}

Unread == -1

LifeInit ==
  /\ program \in {"zad1", "zad2"}
  /\ stage = "start"
  /\ closed = FALSE
  /\ names = {}
  /\ member = [c \in Customers |-> "new"]
  /\ pushing = Nobody
  /\ tail_read = Unread
  /\ early = {}
  /\ semaphore = [s \in Semaphores |-> 0]
  /\ chair = Nobody
  /\ barber_status = "NONE"
  /\ queue = [s \in 0 .. Seats - 1 |-> Nobody]
  /\ queue_head = 0
  /\ queue_tail = 0
  /\ barber = "look"
  /\ cutting = Nobody
  /\ customer = [c \in Customers |-> IF Visits[c] = 0 THEN "gone" ELSE "arrive"]
  /\ invitations = [c \in Customers |-> 0]
  /\ visits = [c \in Customers |-> 0]

-----------------------------------------------------------------------------
(* The barber: setup_semaphores, setup_shop, handle_sigint.                *)

BarberReaches(from, to) ==
  ~closed /\ stage = from /\ stage' = to /\ UNCHANGED <<closed, program, member, push>>

\* The semaphores of zad1 exist with the value 0 before their values are set.
CreateSemaphores ==
  /\ BarberReaches("start", IF program = "zad1" THEN "semaphores" ELSE "ready")
  /\ names' = names \cup {"semaphores"}
  /\ semaphore' = [semaphore EXCEPT !["data"] = IF program = "zad1" THEN 0 ELSE 1]
  /\ UNCHANGED <<shop, barber, cutting, customer, invitations, visits, early>>

\* Mutant of SetSemaphores: takes their creation for enough.
LeaveSemaphores ==
  /\ BarberReaches("semaphores", "ready")
  /\ UNCHANGED <<vars, names, early>>

SetSemaphores ==
  /\ BarberReaches("semaphores", "ready")
  /\ semaphore' = [data |-> 1, chair |-> 0, done |-> 0]
  /\ UNCHANGED <<shop, barber, cutting, customer, invitations, visits, names, early>>

CreateShop ==
  /\ BarberReaches("ready", IF program = "zad1" THEN "zero" ELSE "empty")
  /\ names' = names \cup {"shop"}
  /\ UNCHANGED <<vars, early>>

\* ftruncate, in zad2, and queue_size in queue_init.
SizeShop ==
  /\ BarberReaches("empty", "zero") \/ BarberReaches("zero", "sized")
  /\ UNCHANGED <<vars, names, early>>

\* queue_head and queue_tail in queue_init, without "data": also while a customer
\* is in the middle of queue_push.  The head is 0 before, too.
ResetQueue ==
  /\ BarberReaches("sized", "reset")
  /\ queue_head' = 0 /\ queue_tail' = 0
  /\ early' = {c \in Customers : customer[c] = "waiting" \/ pushing = c}
  /\ UNCHANGED <<semaphore, chair, barber_status, queue, barber, cutting, customer,
                 invitations, visits, names>>

OpenShop ==
  /\ BarberReaches("reset", "open")
  /\ barber_status' = "WORKING"
  /\ UNCHANGED <<semaphore, chair, queue, queue_head, queue_tail, barber, cutting,
                 customer, invitations, visits, names, early>>

SetUp ==
  \/ CreateSemaphores \/ SetSemaphores \/ CreateShop \/ SizeShop \/ ResetQueue
  \/ OpenShop

\* SIGINT, anywhere: handle_exit removes what there is.  A customer that comes
\* between the two removals fails a moment later.
CloseShop ==
  /\ ~closed /\ closed' = TRUE
  /\ names' = {}
  /\ UNCHANGED <<vars, program, stage, member, push, early>>

\* A second barber cannot create the semaphores and exits.  In zad1 its exit
\* handler has no identifiers and removes nothing; in zad2 it removes the names.
SecondBarber ==
  /\ "semaphores" \in names
  /\ names' = IF program = "zad1" THEN names ELSE {}
  /\ UNCHANGED <<vars, program, stage, closed, member, push, early>>

Open == stage = "open" /\ ~closed

BarberWorks == Open /\ Barber /\ UNCHANGED life

-----------------------------------------------------------------------------
(* The customers: setup_semaphores, setup_shop, and the visits.            *)

Becomes(c, from, to) ==
  /\ member[c] = from /\ member' = [member EXCEPT ![c] = to]
  /\ UNCHANGED <<program, stage, closed, names, push>>

OpenSemaphores(c) ==
  /\ Becomes(c, "new", IF "semaphores" \in names THEN "opened" ELSE "out")
  /\ UNCHANGED <<vars, early>>

AttachShop(c) ==
  /\ Becomes(c, "opened", IF "shop" \in names THEN "in" ELSE "out")
  /\ UNCHANGED <<vars, early>>

\* Mutant of SemaphoresLive: nobody removes the semaphores.
SemaphoresStay == TRUE

\* In zad1 every semop on a removed semaphore fails, the ones under way too, and
\* ends the process.
SemaphoresLive == program = "zad1" => ~closed

\* Has queue_init stored the number of seats?
Sized == stage \in {"sized", "reset", "open"}

\* One visit, as in BarberShop.  The push is a single step once the queue has been
\* reset: then nobody writes to it without "data".
Visit(c) ==
  /\ member[c] = "in" /\ SemaphoresLive /\ pushing # c
  /\ \/ Customer(c) /\ customer[c] # "inside"
     \/ Sized /\ (WakeUpBarber(c) \/ LeaveFullShop(c))
     \/ stage \in {"reset", "open"} /\ JoinQueue(c)
  /\ UNCHANGED life

\* Before, ResetQueue may come between the statements of queue_push.  The room that
\* the test found is there after it, too.
WriteSlot(c) ==
  /\ member[c] = "in" /\ SemaphoresLive /\ stage = "sized"
  /\ customer[c] = "inside" /\ pushing # c
  /\ queue_length < Seats
  /\ queue' = [queue EXCEPT ![queue_tail % Seats] = c]
  /\ pushing' = c
  /\ UNCHANGED <<semaphore, chair, barber_status, queue_head, queue_tail, barber, cutting,
                 customer, invitations, visits, program, stage, closed, names, member,
                 tail_read, early>>

\* "queue_tail += 1" reads it ...
ReadTail(c) ==
  /\ member[c] = "in" /\ SemaphoresLive
  /\ pushing = c /\ tail_read = Unread
  /\ tail_read' = queue_tail
  /\ UNCHANGED <<vars, program, stage, closed, names, member, pushing, early>>

\* ... and writes it.  "data" is given as in JoinQueue.
WriteTail(c) ==
  /\ member[c] = "in" /\ SemaphoresLive
  /\ pushing = c /\ tail_read # Unread
  /\ queue_tail' = tail_read + 1
  /\ CustomerGoes(c, "inside", "waiting")
  /\ give_semaphore("data")
  /\ pushing' = Nobody /\ tail_read' = Unread
  /\ UNCHANGED <<chair, barber_status, queue, queue_head, barber, cutting, invitations,
                 visits, program, stage, closed, names, member, early>>

\* The waiting room has no seats yet.
LeaveUnsizedShop(c) ==
  /\ member[c] = "in" /\ SemaphoresLive /\ stage = "zero"
  /\ CustomerGoes(c, "inside", "arrive")
  /\ give_semaphore("data")
  /\ UNCHANGED <<shop, barber, cutting, invitations, visits, life>>

\* SIGBUS behind the end of the shared memory, with "data" taken.
BusError(c) ==
  /\ stage = "empty" /\ customer[c] = "inside"
  /\ Becomes(c, "in", "killed")
  /\ UNCHANGED <<vars, early>>

\* The signal comes without any semaphore.
NotifiedAfterClosing(c) ==
  /\ member[c] = "in" /\ ~SemaphoresLive
  /\ Notified(c)
  /\ UNCHANGED life

SemaphoreFails(c) ==
  /\ ~SemaphoresLive /\ customer[c] \notin {"waiting", "gone"}
  /\ Becomes(c, "in", "out")
  /\ UNCHANGED <<vars, early>>

CustomerLives(c) ==
  \/ OpenSemaphores(c) \/ AttachShop(c) \/ Visit(c) \/ LeaveUnsizedShop(c)
  \/ WriteSlot(c) \/ ReadTail(c) \/ WriteTail(c)
  \/ BusError(c) \/ NotifiedAfterClosing(c) \/ SemaphoreFails(c)

LifeNext ==
  \/ SetUp \/ BarberWorks \/ CloseShop \/ SecondBarber
  \/ \E c \in Customers : CustomerLives(c)

\* As in BarberShop.  Nobody has to close the shop or start a second barber.
LifeFairness ==
  /\ WF_allvars(SetUp \/ BarberWorks)
  /\ SF_allvars(BarberTakesData /\ BarberWorks)
  /\ \A c \in Customers :
       WF_allvars(CustomerLives(c)) /\ SF_allvars(TakesData(c) /\ Visit(c))

LifeSpec == LifeInit /\ [][LifeNext]_allvars /\ LifeFairness

-----------------------------------------------------------------------------
LifeTypeOK ==
  /\ program \in {"zad1", "zad2"}
  /\ stage \in Stages /\ closed \in BOOLEAN
  /\ names \subseteq Named
  /\ member \in [Customers -> {"new", "opened", "in", "out", "killed"}]
  /\ pushing \in Customers \cup {Nobody}
  /\ tail_read \in {Unread} \cup 0 .. Seats - 1
  /\ early \subseteq Customers
  /\ semaphore \in [Semaphores -> Nat]
  /\ queue_head \in Nat /\ queue_tail \in queue_head .. queue_head + Seats
  /\ barber_status \in {"NONE", "SLEEPING", "WORKING"}
  /\ customer \in [Customers -> CustomerPlaces]

InQueue(c) ==
  \E i \in queue_head .. queue_tail - 1 : queue[i % Seats] = c

\* Waits for an invitation that the barber will not send.
Forgotten(c) == customer[c] = "waiting" /\ ~InQueue(c) /\ invitations[c] = 0

\* In an open shop whoever waits for the signal is in the queue or has been sent
\* it, though customers come while the barber prepares the queue: except those
\* that had sat down, or were in queue_push, when queue_init reset the tail.
ForgottenWereEarly == Open => \A c \in Customers : Forgotten(c) => c \in early

\* In zad1 a second barber, started by mistake, does not hide the open shop.  In
\* zad2 it does; nobody but a second barber, and SIGINT, removes the names.
OpenShopIsFound == Open /\ program = "zad1" => names = Named

\* What an open shop, found or not, owes to those who looked for it in time.
NobodyForgotten == LifeTypeOK /\ ForgottenWereEarly /\ OpenShopIsFound

\* Customers that found the shop are served, those that were early and are still
\* in the queue too, unless one was killed with "data" taken, or the shop closes.
FoundIsServed ==
  \A c \in Customers :
    member[c] = "in" ~>
      \/ customer[c] = "gone" \/ closed \/ Forgotten(c)
      \/ \E d \in Customers : member[d] = "killed"

\* After SIGINT every customer of zad1 ends, unless it waits in sigsuspend for
\* the invitation of a barber that is gone.
ClosingEndsCustomers ==
  program = "zad1" /\ closed ~>
    \A c \in Customers :
      \/ member[c] = "out" \/ customer[c] = "gone"
      \/ customer[c] = "waiting" /\ invitations[c] = 0
=============================================================================

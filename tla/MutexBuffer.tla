---------------------------- MODULE MutexBuffer -----------------------------
(***************************************************************************)
(* src/lab09-Mutexes/zad1/main.c: producers copy the lines of a file into  *)
(* a bounded queue, consumers pop them and print those whose length        *)
(* matches.  One mutex guards the queue and the file; one condition        *)
(* variable serves both kinds of waiting threads.                          *)
(*                                                                         *)
(* Everything a thread does while it holds mutex_queue is one step, as no  *)
(* other thread can see an intermediate state; taking the mutex, and       *)
(* waiting on the condition, are steps of their own.                       *)
(***************************************************************************)
EXTENDS LineInput

CONSTANTS
  Producers, Consumers,   \* the threads running main_producer, main_consumer
  QueueSize,              \* queue_size of the settings file
  MaxSpurious,            \* bound on spurious wake-ups of pthread_cond_wait
  NoThread                \* the owner of a free mutex

Threads == Producers \cup Consumers

ASSUME ThreadsAssumption ==
  /\ Producers # {} /\ Consumers # {}
  /\ Producers \cap Consumers = {}
  /\ NoThread \notin Threads

ASSUME BoundsAssumption == QueueSize \in Nat \ {0} /\ MaxSpurious \in Nat

VARIABLES
  limit,        \* is there a time limit (limit > 0)?
  mutex_queue,  \* the thread that holds the mutex, or NoThread
  queue,        \* the slots of the queue
  queue_head, queue_tail,
  finished,     \* set when a producer meets the end of the input
  position,     \* the line the next getline() returns
  stdout,       \* the lines printed, oldest first
  pc,           \* of each thread; "waiting" is inside pthread_cond_wait
  exit_status,  \* "running", "success" (main returned) or "failure" (exit(1))
  spurious      \* spurious wake-ups so far

vars == <<limit, mutex_queue, queue, queue_head, queue_tail, finished,
          position, stdout, pc, exit_status, spurious>>
environment == <<limit, spurious>>

Locations == {"none", "ready", "locked", "waiting", "left"}

\* The state in which main has called load_settings and queue_init.
Init ==
  /\ limit \in BOOLEAN
  /\ mutex_queue = NoThread
  /\ queue = [s \in 0 .. QueueSize - 1 |-> NoLine]
  /\ queue_head = 0
  /\ queue_tail = 0
  /\ finished = FALSE
  /\ position = 1
  /\ stdout = NothingPrinted
  /\ pc = [t \in Threads |-> "none"]
  /\ exit_status = "running"
  /\ spurious = 0

-----------------------------------------------------------------------------
queue_length == queue_tail - queue_head

\* A push into a full queue ends the process; produce() must not let it happen.
queue_push(line) ==
  IF queue_length >= QueueSize
    THEN /\ exit_status' = "failure"
         /\ UNCHANGED <<queue, queue_head, queue_tail>>
    ELSE /\ queue' = [queue EXCEPT ![queue_tail % QueueSize] = line]
         /\ queue_tail' = queue_tail + 1
         /\ UNCHANGED <<queue_head, exit_status>>

queue_pop ==
  /\ queue_head' = queue_head + 1
  /\ UNCHANGED <<queue, queue_tail>>

\* Mutant of queue_first: the line pushed last.
LastPushed == queue[(queue_tail - 1) % QueueSize]

queue_first == queue[queue_head % QueueSize]

-----------------------------------------------------------------------------
Running == exit_status = "running"

\* pthread_mutex_lock, on entry and on return from pthread_cond_wait: the
\* while loops test their condition again, so both lead to the same point.
Lock(t) ==
  /\ Running
  /\ pc[t] = "ready"
  /\ mutex_queue = NoThread
  /\ mutex_queue' = t
  /\ pc' = [pc EXCEPT ![t] = "locked"]
  /\ UNCHANGED <<queue, queue_head, queue_tail, finished, position, stdout,
                 exit_status, environment>>

Holds(t) == Running /\ pc[t] = "locked" /\ mutex_queue = t

\* pthread_cond_wait(&cond_queue, &mutex_queue) gives the mutex up.
Wait(t) ==
  /\ mutex_queue' = NoThread
  /\ pc' = [pc EXCEPT ![t] = "waiting"]
  /\ UNCHANGED <<queue, queue_head, queue_tail, finished, position, stdout,
                 exit_status, environment>>

\* pthread_cond_broadcast(&cond_queue): every waiting thread competes again.
Woken(t) == IF pc[t] = "waiting" THEN "ready" ELSE pc[t]

\* Mutant of BroadcastAndUnlock: pthread_cond_signal, which wakes one thread.
SignalAndUnlock(t, location) ==
  LET Sleepers == {u \in Threads : pc[u] = "waiting"}
  IN  /\ mutex_queue' = NoThread
      /\ \/ Sleepers = {} /\ pc' = [pc EXCEPT ![t] = location]
         \/ \E u \in Sleepers : pc' = [pc EXCEPT ![t] = location, ![u] = "ready"]
      /\ UNCHANGED environment

\* Broadcast, unlock, and go on at the location given.
BroadcastAndUnlock(t, location) ==
  /\ mutex_queue' = NoThread
  /\ pc' = [u \in Threads |-> IF u = t THEN location ELSE Woken(u)]
  /\ UNCHANGED environment

-----------------------------------------------------------------------------
QueueFull == queue_length >= QueueSize

WaitForSlot(p) ==
  /\ Holds(p)
  /\ QueueFull
  /\ Wait(p)

\* Mutant of EncounterEOF: the last producer to leave tells nobody.
EncounterEOFSilently(p) ==
  /\ Holds(p)
  /\ ~QueueFull
  /\ position > LineCount
  /\ finished' = TRUE
  /\ mutex_queue' = NoThread
  /\ pc' = [pc EXCEPT ![p] = "left"]
  /\ UNCHANGED <<queue, queue_head, queue_tail, position, stdout, exit_status, environment>>

EncounterEOF(p) ==
  /\ Holds(p)
  /\ ~QueueFull
  /\ position > LineCount
  /\ finished' = TRUE
  /\ BroadcastAndUnlock(p, "left")
  /\ UNCHANGED <<queue, queue_head, queue_tail, position, stdout, exit_status>>

Produce(p) ==
  /\ Holds(p)
  /\ ~QueueFull
  /\ position <= LineCount
  /\ position' = position + 1
  /\ queue_push(position)
  /\ BroadcastAndUnlock(p, "ready")
  /\ UNCHANGED <<finished, stdout>>

Producer(p) == Lock(p) \/ WaitForSlot(p) \/ EncounterEOF(p) \/ Produce(p)

-----------------------------------------------------------------------------
NothingYet == queue_length = 0 /\ ~finished

WaitForLine(c) ==
  /\ Holds(c)
  /\ NothingYet
  /\ Wait(c)

\* Mutant of ConsumerLeaves: takes the end of the input for an empty queue.
LeaveWhenFinished(c) ==
  /\ Holds(c)
  /\ finished
  /\ mutex_queue' = NoThread
  /\ pc' = [pc EXCEPT ![c] = "left"]
  /\ UNCHANGED <<queue, queue_head, queue_tail, finished, position, stdout,
                 exit_status, environment>>

\* The queue is empty and the wait is over: unlocks, without a broadcast.
ConsumerLeaves(c) ==
  /\ Holds(c)
  /\ ~NothingYet
  /\ queue_length = 0
  /\ mutex_queue' = NoThread
  /\ pc' = [pc EXCEPT ![c] = "left"]
  /\ UNCHANGED <<queue, queue_head, queue_tail, finished, position, stdout,
                 exit_status, environment>>

Consume(c) ==
  /\ Holds(c)
  /\ ~NothingYet
  /\ queue_length # 0
  /\ stdout' = Emit(stdout, queue_first)
  /\ queue_pop
  /\ BroadcastAndUnlock(c, "ready")
  /\ UNCHANGED <<finished, position, exit_status>>

Consumer(c) == Lock(c) \/ WaitForLine(c) \/ ConsumerLeaves(c) \/ Consume(c)

-----------------------------------------------------------------------------
\* POSIX lets pthread_cond_wait return with no signal.
SpuriousWakeup(t) ==
  /\ Running
  /\ spurious < MaxSpurious
  /\ pc[t] = "waiting"
  /\ pc' = [pc EXCEPT ![t] = "ready"]
  /\ spurious' = spurious + 1
  /\ UNCHANGED <<limit, mutex_queue, queue, queue_head, queue_tail, finished,
                 position, stdout, exit_status>>

\* main creates all the producers first; they may run before the others exist.
CreateThread(t) ==
  /\ Running
  /\ pc[t] = "none"
  /\ t \in Consumers => \A p \in Producers : pc[p] # "none"
  /\ pc' = [pc EXCEPT ![t] = "ready"]
  /\ UNCHANGED <<mutex_queue, queue, queue_head, queue_tail, finished,
                 position, stdout, exit_status, environment>>

AllCreated == \A t \in Threads : pc[t] # "none"

\* sleep(limit) is over: main returns with the threads wherever they are.
TimeLimitReached ==
  /\ Running
  /\ AllCreated
  /\ limit
  /\ exit_status' = "success"
  /\ UNCHANGED <<limit, mutex_queue, queue, queue_head, queue_tail, finished,
                 position, stdout, pc, spurious>>

\* pthread_join returned for every thread.
AllJoined ==
  /\ Running
  /\ ~limit
  /\ \A t \in Threads : pc[t] = "left"
  /\ exit_status' = "success"
  /\ UNCHANGED <<limit, mutex_queue, queue, queue_head, queue_tail, finished,
                 position, stdout, pc, spurious>>

Main == TimeLimitReached \/ AllJoined \/ \E t \in Threads : CreateThread(t)

\* The process is gone; this keeps TLC's deadlock check meaningful before that.
Exited == ~Running /\ UNCHANGED vars

Next ==
  \/ \E p \in Producers : Producer(p)
  \/ \E c \in Consumers : Consumer(c)
  \/ \E t \in Threads : SpuriousWakeup(t)
  \/ Main
  \/ Exited

\* Every thread that can take a step is scheduled in the end.  Nothing is
\* assumed of the order in which the mutex is granted.
Fairness ==
  /\ \A p \in Producers : WF_vars(Producer(p))
  /\ \A c \in Consumers : WF_vars(Consumer(c))
  /\ WF_vars(Main)

Spec == Init /\ [][Next]_vars /\ Fairness

-----------------------------------------------------------------------------
TypeOK ==
  /\ limit \in BOOLEAN
  /\ mutex_queue \in Threads \cup {NoThread}
  /\ queue \in [0 .. QueueSize - 1 -> Lines \cup {NoLine}]
  /\ queue_head \in Nat
  /\ queue_tail \in Nat
  /\ finished \in BOOLEAN
  /\ position \in 1 .. LineCount + 1
  /\ stdout \in Printouts
  /\ pc \in [Threads -> Locations]
  /\ exit_status \in {"running", "success", "failure"}
  /\ spurious \in 0 .. MaxSpurious

\* No wake-up is lost: a thread asleep on the one condition variable still has
\* reason to be.  One that sleeps beside a queue it could use would show that
\* some change of the queue, or the end of the input, woke too few threads.
SleepersHaveReason ==
  /\ \A p \in Producers : pc[p] = "waiting" => QueueFull
  /\ \A c \in Consumers : pc[c] = "waiting" => NothingYet

\* The lines popped so far, filtered: none is printed twice, skipped, or
\* printed out of the order of the file, whoever popped it.
OutputFaithful ==
  LastTerminated =>
    /\ {stdout[i] : i \in DOMAIN stdout} = {l \in Wanted : l <= queue_head}
    /\ \A i, j \in DOMAIN stdout : i < j => stdout[i] < stdout[j]

\* The queue is a first-in first-out channel: see LineChannel.
Channel ==
  INSTANCE LineChannel WITH
    Writers   <- Producers,
    Readers   <- Consumers,
    Capacity  <- QueueSize,
    LineCount <- LineCount,
    Selected  <- {line \in Lines : Printed(line)},
    written   <- queue_tail,
    taken     <- queue_head,
    exhausted <- finished,
    out       <- stdout,
    present   <- {t \in Threads : pc[t] # "left"},
    stopped   <- exit_status # "running"

\* Every step of the program is a step of the channel, or none of its.
ImplementsChannel == Channel!Spec

\* Without a time limit every thread finishes, whatever the order in which the
\* threads get the mutex, and the whole file has gone through the queue.
AllFinish ==
  ~limit ~> (exit_status = "success" /\ queue_head = LineCount)
=============================================================================

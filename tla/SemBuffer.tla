----------------------------- MODULE SemBuffer ------------------------------
(***************************************************************************)
(* src/lab09-Mutexes/zad2/main.c: the program of zad1 with three           *)
(* semaphores in the place of the mutex and the condition variable:        *)
(*   queue   1 when nobody is inside the critical section                  *)
(*   empty   permits to push: one for each free slot                       *)
(*   filled  permits to pop: one for each line in the queue                *)
(* Once the input has ended, a producer hands its permit to push on to the *)
(* next producer, and adds a permit to pop that the consumers pass on.     *)
(*                                                                         *)
(* Each sem_wait and each sem_post is a step of its own: a permit posted   *)
(* inside the critical section can be taken before the section ends.       *)
(***************************************************************************)
EXTENDS LineInput, FiniteSets

CONSTANTS Producers, Consumers, QueueSize

Threads == Producers \cup Consumers

ASSUME ThreadsAssumption ==
  /\ Producers # {} /\ Consumers # {}
  /\ Producers \cap Consumers = {}
  /\ IsFiniteSet(Threads)

ASSUME QueueSizeAssumption == QueueSize \in Nat \ {0}

VARIABLES
  limit,        \* is there a time limit (limit > 0)?
  semaphore,    \* the values of the three semaphores
  queue, queue_head, queue_tail,
  finished,
  position,     \* the line the next getline() returns
  stdout,       \* the lines printed, oldest first
  pc,           \* of each thread: the location it reaches after its posts
  posts,        \* of each thread: the sem_posts it makes before going on
  exit_status

vars == <<limit, semaphore, queue, queue_head, queue_tail, finished, position,
          stdout, pc, posts, exit_status>>
buffer == <<queue, queue_head, queue_tail, finished, position, stdout>>

Semaphores == {"queue", "empty", "filled"}

\* The sem_posts a thread has still to make, in their order.
PostSequences == Seq(Semaphores)
NoPosts == <<>>

\* "ready" waits for a permit, "permitted" for the critical section.
Locations == {"none", "ready", "permitted", "inside", "left"}

Init ==
  /\ limit \in BOOLEAN
  /\ semaphore = [queue |-> 1, empty |-> QueueSize, filled |-> 0]
  /\ queue = [s \in 0 .. QueueSize - 1 |-> NoLine]
  /\ queue_head = 0
  /\ queue_tail = 0
  /\ finished = FALSE
  /\ position = 1
  /\ stdout = NothingPrinted
  /\ pc = [t \in Threads |-> "none"]
  /\ posts = [t \in Threads |-> NoPosts]
  /\ exit_status = "running"

-----------------------------------------------------------------------------
queue_length == queue_tail - queue_head

\* A push into a full queue ends the process; produce() must not let it happen.
queue_push(line) ==
  IF queue_length >= QueueSize
    THEN /\ exit_status' = "failure"
         /\ UNCHANGED <<queue, queue_head, queue_tail>>
    ELSE /\ queue' = [queue EXCEPT ![queue_tail % QueueSize] = line]
         /\ queue_tail' = queue_tail + 1
         /\ UNCHANGED <<queue_head, exit_status>>

queue_pop ==
  /\ queue_head' = queue_head + 1
  /\ UNCHANGED <<queue, queue_tail>>

\* Mutant of queue_first: the line pushed last.
LastPushed == queue[(queue_tail - 1) % QueueSize]

queue_first == queue[queue_head % QueueSize]

-----------------------------------------------------------------------------
Running == exit_status = "running"

\* t has made its posts and is about to execute what is at the location.
At(t, location) == Running /\ pc[t] = location /\ posts[t] = NoPosts

SemWait(t, s, location) ==
  /\ semaphore[s] > 0
  /\ semaphore' = [semaphore EXCEPT ![s] = @ - 1]
  /\ pc' = [pc EXCEPT ![t] = location]
  /\ UNCHANGED <<posts, limit, exit_status, buffer>>

\* The next of the sem_posts that t has still to make.
SemPost(t) ==
  /\ Running
  /\ posts[t] # NoPosts
  /\ semaphore' = [semaphore EXCEPT ![Head(posts[t])] = @ + 1]
  /\ posts' = [posts EXCEPT ![t] = Tail(@)]
  /\ UNCHANGED <<pc, limit, exit_status, buffer>>

PostThenGo(t, sequence, location) ==
  /\ posts' = [posts EXCEPT ![t] = sequence]
  /\ pc' = [pc EXCEPT ![t] = location]
  /\ UNCHANGED <<semaphore, limit>>

TakeQueue(t) == At(t, "permitted") /\ SemWait(t, "queue", "inside")

-----------------------------------------------------------------------------
TakeEmpty(p) == At(p, "ready") /\ SemWait(p, "empty", "permitted")

\* Mutant of EncounterEOF: does not wake up a consumer.
EncounterEOFSilently(p) ==
  /\ At(p, "inside")
  /\ position > LineCount
  /\ finished' = TRUE
  /\ PostThenGo(p, <<"empty", "queue">>, "left")
  /\ UNCHANGED <<queue, queue_head, queue_tail, position, stdout, exit_status>>

EncounterEOF(p) ==
  /\ At(p, "inside")
  /\ position > LineCount
  /\ finished' = TRUE
  /\ PostThenGo(p, <<"filled", "empty", "queue">>, "left")
  /\ UNCHANGED <<queue, queue_head, queue_tail, position, stdout, exit_status>>

Produce(p) ==
  /\ At(p, "inside")
  /\ position <= LineCount
  /\ position' = position + 1
  /\ queue_push(position)
  /\ PostThenGo(p, <<"filled", "queue">>, "ready")
  /\ UNCHANGED <<finished, stdout>>

Producer(p) ==
  \/ TakeEmpty(p)
  \/ TakeQueue(p)
  \/ EncounterEOF(p)
  \/ Produce(p)
  \/ SemPost(p)

-----------------------------------------------------------------------------
TakeFilled(c) == At(c, "ready") /\ SemWait(c, "filled", "permitted")

\* An empty queue is taken for the end of the input; "finished" is not read.
ConsumerLeaves(c) ==
  /\ At(c, "inside")
  /\ queue_length = 0
  /\ PostThenGo(c, <<"filled", "queue">>, "left")
  /\ UNCHANGED <<exit_status, buffer>>

\* Mutant of Consume: keeps the permit of the slot it freed.
ConsumeKeepingSlot(c) ==
  /\ At(c, "inside")
  /\ queue_length # 0
  /\ stdout' = Emit(stdout, queue_first)
  /\ queue_pop
  /\ PostThenGo(c, <<"queue">>, "ready")
  /\ UNCHANGED <<finished, position, exit_status>>

Consume(c) ==
  /\ At(c, "inside")
  /\ queue_length # 0
  /\ stdout' = Emit(stdout, queue_first)
  /\ queue_pop
  /\ PostThenGo(c, <<"empty", "queue">>, "ready")
  /\ UNCHANGED <<finished, position, exit_status>>

Consumer(c) ==
  \/ TakeFilled(c)
  \/ TakeQueue(c)
  \/ ConsumerLeaves(c)
  \/ Consume(c)
  \/ SemPost(c)

-----------------------------------------------------------------------------
\* main creates all the producers first; they may run before the others exist.
CreateThread(t) ==
  /\ Running
  /\ pc[t] = "none"
  /\ t \in Consumers => \A p \in Producers : pc[p] # "none"
  /\ pc' = [pc EXCEPT ![t] = "ready"]
  /\ UNCHANGED <<semaphore, posts, limit, exit_status, buffer>>

\* main returns and handle_exit destroys the semaphores: nothing else runs.
\* With a limit, threads may be in the middle of anything.
MainReturns ==
  /\ Running
  /\ IF limit
       THEN \A t \in Threads : pc[t] # "none"
       ELSE \A t \in Threads : pc[t] = "left" /\ posts[t] = NoPosts
  /\ exit_status' = "success"
  /\ UNCHANGED <<semaphore, pc, posts, limit, buffer>>

Main == MainReturns \/ \E t \in Threads : CreateThread(t)

Exited == ~Running /\ UNCHANGED vars

Next ==
  \/ \E p \in Producers : Producer(p)
  \/ \E c \in Consumers : Consumer(c)
  \/ Main
  \/ Exited

\* Every thread that can take a step is scheduled in the end.  Nothing is
\* assumed of the order in which the permits of a semaphore are granted.
Fairness ==
  /\ \A p \in Producers : WF_vars(Producer(p))
  /\ \A c \in Consumers : WF_vars(Consumer(c))
  /\ WF_vars(Main)

Spec == Init /\ [][Next]_vars /\ Fairness

-----------------------------------------------------------------------------
TypeOK ==
  /\ limit \in BOOLEAN
  /\ semaphore \in [Semaphores -> Nat]
  /\ queue \in [0 .. QueueSize - 1 -> Lines \cup {NoLine}]
  /\ queue_head \in Nat
  /\ queue_tail \in Nat
  /\ finished \in BOOLEAN
  /\ position \in 1 .. LineCount + 1
  /\ stdout \in Printouts
  /\ pc \in [Threads -> Locations]
  /\ posts \in [Threads -> PostSequences]
  /\ exit_status \in {"running", "success", "failure"}

\* The exit(1) of queue_push ("Queue size exceeded!") is never reached: the
\* permits alone, with no look at the queue, keep producers out of a full one.
NoOverflow == exit_status # "failure"

\* Permits never get lost or forged, at any point between two posts.
Owes(t, s) == \E i \in DOMAIN posts[t] : posts[t][i] = s
Claims(t, s) ==
  \/ Owes(t, s)
  \/ /\ pc[t] \in {"permitted", "inside"}
     /\ s = IF t \in Producers THEN "empty" ELSE "filled"

\* A permit is in the semaphore or with a thread that claims it; the permits
\* to push and the queued lines together make up the slots, and after the end
\* of the input the threads share exactly what each producer that met it added.
PermitsConserved ==
  LET Permits(s) == semaphore[s] + Cardinality({t \in Threads : Claims(t, s)})
      Met        == Cardinality({p \in Producers : pc[p] = "left"})
  IN  /\ Permits("empty") + queue_length = QueueSize
      /\ Permits("filled") = queue_length + Met
      /\ semaphore["queue"] +
           Cardinality({t \in Threads : pc[t] = "inside" \/ Owes(t, "queue")}) = 1

\* The permits keep the promise that queue_push checks.
PermitsGuardQueue == PermitsConserved /\ NoOverflow

\* The queue is a first-in first-out channel: see LineChannel.
Channel ==
  INSTANCE LineChannel WITH
    Writers   <- Producers,
    Readers   <- Consumers,
    Capacity  <- QueueSize,
    LineCount <- LineCount,
    Selected  <- {line \in Lines : Printed(line)},
    written   <- queue_tail,
    taken     <- queue_head,
    exhausted <- finished,
    out       <- stdout,
    present   <- {t \in Threads : pc[t] # "left"},
    stopped   <- exit_status # "running"

\* Every step of the program is a step of the channel, or none of its: in
\* particular a consumer that finds the queue empty is always right to leave.
ImplementsChannel == Channel!Spec

\* Without a time limit every thread gets the permits it needs to finish.
AllFinish ==
  ~limit ~> (exit_status = "success" /\ queue_head = LineCount)
=============================================================================

------------------------- MODULE MutexBufferProofs --------------------------
(***************************************************************************)
(* Proofs about MutexBuffer, for any number of producers and consumers,    *)
(* any queue size and any input.                                           *)
(*                                                                         *)
(* What makes the program correct is spread over the mutex, the counters   *)
(* and the places of the threads; IInv collects it.  Its parts are named   *)
(* so that each step of a proof can cite those it needs.                   *)
(***************************************************************************)
EXTENDS MutexBuffer, CommonLemmas

USE ThreadsAssumption, BoundsAssumption DEF Threads

\* The mutex has the owner that the places of the threads say it has.
Mutex == \A t \in Threads : pc[t] = "locked" <=> mutex_queue = t

\* The counters frame a stretch of the file at most as long as the queue, and
\* the file has been read up to the tail.
Counters ==
  /\ queue_head <= queue_tail
  /\ queue_tail <= queue_head + QueueSize
  /\ queue_tail = position - 1

\* The slot of every line between head and tail holds that line.
Ring == \A l \in queue_head + 1 .. queue_tail : queue[(l - 1) % QueueSize] = l

\* Who sees the end of the input, and what is left to do then.
EndOfInput ==
  /\ finished => position > LineCount
  /\ \A t \in Threads : pc[t] = "left" => finished
  /\ \A c \in Consumers : pc[c] = "left" => queue_length = 0

\* stdout holds the selected lines among those popped, in the order of the file.
Output ==
  /\ \A i \in 1 .. Len(stdout) : Printed(stdout[i]) /\ stdout[i] <= queue_head
  /\ \A i, j \in 1 .. Len(stdout) : i < j => stdout[i] < stdout[j]
  /\ \A l \in 1 .. queue_head : Printed(l) => \E i \in 1 .. Len(stdout) : stdout[i] = l

\* The exit(1) of queue_push is not taken: produce has tested the queue.
NoFailure == exit_status # "failure"

IInv ==
  /\ TypeOK /\ Mutex /\ Counters /\ Ring /\ EndOfInput
  /\ SleepersHaveReason /\ NoFailure /\ Output

-----------------------------------------------------------------------------
(* Lemmas about the operators.                                             *)

LEMMA LineCountType == LineCount \in Nat
  BY InputAssumption DEF LineCount

\* queue_pop returns the line after the last one popped.
LEMMA FirstIsNext ==
  ASSUME TypeOK, Counters, Ring, queue_length # 0
  PROVE  queue_first = queue_head + 1 /\ queue_head + 1 \in Lines
<1>1. queue_head + 1 \in queue_head + 1 .. queue_tail
  BY DEF TypeOK, Counters, queue_length
<1>2. PICK l \in queue_head + 1 .. queue_tail : l = queue_head + 1
  BY <1>1
<1>3. queue[(l - 1) % QueueSize] = l /\ l - 1 = queue_head
  BY <1>2 DEF Ring, TypeOK
<1> QED
  BY <1>1, <1>2, <1>3, LineCountType DEF queue_first, TypeOK, Counters, Lines

\* queue_push in a queue that is not full keeps the lines already queued.
LEMMA PushKeepsRing ==
  ASSUME TypeOK, Counters, Ring, ~QueueFull, queue_push(position)
  PROVE  Ring'
<1>1. /\ queue' = [queue EXCEPT ![queue_tail % QueueSize] = queue_tail + 1]
      /\ queue_tail' = queue_tail + 1 /\ queue_head' = queue_head
  BY DEF queue_push, QueueFull, queue_length, TypeOK, Counters
<1> SUFFICES ASSUME NEW l \in queue_head + 1 .. queue_tail + 1
             PROVE  queue'[(l - 1) % QueueSize] = l
  BY <1>1 DEF Ring
<1>2. l - 1 \in Nat /\ l - 1 <= queue_tail /\ queue_tail \in Nat /\ queue_tail < l - 1 + QueueSize
  BY DEF TypeOK, QueueFull, queue_length, Counters
<1>3. ((l - 1) % QueueSize) \in 0 .. QueueSize - 1
  BY <1>2, Division
<1>4. CASE l = queue_tail + 1
  <2>1. l - 1 = queue_tail
    BY <1>2, <1>4
  <2> QED
    BY <1>1, <1>3, <1>4, <2>1 DEF TypeOK
<1>5. CASE l # queue_tail + 1
  <2>1. l - 1 < queue_tail
    BY <1>2, <1>5
  <2>2. ((l - 1) % QueueSize) # (queue_tail % QueueSize)
    BY <1>2, <2>1, DistinctSlots
  <2>3. queue[(l - 1) % QueueSize] = l
    BY <1>2, <2>1 DEF Ring, TypeOK
  <2> QED
    BY <1>1, <1>3, <2>2, <2>3 DEF TypeOK
<1> QED
  BY <1>4, <1>5

\* main starts with nothing popped and nothing printed.
LEMMA EmptyPrintout ==
  ASSUME stdout = NothingPrinted, queue_head = 0
  PROVE  stdout \in Printouts /\ Output
BY DEF NothingPrinted, Printouts, Output

\* Printing the next line, if it is selected, keeps the output in order.
LEMMA PrintEffect ==
  ASSUME stdout \in Printouts, queue_head \in Nat, Output,
         queue_head + 1 \in Lines, queue_head' = queue_head + 1,
         stdout' = Emit(stdout, queue_head + 1)
  PROVE  stdout' \in Printouts /\ Output'
<1> USE DEF Emit, Printouts
<1>1. stdout' \in Printouts
  BY AppendProperties
<1>2. CASE Printed(queue_head + 1)
  <2>1. /\ Len(stdout') = Len(stdout) + 1 /\ Len(stdout) \in Nat
        /\ \A i \in 1 .. Len(stdout) : stdout'[i] = stdout[i] /\ stdout[i] \in Nat
        /\ stdout'[Len(stdout) + 1] = queue_head + 1
    BY <1>2, AppendProperties, LineCountType DEF Lines
  <2>2. \A i \in 1 .. Len(stdout') : Printed(stdout'[i]) /\ stdout'[i] <= queue_head'
    BY <1>2, <2>1 DEF Output
  <2>3. \A i, j \in 1 .. Len(stdout') : i < j => stdout'[i] < stdout'[j]
    BY <2>1 DEF Output
  <2>4. \A l \in 1 .. queue_head' : Printed(l) => \E i \in 1 .. Len(stdout') : stdout'[i] = l
    BY <2>1 DEF Output
  <2> QED
    BY <1>1, <2>2, <2>3, <2>4 DEF Output
<1>3. CASE ~Printed(queue_head + 1)
  <2>1. stdout' = stdout
    BY <1>3
  <2>2. Len(stdout) \in Nat /\ \A i \in 1 .. Len(stdout) : stdout[i] \in Nat
    BY LineCountType DEF Lines
  <2> QED
    BY <1>1, <1>3, <2>1, <2>2 DEF Output
<1> QED
  BY <1>2, <1>3

-----------------------------------------------------------------------------
(* The invariant.                                                          *)

LEMMA InitInvariant == Init => IInv
<1> SUFFICES ASSUME Init PROVE IInv
  OBVIOUS
<1> USE DEF Init
<1>1. TypeOK
  <2>1. stdout \in Printouts
    BY EmptyPrintout
  <2>2. queue \in [0 .. QueueSize - 1 -> Lines \cup {NoLine}]
    OBVIOUS
  <2>3. pc \in [Threads -> Locations]
    BY DEF Locations
  <2>4. position \in 1 .. LineCount + 1 /\ spurious \in 0 .. MaxSpurious
    BY LineCountType
  <2> QED
    BY <2>1, <2>2, <2>3, <2>4 DEF TypeOK
<1>2. Mutex /\ Counters /\ Ring /\ EndOfInput
  BY DEF Mutex, Counters, Ring, EndOfInput
<1>3. SleepersHaveReason /\ NoFailure
  BY DEF SleepersHaveReason, NoFailure
<1>4. Output
  BY EmptyPrintout
<1> QED
  BY <1>1, <1>2, <1>3, <1>4 DEF IInv

\* What a step that leaves the queue, the file and stdout alone preserves.
LEMMA DataUnchanged ==
  ASSUME IInv,
         UNCHANGED <<queue, queue_head, queue_tail, finished, position, stdout>>
  PROVE  Counters' /\ Ring' /\ Output'
<1>1. Counters' /\ Ring'
  BY DEF IInv, Counters, Ring
<1>2. Output'
  BY DEF IInv, Output
<1> QED
  BY <1>1, <1>2

\* The steps that only move threads and the mutex: everything but the mutex
\* itself, and what the waiting and the leaving threads rely on, is untouched.
LEMMA LockPreserves ==
  ASSUME IInv, NEW t \in Threads, Lock(t)
  PROVE  IInv'
<1> USE DEF IInv, Lock, environment
<1>1. TypeOK'
  BY DEF TypeOK, Locations
<1>2. Mutex'
  BY DEF TypeOK, Mutex
<1>3. EndOfInput' /\ SleepersHaveReason' /\ NoFailure'
  BY DEF TypeOK, EndOfInput, SleepersHaveReason, NoFailure, QueueFull,
         NothingYet, queue_length
<1> QED
  BY <1>1, <1>2, <1>3, DataUnchanged

LEMMA WaitPreserves ==
  ASSUME IInv, NEW t \in Threads, Holds(t), Wait(t),
         t \in Producers => QueueFull, t \in Consumers => NothingYet
  PROVE  IInv'
<1> USE DEF IInv, Holds, Wait, environment
<1>1. TypeOK'
  BY DEF TypeOK, Locations
<1>2. Mutex'
  BY DEF TypeOK, Mutex
<1>3. EndOfInput' /\ NoFailure'
  BY DEF TypeOK, EndOfInput, NoFailure, queue_length
<1>4. SleepersHaveReason'
  BY DEF TypeOK, SleepersHaveReason, QueueFull, NothingYet, queue_length
<1> QED
  BY <1>1, <1>2, <1>3, <1>4, DataUnchanged

LEMMA WakeupPreserves ==
  ASSUME IInv, NEW t \in Threads, SpuriousWakeup(t) \/ CreateThread(t)
  PROVE  IInv'
<1> USE DEF IInv, SpuriousWakeup, CreateThread, environment
<1>1. TypeOK'
  BY DEF TypeOK, Locations
<1>2. Mutex'
  BY DEF TypeOK, Mutex
<1>3. EndOfInput' /\ SleepersHaveReason' /\ NoFailure'
  BY DEF TypeOK, EndOfInput, SleepersHaveReason, NoFailure, QueueFull,
         NothingYet, queue_length
<1> QED
  BY <1>1, <1>2, <1>3, DataUnchanged

LEMMA ExitPreserves ==
  ASSUME IInv, TimeLimitReached \/ AllJoined \/ UNCHANGED vars
  PROVE  IInv'
<1> USE DEF IInv, TimeLimitReached, AllJoined, vars
<1>1. TypeOK' /\ Mutex'
  BY DEF TypeOK, Mutex
<1>2. EndOfInput' /\ SleepersHaveReason' /\ NoFailure'
  BY DEF TypeOK, EndOfInput, SleepersHaveReason, NoFailure, QueueFull,
         NothingYet, queue_length
<1> QED
  BY <1>1, <1>2, DataUnchanged

LEMMA ConsumerLeavesPreserves ==
  ASSUME IInv, NEW c \in Consumers, ConsumerLeaves(c)
  PROVE  IInv'
<1> USE DEF IInv, ConsumerLeaves, Holds, environment
<1>1. TypeOK'
  BY DEF TypeOK, Locations
<1>2. Mutex'
  BY DEF TypeOK, Mutex
<1>3. SleepersHaveReason' /\ NoFailure'
  BY DEF TypeOK, SleepersHaveReason, NoFailure, QueueFull, NothingYet, queue_length
<1>4. EndOfInput'
  BY DEF TypeOK, EndOfInput, NothingYet, queue_length
<1> QED
  BY <1>1, <1>2, <1>3, <1>4, DataUnchanged

\* After a broadcast nobody sleeps: what the sleepers relied on may change.
LEMMA BroadcastEffect ==
  ASSUME IInv, NEW t \in Threads, Holds(t),
         NEW location \in {"ready", "left"}, BroadcastAndUnlock(t, location)
  PROVE  /\ pc' \in [Threads -> Locations]
         /\ mutex_queue' \in Threads \cup {NoThread}
         /\ Mutex'
         /\ SleepersHaveReason'
         /\ \A u \in Threads : pc'[u] = "left" => (u = t /\ location = "left") \/ pc[u] = "left"
<1> USE DEF IInv, Holds, BroadcastAndUnlock, Woken
<1>1. pc' \in [Threads -> Locations] /\ mutex_queue' \in Threads \cup {NoThread}
  BY DEF TypeOK, Locations
<1>2. Mutex'
  BY DEF TypeOK, Mutex
<1>3. \A u \in Threads : pc'[u] # "waiting"
  OBVIOUS
<1>4. SleepersHaveReason'
  BY <1>3 DEF SleepersHaveReason
<1>5. \A u \in Threads : pc'[u] = "left" => (u = t /\ location = "left") \/ pc[u] = "left"
  OBVIOUS
<1> QED
  BY <1>1, <1>2, <1>4, <1>5

LEMMA EncounterEOFPreserves ==
  ASSUME IInv, NEW p \in Producers, EncounterEOF(p)
  PROVE  IInv'
<1> USE DEF IInv, EncounterEOF, environment
<1>1. TypeOK' /\ Mutex' /\ SleepersHaveReason'
  BY BroadcastEffect DEF TypeOK, BroadcastAndUnlock
<1>2. Counters' /\ Ring' /\ NoFailure'
  BY DEF Counters, Ring, NoFailure
<1>3. EndOfInput'
  BY BroadcastEffect DEF EndOfInput, queue_length
<1>4. Output'
  BY DEF Output
<1> QED
  BY <1>1, <1>2, <1>3, <1>4

LEMMA ProducePreserves ==
  ASSUME IInv, NEW p \in Producers, Produce(p)
  PROVE  IInv'
<1> USE DEF IInv, Produce
<1>1. /\ queue' = [queue EXCEPT ![queue_tail % QueueSize] = position]
      /\ queue_tail' = queue_tail + 1 /\ queue_head' = queue_head
      /\ exit_status' = exit_status
  BY DEF queue_push, QueueFull
<1>2. position \in Lines
  BY LineCountType DEF TypeOK, Lines
<1>3. TypeOK'
  <2>1. queue' \in [0 .. QueueSize - 1 -> Lines \cup {NoLine}]
    BY <1>1, <1>2 DEF TypeOK
  <2>2. position' \in 1 .. LineCount + 1 /\ queue_tail' \in Nat
    BY <1>1, LineCountType DEF TypeOK
  <2> QED
    BY <1>1, <2>1, <2>2, BroadcastEffect DEF TypeOK, BroadcastAndUnlock, environment
<1>4. Mutex' /\ SleepersHaveReason' /\ NoFailure'
  BY <1>1, BroadcastEffect DEF NoFailure
<1>5. Counters'
  BY <1>1 DEF TypeOK, Counters, QueueFull, queue_length
<1>6. Ring'
  BY PushKeepsRing
<1>7. EndOfInput'
  <2>1. ~finished /\ \A t \in Threads : pc[t] # "left"
    BY LineCountType DEF TypeOK, EndOfInput
  <2> QED
    BY <2>1, BroadcastEffect DEF EndOfInput
<1>8. Output'
  BY <1>1 DEF Output
<1> QED
  BY <1>3, <1>4, <1>5, <1>6, <1>7, <1>8

LEMMA ConsumePreserves ==
  ASSUME IInv, NEW c \in Consumers, Consume(c)
  PROVE  IInv'
<1> USE DEF IInv, Consume, queue_pop
<1>1. queue_first = queue_head + 1 /\ queue_head + 1 \in Lines /\ queue_first \in Lines
  BY FirstIsNext
<1>2. queue_head' = queue_head + 1 /\ queue_head' \in Nat /\ queue_head' <= queue_tail
  BY DEF TypeOK, Counters, queue_length
<1>3. stdout' \in Printouts /\ Output'
  <2>1. stdout \in Printouts /\ queue_head \in Nat
    BY DEF TypeOK
  <2> QED
    BY <1>1, <1>2, <2>1, PrintEffect
<1>4. TypeOK'
  BY <1>2, <1>3, BroadcastEffect DEF TypeOK, BroadcastAndUnlock, environment
<1>5. Mutex' /\ SleepersHaveReason' /\ NoFailure'
  BY BroadcastEffect DEF NoFailure
<1>6. Counters' /\ Ring'
  BY <1>2 DEF TypeOK, Counters, Ring
<1>7. EndOfInput'
  BY BroadcastEffect, <1>2 DEF EndOfInput, queue_length, TypeOK, Counters
<1> QED
  BY <1>3, <1>4, <1>5, <1>6, <1>7

LEMMA NextInvariant == IInv /\ [Next]_vars => IInv'
<1> SUFFICES ASSUME IInv, [Next]_vars PROVE IInv'
  OBVIOUS
<1>1. ASSUME NEW p \in Producers, Producer(p) PROVE IInv'
  BY <1>1, LockPreserves, WaitPreserves, EncounterEOFPreserves, ProducePreserves
     DEF Producer, WaitForSlot
<1>2. ASSUME NEW c \in Consumers, Consumer(c) PROVE IInv'
  BY <1>2, LockPreserves, WaitPreserves, ConsumerLeavesPreserves, ConsumePreserves
     DEF Consumer, WaitForLine
<1>3. ASSUME NEW t \in Threads, SpuriousWakeup(t) PROVE IInv'
  BY <1>3, WakeupPreserves
<1>4. CASE Main
  BY <1>4, WakeupPreserves, ExitPreserves DEF Main
<1>5. CASE Exited \/ UNCHANGED vars
  BY <1>5, ExitPreserves DEF Exited
<1> QED
  BY <1>1, <1>2, <1>3, <1>4, <1>5 DEF Next

\* IInv holds in every reachable state of the program.
THEOREM Invariance == Spec => []IInv
  BY InitInvariant, NextInvariant, PTL DEF Spec

-----------------------------------------------------------------------------
(* The properties.                                                         *)

\* Every variable keeps its type: in particular no line behind the end of the
\* file is ever read, and nothing that is not a line is printed.
THEOREM TypeCorrectness == Spec => []TypeOK
<1>1. IInv => TypeOK
  BY DEF IInv
<1> QED
  BY <1>1, Invariance, PTL

\* No wake-up is ever lost on the condition variable that producers and
\* consumers share, whatever the threads and however they interleave.
THEOREM NoLostWakeup == Spec => []SleepersHaveReason
<1>1. IInv => SleepersHaveReason
  BY DEF IInv
<1> QED
  BY <1>1, Invariance, PTL

\* The program prints the lines the user asked for, once and in order.
THEOREM OutputIsFaithful == Spec => []OutputFaithful
<1>1. ASSUME IInv PROVE OutputFaithful
  <2> SUFFICES ASSUME LastTerminated PROVE OutputFaithful
    BY DEF OutputFaithful
  <2>1. \A l \in Lines : Printed(l) <=> l \in Wanted
    BY DEF Printed, Wanted, StoredLength, LineLength
  <2>2. /\ Len(stdout) \in Nat /\ DOMAIN stdout = 1 .. Len(stdout)
        /\ \A i \in DOMAIN stdout : stdout[i] \in Lines
    <3>1. stdout \in Printouts
      BY <1>1 DEF IInv, TypeOK
    <3> QED
      BY <3>1 DEF Printouts
  <2>3. queue_head \in Nat /\ queue_head <= LineCount
    BY <1>1, LineCountType DEF IInv, TypeOK, Counters
  <2>4. {stdout[i] : i \in DOMAIN stdout} \subseteq {l \in Wanted : l <= queue_head}
    BY <1>1, <2>1, <2>2 DEF IInv, Output
  <2>5. {l \in Wanted : l <= queue_head} \subseteq {stdout[i] : i \in DOMAIN stdout}
    <3> SUFFICES ASSUME NEW l \in Wanted, l <= queue_head
                 PROVE  \E i \in DOMAIN stdout : stdout[i] = l
      OBVIOUS
    <3>1. l \in Lines /\ l \in 1 .. queue_head
      BY <2>3, LineCountType DEF Wanted, Lines
    <3> QED
      BY <1>1, <2>1, <2>2, <3>1 DEF IInv, Output
  <2> QED
    BY <1>1, <2>2, <2>4, <2>5 DEF OutputFaithful, IInv, Output
<1> QED
  BY <1>1, Invariance, PTL

-----------------------------------------------------------------------------
(* The program implements the channel.                                     *)

LEMMA InitRefines == Init => Channel!Init
<1> SUFFICES ASSUME Init PROVE Channel!Init
  OBVIOUS
<1>1. Threads = {t \in Threads : pc[t] # "left"}
  BY DEF Init
<1>2. /\ queue_tail = 0 /\ queue_head = 0 /\ finished = FALSE
      /\ stdout = NothingPrinted /\ exit_status = "running"
  BY DEF Init
<1> QED
  BY <1>1, <1>2 DEF NothingPrinted, Channel!Init

LEMMA StepRefines ==
  ASSUME IInv, IInv', [Next]_vars
  PROVE  [Channel!Next]_(Channel!vars)
<1> USE DEF Channel!vars, Channel!Next
<1>1. ASSUME NEW p \in Producers, Produce(p) PROVE Channel!Write
  <2>1. /\ queue_tail' = queue_tail + 1 /\ queue_head' = queue_head
        /\ exit_status' = exit_status
    BY <1>1 DEF Produce, queue_push, QueueFull
  <2>2. {t \in Threads : pc[t] # "left"}' = {t \in Threads : pc[t] # "left"}
    BY <1>1 DEF Produce, BroadcastAndUnlock, Woken, Holds
  <2>3. queue_tail < LineCount /\ queue_tail - queue_head < QueueSize
    BY <1>1, LineCountType DEF Produce, IInv, TypeOK, Counters, QueueFull, queue_length
  <2> QED
    BY <1>1, <2>1, <2>2, <2>3 DEF Produce, Holds, Running, Channel!Write
<1>2. ASSUME NEW p \in Producers, EncounterEOF(p) PROVE Channel!WriterLeaves(p)
  <2>1. {t \in Threads : pc[t] # "left"}' = {t \in Threads : pc[t] # "left"} \ {p}
    BY <1>2 DEF EncounterEOF, BroadcastAndUnlock, Woken, Holds
  <2>2. queue_tail = LineCount
    BY <1>2, LineCountType DEF EncounterEOF, IInv, TypeOK, Counters
  <2> QED
    BY <1>2, <2>1, <2>2 DEF EncounterEOF, Holds, Running, Channel!WriterLeaves
<1>3. ASSUME NEW c \in Consumers, Consume(c) PROVE Channel!Take
  <2>1. queue_first = queue_head + 1 /\ queue_head + 1 \in Lines
    BY <1>3, FirstIsNext DEF IInv, Consume
  <2>2. {t \in Threads : pc[t] # "left"}' = {t \in Threads : pc[t] # "left"}
    BY <1>3 DEF Consume, BroadcastAndUnlock, Woken, Holds
  <2>3. queue_head < queue_tail
    BY <1>3 DEF Consume, IInv, TypeOK, Counters, queue_length
  <2> QED
    BY <1>3, <2>1, <2>2, <2>3 DEF Consume, queue_pop, Emit, Holds, Running, Channel!Take
<1>4. ASSUME NEW c \in Consumers, ConsumerLeaves(c) PROVE Channel!ReaderLeaves(c)
  <2>1. {t \in Threads : pc[t] # "left"}' = {t \in Threads : pc[t] # "left"} \ {c}
    BY <1>4 DEF ConsumerLeaves, Holds, IInv, TypeOK
  <2>2. finished /\ queue_head = queue_tail
    BY <1>4 DEF ConsumerLeaves, NothingYet, queue_length, IInv, TypeOK
  <2> QED
    BY <1>4, <2>1, <2>2 DEF ConsumerLeaves, Holds, Running, Channel!ReaderLeaves
<1>5. ASSUME TimeLimitReached \/ AllJoined PROVE Channel!Stop
  BY <1>5 DEF TimeLimitReached, AllJoined, Channel!Stop
<1>6. ASSUME NEW t \in Threads,
             \/ Lock(t) \/ SpuriousWakeup(t) \/ CreateThread(t)
             \/ Holds(t) /\ Wait(t)
      PROVE UNCHANGED Channel!vars
  <2>1. {u \in Threads : pc[u] # "left"}' = {u \in Threads : pc[u] # "left"}
    BY <1>6 DEF Lock, SpuriousWakeup, CreateThread, Holds, Wait, IInv, TypeOK
  <2> QED
    BY <1>6, <2>1 DEF Lock, SpuriousWakeup, CreateThread, Wait
<1>7. ASSUME UNCHANGED vars PROVE UNCHANGED Channel!vars
  BY <1>7 DEF vars
<1>8. ASSUME NEW p \in Producers, Producer(p) PROVE [Channel!Next]_(Channel!vars)
  BY <1>1, <1>2, <1>6, <1>8 DEF Producer, WaitForSlot
<1>9. ASSUME NEW c \in Consumers, Consumer(c) PROVE [Channel!Next]_(Channel!vars)
  BY <1>3, <1>4, <1>6, <1>9 DEF Consumer, WaitForLine
<1> QED
  BY <1>5, <1>6, <1>7, <1>8, <1>9 DEF Next, Main, Exited

\* Every behaviour of the program is a behaviour of the first-in first-out
\* channel, with as many threads and slots as there are.
THEOREM Refinement == Spec => ImplementsChannel
  BY InitRefines, StepRefines, Invariance, PTL DEF Spec, ImplementsChannel, Channel!Spec
=============================================================================

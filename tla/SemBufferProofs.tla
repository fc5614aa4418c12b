-------------------------- MODULE SemBufferProofs ---------------------------
(***************************************************************************)
(* Proofs about SemBuffer, for any number of producers and consumers, any  *)
(* queue size and any input.                                               *)
(*                                                                         *)
(* The program never looks whether its queue is full, nor whether its      *)
(* input has ended when a consumer finds the queue empty: both rest on     *)
(* counting permits.  So do the proofs: each step changes by one at most   *)
(* the number of threads that claim a permit, and CountChange says by how  *)
(* much.                                                                   *)
(***************************************************************************)
EXTENDS SemBuffer, CommonLemmas

USE ThreadsAssumption, QueueSizeAssumption DEF Threads

\* What can be left of the posts of a thread.
PostSuffixes ==
  {NoPosts, <<"queue">>, <<"filled", "queue">>, <<"empty", "queue">>,
   <<"filled", "empty", "queue">>}

Has(sequence, s) == \E i \in DOMAIN sequence : sequence[i] = s

\* A thread makes its posts after a critical section, before anything else.
Posting ==
  \A t \in Threads :
    /\ posts[t] \in PostSuffixes
    /\ pc[t] \notin {"ready", "left"} => posts[t] = NoPosts

\* The threads whose claims PermitsConserved counts.
Claimers(s) == {t \in Threads : Claims(t, s)}
Entered == {t \in Threads : pc[t] = "inside" \/ Owes(t, "queue")}
Gone == {p \in Producers : pc[p] = "left"}

Permits ==
  /\ semaphore["empty"] + Cardinality(Claimers("empty")) + queue_length = QueueSize
  /\ semaphore["filled"] + Cardinality(Claimers("filled")) = queue_length + Cardinality(Gone)
  /\ semaphore["queue"] + Cardinality(Entered) = 1

\* The file has been read up to the tail.
Counters == queue_head <= queue_tail /\ queue_tail = position - 1

\* The slot of every line between head and tail holds that line.
Ring ==
  \A n \in Nat : queue_head <= n /\ n < queue_tail => queue[(n % QueueSize)] = n + 1

\* Producers leave at the end of the input only.
EndOfInput == \A p \in Gone : finished

IInv ==
  /\ TypeOK /\ NoOverflow
  /\ Posting /\ Permits /\ Counters /\ Ring /\ EndOfInput

-----------------------------------------------------------------------------
(* Lemmas about the operators.                                             *)

LEMMA LineCountType == LineCount \in Nat
  BY InputAssumption DEF LineCount

LEMMA NothingIsPrintout == NothingPrinted \in Printouts
  BY DEF Printouts, NothingPrinted

\* What the sequences of posts in the program consist of.
LEMMA Literals ==
  ASSUME NEW s
  PROVE  /\ ~Has(NoPosts, s)
         /\ Has(<<"queue">>, s) <=> s = "queue"
         /\ Has(<<"filled", "queue">>, s) <=> s \in {"filled", "queue"}
         /\ Has(<<"empty", "queue">>, s) <=> s \in {"empty", "queue"}
         /\ Has(<<"filled", "empty", "queue">>, s) <=> s \in Semaphores
BY DEF Has, NoPosts, Semaphores

\* A post is owed once: after it has been made, the rest does not hold it.
LEMMA PostMade ==
  ASSUME NEW sequence \in PostSuffixes, sequence # NoPosts
  PROVE  /\ Head(sequence) \in Semaphores
         /\ Has(sequence, Head(sequence))
         /\ Tail(sequence) \in PostSuffixes
         /\ \A s : Has(Tail(sequence), s) <=> (Has(sequence, s) /\ s # Head(sequence))
<1> USE DEF Semaphores, PostSuffixes, NoPosts
<1>1. CASE sequence = <<"queue">>
  <2>1. Head(sequence) = "queue" /\ Tail(sequence) = <<>>
    BY <1>1
  <2> QED
    BY <1>1, <2>1, Literals
<1>2. CASE sequence = <<"filled", "queue">>
  <2>1. Head(sequence) = "filled" /\ Tail(sequence) = <<"queue">>
    BY <1>2
  <2> QED
    BY <1>2, <2>1, Literals
<1>3. CASE sequence = <<"empty", "queue">>
  <2>1. Head(sequence) = "empty" /\ Tail(sequence) = <<"queue">>
    BY <1>3
  <2> QED
    BY <1>3, <2>1, Literals
<1>4. CASE sequence = <<"filled", "empty", "queue">>
  <2>1. Head(sequence) = "filled" /\ Tail(sequence) = <<"empty", "queue">>
    BY <1>4
  <2> QED
    BY <1>4, <2>1, Literals
<1> QED
  BY <1>1, <1>2, <1>3, <1>4

LEMMA SuffixTypes == PostSuffixes \subseteq PostSequences
  BY DEF PostSuffixes, PostSequences, NoPosts, Semaphores

\* The sets of threads that are counted are finite.
LEMMA FiniteThreads ==
  /\ \A s : IsFiniteSet(Claimers(s)) /\ Cardinality(Claimers(s)) \in Nat
  /\ IsFiniteSet(Entered) /\ Cardinality(Entered) \in Nat
  /\ IsFiniteSet(Gone) /\ Cardinality(Gone) \in Nat
<1>1. \A S : S \subseteq Threads => IsFiniteSet(S) /\ Cardinality(S) \in Nat
  BY FS_Subset, FS_CardinalityType
<1> QED
  BY <1>1 DEF Claimers, Entered, Gone

\* The invariant says of the permits what the property says.
LEMMA PermitsMeaning == PermitsConserved <=> Permits
  BY DEF PermitsConserved, Permits, Claimers, Entered, Gone

LEMMA OwesHas ==
  ASSUME NEW t, NEW s
  PROVE  /\ Owes(t, s) <=> Has(posts[t], s)
         /\ Owes(t, s)' <=> Has(posts'[t], s)
BY DEF Owes, Has

\* A step that moves t alone changes each count by what t gains or gives up.
LEMMA CountChange ==
  ASSUME NEW t \in Threads,
         \A u \in Threads \ {t} : pc'[u] = pc[u] /\ posts'[u] = posts[u]
  PROVE  /\ \A s : Cardinality(Claimers(s)') =
               Cardinality(Claimers(s)) + Count(Claims(t, s)') - Count(Claims(t, s))
         /\ Cardinality(Entered') =
               Cardinality(Entered) + Count(pc'[t] = "inside" \/ Owes(t, "queue")')
                                    - Count(pc[t] = "inside" \/ Owes(t, "queue"))
         /\ Cardinality(Gone') =
               Cardinality(Gone) + Count(t \in Producers /\ pc'[t] = "left")
                                 - Count(t \in Producers /\ pc[t] = "left")
<1>1. \A s : \A u \in Threads \ {t} :
        (Owes(u, s)' <=> Owes(u, s)) /\ (Claims(u, s)' <=> Claims(u, s))
  BY OwesHas DEF Claims
<1>2. ASSUME NEW s
      PROVE  Cardinality(Claimers(s)') =
               Cardinality(Claimers(s)) + Count(Claims(t, s)') - Count(Claims(t, s))
  <2>1. /\ Claimers(s) \ {t} = Claimers(s)' \ {t}
        /\ t \in Claimers(s) <=> Claims(t, s)
        /\ t \in Claimers(s)' <=> Claims(t, s)'
    BY <1>1 DEF Claimers
  <2> QED
    BY <2>1, FiniteThreads, SizeChange DEF Count
<1>3. Cardinality(Entered') =
        Cardinality(Entered) + Count(pc'[t] = "inside" \/ Owes(t, "queue")')
                             - Count(pc[t] = "inside" \/ Owes(t, "queue"))
  <2>1. /\ Entered \ {t} = Entered' \ {t}
        /\ t \in Entered <=> (pc[t] = "inside" \/ Owes(t, "queue"))
        /\ t \in Entered' <=> (pc'[t] = "inside" \/ Owes(t, "queue")')
    BY <1>1 DEF Entered
  <2> QED
    BY <2>1, FiniteThreads, SizeChange DEF Count
<1>4. Cardinality(Gone') =
        Cardinality(Gone) + Count(t \in Producers /\ pc'[t] = "left")
                          - Count(t \in Producers /\ pc[t] = "left")
  <2>1. /\ Gone \ {t} = Gone' \ {t}
        /\ t \in Gone <=> (t \in Producers /\ pc[t] = "left")
        /\ t \in Gone' <=> (t \in Producers /\ pc'[t] = "left")
    BY DEF Gone
  <2> QED
    BY <2>1, FiniteThreads, SizeChange DEF Count
<1> QED
  BY <1>2, <1>3, <1>4

-----------------------------------------------------------------------------
(* The invariant.                                                          *)

LEMMA InitInvariant == Init => IInv
<1> SUFFICES ASSUME Init PROVE IInv
  OBVIOUS
<1> USE DEF Init
<1>1. TypeOK
  <2>1. stdout \in Printouts
    BY NothingIsPrintout
  <2>2. posts \in [Threads -> PostSequences]
    BY SuffixTypes DEF PostSuffixes
  <2>3. queue \in [0 .. QueueSize - 1 -> Lines \cup {NoLine}]
    OBVIOUS
  <2>4. semaphore \in [Semaphores -> Nat] /\ pc \in [Threads -> Locations]
    BY DEF Semaphores, Locations
  <2>5. position \in 1 .. LineCount + 1
    BY LineCountType
  <2> QED
    BY <2>1, <2>2, <2>3, <2>4, <2>5 DEF TypeOK
<1>2. Posting
  BY DEF Posting, PostSuffixes
<1>3. Permits
  <2>1. \A t \in Threads, r \in Semaphores : ~Claims(t, r) /\ ~Owes(t, r)
    BY OwesHas, Literals DEF Claims
  <2>2. Claimers("empty") = {} /\ Claimers("filled") = {} /\ Entered = {} /\ Gone = {}
    BY <2>1 DEF Claimers, Entered, Gone, Semaphores
  <2>3. Cardinality({}) = 0
    BY FS_EmptySet
  <2>4. semaphore["empty"] = QueueSize /\ semaphore["filled"] = 0 /\ semaphore["queue"] = 1
    OBVIOUS
  <2>5. queue_length = 0
    BY DEF queue_length
  <2> HIDE DEF Init
  <2> QED
    BY <2>2, <2>3, <2>4, <2>5 DEF Permits
<1>4. Counters /\ Ring /\ EndOfInput /\ NoOverflow
  BY DEF Counters, Ring, EndOfInput, NoOverflow, Gone
<1> QED
  BY <1>1, <1>2, <1>3, <1>4 DEF IInv

\* What a step that leaves the queue, the file and stdout alone preserves.
LEMMA DataUnchanged ==
  ASSUME IInv, UNCHANGED <<buffer, exit_status>>
  PROVE  Counters' /\ Ring' /\ NoOverflow'
BY DEF IInv, buffer, Counters, Ring, NoOverflow

\* A thread takes a permit to push or to pop, or the one for the critical section.
LEMMA TakePreserves ==
  ASSUME IInv, NEW t \in Threads,
         \/ t \in Producers /\ TakeEmpty(t)
         \/ t \in Consumers /\ TakeFilled(t)
         \/ TakeQueue(t)
  PROVE  IInv'
<1> DEFINE s == IF TakeQueue(t) THEN "queue" ELSE IF t \in Producers THEN "empty" ELSE "filled"
           from == IF TakeQueue(t) THEN "permitted" ELSE "ready"
           to == IF TakeQueue(t) THEN "inside" ELSE "permitted"
<1>1. At(t, from) /\ SemWait(t, s, to)
  BY DEF TakeEmpty, TakeFilled, TakeQueue
<1>2. /\ s \in Semaphores /\ from \in {"ready", "permitted"} /\ to \in {"permitted", "inside"}
      /\ (from = "ready" <=> to = "permitted") /\ (s = "queue" <=> to = "inside")
      /\ (from = "ready" => s = IF t \in Producers THEN "empty" ELSE "filled")
  BY DEF Semaphores
<1> HIDE DEF s, from, to
<1>3. /\ pc[t] = from /\ posts[t] = NoPosts /\ posts' = posts
      /\ pc' = [pc EXCEPT ![t] = to]
      /\ semaphore[s] > 0 /\ semaphore' = [semaphore EXCEPT ![s] = @ - 1]
      /\ UNCHANGED <<limit, exit_status, buffer>>
  BY <1>1 DEF At, SemWait
<1>4. TypeOK'
  BY <1>2, <1>3 DEF IInv, TypeOK, buffer, Locations
<1>5. Posting'
  BY <1>2, <1>3 DEF IInv, TypeOK, Posting
<1>6. Permits'
  <2>1. pc'[t] = to /\ \A u \in Threads \ {t} : pc'[u] = pc[u] /\ posts'[u] = posts[u]
    BY <1>3 DEF IInv, TypeOK
  <2>2. \A r : ~Owes(t, r) /\ ~Owes(t, r)'
    BY <1>3, OwesHas, Literals
  <2>3. semaphore \in [Semaphores -> Nat]
    BY DEF IInv, TypeOK
  <2>4. queue_length' = queue_length /\ queue_length \in Int
    BY <1>3 DEF queue_length, buffer, IInv, TypeOK
  <2> QED
    BY <1>2, <1>3, <2>1, <2>2, <2>3, <2>4, CountChange, FiniteThreads
       DEF IInv, Permits, Claims, Count, Semaphores
<1>7. EndOfInput'
  BY <1>2, <1>3 DEF IInv, TypeOK, EndOfInput, Gone, buffer
<1> QED
  BY <1>3, <1>4, <1>5, <1>6, <1>7, DataUnchanged DEF IInv

\* What the end of a critical section does to the places and the posts: the claims
\* of t are then what it is going to post.
LEMMA PostEffect ==
  ASSUME IInv, NEW t \in Threads, At(t, "inside"),
         NEW sequence \in PostSuffixes, NEW location \in {"ready", "left"},
         PostThenGo(t, sequence, location)
  PROVE  /\ semaphore' = semaphore /\ limit' = limit
         /\ pc' \in [Threads -> Locations] /\ posts' \in [Threads -> PostSequences]
         /\ Posting'
         /\ pc'[t] = location
         /\ \A u \in Threads \ {t} : pc'[u] = pc[u] /\ posts'[u] = posts[u]
         /\ \A s : (Owes(t, s)' <=> Has(sequence, s)) /\ (Claims(t, s)' <=> Has(sequence, s))
         /\ \A s : ~Owes(t, s)
         /\ \A s : Claims(t, s) <=> s = IF t \in Producers THEN "empty" ELSE "filled"
<1> USE DEF IInv, PostThenGo
<1>1. pc \in [Threads -> Locations] /\ posts \in [Threads -> PostSequences]
  BY DEF TypeOK
<1>2. pc[t] = "inside" /\ posts[t] = NoPosts
  BY DEF At
<1>3. pc' \in [Threads -> Locations] /\ posts' \in [Threads -> PostSequences]
  BY <1>1, SuffixTypes DEF Locations
<1>4. /\ pc'[t] = location /\ posts'[t] = sequence
      /\ \A u \in Threads \ {t} : pc'[u] = pc[u] /\ posts'[u] = posts[u]
  BY <1>1
<1>5. Posting'
  BY <1>4 DEF Posting
<1>6. \A s : (Owes(t, s)' <=> Has(sequence, s)) /\ ~Owes(t, s)
  BY <1>2, <1>4, OwesHas, Literals
<1>7. \A s : /\ Claims(t, s)' <=> Has(sequence, s)
             /\ Claims(t, s) <=> s = IF t \in Producers THEN "empty" ELSE "filled"
  BY <1>2, <1>4, <1>6 DEF Claims
<1> QED
  BY <1>3, <1>4, <1>5, <1>6, <1>7

\* A permit that is posted is owed no longer.
LEMMA SemPostPreserves ==
  ASSUME IInv, NEW t \in Threads, SemPost(t)
  PROVE  IInv'
<1> DEFINE h == Head(posts[t])
<1>1. h \in Semaphores /\ Has(posts[t], h) /\ Tail(posts[t]) \in PostSuffixes
      /\ \A s : Has(Tail(posts[t]), s) <=> (Has(posts[t], s) /\ s # h)
  BY PostMade DEF IInv, Posting, SemPost
<1>2. /\ semaphore' = [semaphore EXCEPT ![h] = @ + 1]
      /\ posts[t] # NoPosts
      /\ UNCHANGED <<pc, limit, exit_status, buffer>>
  BY DEF SemPost
<1>3. posts' = [posts EXCEPT ![t] = Tail(posts[t])]
  BY DEF SemPost
<1>4. posts' \in [Threads -> PostSequences] /\ posts'[t] = Tail(posts[t])
      /\ \A u \in Threads \ {t} : pc'[u] = pc[u] /\ posts'[u] = posts[u]
  <2>1. posts \in [Threads -> PostSequences]
    BY DEF IInv, TypeOK
  <2> QED
    BY <1>1, <1>2, <1>3, <2>1, SuffixTypes
<1>5. pc[t] \in {"ready", "left"} /\ pc'[t] = pc[t]
  BY <1>2 DEF IInv, Posting
<1>6. Posting'
  BY <1>1, <1>2, <1>4, <1>5 DEF IInv, Posting
<1>7. \A s : /\ Owes(t, s)' <=> (Owes(t, s) /\ s # h)
             /\ Claims(t, s) <=> Owes(t, s)
             /\ Claims(t, s)' <=> (Owes(t, s) /\ s # h)
  BY <1>1, <1>4, <1>5, OwesHas DEF Claims
<1>8. Owes(t, h)
  BY <1>1, OwesHas
<1> HIDE DEF h
<1>9. TypeOK'
  BY <1>1, <1>2, <1>4 DEF IInv, TypeOK, buffer
<1>10. Permits'
  <2>1. semaphore \in [Semaphores -> Nat]
    BY DEF IInv, TypeOK
  <2>2. queue_length' = queue_length /\ queue_length \in Int
    BY <1>2 DEF queue_length, buffer, IInv, TypeOK
  <2>3. /\ \A s : Cardinality(Claimers(s)') = Cardinality(Claimers(s)) - Count(s = h)
        /\ Cardinality(Entered') = Cardinality(Entered) - Count("queue" = h)
        /\ Cardinality(Gone') = Cardinality(Gone)
    BY <1>4, <1>5, <1>7, <1>8, CountChange, FiniteThreads DEF Count
  <2>4. /\ \A s \in Semaphores : semaphore'[s] = semaphore[s] + Count(s = h)
        /\ \A s \in Semaphores : semaphore[s] \in Nat
    BY <1>1, <1>2, <2>1 DEF Count
  <2>5. "empty" \in Semaphores /\ "filled" \in Semaphores /\ "queue" \in Semaphores
    BY DEF Semaphores
  <2> QED
    BY <2>2, <2>3, <2>4, <2>5, FiniteThreads DEF IInv, Permits, Count
<1>11. EndOfInput'
  BY <1>2 DEF IInv, EndOfInput, Gone, buffer
<1> QED
  BY <1>2, <1>6, <1>9, <1>10, <1>11, DataUnchanged DEF IInv

LEMMA CreateThreadPreserves ==
  ASSUME IInv, NEW t \in Threads, CreateThread(t)
  PROVE  IInv'
<1>1. /\ pc[t] = "none" /\ pc' = [pc EXCEPT ![t] = "ready"]
      /\ UNCHANGED <<semaphore, posts, limit, exit_status, buffer>>
  BY DEF CreateThread
<1>2. TypeOK' /\ Posting'
  BY <1>1 DEF IInv, TypeOK, Posting, Locations, buffer
<1>3. Permits'
  <2>1. pc \in [Threads -> Locations]
    BY DEF IInv, TypeOK
  <2>2. \A u \in Threads :
          /\ pc'[u] = "inside" <=> pc[u] = "inside"
          /\ pc'[u] = "left" <=> pc[u] = "left"
          /\ pc'[u] \in {"permitted", "inside"} <=> pc[u] \in {"permitted", "inside"}
    BY <1>1, <2>1
  <2>3. \A u, s : Owes(u, s)' <=> Owes(u, s)
    BY <1>1, OwesHas
  <2>4. /\ Claimers("empty")' = Claimers("empty") /\ Claimers("filled")' = Claimers("filled")
        /\ Entered' = Entered /\ Gone' = Gone
    BY <1>1, <2>2, <2>3 DEF Claimers, Claims, Entered, Gone
  <2> QED
    BY <1>1, <2>4 DEF IInv, Permits, queue_length, buffer
<1>4. EndOfInput'
  BY <1>1 DEF IInv, TypeOK, EndOfInput, Gone, buffer
<1> QED
  BY <1>1, <1>2, <1>3, <1>4, DataUnchanged DEF IInv

LEMMA MainReturnsPreserves ==
  ASSUME IInv, MainReturns \/ UNCHANGED vars
  PROVE  IInv'
<1>1. /\ UNCHANGED <<semaphore, pc, posts, limit, buffer>>
      /\ exit_status' = "success" \/ exit_status' = exit_status
  BY DEF MainReturns, vars, buffer
<1>2. TypeOK' /\ NoOverflow'
  BY <1>1 DEF IInv, TypeOK, NoOverflow, buffer
<1>3. Posting' /\ Counters' /\ Ring' /\ EndOfInput'
  BY <1>1 DEF IInv, Posting, Counters, Ring, EndOfInput, Gone, buffer
<1>4. Permits'
  <2>1. \A u, s : Owes(u, s)' <=> Owes(u, s)
    BY <1>1, OwesHas
  <2>2. /\ Claimers("empty")' = Claimers("empty") /\ Claimers("filled")' = Claimers("filled")
        /\ Entered' = Entered /\ Gone' = Gone
    BY <1>1, <2>1 DEF Claimers, Claims, Entered, Gone
  <2> QED
    BY <1>1, <2>2 DEF IInv, Permits, queue_length, buffer
<1> QED
  BY <1>2, <1>3, <1>4 DEF IInv

\* A producer at the end of the input keeps its permit to push for the next one, and
\* adds one to pop: the producers that have gone count it.
LEMMA EncounterEOFPreserves ==
  ASSUME IInv, NEW p \in Producers, EncounterEOF(p)
  PROVE  IInv'
<1> DEFINE sequence == <<"filled", "empty", "queue">>
<1>1. At(p, "inside") /\ PostThenGo(p, sequence, "left") /\ sequence \in PostSuffixes
  BY DEF EncounterEOF, PostSuffixes
<1>2. \A s : Has(sequence, s) <=> s \in Semaphores
  BY Literals
<1> HIDE DEF sequence
<1>3. /\ finished' = TRUE
      /\ UNCHANGED <<queue, queue_head, queue_tail, position, stdout, exit_status>>
  BY DEF EncounterEOF
<1>4. pc[p] = "inside" /\ p \in Threads
  BY <1>1 DEF At
<1>5. TypeOK' /\ Posting'
  BY <1>1, <1>3, <1>4, PostEffect DEF IInv, TypeOK
<1>6. Permits'
  <2>1. /\ Cardinality(Claimers("empty")') = Cardinality(Claimers("empty"))
        /\ Cardinality(Claimers("filled")') = Cardinality(Claimers("filled")) + 1
        /\ Cardinality(Entered') = Cardinality(Entered)
        /\ Cardinality(Gone') = Cardinality(Gone) + 1
    BY <1>1, <1>2, <1>4, PostEffect, CountChange, FiniteThreads DEF Count, Semaphores
  <2>2. queue_length' = queue_length /\ queue_length \in Int
    BY <1>3 DEF queue_length, IInv, TypeOK
  <2>3. semaphore' = semaphore /\ semaphore["filled"] \in Nat
    BY <1>1, <1>4, PostEffect DEF IInv, TypeOK, Semaphores
  <2> QED
    BY <2>1, <2>2, <2>3, FiniteThreads DEF IInv, Permits
<1>7. Counters' /\ Ring' /\ EndOfInput' /\ NoOverflow'
  BY <1>3 DEF IInv, Counters, Ring, EndOfInput, NoOverflow
<1> QED
  BY <1>5, <1>6, <1>7 DEF IInv

\* A producer inside has a permit to push that neither the semaphore nor another
\* thread has: there is a free slot.
LEMMA RoomForPush ==
  ASSUME IInv, NEW p \in Producers, At(p, "inside")
  PROVE  queue_length < QueueSize
<1>1. p \in Claimers("empty")
  BY DEF At, Claimers, Claims
<1>2. Cardinality(Claimers("empty")) \in Nat \ {0}
  BY <1>1, FiniteThreads, FS_EmptySet
<1>3. semaphore["empty"] \in Nat /\ queue_length \in Int
  BY DEF IInv, TypeOK, Semaphores, queue_length
<1> QED
  BY <1>2, <1>3 DEF IInv, Permits

LEMMA ProducePreserves ==
  ASSUME IInv, NEW p \in Producers, Produce(p)
  PROVE  IInv'
<1> DEFINE sequence == <<"filled", "queue">>
<1>1. At(p, "inside") /\ PostThenGo(p, sequence, "ready") /\ sequence \in PostSuffixes
  BY DEF Produce, PostSuffixes
<1>2. \A s : Has(sequence, s) <=> s \in {"filled", "queue"}
  BY Literals
<1> HIDE DEF sequence
<1>3. /\ queue' = [queue EXCEPT ![(queue_tail % QueueSize)] = position]
      /\ queue_tail' = queue_tail + 1
      /\ position' = position + 1 /\ position <= LineCount
      /\ UNCHANGED <<queue_head, finished, stdout, exit_status>>
  <2>1. queue_length < QueueSize
    BY <1>1, RoomForPush
  <2>2. ~(queue_length >= QueueSize)
    BY <2>1 DEF queue_length, IInv, TypeOK
  <2> QED
    BY <2>2 DEF Produce, queue_push
<1>4. pc[p] = "inside" /\ p \in Threads
  BY <1>1 DEF At
<1>5. /\ queue_head \in Nat /\ queue_tail \in Nat /\ queue_head <= queue_tail
      /\ queue_tail < queue_head + QueueSize
      /\ position = queue_tail + 1 /\ position \in Lines
      /\ queue \in [0 .. QueueSize - 1 -> Lines \cup {NoLine}]
  BY <1>1, <1>3, RoomForPush, LineCountType DEF IInv, TypeOK, Counters, queue_length, Lines
<1>6. /\ queue' \in [0 .. QueueSize - 1 -> Lines \cup {NoLine}]
      /\ queue'[(queue_tail % QueueSize)] = position
      /\ \A n \in Nat : queue_head <= n /\ n < queue_tail =>
           queue'[(n % QueueSize)] = queue[(n % QueueSize)]
  <2>1. /\ (queue_tail % QueueSize) \in 0 .. QueueSize - 1
        /\ \A n \in Nat : queue_head <= n /\ n < queue_tail =>
             /\ (n % QueueSize) \in 0 .. QueueSize - 1
             /\ (n % QueueSize) # (queue_tail % QueueSize)
    BY <1>5, SlotIsFree
  <2> QED
    BY <1>3, <1>5, <2>1
<1>7. TypeOK' /\ Posting'
  <2>1. position' \in 1 .. LineCount + 1 /\ queue_tail' \in Nat
    BY <1>3, <1>5, LineCountType DEF Lines
  <2> QED
    BY <1>1, <1>3, <1>4, <1>6, <2>1, PostEffect DEF IInv, TypeOK
<1>8. Permits'
  <2>1. /\ Cardinality(Claimers("empty")') = Cardinality(Claimers("empty")) - 1
        /\ Cardinality(Claimers("filled")') = Cardinality(Claimers("filled")) + 1
        /\ Cardinality(Entered') = Cardinality(Entered)
        /\ Cardinality(Gone') = Cardinality(Gone)
    BY <1>1, <1>2, <1>4, PostEffect, CountChange, FiniteThreads DEF Count, Semaphores
  <2>2. queue_length' = queue_length + 1 /\ queue_length \in Int
    BY <1>3, <1>5 DEF queue_length
  <2>3. semaphore' = semaphore /\ semaphore["filled"] \in Nat /\ semaphore["empty"] \in Nat
    BY <1>1, <1>4, PostEffect DEF IInv, TypeOK, Semaphores
  <2>4. Permits
    BY DEF IInv
  <2>5. semaphore["filled"]' + Cardinality(Claimers("filled")') = queue_length' + Cardinality(Gone')
    BY <2>1, <2>2, <2>3, <2>4, FiniteThreads DEF Permits
  <2>6. semaphore["empty"]' + Cardinality(Claimers("empty")') + queue_length' = QueueSize
    BY <2>1, <2>2, <2>3, <2>4, FiniteThreads DEF Permits
  <2> QED
    BY <2>1, <2>3, <2>4, <2>5, <2>6 DEF Permits
<1>9. Ring'
  <2> SUFFICES ASSUME NEW n \in Nat, queue_head <= n, n < queue_tail + 1
               PROVE  queue'[(n % QueueSize)] = n + 1
    BY <1>3 DEF Ring
  <2>1. CASE n = queue_tail
    BY <1>5, <1>6, <2>1
  <2>2. CASE n < queue_tail
    BY <1>6, <2>2 DEF IInv, Ring
  <2> QED
    BY <1>5, <2>1, <2>2
<1>10. Counters' /\ EndOfInput' /\ NoOverflow'
  <2>1. Gone' = Gone
    BY <1>1, <1>4, PostEffect DEF Gone
  <2> QED
    BY <1>3, <1>5, <2>1 DEF IInv, Counters, EndOfInput, NoOverflow
<1> QED
  BY <1>7, <1>8, <1>9, <1>10 DEF IInv

\* A consumer that leaves gives the permit to pop back.
LEMMA ConsumerLeavesPreserves ==
  ASSUME IInv, NEW c \in Consumers, ConsumerLeaves(c)
  PROVE  IInv'
<1> DEFINE sequence == <<"filled", "queue">>
<1>1. At(c, "inside") /\ PostThenGo(c, sequence, "left") /\ sequence \in PostSuffixes
  BY DEF ConsumerLeaves, PostSuffixes
<1>2. \A s : Has(sequence, s) <=> s \in {"filled", "queue"}
  BY Literals
<1> HIDE DEF sequence
<1>3. UNCHANGED <<exit_status, buffer>>
  BY DEF ConsumerLeaves
<1>4. pc[c] = "inside" /\ c \in Threads /\ c \notin Producers
  BY <1>1 DEF At
<1>5. TypeOK' /\ Posting'
  BY <1>1, <1>3, <1>4, PostEffect DEF IInv, TypeOK, buffer
<1>6. Permits'
  <2>1. /\ Cardinality(Claimers("empty")') = Cardinality(Claimers("empty"))
        /\ Cardinality(Claimers("filled")') = Cardinality(Claimers("filled"))
        /\ Cardinality(Entered') = Cardinality(Entered)
        /\ Cardinality(Gone') = Cardinality(Gone)
    BY <1>1, <1>2, <1>4, PostEffect, CountChange, FiniteThreads DEF Count, Semaphores
  <2> QED
    BY <1>1, <1>3, <1>4, <2>1, PostEffect DEF IInv, Permits, queue_length, buffer
<1>7. EndOfInput'
  BY <1>1, <1>3, <1>4, PostEffect DEF IInv, EndOfInput, Gone, buffer
<1> QED
  BY <1>3, <1>5, <1>6, <1>7, DataUnchanged DEF IInv

\* queue_pop returns the line after the last one popped.
LEMMA FirstIsNext ==
  ASSUME IInv, queue_length # 0
  PROVE  /\ queue_first = queue_head + 1 /\ queue_first \in Lines
         /\ queue_head < queue_tail
<1>1. queue_head \in Nat /\ queue_tail \in Nat /\ queue_head < queue_tail
  BY DEF IInv, TypeOK, Counters, queue_length
<1>2. queue[(queue_head % QueueSize)] = queue_head + 1
  BY <1>1 DEF IInv, Ring
<1>3. queue_head + 1 \in Lines
  BY <1>1, LineCountType DEF IInv, TypeOK, Counters, Lines
<1> QED
  BY <1>1, <1>2, <1>3 DEF queue_first

LEMMA EmitType ==
  ASSUME stdout \in Printouts, NEW line \in Lines
  PROVE  Emit(stdout, line) \in Printouts
BY AppendProperties DEF Emit, Printouts

LEMMA ConsumePreserves ==
  ASSUME IInv, NEW c \in Consumers, Consume(c)
  PROVE  IInv'
<1> DEFINE sequence == <<"empty", "queue">>
<1>1. At(c, "inside") /\ PostThenGo(c, sequence, "ready") /\ sequence \in PostSuffixes
  BY DEF Consume, PostSuffixes
<1>2. \A s : Has(sequence, s) <=> s \in {"empty", "queue"}
  BY Literals
<1> HIDE DEF sequence
<1>3. /\ queue_head' = queue_head + 1
      /\ stdout' = Emit(stdout, queue_first)
      /\ UNCHANGED <<queue, queue_tail, finished, position, exit_status>>
  BY DEF Consume, queue_pop
<1>4. pc[c] = "inside" /\ c \in Threads /\ c \notin Producers
  BY <1>1 DEF At
<1>5. /\ queue_first \in Lines /\ queue_head < queue_tail
      /\ queue_head \in Nat /\ queue_tail \in Nat
  BY FirstIsNext DEF Consume, IInv, TypeOK
<1>6. TypeOK' /\ Posting'
  <2>1. stdout' \in Printouts
    BY <1>3, <1>5, EmitType DEF IInv, TypeOK
  <2> QED
    BY <1>1, <1>3, <1>4, <1>5, <2>1, PostEffect DEF IInv, TypeOK
<1>7. Permits'
  <2>1. /\ Cardinality(Claimers("empty")') = Cardinality(Claimers("empty")) + 1
        /\ Cardinality(Claimers("filled")') = Cardinality(Claimers("filled")) - 1
        /\ Cardinality(Entered') = Cardinality(Entered)
        /\ Cardinality(Gone') = Cardinality(Gone)
    BY <1>1, <1>2, <1>4, PostEffect, CountChange, FiniteThreads DEF Count, Semaphores
  <2>2. queue_length' = queue_length - 1 /\ queue_length \in Int
    BY <1>3, <1>5 DEF queue_length
  <2>3. semaphore' = semaphore /\ semaphore["filled"] \in Nat /\ semaphore["empty"] \in Nat
    BY <1>1, <1>4, PostEffect DEF IInv, TypeOK, Semaphores
  <2> QED
    BY <2>1, <2>2, <2>3, FiniteThreads DEF IInv, Permits
<1>8. Counters' /\ Ring' /\ NoOverflow'
  BY <1>3, <1>5 DEF IInv, Counters, Ring, NoOverflow
<1>9. EndOfInput'
  BY <1>1, <1>3, <1>4, PostEffect DEF IInv, EndOfInput, Gone
<1> QED
  BY <1>6, <1>7, <1>8, <1>9 DEF IInv

LEMMA NextInvariant == IInv /\ [Next]_vars => IInv'
<1> SUFFICES ASSUME IInv, [Next]_vars PROVE IInv'
  OBVIOUS
<1>1. ASSUME NEW p \in Producers, Producer(p) PROVE IInv'
  <2>1. CASE TakeEmpty(p) \/ TakeQueue(p)
    BY <2>1, TakePreserves
  <2>2. CASE SemPost(p)
    BY <2>2, SemPostPreserves
  <2> QED
    BY <1>1, <2>1, <2>2, EncounterEOFPreserves, ProducePreserves DEF Producer
<1>2. ASSUME NEW c \in Consumers, Consumer(c) PROVE IInv'
  <2>1. CASE TakeFilled(c) \/ TakeQueue(c)
    BY <2>1, TakePreserves
  <2>2. CASE SemPost(c)
    BY <2>2, SemPostPreserves
  <2> QED
    BY <1>2, <2>1, <2>2, ConsumerLeavesPreserves, ConsumePreserves DEF Consumer
<1>3. CASE Main
  BY <1>3, CreateThreadPreserves, MainReturnsPreserves DEF Main
<1>4. CASE Exited \/ UNCHANGED vars
  BY <1>4, MainReturnsPreserves DEF Exited
<1> QED
  BY <1>1, <1>2, <1>3, <1>4 DEF Next

\* IInv holds in every reachable state of the program.
THEOREM Invariance == Spec => []IInv
  BY InitInvariant, NextInvariant, PTL DEF Spec

-----------------------------------------------------------------------------
(* The properties.                                                         *)

\* Every variable keeps its type: in particular no semaphore drops below 0, and no
\* line behind the end of the file is read.
THEOREM TypeCorrectness == Spec => []TypeOK
<1>1. IInv => TypeOK
  BY DEF IInv
<1> QED
  BY <1>1, Invariance, PTL

\* Between any two posts of any number of threads the permits stand for the free slots
\* and for the queued lines, at most one thread is inside the critical section, and the
\* exit(1) of queue_push is unreachable though no producer looks at the queue.
THEOREM PermitsAreKept == Spec => []PermitsGuardQueue
<1>1. IInv => PermitsGuardQueue
  BY PermitsMeaning DEF IInv, PermitsGuardQueue
<1> QED
  BY <1>1, Invariance, PTL

-----------------------------------------------------------------------------
(* The program implements the channel.                                     *)

LEMMA InitRefines == Init => Channel!Init
<1> SUFFICES ASSUME Init PROVE Channel!Init
  OBVIOUS
<1>1. Threads = {t \in Threads : pc[t] # "left"}
  BY DEF Init
<1>2. /\ queue_tail = 0 /\ queue_head = 0 /\ finished = FALSE
      /\ stdout = NothingPrinted /\ exit_status = "running"
  BY DEF Init
<1> QED
  BY <1>1, <1>2 DEF NothingPrinted, Channel!Init

\* A consumer that has a permit to pop and finds no line has one that a producer added
\* at the end of the input: what the program takes for granted.
LEMMA EmptyMeansFinished ==
  ASSUME IInv, NEW c \in Consumers, At(c, "inside"), queue_length = 0
  PROVE  finished
<1>1. c \in Claimers("filled")
  BY DEF At, Claimers, Claims
<1>2. Cardinality(Claimers("filled")) \in Nat \ {0}
  BY <1>1, FiniteThreads, FS_EmptySet
<1>3. semaphore["filled"] \in Nat
  BY DEF IInv, TypeOK, Semaphores
<1>4. Cardinality(Gone) # 0
  BY <1>2, <1>3, FiniteThreads DEF IInv, Permits
<1>5. Gone # {}
  BY <1>4, FS_EmptySet
<1> QED
  BY <1>5 DEF IInv, EndOfInput

LEMMA StepRefines ==
  ASSUME IInv, [Next]_vars
  PROVE  [Channel!Next]_(Channel!vars)
<1> USE DEF Channel!vars, Channel!Next
<1>1. pc \in [Threads -> Locations]
  BY DEF IInv, TypeOK
<1>2. ASSUME NEW p \in Producers, Produce(p) PROVE Channel!Write
  <2>1. At(p, "inside") /\ queue_length < QueueSize
    BY <1>2, RoomForPush DEF Produce
  <2>2. queue_length \in Int /\ ~(queue_length >= QueueSize)
    BY <2>1 DEF IInv, TypeOK, queue_length
  <2>3. /\ queue_tail' = queue_tail + 1 /\ queue_head' = queue_head
        /\ exit_status' = exit_status /\ finished' = finished /\ stdout' = stdout
        /\ position <= LineCount /\ pc' = [pc EXCEPT ![p] = "ready"]
    BY <1>2, <2>2 DEF Produce, queue_push, PostThenGo
  <2>4. queue_tail < LineCount
    BY <2>3, LineCountType DEF IInv, TypeOK, Counters
  <2>5. pc[p] = "inside" /\ exit_status = "running"
    BY <2>1 DEF At, Running
  <2>6. {t \in Threads : pc[t] # "left"}' = {t \in Threads : pc[t] # "left"}
    BY <1>1, <2>3, <2>5
  <2> QED
    BY <2>1, <2>3, <2>4, <2>5, <2>6 DEF Channel!Write, queue_length
<1>3. ASSUME NEW p \in Producers, EncounterEOF(p) PROVE Channel!WriterLeaves(p)
  <2>1. /\ pc[p] = "inside" /\ exit_status = "running"
        /\ pc' = [pc EXCEPT ![p] = "left"] /\ finished' = TRUE
        /\ UNCHANGED <<queue_head, queue_tail, stdout, exit_status>>
    BY <1>3 DEF EncounterEOF, At, Running, PostThenGo
  <2>2. queue_tail = LineCount
    BY <1>3, LineCountType DEF EncounterEOF, IInv, TypeOK, Counters
  <2>3. {t \in Threads : pc[t] # "left"}' = {t \in Threads : pc[t] # "left"} \ {p}
    BY <1>1, <2>1
  <2> QED
    BY <2>1, <2>2, <2>3 DEF Channel!WriterLeaves
<1>4. ASSUME NEW c \in Consumers, Consume(c) PROVE Channel!Take
  <2>1. /\ queue_first = queue_head + 1 /\ queue_head < queue_tail /\ queue_first \in Lines
    BY <1>4, FirstIsNext DEF Consume
  <2>2. /\ pc[c] = "inside" /\ exit_status = "running"
        /\ pc' = [pc EXCEPT ![c] = "ready"]
        /\ queue_head' = queue_head + 1 /\ stdout' = Emit(stdout, queue_first)
        /\ UNCHANGED <<queue_tail, finished, exit_status>>
    BY <1>4 DEF Consume, queue_pop, At, Running, PostThenGo
  <2>3. {t \in Threads : pc[t] # "left"}' = {t \in Threads : pc[t] # "left"}
    BY <1>1, <2>2
  <2> QED
    BY <2>1, <2>2, <2>3 DEF Channel!Take, Emit
<1>5. ASSUME NEW c \in Consumers, ConsumerLeaves(c) PROVE Channel!ReaderLeaves(c)
  <2>1. At(c, "inside") /\ queue_length = 0
    BY <1>5 DEF ConsumerLeaves
  <2>2. /\ pc[c] = "inside" /\ exit_status = "running"
        /\ pc' = [pc EXCEPT ![c] = "left"]
        /\ UNCHANGED <<queue_head, queue_tail, finished, stdout, exit_status>>
    BY <1>5 DEF ConsumerLeaves, At, Running, PostThenGo, buffer
  <2>3. finished /\ queue_head = queue_tail
    BY <2>1, EmptyMeansFinished DEF IInv, TypeOK, queue_length
  <2>4. {t \in Threads : pc[t] # "left"}' = {t \in Threads : pc[t] # "left"} \ {c}
    BY <1>1, <2>2
  <2> QED
    BY <2>2, <2>3, <2>4 DEF Channel!ReaderLeaves
<1>6. ASSUME MainReturns PROVE Channel!Stop
  BY <1>6 DEF MainReturns, buffer, Running, Channel!Stop
<1>7. ASSUME NEW t \in Threads, NEW s, NEW from \in {"ready", "permitted"},
             NEW to \in {"permitted", "inside"}, At(t, from), SemWait(t, s, to)
      PROVE  UNCHANGED Channel!vars
  <2>1. {u \in Threads : pc[u] # "left"}' = {u \in Threads : pc[u] # "left"}
    BY <1>1, <1>7 DEF At, SemWait
  <2> QED
    BY <1>7, <2>1 DEF SemWait, buffer
<1>8. ASSUME NEW t \in Threads, SemPost(t) \/ CreateThread(t) PROVE UNCHANGED Channel!vars
  <2>1. {u \in Threads : pc[u] # "left"}' = {u \in Threads : pc[u] # "left"}
    BY <1>1, <1>8 DEF SemPost, CreateThread
  <2> QED
    BY <1>8, <2>1 DEF SemPost, CreateThread, buffer
<1>9. ASSUME UNCHANGED vars PROVE UNCHANGED Channel!vars
  BY <1>9 DEF vars
<1>10. ASSUME NEW p \in Producers, Producer(p) PROVE [Channel!Next]_(Channel!vars)
  BY <1>2, <1>3, <1>7, <1>8, <1>10 DEF Producer, TakeEmpty, TakeQueue
<1>11. ASSUME NEW c \in Consumers, Consumer(c) PROVE [Channel!Next]_(Channel!vars)
  BY <1>4, <1>5, <1>7, <1>8, <1>11 DEF Consumer, TakeFilled, TakeQueue
<1> QED
  BY <1>6, <1>8, <1>9, <1>10, <1>11 DEF Next, Main, Exited

\* Every behaviour of the program is a behaviour of the first-in first-out channel, with
\* as many threads and slots as there are: three semaphores keep the promise that the
\* mutex and the condition variable of zad1 keep.
THEOREM Refinement == Spec => ImplementsChannel
  BY InitRefines, StepRefines, Invariance, PTL DEF Spec, ImplementsChannel, Channel!Spec
=============================================================================

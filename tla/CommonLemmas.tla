---------------------------- MODULE CommonLemmas ----------------------------
(***************************************************************************)
(* Facts that the proofs about several programs need.                      *)
(*                                                                         *)
(* Every queue of this project is an array used modulo its size, with      *)
(* counters that only grow: two entries collide only when they are a whole *)
(* turn apart.  What is counted is the size of a set of processes, which a *)
(* step of one process changes by one at most.  And a function on 1 .. n   *)
(* is a sequence: what the abstract queues are made of.                    *)
(***************************************************************************)
EXTENDS Integers, FiniteSets, Sequences, FiniteSetTheorems, SequenceTheorems,
        WellFoundedInduction, TLAPS

-----------------------------------------------------------------------------
(* Rings.                                                                  *)

\* Division with remainder, in the form the proofs below use it.
LEMMA Division ==
  ASSUME NEW a \in Nat, NEW Q \in Nat \ {0}
  PROVE  /\ a \div Q \in Int
         /\ (a % Q) \in 0 .. Q - 1
         /\ a = Q * (a \div Q) + (a % Q)
OBVIOUS

\* No multiple of Q lies strictly between 0 and Q.
LEMMA NoMultipleBetween ==
  ASSUME NEW Q \in Nat \ {0}, NEW d \in Int, Q * d > 0, Q * d < Q
  PROVE  FALSE
<1>1. CASE d <= 0
  <2>1. Q * d <= 0  BY <1>1
  <2> QED           BY <2>1
<1>2. CASE d >= 1
  <2>1. Q * d >= Q  BY <1>2
  <2> QED           BY <2>1
<1> QED BY <1>1, <1>2

\* Entries less than a turn apart use different slots: the index arithmetic
\* (counter) % (size) of queue_push and queue_pop.
LEMMA DistinctSlots ==
  ASSUME NEW Q \in Nat \ {0}, NEW a \in Nat, NEW b \in Nat, a < b, b < a + Q
  PROVE  (a % Q) # (b % Q)
<1> SUFFICES ASSUME (a % Q) = (b % Q) PROVE FALSE
  OBVIOUS
<1> DEFINE x == a \div Q  y == b \div Q  r == a % Q
<1>1. x \in Int /\ y \in Int /\ r \in Int /\ a = Q * x + r /\ b = Q * y + r
  BY Division
<1> HIDE DEF x, y, r
<1>2. b - a = Q * (y - x)
  BY <1>1
<1> QED
  BY <1>1, <1>2, NoMultipleBetween

\* The slot of the next entry is none of those in use, as long as there is room:
\* queue_push in all its versions.
LEMMA SlotIsFree ==
  ASSUME NEW Q \in Nat \ {0}, NEW head \in Nat, NEW tail \in Nat, tail < head + Q
  PROVE  /\ (tail % Q) \in 0 .. Q - 1
         /\ \A n \in Nat : head <= n /\ n < tail =>
              (n % Q) \in 0 .. Q - 1 /\ (n % Q) # (tail % Q)
<1>1. (tail % Q) \in 0 .. Q - 1
  BY Division
<1>2. ASSUME NEW n \in Nat, head <= n, n < tail
      PROVE  (n % Q) \in 0 .. Q - 1 /\ (n % Q) # (tail % Q)
  <2>1. tail < n + Q
    BY <1>2
  <2> QED
    BY <1>2, <2>1, Division, DistinctSlots
<1> QED
  BY <1>1, <1>2

-----------------------------------------------------------------------------
(* The least element of a set of numbers; the library has it as a fact     *)
(* about well-founded relations.                                           *)

LEMMA Least ==
  ASSUME NEW T, T \subseteq Nat, T # {}
  PROVE  \E x \in T : \A y \in T : x <= y
<1> DEFINE R == OpToRel(<, Nat)
<1>1. IsWellFoundedOn(R, Nat)
  BY NatLessThanWellFounded
<1>2. R = {ss \in Nat \X Nat : ss[1] < ss[2]}
  BY DEF OpToRel
<1> HIDE DEF R
<1>3. PICK x \in T : \A y \in T : ~(<<y, x>> \in R)
  BY <1>1, WFMin
<1>4. ASSUME NEW y \in T PROVE ~(y < x)
  <2>1. <<y, x>> \in Nat \X Nat /\ <<y, x>>[1] = y /\ <<y, x>>[2] = x
    OBVIOUS
  <2>2. y < x => <<y, x>> \in R
    BY <1>2, <2>1
  <2> QED
    BY <1>3, <2>2
<1> QED
  BY <1>4

-----------------------------------------------------------------------------
(* Counting.                                                               *)

Count(condition) == IF condition THEN 1 ELSE 0

\* Two sets that differ in x at most.
LEMMA SizeChange ==
  ASSUME NEW S, NEW T, NEW x, IsFiniteSet(S), S \ {x} = T \ {x}
  PROVE  /\ IsFiniteSet(T)
         /\ Cardinality(S) \in Nat /\ Cardinality(T) \in Nat
         /\ Cardinality(T) = Cardinality(S) + Count(x \in T) - Count(x \in S)
<1> DEFINE R == S \ {x}
<1>1. IsFiniteSet(R) /\ Cardinality(R) \in Nat /\ x \notin R
  BY FS_RemoveElement, FS_CardinalityType
<1>2. IsFiniteSet(R \cup {x}) /\ Cardinality(R \cup {x}) = Cardinality(R) + 1
  BY <1>1, FS_AddElement
<1>3. \A U : U \ {x} = R =>
        /\ IsFiniteSet(U)
        /\ Cardinality(U) = IF x \in U THEN Cardinality(R) + 1 ELSE Cardinality(R)
  <2> SUFFICES ASSUME NEW U, U \ {x} = R
               PROVE  /\ IsFiniteSet(U)
                      /\ Cardinality(U) = IF x \in U THEN Cardinality(R) + 1 ELSE Cardinality(R)
    OBVIOUS
  <2>1. CASE x \in U
    <3>1. U = R \cup {x}
      BY <2>1
    <3> HIDE DEF R
    <3> QED
      BY <1>2, <2>1, <3>1
  <2>2. CASE x \notin U
    <3>1. U = R
      BY <2>2
    <3> HIDE DEF R
    <3> QED
      BY <1>1, <2>2, <3>1
  <2> QED
    BY <2>1, <2>2
<1>4. S \ {x} = R /\ T \ {x} = R
  OBVIOUS
<1> HIDE DEF R
<1> QED
  BY <1>1, <1>3, <1>4 DEF Count

-----------------------------------------------------------------------------
(* Sequences.                                                              *)

LEMMA FunctionIsSequence ==
  ASSUME NEW S, NEW n \in Nat, NEW s \in [1 .. n -> S]
  PROVE  s \in Seq(S) /\ Len(s) = n /\ DOMAIN s = 1 .. n /\ (s = <<>> <=> n = 0)
<1>1. s \in Seq(S) /\ DOMAIN s = 1 .. n
  OBVIOUS
<1>2. Len(s) = n
  BY <1>1, LenProperties
<1>3. s = <<>> <=> n = 0
  BY <1>1, <1>2, EmptySeq
<1> QED
  BY <1>1, <1>2, <1>3

\* One element more at the end.
LEMMA LongerByLast ==
  ASSUME NEW S, NEW n \in Nat, NEW s \in [1 .. n -> S], NEW t \in [1 .. n + 1 -> S],
         \A i \in 1 .. n : t[i] = s[i]
  PROVE  t = Append(s, t[n + 1])
<1>1. s \in Seq(S) /\ Len(s) = n /\ t \in Seq(S) /\ Len(t) = n + 1
  BY FunctionIsSequence
<1>2. /\ Append(s, t[n + 1]) \in Seq(S)
      /\ Len(Append(s, t[n + 1])) = n + 1
      /\ \A i \in 1 .. n : Append(s, t[n + 1])[i] = s[i]
      /\ Append(s, t[n + 1])[n + 1] = t[n + 1]
  BY <1>1, AppendProperties
<1>3. \A i \in 1 .. n + 1 : Append(s, t[n + 1])[i] = t[i]
  BY <1>2
<1> QED
  BY <1>1, <1>2, <1>3, SeqEqual

\* One element less at the front.
LEMMA ShorterByFirst ==
  ASSUME NEW S, NEW n \in Nat, NEW s \in [1 .. n + 1 -> S], NEW t \in [1 .. n -> S],
         \A i \in 1 .. n : t[i] = s[i + 1]
  PROVE  t = Tail(s) /\ s[1] = Head(s)
<1>1. s \in Seq(S) /\ Len(s) = n + 1 /\ s # <<>> /\ t \in Seq(S) /\ Len(t) = n
  BY FunctionIsSequence
<1>2. /\ Tail(s) \in Seq(S) /\ Len(Tail(s)) = n
      /\ \A i \in 1 .. n : Tail(s)[i] = s[i + 1]
  BY <1>1, HeadTailProperties
<1>3. t = Tail(s)
  BY <1>1, <1>2, SeqEqual
<1> QED
  BY <1>1, <1>3

\* What a sequence holds, and that it holds nothing twice.
Held(s) == {s[n] : n \in DOMAIN s}
NoRepeats(s) == \A m, n \in DOMAIN s : m # n => s[m] # s[n]

LEMMA HeldAfterAppend ==
  ASSUME NEW S, NEW s \in Seq(S), NEW x \in S
  PROVE  /\ Append(s, x) \in Seq(S)
         /\ Held(Append(s, x)) = Held(s) \cup {x}
         /\ NoRepeats(s) /\ x \notin Held(s) => NoRepeats(Append(s, x))
<1> DEFINE n == Len(s)  t == Append(s, x)
<1>1. n \in Nat /\ DOMAIN s = 1 .. n
  BY LenProperties
<1>2. /\ t \in Seq(S) /\ Len(t) = n + 1 /\ DOMAIN t = 1 .. n + 1
      /\ \A m \in 1 .. n : t[m] = s[m]
      /\ t[n + 1] = x
  BY AppendProperties, LenProperties
<1> HIDE DEF n, t
<1>3. Held(t) = Held(s) \cup {x}
  <2>1. 1 .. n + 1 = 1 .. n \cup {n + 1}
    BY <1>1
  <2> QED
    BY <1>1, <1>2, <2>1 DEF Held
<1>4. NoRepeats(s) /\ x \notin Held(s) => NoRepeats(t)
  BY <1>1, <1>2 DEF NoRepeats, Held
<1> QED
  BY <1>2, <1>3, <1>4 DEF t

LEMMA HeldBeforeHead ==
  ASSUME NEW S, NEW s \in Seq(S), s # << >>
  PROVE  /\ Head(s) \in S /\ Tail(s) \in Seq(S)
         /\ Held(s) = Held(Tail(s)) \cup {Head(s)}
         /\ NoRepeats(s) => NoRepeats(Tail(s)) /\ Head(s) \notin Held(Tail(s))
<1> DEFINE n == Len(s)  t == Tail(s)  x == Head(s)
<1>1. n \in Nat \ {0} /\ DOMAIN s = 1 .. n
  BY LenProperties, EmptySeq
<1>2. /\ x \in S /\ t \in Seq(S) /\ DOMAIN t = 1 .. n - 1
      /\ \A m \in 1 .. n - 1 : t[m] = s[m + 1]
      /\ x = s[1]
  BY HeadTailProperties, LenProperties
<1> HIDE DEF n, t, x
<1>3. ASSUME NEW m \in 1 .. n PROVE s[m] = x \/ \E k \in 1 .. n - 1 : s[m] = t[k]
  <2>1. CASE m = 1
    BY <1>2, <2>1
  <2>2. CASE m # 1
    <3>1. m - 1 \in 1 .. n - 1 /\ (m - 1) + 1 = m
      BY <1>1, <2>2
    <3> QED
      BY <1>2, <3>1
  <2> QED
    BY <2>1, <2>2
<1>4. \A m \in 1 .. n - 1 : m + 1 \in 1 .. n /\ m + 1 # 1
  BY <1>1
<1>5. 1 \in 1 .. n
  BY <1>1
<1>6. Held(s) = Held(t) \cup {x}
  <2>1. ASSUME NEW y \in Held(s), y # x PROVE y \in Held(t)
    <3>1. PICK m \in 1 .. n : y = s[m]
      BY <1>1, <2>1 DEF Held
    <3>2. PICK k \in 1 .. n - 1 : s[m] = t[k]
      BY <1>3, <2>1, <3>1
    <3> QED
      BY <1>2, <3>1, <3>2 DEF Held
  <2>2. x \in Held(s)
    BY <1>1, <1>2, <1>5 DEF Held
  <2>3. \A y \in Held(t) : y \in Held(s)
    BY <1>1, <1>2, <1>4 DEF Held
  <2> QED
    BY <2>1, <2>2, <2>3
<1>7. ASSUME NoRepeats(s) PROVE NoRepeats(t) /\ x \notin Held(t)
  <2>1. \A k, m \in 1 .. n - 1 : k # m => k + 1 # m + 1
    BY <1>1
  <2>2. \A k, m \in 1 .. n - 1 : k # m => t[k] # t[m]
    BY <1>1, <1>2, <1>4, <1>7, <2>1 DEF NoRepeats
  <2>3. \A m \in 1 .. n - 1 : t[m] # x
    BY <1>1, <1>2, <1>4, <1>5, <1>7 DEF NoRepeats
  <2> QED
    BY <1>2, <2>2, <2>3 DEF NoRepeats, Held
<1> QED
  BY <1>2, <1>6, <1>7 DEF t, x

-----------------------------------------------------------------------------
(* How often a sequence holds an element of a set.                         *)

Hits(s, M) == {n \in DOMAIN s : s[n] \in M}
Number(s, M) == Cardinality(Hits(s, M))

LEMMA NumberType ==
  ASSUME NEW S, NEW s \in Seq(S), NEW M
  PROVE  /\ IsFiniteSet(Hits(s, M)) /\ Number(s, M) \in Nat
         /\ Number(s, M) = 0 <=> \A n \in DOMAIN s : s[n] \notin M
<1>1. Len(s) \in Nat /\ DOMAIN s = 1 .. Len(s)
  BY LenProperties
<1>2. IsFiniteSet(1 .. Len(s))
  BY <1>1, FS_Interval
<1>3. IsFiniteSet(Hits(s, M))
  BY <1>1, <1>2, FS_Subset DEF Hits
<1>4. Number(s, M) \in Nat /\ (Number(s, M) = 0 <=> Hits(s, M) = {})
  BY <1>3, FS_CardinalityType, FS_EmptySet DEF Number
<1>5. Hits(s, M) = {} <=> \A n \in DOMAIN s : s[n] \notin M
  BY DEF Hits
<1> QED
  BY <1>3, <1>4, <1>5

LEMMA NumberInSubset ==
  ASSUME NEW S, NEW s \in Seq(S), NEW M, NEW N, M \subseteq N
  PROVE  Number(s, M) <= Number(s, N)
<1>1. Hits(s, M) \subseteq Hits(s, N)
  BY DEF Hits
<1> QED
  BY <1>1, NumberType, FS_Subset DEF Number

LEMMA NumberAfterAppend ==
  ASSUME NEW S, NEW s \in Seq(S), NEW x \in S, NEW M
  PROVE  Number(Append(s, x), M) = Number(s, M) + Count(x \in M)
<1> DEFINE n == Len(s)  t == Append(s, x)
<1>1. n \in Nat /\ DOMAIN s = 1 .. n
  BY LenProperties
<1>2. /\ t \in Seq(S) /\ DOMAIN t = 1 .. n + 1
      /\ \A m \in 1 .. n : t[m] = s[m]
      /\ t[n + 1] = x
  BY AppendProperties, LenProperties
<1>3. IsFiniteSet(Hits(s, M))
  BY NumberType
<1> HIDE DEF n, t
<1>4. 1 .. n + 1 = 1 .. n \cup {n + 1} /\ n + 1 \notin 1 .. n
  BY <1>1
<1>5. /\ Hits(s, M) \ {n + 1} = Hits(t, M) \ {n + 1}
      /\ n + 1 \notin Hits(s, M)
      /\ n + 1 \in Hits(t, M) <=> x \in M
  BY <1>1, <1>2, <1>4 DEF Hits
<1>6. Cardinality(Hits(t, M)) = Cardinality(Hits(s, M)) + Count(x \in M)
      /\ Cardinality(Hits(s, M)) \in Nat
  BY <1>3, <1>5, SizeChange DEF Count
<1> QED
  BY <1>6 DEF Number, t

LEMMA NumberBeforeHead ==
  ASSUME NEW S, NEW s \in Seq(S), s # << >>, NEW M
  PROVE  Number(s, M) = Number(Tail(s), M) + Count(Head(s) \in M)
<1> DEFINE n == Len(s)  t == Tail(s)  x == Head(s)  later == Hits(s, M) \ {1}
<1>1. n \in Nat \ {0} /\ DOMAIN s = 1 .. n
  BY LenProperties, EmptySeq
<1>2. /\ x \in S /\ t \in Seq(S) /\ DOMAIN t = 1 .. n - 1
      /\ \A m \in 1 .. n - 1 : t[m] = s[m + 1]
      /\ x = s[1]
  BY HeadTailProperties, LenProperties
<1>3. IsFiniteSet(Hits(s, M)) /\ IsFiniteSet(Hits(t, M))
  BY <1>2, NumberType
<1> HIDE DEF n, t, x
<1>4. \A m \in 1 .. n - 1 : m + 1 \in 1 .. n /\ m + 1 # 1
  BY <1>1
<1>5. \A m \in 1 .. n : m # 1 => m - 1 \in 1 .. n - 1 /\ (m - 1) + 1 = m
  BY <1>1
<1>6. Cardinality(later) = Cardinality(Hits(t, M))
  <2> DEFINE f == [m \in Hits(t, M) |-> m + 1]
  <2>1. \A m \in Hits(t, M) : m \in 1 .. n - 1 /\ m + 1 \in later
    BY <1>1, <1>2, <1>4 DEF Hits
  <2>2. \A m \in later : m - 1 \in Hits(t, M) /\ (m - 1) + 1 = m
    BY <1>1, <1>2, <1>5 DEF Hits
  <2>3. \A k, m \in Hits(t, M) : k + 1 = m + 1 => k = m
    BY <2>1
  <2> HIDE DEF later
  <2>4. f \in [Hits(t, M) -> later] /\ (\A m \in Hits(t, M) : f[m] = m + 1)
    BY <2>1
  <2>5. \A m \in later : \E k \in Hits(t, M) : f[k] = m
    BY <2>2, <2>4
  <2>6. \A k, m \in Hits(t, M) : f[k] = f[m] => k = m
    BY <2>3, <2>4
  <2> HIDE DEF f
  <2>7. ExistsBijection(Hits(t, M), later)
    BY <2>4, <2>5, <2>6 DEF ExistsBijection, Bijection, Injection, Surjection,
                               IsInjective
  <2> QED
    BY <1>3, <2>7, FS_Bijection
<1>7. IsFiniteSet(later) /\ 1 \notin later /\ (1 \in Hits(s, M) <=> x \in M)
  <2>1. IsFiniteSet(later) /\ 1 \notin later
    BY <1>3, FS_RemoveElement
  <2>2. 1 \in Hits(s, M) <=> x \in M
    BY <1>1, <1>2 DEF Hits
  <2> QED
    BY <2>1, <2>2
<1>8. Cardinality(Hits(s, M)) = Cardinality(later) + Count(x \in M)
  BY <1>3, <1>7, SizeChange DEF Count
<1> QED
  BY <1>6, <1>8 DEF Number, t, x
=============================================================================

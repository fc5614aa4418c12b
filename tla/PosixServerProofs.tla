-------------------------- MODULE PosixServerProofs --------------------------
(***************************************************************************)
(* Proofs about PosixServer, for any number of clients and any limits.     *)
(*                                                                         *)
(* As for SysVServer, what a client may have under way depends on where it *)
(* is.  A client says goodbye in every case here, and what the server has  *)
(* open stays open until it reads that: that a request is answered depends *)
(* on the order of the messages in the queue.                              *)
(***************************************************************************)
EXTENDS PosixServer, CommonLemmas

USE NamesAssumption, LimitsAssumption

\* How many messages of a client are in the server's queue: first messages, requests
\* that are answered, and goodbyes.
Inits(c) == UnderWay(c, {"INIT"})
Asked(c) == UnderWay(c, {"INIT", "ORDER"})
Stops(c) == UnderWay(c, {"STOP"})

InTable(c) == \E i \in Slots : clients[i] = c

\* The server has not handled the INIT of c.
Unhandled(c) == client[c] \in {"start", "opened"} \/ Inits(c) > 0

TurnedAway(c) == client[c] = "connecting" /\ clients_count > MAX_CLIENTS /\ ~InTable(c)

\* The entries after clients_count are empty, and no client has two.
TableOrdered ==
  /\ \A i \in Slots : i >= clients_count => clients[i] = NoPid
  /\ \A i, j \in Slots : clients[i] = clients[j] /\ clients[i] # NoPid => i = j

\* What is under way for a client ...
Messaging(c) ==
  /\ Asked(c) + answers[c] <= 1
  /\ Waiting(c) => (Asked(c) + answers[c] = 1) \/ TurnedAway(c)
  /\ ~Waiting(c) /\ c \notin interrupted => Asked(c) + answers[c] = 0
  /\ client[c] = "connecting" => Asked(c) = Inits(c)
  /\ client[c] \in {"ready", "waiting"} => Inits(c) = 0
  /\ Inits(c) > 0 => client[c] = "connecting" \/ c \in deserted
  /\ Stops(c) <= 1
  /\ Stops(c) = 1 => client[c] \in {"unlink", "gone"}

\* ... and what the server has noted about it.
Noted(c) ==
  /\ client[c] \in {"ready", "waiting"} => InTable(c)
  /\ client[c] = "connecting" /\ answers[c] = 1 => InTable(c)
  /\ Asked(c) > Inits(c) => InTable(c)
  /\ Unhandled(c) => ~InTable(c)
  /\ client[c] # "gone" => c \in names
  /\ client[c] \in {"unlink", "gone"} /\ c \notin interrupted /\ InTable(c) => Stops(c) = 1
  /\ c \in interrupted => client[c] \in {"exit", "unlink", "gone"}

Phase(c) == Messaging(c) /\ Noted(c)

\* Clients that the server has counted, and those that it may still count.
Pool == {c \in Clients : Unhandled(c)}

CountRight == clients_count + Cardinality(Pool) <= Cardinality(Clients)

\* Nothing of a client comes after its goodbye.
StopsLast ==
  \A i, j \in DOMAIN requests :
    i < j /\ requests[i].type = "STOP" => requests[j].pid # requests[i].pid

Working ==
  /\ TableOrdered /\ CountRight /\ StopsLast
  /\ \A c \in Clients : Phase(c)

IInv == TypeOK /\ (server = "loop" => Working) /\ ErrorsOnlyOnDesertion

-----------------------------------------------------------------------------
(* The messages in the server's queue.                                     *)

Of(c, types) == {m \in Messages : m.pid = c /\ m.type \in types}

LEMMA UnderWayIsNumber ==
  ASSUME requests \in Seq(Messages), NEW c, NEW types
  PROVE  UnderWay(c, types) = Number(requests, Of(c, types))
<1>1. \A i \in DOMAIN requests : requests[i] \in Messages
  OBVIOUS
<1>2. {i \in DOMAIN requests : requests[i].pid = c /\ requests[i].type \in types}
        = Hits(requests, Of(c, types))
  BY <1>1 DEF Hits, Of
<1> QED
  BY <1>2 DEF UnderWay, Number

LEMMA CountsType ==
  ASSUME TypeOK, NEW c \in Clients
  PROVE  /\ Inits(c) \in Nat /\ Asked(c) \in Nat /\ Stops(c) \in Nat
         /\ Inits(c) <= Asked(c)
<1>1. requests \in Seq(Messages)
  BY DEF TypeOK
<1>2. \A types : UnderWay(c, types) \in Nat
  BY <1>1, UnderWayIsNumber, NumberType
<1>3. UnderWay(c, {"INIT"}) <= UnderWay(c, {"INIT", "ORDER"})
  <2>1. Of(c, {"INIT"}) \subseteq Of(c, {"INIT", "ORDER"})
    BY DEF Of
  <2> QED
    BY <1>1, <2>1, UnderWayIsNumber, NumberInSubset
<1> QED
  BY <1>2, <1>3 DEF Inits, Asked, Stops

LEMMA SendCounts ==
  ASSUME TypeOK, NEW c \in Clients, NEW type \in {"INIT", "ORDER", "END", "STOP"},
         requests' = Append(requests, [type |-> type, pid |-> c])
  PROVE  /\ requests' \in Seq(Messages)
         /\ \A d \in Clients :
              /\ Inits(d)' = Inits(d) + Count(d = c /\ type = "INIT")
              /\ Asked(d)' = Asked(d) + Count(d = c /\ type \in {"INIT", "ORDER"})
              /\ Stops(d)' = Stops(d) + Count(d = c /\ type \in {"STOP"})
<1> DEFINE m == [type |-> type, pid |-> c]
<1>1. requests \in Seq(Messages) /\ m \in Messages /\ m.pid = c /\ m.type = type
  BY DEF TypeOK, Messages
<1> HIDE DEF m
<1>2. requests' \in Seq(Messages)
  BY <1>1, AppendProperties DEF m
<1>3. ASSUME NEW d \in Clients, NEW types
      PROVE  UnderWay(d, types)' = UnderWay(d, types) + Count(d = c /\ type \in types)
  <2>1. UnderWay(d, types)' = Number(requests', Of(d, types))
    <3>1. \A i \in DOMAIN requests' : requests'[i] \in Messages
      BY <1>2
    <3>2. {i \in DOMAIN requests' : requests'[i].pid = d /\ requests'[i].type \in types}
            = Hits(requests', Of(d, types))
      BY <3>1 DEF Hits, Of
    <3> QED
      BY <3>2 DEF UnderWay, Number
  <2>2. Number(requests', Of(d, types))
          = Number(requests, Of(d, types)) + Count(m \in Of(d, types))
    BY <1>1, NumberAfterAppend DEF m
  <2>3. m \in Of(d, types) <=> d = c /\ type \in types
    BY <1>1 DEF Of
  <2> QED
    BY <1>1, <2>1, <2>2, <2>3, UnderWayIsNumber DEF Count
<1> QED
  BY <1>2, <1>3 DEF Inits, Asked, Stops

LEMMA ReceiveCounts ==
  ASSUME TypeOK, NEW c \in Clients, NEW type \in {"INIT", "ORDER", "END", "STOP"},
         Receive(c, type)
  PROVE  /\ requests' \in Seq(Messages)
         /\ \A d \in Clients :
              /\ Inits(d)' \in Nat /\ Asked(d)' \in Nat /\ Stops(d)' \in Nat
              /\ Inits(d)' <= Asked(d)'
              /\ Inits(d) = Inits(d)' + Count(d = c /\ type = "INIT")
              /\ Asked(d) = Asked(d)' + Count(d = c /\ type \in {"INIT", "ORDER"})
              /\ Stops(d) = Stops(d)' + Count(d = c /\ type \in {"STOP"})
<1> DEFINE m == Head(requests)
<1>1. /\ requests \in Seq(Messages) /\ requests # << >> /\ requests' = Tail(requests)
      /\ m \in Messages /\ m.pid = c /\ m.type = type
  BY DEF TypeOK, Messages, Receive
<1> HIDE DEF m
<1>2. requests' \in Seq(Messages)
  BY <1>1, HeadTailProperties
<1>3. \A d, types : UnderWay(d, types)' = Number(requests', Of(d, types))
  <2>1. \A i \in DOMAIN requests' : requests'[i] \in Messages
    BY <1>2
  <2>2. ASSUME NEW d, NEW types
        PROVE  {i \in DOMAIN requests' : requests'[i].pid = d /\ requests'[i].type \in types}
                 = Hits(requests', Of(d, types))
    BY <2>1 DEF Hits, Of
  <2> QED
    BY <2>2 DEF UnderWay, Number
<1>4. ASSUME NEW d \in Clients, NEW types
      PROVE  /\ UnderWay(d, types) = UnderWay(d, types)' + Count(d = c /\ type \in types)
             /\ UnderWay(d, types)' \in Nat
  <2>1. Number(requests, Of(d, types))
          = Number(requests', Of(d, types)) + Count(m \in Of(d, types))
    BY <1>1, NumberBeforeHead DEF m
  <2>2. m \in Of(d, types) <=> d = c /\ type \in types
    BY <1>1 DEF Of
  <2>3. Number(requests', Of(d, types)) \in Nat
    BY <1>2, NumberType
  <2> QED
    BY <1>1, <1>3, <2>1, <2>2, <2>3, UnderWayIsNumber DEF Count
<1>5. ASSUME NEW d \in Clients
      PROVE  UnderWay(d, {"INIT"})' <= UnderWay(d, {"INIT", "ORDER"})'
  <2>1. Of(d, {"INIT"}) \subseteq Of(d, {"INIT", "ORDER"})
    BY DEF Of
  <2> QED
    BY <1>2, <1>3, <2>1, NumberInSubset
<1> QED
  BY <1>2, <1>4, <1>5 DEF Inits, Asked, Stops

\* The order of the messages, with one more or one less.
LEMMA StopsLastSent ==
  ASSUME TypeOK, StopsLast, NEW c \in Clients, Stops(c) = 0,
         NEW type \in {"INIT", "ORDER", "END", "STOP"},
         requests' = Append(requests, [type |-> type, pid |-> c])
  PROVE  StopsLast'
<1> DEFINE n == Len(requests)  m == [type |-> type, pid |-> c]
<1>1. requests \in Seq(Messages) /\ m \in Messages /\ m.pid = c
  BY DEF TypeOK, Messages
<1>2. \A i \in DOMAIN requests : requests[i] \notin Of(c, {"STOP"})
  BY <1>1, UnderWayIsNumber, NumberType DEF Stops
<1>3. \A i \in DOMAIN requests : requests[i].type = "STOP" => requests[i].pid # c
  BY <1>1, <1>2 DEF Of
<1>4. n \in Nat /\ DOMAIN requests = 1 .. n /\ DOMAIN requests' = 1 .. n + 1
  BY <1>1, AppendProperties, LenProperties
<1>5. requests'[n + 1] = m /\ \A i \in 1 .. n : requests'[i] = requests[i]
  BY <1>1, AppendProperties
<1> HIDE DEF n, m
<1>6. \A i, j \in 1 .. n + 1 : i < j => i \in 1 .. n /\ (j \in 1 .. n \/ j = n + 1)
  BY <1>4
<1> QED
  BY <1>1, <1>3, <1>4, <1>5, <1>6 DEF StopsLast

LEMMA StopsLastReceived ==
  ASSUME TypeOK, StopsLast, NEW c \in Clients, NEW type, Receive(c, type)
  PROVE  /\ StopsLast'
         /\ type = "STOP" => Inits(c)' = 0 /\ Asked(c)' = 0 /\ Stops(c)' = 0
<1> DEFINE n == Len(requests)
<1>1. /\ requests \in Seq(Messages) /\ requests # << >> /\ requests' = Tail(requests)
      /\ Head(requests).pid = c /\ Head(requests).type = type
  BY DEF TypeOK, Receive
<1>2. n \in Nat \ {0} /\ DOMAIN requests = 1 .. n /\ DOMAIN requests' = 1 .. n - 1
      /\ requests' \in Seq(Messages)
  BY <1>1, EmptySeq, HeadTailProperties, LenProperties
<1>3. requests[1] = Head(requests) /\ \A i \in 1 .. n - 1 : requests'[i] = requests[i + 1]
  BY <1>1, HeadTailProperties
<1> HIDE DEF n
<1>4. \A i \in 1 .. n - 1 : i + 1 \in 1 .. n /\ 1 < i + 1
      /\ 1 \in 1 .. n /\ \A j \in 1 .. n - 1 : i < j => i + 1 < j + 1
  BY <1>2
<1>5. StopsLast'
  BY <1>2, <1>3, <1>4 DEF StopsLast
<1>6. ASSUME type = "STOP" PROVE \A i \in DOMAIN requests' : requests'[i].pid # c
  BY <1>1, <1>2, <1>3, <1>4, <1>6 DEF StopsLast
<1>7. ASSUME type = "STOP", NEW types PROVE UnderWay(c, types)' = 0
  <2>1. {i \in DOMAIN requests' : requests'[i].pid = c /\ requests'[i].type \in types} = {}
    BY <1>6, <1>7
  <2> QED
    BY <2>1, FS_EmptySet DEF UnderWay
<1> QED
  BY <1>5, <1>7 DEF Inits, Asked, Stops

-----------------------------------------------------------------------------
(* What the steps have in common.                                          *)

LEMMA SlotNumbers ==
  ASSUME TypeOK
  PROVE  /\ clients_count \in Nat
         /\ \A i \in Slots : i \in Nat /\ (i < clients_count \/ i >= clients_count)
<1>1. clients_count \in Nat
  BY DEF TypeOK
<1> QED
  BY <1>1 DEF Slots

LEMMA PoolSize ==
  ASSUME NEW c \in Clients, \A d \in Clients \ {c} : Unhandled(d)' <=> Unhandled(d)
  PROVE  /\ Cardinality(Pool) \in Nat /\ Cardinality(Pool') \in Nat
         /\ Cardinality(Pool') = Cardinality(Pool) + Count(Unhandled(c)') - Count(Unhandled(c))
<1>1. IsFiniteSet(Pool)
  BY FS_Subset DEF Pool
<1>2. /\ Pool \ {c} = Pool' \ {c}
      /\ c \in Pool <=> Unhandled(c)
      /\ c \in Pool' <=> Unhandled(c)'
  BY DEF Pool
<1>3. /\ Cardinality(Pool) \in Nat /\ Cardinality(Pool') \in Nat
      /\ Cardinality(Pool') = Cardinality(Pool) + Count(c \in Pool') - Count(c \in Pool)
  BY <1>1, <1>2, SizeChange
<1> QED
  BY <1>2, <1>3 DEF Count

\* A step of another client, or the handling of another client's message.
LEMMA PhaseKept ==
  ASSUME TypeOK, NEW d \in Clients, Phase(d),
         client'[d] = client[d], answers'[d] = answers[d], d \in names => d \in names',
         Inits(d)' = Inits(d), Asked(d)' = Asked(d), Stops(d)' = Stops(d),
         InTable(d)' <=> InTable(d), d \in interrupted' <=> d \in interrupted,
         deserted \subseteq deserted',
         clients_count' \in {clients_count, clients_count + 1}
  PROVE  Phase(d)' /\ (Unhandled(d)' <=> Unhandled(d))
<1>1. Waiting(d)' <=> Waiting(d)
  BY DEF Waiting
<1>2. TurnedAway(d) => TurnedAway(d)'
  <2>1. clients_count > MAX_CLIENTS => clients_count' > MAX_CLIENTS
    BY DEF TypeOK
  <2> QED
    BY <2>1 DEF TurnedAway
<1>3. Unhandled(d)' <=> Unhandled(d)
  BY DEF Unhandled
<1>4. Messaging(d)'
  BY <1>1, <1>2 DEF Phase, Messaging
<1>5. Noted(d)'
  BY <1>3 DEF Phase, Noted
<1> QED
  BY <1>3, <1>4, <1>5 DEF Phase

\* The handling of an INIT.
LEMMA InitHandled ==
  ASSUME TypeOK, Working, NEW c \in Clients, Receive(c, "INIT"),
         clients_count' = clients_count + 1
  PROVE  /\ CountRight' /\ clients_count' \in 0 .. Cardinality(Clients)
         /\ Inits(c) = 1 /\ Asked(c) = 1 /\ answers[c] = 0
         /\ Inits(c)' = 0 /\ Asked(c)' = 0 /\ Stops(c)' = Stops(c)
         /\ client[c] = "connecting" \/ c \in deserted
         /\ ~InTable(c) /\ ~Unhandled(c)'
<1>1. Phase(c) /\ answers[c] \in Nat /\ client' = client
  BY DEF Working, TypeOK, Receive
<1>2. /\ Inits(c)' \in Nat /\ Asked(c)' \in Nat
      /\ Inits(c) = Inits(c)' + 1 /\ Asked(c) = Asked(c)' + 1 /\ Stops(c) = Stops(c)'
  BY ReceiveCounts DEF Count
<1>3. Stops(c) \in Nat
  BY CountsType
<1>4. Inits(c) = 1 /\ Asked(c) = 1 /\ answers[c] = 0 /\ Inits(c)' = 0 /\ Asked(c)' = 0
  <2>1. Inits(c) <= Asked(c) /\ Asked(c) + answers[c] <= 1
    BY <1>1, CountsType DEF Phase, Messaging
  <2> QED
    BY <1>1, <1>2, <2>1
<1>5. client[c] = "connecting" \/ c \in deserted
  BY <1>1, <1>4 DEF Phase, Messaging
<1>6. ~InTable(c) /\ Unhandled(c)
  <2>1. Unhandled(c)
    BY <1>4 DEF Unhandled
  <2> QED
    BY <1>1, <2>1 DEF Phase, Noted
<1>7. ~Unhandled(c)'
  <2>1. client[c] \notin {"start", "opened"}
    <3>1. c \in deserted => c \in interrupted
      BY DEF TypeOK
    <3> QED
      BY <1>1, <1>5, <3>1 DEF Phase, Noted
  <2> QED
    BY <1>1, <1>4, <2>1 DEF Unhandled
<1>8. \A d \in Clients \ {c} : Unhandled(d)' <=> Unhandled(d)
  <2>1. \A d \in Clients \ {c} : Inits(d)' = Inits(d)
    <3>1. \A d \in Clients \ {c} : Inits(d)' \in Nat /\ Inits(d) = Inits(d)' + 0
      BY ReceiveCounts DEF Count
    <3> QED
      BY <3>1
  <2> QED
    BY <1>1, <2>1 DEF Unhandled
<1>9. CountRight' /\ clients_count' \in 0 .. Cardinality(Clients)
  <2>1. /\ Cardinality(Pool) \in Nat /\ Cardinality(Pool') \in Nat
        /\ Cardinality(Pool') = Cardinality(Pool) - 1
    <3>1. Count(Unhandled(c)') = 0 /\ Count(Unhandled(c)) = 1
      BY <1>6, <1>7 DEF Count
    <3>2. /\ Cardinality(Pool) \in Nat /\ Cardinality(Pool') \in Nat
          /\ Cardinality(Pool') = Cardinality(Pool) + Count(Unhandled(c)') - Count(Unhandled(c))
      BY <1>8, PoolSize
    <3> QED
      BY <3>1, <3>2
  <2>2. clients_count \in Nat /\ Cardinality(Clients) \in Nat
        /\ clients_count + Cardinality(Pool) <= Cardinality(Clients)
    BY FS_CardinalityType DEF Working, CountRight, TypeOK
  <2>3. clients_count' + Cardinality(Pool') <= Cardinality(Clients)
    BY <2>1, <2>2
  <2>4. clients_count' \in 0 .. Cardinality(Clients)
    BY <2>1, <2>2, <2>3
  <2> QED
    BY <2>3, <2>4 DEF CountRight
<1> QED
  BY <1>2, <1>4, <1>5, <1>6, <1>7, <1>9

\* The clients whose message is not the one that is handled.
LEMMA OthersHandled ==
  ASSUME TypeOK, Working, NEW c \in Clients, NEW type \in {"INIT", "ORDER", "END", "STOP"},
         Receive(c, type), answers' \in [Clients -> 0 .. MQ_MAXMSG],
         \A d \in Clients \ {c} : answers'[d] = answers[d] /\ (InTable(d)' <=> InTable(d)),
         clients_count' \in {clients_count, clients_count + 1}
  PROVE  \A d \in Clients \ {c} : Phase(d)' /\ (Unhandled(d)' <=> Unhandled(d))
<1> TAKE d \in Clients \ {c}
<1>1. Inits(d)' = Inits(d) /\ Asked(d)' = Asked(d) /\ Stops(d)' = Stops(d)
  <2>1. /\ Inits(d)' \in Nat /\ Asked(d)' \in Nat /\ Stops(d)' \in Nat
        /\ Inits(d) = Inits(d)' + 0 /\ Asked(d) = Asked(d)' + 0
        /\ Stops(d) = Stops(d)' + 0
    BY ReceiveCounts DEF Count
  <2> QED
    BY <2>1
<1>2. UNCHANGED <<names, client, deserted, interrupted>> /\ Phase(d)
  BY DEF Receive, history, Working
<1> QED
  BY <1>1, <1>2, PhaseKept

-----------------------------------------------------------------------------
(* The server's steps.                                                     *)

\* What a step that stays in the loop has to show of the client it concerns.
LEMMA HandledWorks ==
  ASSUME TypeOK, Working, NEW c \in Clients, NEW type \in {"INIT", "ORDER", "END", "STOP"},
         Receive(c, type), answers' \in [Clients -> 0 .. MQ_MAXMSG],
         \A d \in Clients \ {c} : answers'[d] = answers[d] /\ (InTable(d)' <=> InTable(d)),
         clients_count' \in {clients_count, clients_count + 1},
         TableOrdered', CountRight', Phase(c)'
  PROVE  Working'
<1>1. \A d \in Clients : Phase(d)'
  BY OthersHandled
<1>2. StopsLast'
  BY StopsLastReceived DEF Working
<1> QED
  BY <1>1, <1>2 DEF Working

LEMMA RefuseWorks ==
  ASSUME TypeOK, Working, NEW c \in Clients, Refuse(c)
  PROVE  Working'
<1> USE DEF Refuse
<1>1. /\ CountRight'
      /\ Inits(c)' = 0 /\ Asked(c)' = 0 /\ Stops(c)' = Stops(c) /\ answers[c] = 0
      /\ client[c] = "connecting" \/ c \in deserted
      /\ ~InTable(c) /\ ~Unhandled(c)'
  BY InitHandled
<1>2. UNCHANGED <<answers, clients, client, names, deserted, interrupted>>
  BY DEF Receive, history
<1>3. clients_count \in Nat /\ clients_count' = clients_count + 1 /\ clients_count' > MAX_CLIENTS
      /\ answers \in [Clients -> 0 .. MQ_MAXMSG] /\ deserted \subseteq interrupted
  BY DEF TypeOK
<1>4. \A d \in Clients : InTable(d)' <=> InTable(d)
  BY <1>2 DEF InTable
<1>5. TableOrdered'
  <2>1. \A i \in Slots : i \in Nat
    BY DEF Slots
  <2>2. \A i \in Slots : i >= clients_count' => i >= clients_count
    BY <1>3, <2>1
  <2> QED
    BY <1>2, <2>2 DEF TableOrdered, Working
<1>6. Phase(c) /\ Stops(c) \in Nat
  BY CountsType DEF Working
<1>7. client'[c] \notin {"ready", "waiting"}
  BY <1>1, <1>2, <1>3, <1>6 DEF Phase, Noted
<1>8. Messaging(c)'
  <2>1. TurnedAway(c)' \/ ~Waiting(c)'
    BY <1>1, <1>2, <1>3, <1>4, <1>7 DEF TurnedAway, Waiting
  <2> QED
    BY <1>1, <1>2, <1>6, <1>7, <2>1 DEF Phase, Messaging
<1>9. Noted(c)'
  <2>1. answers'[c] = 0 /\ ~InTable(c)'
    BY <1>1, <1>2, <1>4
  <2>2. ~(Asked(c)' > Inits(c)')
    BY <1>1
  <2> QED
    BY <1>1, <1>2, <1>6, <1>7, <2>1, <2>2 DEF Phase, Noted
<1> QED
  BY <1>1, <1>2, <1>3, <1>4, <1>5, <1>8, <1>9, HandledWorks DEF Phase

\* The table with one entry more.
LEMMA Admitted ==
  ASSUME TypeOK, Working, NEW c \in Clients, ~InTable(c), clients_count < MAX_CLIENTS,
         clients' = [clients EXCEPT ![clients_count] = c], clients_count' = clients_count + 1
  PROVE  /\ TableOrdered' /\ clients' \in [Slots -> Clients \cup {NoPid}]
         /\ InTable(c)' /\ \A d \in Clients \ {c} : InTable(d)' <=> InTable(d)
         /\ get_client_queue(clients', clients_count', c) = c
<1>1. clients_count \in Slots /\ clients_count < clients_count'
      /\ \A i \in Slots : i \in Nat /\ (i >= clients_count' => i >= clients_count /\ i # clients_count)
  BY SlotNumbers DEF Slots
<1>2. clients \in [Slots -> Clients \cup {NoPid}] /\ clients[clients_count] = NoPid
      /\ \A i \in Slots : clients[i] # c
  <2>1. clients_count >= clients_count
    BY DEF TypeOK
  <2> QED
    BY <1>1, <2>1 DEF TypeOK, Working, TableOrdered, InTable
<1>3. /\ clients' \in [Slots -> Clients \cup {NoPid}]
      /\ clients'[clients_count] = c
      /\ \A i \in Slots : i # clients_count => clients'[i] = clients[i]
  BY <1>1, <1>2
<1>4. TableOrdered'
  <2>1. \A i \in Slots : i >= clients_count' => clients'[i] = NoPid
    BY <1>1, <1>3 DEF Working, TableOrdered
  <2>2. \A i, j \in Slots : clients'[i] = clients'[j] /\ clients'[i] # NoPid => i = j
    BY <1>1, <1>2, <1>3 DEF Working, TableOrdered
  <2> QED
    BY <2>1, <2>2 DEF TableOrdered
<1>5. \A d \in Clients \ {c} : InTable(d)' <=> InTable(d)
  BY <1>1, <1>2, <1>3 DEF InTable
<1> QED
  BY <1>1, <1>3, <1>4, <1>5 DEF InTable, get_client_queue

LEMMA AdmitWorks ==
  ASSUME TypeOK, Working, NEW c \in Clients, Admit(c)
  PROVE  \/ ServerGoesOn /\ Working' /\ answers' \in [Clients -> 0 .. MQ_MAXMSG]
         \/ ServerExits("error", c) /\ c \in deserted /\ answers' = answers
<1> USE DEF Admit
<1>1. /\ CountRight'
      /\ Inits(c)' = 0 /\ Asked(c)' = 0 /\ Stops(c)' = Stops(c) /\ answers[c] = 0
      /\ client[c] = "connecting" \/ c \in deserted
      /\ ~InTable(c) /\ ~Unhandled(c)'
  BY InitHandled
<1>2. UNCHANGED <<client, names, deserted, interrupted>> /\ deserted \subseteq interrupted
  BY DEF Receive, history, TypeOK
<1>3. /\ TableOrdered' /\ InTable(c)' /\ \A d \in Clients \ {c} : InTable(d)' <=> InTable(d)
      /\ get_client_queue(clients', clients_count', c) = c
  BY <1>1, Admitted
<1>4. Phase(c) /\ Stops(c) \in Nat /\ answers \in [Clients -> 0 .. MQ_MAXMSG]
  BY CountsType DEF Working, TypeOK
<1>5. CASE c \in names
  <2>1. answers' = [answers EXCEPT ![c] = @ + 1] /\ ServerGoesOn /\ answers[c] < MQ_MAXMSG
    BY <1>3, <1>5, NamesAssumption DEF send_response
  <2>2. answers' \in [Clients -> 0 .. MQ_MAXMSG] /\ answers'[c] = 1
        /\ \A d \in Clients \ {c} : answers'[d] = answers[d]
    BY <1>1, <1>4, <2>1
  <2>3. client'[c] \notin {"ready", "waiting"}
    BY <1>1, <1>2, <1>4 DEF Phase, Noted
  <2>4. Messaging(c)'
    <3>1. Waiting(c)' \/ c \in interrupted'
      BY <1>1, <1>2 DEF Waiting
    <3>2. (Asked(c)' + answers'[c] = 1) /\ ~(Inits(c)' > 0)
      BY <1>1, <2>2
    <3> QED
      BY <1>1, <1>2, <1>4, <2>3, <3>1, <3>2 DEF Phase, Messaging
  <2>5. Noted(c)'
    <3>1. client'[c] \in {"unlink", "gone"} => c \in interrupted'
      BY <1>1, <1>2
    <3> QED
      BY <1>1, <1>2, <1>3, <1>4, <3>1 DEF Phase, Noted
  <2>6. Working'
    BY <1>1, <1>2, <1>3, <2>2, <2>4, <2>5, HandledWorks DEF Phase
  <2> QED
    BY <2>1, <2>2, <2>6
<1>6. CASE c \notin names
  <2>1. answers' = answers /\ ServerExits("error", c)
    BY <1>6
  <2>2. c \in deserted
    BY <1>1, <1>4, <1>6 DEF Phase, Noted
  <2> QED
    BY <2>1, <2>2
<1> QED
  BY <1>5, <1>6

\* A request is answered in every case: its client is in the table until its goodbye is read.
LEMMA OrderWorks ==
  ASSUME TypeOK, Working, NEW c \in Clients, handle_order(c)
  PROVE  ServerGoesOn /\ Working' /\ answers' \in [Clients -> 0 .. MQ_MAXMSG]
<1> USE DEF handle_order
<1>1. UNCHANGED <<clients, clients_count, client, names, deserted, interrupted>>
  BY DEF Receive, history, table
<1>2. \A d \in Clients : InTable(d)' <=> InTable(d)
  BY <1>1 DEF InTable
<1>3. \A d \in Clients : Inits(d)' = Inits(d)
  <2>1. \A d \in Clients : Inits(d)' \in Nat /\ Inits(d) = Inits(d)' + 0
    BY ReceiveCounts DEF Count
  <2> QED
    BY <2>1
<1>4. CountRight' /\ TableOrdered' /\ (Unhandled(c)' <=> Unhandled(c))
  <2>1. \A d \in Clients : Unhandled(d)' <=> Unhandled(d)
    BY <1>1, <1>3 DEF Unhandled
  <2>2. Pool' = Pool
    BY <2>1 DEF Pool
  <2> QED
    BY <1>1, <2>1, <2>2 DEF CountRight, TableOrdered, Working
<1>5. /\ Asked(c)' \in Nat /\ Inits(c)' <= Asked(c)' /\ Inits(c) \in Nat
      /\ Asked(c) = Asked(c)' + 1 /\ Stops(c) = Stops(c)' /\ Stops(c) \in Nat
  <2>1. /\ Asked(c)' \in Nat /\ Inits(c)' <= Asked(c)' /\ Stops(c)' \in Nat
        /\ Asked(c) = Asked(c)' + 1 /\ Stops(c) = Stops(c)' + 0
    BY ReceiveCounts DEF Count
  <2> QED
    BY <2>1, CountsType
<1>6. Phase(c) /\ answers \in [Clients -> 0 .. MQ_MAXMSG]
  BY DEF Working, TypeOK
<1>7. Asked(c) = 1 /\ Asked(c)' = 0 /\ Inits(c) = 0 /\ answers[c] = 0 /\ Inits(c)' = 0
  <2>1. Asked(c) + answers[c] <= 1
    BY <1>6 DEF Phase, Messaging
  <2> QED
    BY <1>3, <1>5, <1>6, <2>1
<1>8. InTable(c) /\ client[c] # "connecting" /\ (Waiting(c) \/ c \in interrupted)
  <2>1. Asked(c) > Inits(c)
    BY <1>7
  <2> QED
    BY <1>6, <1>7, <2>1 DEF Phase, Messaging, Noted
<1>9. get_client_queue(clients, clients_count, c) = c
  <2>1. \A i \in Slots : i < clients_count \/ i >= clients_count
    BY SlotNumbers
  <2>2. \A i \in Slots : clients[i] = c => i < clients_count
    BY <2>1, NamesAssumption DEF Working, TableOrdered
  <2> QED
    BY <1>8, <2>2 DEF get_client_queue, InTable
<1>10. answers' = [answers EXCEPT ![c] = @ + 1] /\ ServerGoesOn /\ answers[c] < MQ_MAXMSG
  BY <1>9, NamesAssumption DEF send_response
<1>11. answers' \in [Clients -> 0 .. MQ_MAXMSG] /\ answers'[c] = 1
       /\ \A d \in Clients \ {c} : answers'[d] = answers[d]
  BY <1>6, <1>7, <1>10
<1>12. client'[c] \notin {"connecting", "ready"}
  BY <1>1, <1>6, <1>8 DEF Phase, Noted, Waiting
<1>13. Messaging(c)'
  <2>1. Waiting(c)' \/ c \in interrupted'
    BY <1>1, <1>8 DEF Waiting
  <2>2. (Asked(c)' + answers'[c] = 1) /\ ~(Inits(c)' > 0) /\ Inits(c)' = 0
    BY <1>7, <1>11
  <2> QED
    BY <1>1, <1>5, <1>6, <1>12, <2>1, <2>2 DEF Phase, Messaging
<1>14. Noted(c)'
  BY <1>1, <1>2, <1>4, <1>5, <1>6, <1>8, <1>12 DEF Phase, Noted
<1>15. Working'
  BY <1>1, <1>2, <1>4, <1>11, <1>13, <1>14, HandledWorks DEF Phase
<1> QED
  BY <1>10, <1>11, <1>15

LEMMA StopWorks ==
  ASSUME TypeOK, Working, NEW c \in Clients, handle_request_stop(c)
  PROVE  Working' /\ clients' \in [Slots -> Clients \cup {NoPid}]
<1> USE DEF handle_request_stop
<1>1. UNCHANGED <<answers, client, names, deserted, interrupted, clients_count>>
  BY DEF Receive, history
<1>2. clients \in [Slots -> Clients \cup {NoPid}] /\ TableOrdered
  BY DEF TypeOK, Working
<1>3. \A i \in Slots : clients'[i] = IF clients[i] = c THEN NoPid ELSE clients[i]
  <2>1. \A i \in Slots : i < clients_count \/ i >= clients_count
    BY SlotNumbers
  <2>2. \A i \in Slots : clients[i] = c => i < clients_count
    BY <1>2, <2>1, NamesAssumption DEF TableOrdered
  <2> QED
    BY <2>2
<1>4. clients' \in [Slots -> Clients \cup {NoPid}]
  BY <1>2
<1>5. TableOrdered'
  BY <1>1, <1>2, <1>3 DEF TableOrdered
<1>6. ~InTable(c)' /\ \A d \in Clients \ {c} : InTable(d)' <=> InTable(d)
  BY <1>3, NamesAssumption DEF InTable
<1>7. \A d \in Clients : Inits(d)' = Inits(d)
  <2>1. \A d \in Clients : Inits(d)' \in Nat /\ Inits(d) = Inits(d)' + 0
    BY ReceiveCounts DEF Count
  <2> QED
    BY <2>1
<1>8. CountRight'
  <2>1. \A d \in Clients : Unhandled(d)' <=> Unhandled(d)
    BY <1>1, <1>7 DEF Unhandled
  <2>2. Pool' = Pool
    BY <2>1 DEF Pool
  <2> QED
    BY <1>1, <2>2 DEF CountRight, Working
<1>9. /\ Asked(c)' = Asked(c) /\ Stops(c) = 1
      /\ Inits(c)' = 0 /\ Asked(c)' = 0 /\ Stops(c)' = 0
  <2>1. /\ Asked(c)' \in Nat /\ Stops(c)' \in Nat
        /\ Asked(c) = Asked(c)' + 0 /\ Stops(c) = Stops(c)' + 1
    BY ReceiveCounts DEF Count
  <2>2. Inits(c)' = 0 /\ Asked(c)' = 0 /\ Stops(c)' = 0
    BY StopsLastReceived DEF Working
  <2> QED
    BY <2>1, <2>2
<1>10. Phase(c) /\ answers' \in [Clients -> 0 .. MQ_MAXMSG]
  BY <1>1 DEF Working, TypeOK
<1>11. client[c] \in {"unlink", "gone"} /\ ~Waiting(c) /\ ~Waiting(c)'
  <2>1. client[c] \in {"unlink", "gone"}
    BY <1>9, <1>10 DEF Phase, Messaging
  <2> QED
    BY <1>1, <2>1 DEF Waiting
<1>12. Messaging(c)'
  BY <1>1, <1>7, <1>9, <1>10, <1>11 DEF Phase, Messaging
<1>13. Noted(c)'
  <2>1. ~(Asked(c)' > Inits(c)')
    BY <1>9
  <2> QED
    BY <1>1, <1>6, <1>10, <1>11, <2>1 DEF Phase, Noted
<1>14. Working'
  BY <1>1, <1>5, <1>6, <1>8, <1>10, <1>12, <1>13, HandledWorks DEF Phase
<1> QED
  BY <1>4, <1>14

LEMMA ServerPreserves ==
  ASSUME IInv, ServerStep \/ InterruptServer \/ StartSecondServer
  PROVE  IInv'
<1>0. TypeOK /\ ErrorsOnlyOnDesertion /\ (server = "loop" => Working)
  BY DEF IInv
<1>1. ASSUME NEW c \in Clients, Refuse(c) \/ Admit(c) \/ handle_order(c)
                                \/ handle_request_end(c) \/ handle_request_stop(c)
      PROVE  IInv'
  <2>1. PICK type \in {"INIT", "ORDER", "END", "STOP"} : Receive(c, type)
    BY <1>1 DEF Refuse, Admit, handle_order, handle_request_end, handle_request_stop
  <2>2. server = "loop" /\ Working /\ UNCHANGED <<names, client, deserted, interrupted>>
    BY <1>0, <2>1 DEF Receive, history
  <2>3. requests' \in Seq(Messages) /\ Len(requests') <= MQ_MAXMSG
    <3>1. requests' \in Seq(Messages)
      BY <1>0, <2>1, ReceiveCounts
    <3>2. Len(requests') = Len(requests) - 1 /\ Len(requests) \in Nat
      BY <1>0, <2>1, HeadTailProperties, LenProperties DEF TypeOK, Receive
    <3> QED
      BY <1>0, <3>1, <3>2 DEF TypeOK
  <2>4. /\ answers' \in [Clients -> 0 .. MQ_MAXMSG]
        /\ \/ ServerGoesOn /\ Working'
           \/ ServerExits("error", c) /\ c \in deserted
           \/ ServerExits("END", NoPid)
    <3>1. ASSUME Refuse(c) PROVE answers' = answers /\ ServerGoesOn /\ Working'
      BY <1>0, <2>2, <3>1, RefuseWorks DEF Refuse
    <3>2. ASSUME handle_request_end(c) PROVE answers' = answers /\ ServerExits("END", NoPid)
      BY <3>2 DEF handle_request_end
    <3>3. ASSUME handle_request_stop(c) PROVE answers' = answers /\ ServerGoesOn /\ Working'
      BY <1>0, <2>2, <3>3, StopWorks DEF handle_request_stop
    <3>4. answers \in [Clients -> 0 .. MQ_MAXMSG]
      BY <1>0 DEF TypeOK
    <3> QED
      BY <1>0, <1>1, <2>2, <3>1, <3>2, <3>3, <3>4, AdmitWorks, OrderWorks
  <2>5. clients' \in [Slots -> Clients \cup {NoPid}]
    <3>1. clients \in [Slots -> Clients \cup {NoPid}]
      BY <1>0 DEF TypeOK
    <3>2. ASSUME Admit(c) PROVE clients' \in [Slots -> Clients \cup {NoPid}]
      BY <3>1, <3>2 DEF Admit
    <3> QED
      BY <1>0, <1>1, <2>2, <3>1, <3>2, StopWorks DEF Refuse, handle_order, handle_request_end, table
  <2>6. clients_count' \in 0 .. Cardinality(Clients)
    <3>1. ASSUME Refuse(c) \/ Admit(c) PROVE clients_count' \in 0 .. Cardinality(Clients)
      BY <1>0, <2>2, <3>1, InitHandled DEF Refuse, Admit
    <3> QED
      BY <1>0, <1>1, <3>1 DEF TypeOK, handle_order, handle_request_end, handle_request_stop, table
  <2>7. TypeOK'
    <3>1. /\ server' \in {"loop", "exit", "gone"}
          /\ ended' \in [cause : {"no", "END", "SIGINT", "error"}, pid : Clients \cup {NoPid}]
      BY <1>0, <2>4 DEF TypeOK, ServerGoesOn, ServerExits
    <3> QED
      BY <1>0, <2>2, <2>3, <2>4, <2>5, <2>6, <3>1 DEF TypeOK
  <2> QED
    BY <1>0, <2>2, <2>4, <2>7 DEF IInv, ErrorsOnlyOnDesertion, ServerGoesOn, ServerExits
<1>2. ASSUME RemoveServerQueue \/ InterruptServer PROVE IInv'
  <2>1. /\ server' \in {"exit", "gone"}
        /\ ended' = ended \/ ended' = [cause |-> "SIGINT", pid |-> NoPid]
        /\ UNCHANGED <<clients, clients_count, requests, answers, client, interrupted,
                       deserted>>
        /\ names' \subseteq names
    BY <1>2 DEF RemoveServerQueue, InterruptServer, ServerExits, table, history, message
  <2>2. TypeOK'
    BY <1>0, <2>1 DEF TypeOK
  <2> QED
    BY <1>0, <2>1, <2>2 DEF IInv, ErrorsOnlyOnDesertion
<1>3. ASSUME StartSecondServer PROVE IInv'
  <2>1. /\ UNCHANGED <<server, ended, clients, clients_count, requests, answers, client,
                       interrupted, deserted>>
        /\ names' = names \ {Server} /\ \A d \in Clients : d \in names' <=> d \in names
    BY <1>3, NamesAssumption DEF StartSecondServer, table, history
  <2>2. TypeOK' /\ ErrorsOnlyOnDesertion'
    BY <1>0, <2>1 DEF TypeOK, ErrorsOnlyOnDesertion
  <2>3. \A d \in Clients : /\ Inits(d)' = Inits(d) /\ Asked(d)' = Asked(d)
                           /\ Stops(d)' = Stops(d) /\ (InTable(d)' <=> InTable(d))
    BY <2>1 DEF Inits, Asked, Stops, UnderWay, InTable
  <2>4. ASSUME Working PROVE Working'
    <3>1. \A d \in Clients : Phase(d)' /\ (Unhandled(d)' <=> Unhandled(d))
      <4> TAKE d \in Clients
      <4>1. Phase(d)
        BY <2>4 DEF Working
      <4> QED
        BY <1>0, <2>1, <2>3, <4>1, PhaseKept
    <3>2. Pool' = Pool
      BY <3>1 DEF Pool
    <3>3. TableOrdered' /\ CountRight' /\ StopsLast'
      BY <2>1, <2>4, <3>2 DEF TableOrdered, CountRight, StopsLast, Working
    <3> QED
      BY <3>1, <3>3 DEF Working
  <2> QED
    BY <1>0, <2>1, <2>2, <2>4 DEF IInv
<1> QED
  BY <1>1, <1>2, <1>3 DEF ServerStep

-----------------------------------------------------------------------------
(* The clients' steps.                                                     *)

LEMMA ClientWorks ==
  ASSUME TypeOK, Working, NEW c \in Clients, NEW place,
         client' = [client EXCEPT ![c] = place],
         UNCHANGED <<clients, clients_count>>,
         deserted \subseteq deserted',
         \A d \in Clients \ {c} :
           /\ answers'[d] = answers[d] /\ (d \in names => d \in names')
           /\ d \in interrupted' <=> d \in interrupted
           /\ Inits(d)' = Inits(d) /\ Asked(d)' = Asked(d) /\ Stops(d)' = Stops(d),
         StopsLast', Phase(c)', Unhandled(c)' => Unhandled(c)
  PROVE  Working'
<1>1. \A d \in Clients : InTable(d)' <=> InTable(d)
  BY DEF InTable
<1>2. \A d \in Clients \ {c} : Phase(d)' /\ (Unhandled(d)' <=> Unhandled(d))
  <2> TAKE d \in Clients \ {c}
  <2>1. client'[d] = client[d] /\ Phase(d)
    BY DEF TypeOK, Working
  <2> QED
    BY <1>1, <2>1, PhaseKept
<1>3. CountRight'
  <2>1. /\ Cardinality(Pool) \in Nat /\ Cardinality(Pool') \in Nat
        /\ Cardinality(Pool') = Cardinality(Pool) + Count(Unhandled(c)') - Count(Unhandled(c))
    BY <1>2, PoolSize
  <2>2. Count(Unhandled(c)') - Count(Unhandled(c)) <= 0
    BY DEF Count
  <2>3. clients_count \in Nat /\ Cardinality(Clients) \in Nat
        /\ clients_count + Cardinality(Pool) <= Cardinality(Clients)
    BY FS_CardinalityType DEF Working, CountRight, TypeOK
  <2>4. Count(Unhandled(c)') \in Int /\ Count(Unhandled(c)) \in Int
    BY DEF Count
  <2>5. clients_count + Cardinality(Pool') <= Cardinality(Clients)
    BY <2>1, <2>2, <2>3, <2>4
  <2> QED
    BY <2>5 DEF CountRight
<1>4. TableOrdered'
  BY DEF TableOrdered, Working
<1> QED
  BY <1>2, <1>3, <1>4 DEF Working

\* A step that sends nothing.
LEMMA SilentCounts ==
  ASSUME requests' = requests
  PROVE  /\ StopsLast => StopsLast'
         /\ \A d \in Clients :
              Inits(d)' = Inits(d) /\ Asked(d)' = Asked(d) /\ Stops(d)' = Stops(d)
BY DEF Inits, Asked, Stops, UnderWay, StopsLast

LEMMA OpenWorks ==
  ASSUME TypeOK, Working, NEW c \in Clients, OpenServerQueue(c)
  PROVE  Working'
<1>1. PICK place \in {"opened", "gone"} :
        client[c] = "start" /\ client' = [client EXCEPT ![c] = place]
  BY DEF OpenServerQueue, ClientGoes
<1>2. UNCHANGED <<clients, clients_count, names, answers, interrupted, deserted, requests>>
  BY DEF OpenServerQueue, ClientGoes, table, history, message
<1>3. client'[c] = place /\ Phase(c) /\ (InTable(c)' <=> InTable(c))
  BY <1>1, <1>2 DEF TypeOK, Working, InTable
<1>4. Inits(c)' = Inits(c) /\ Asked(c)' = Asked(c) /\ Stops(c)' = Stops(c)
  BY <1>2, SilentCounts
<1>5. Unhandled(c) /\ ~InTable(c) /\ ~Waiting(c) /\ ~Waiting(c)' /\ c \notin interrupted
  BY <1>1, <1>3 DEF Unhandled, Waiting, Phase, Noted
<1>6. Messaging(c)'
  <2>1. Stops(c)' = 1 => client'[c] \in {"unlink", "gone"}
    BY <1>1, <1>3, <1>4 DEF Phase, Messaging
  <2> QED
    BY <1>1, <1>2, <1>3, <1>4, <1>5, <2>1 DEF Phase, Messaging
<1>7. Noted(c)'
  BY <1>1, <1>2, <1>3, <1>4, <1>5 DEF Phase, Noted
<1> QED
  BY <1>1, <1>2, <1>5, <1>6, <1>7, SilentCounts, ClientWorks DEF Phase, Working

LEMMA EndOfInputWorks ==
  ASSUME TypeOK, Working, NEW c \in Clients, EndOfInput(c)
  PROVE  Working'
<1>1. /\ client[c] = "ready" /\ client' = [client EXCEPT ![c] = "exit"]
      /\ UNCHANGED <<clients, clients_count, names, answers, interrupted, deserted, requests>>
  BY DEF EndOfInput, ClientGoes, table, history, message
<1>2. client'[c] = "exit" /\ Phase(c) /\ (InTable(c)' <=> InTable(c))
  BY <1>1 DEF TypeOK, Working, InTable
<1>3. Inits(c)' = Inits(c) /\ Asked(c)' = Asked(c) /\ Stops(c)' = Stops(c)
  BY <1>1, SilentCounts
<1>4. Unhandled(c)' => Unhandled(c)
  BY <1>1, <1>2, <1>3 DEF Unhandled
<1>5. Messaging(c)'
  BY <1>1, <1>2, <1>3 DEF Phase, Messaging, Noted, Waiting
<1>6. Noted(c)'
  BY <1>1, <1>2, <1>3, <1>4 DEF Phase, Noted
<1> QED
  BY <1>1, <1>4, <1>5, <1>6, SilentCounts, ClientWorks DEF Phase, Working

LEMMA TakeAnswerWorks ==
  ASSUME TypeOK, Working, NEW c \in Clients, TakeAnswer(c)
  PROVE  Working'
<1>1. /\ client[c] \in {"connecting", "waiting"} /\ client' = [client EXCEPT ![c] = "ready"]
      /\ answers[c] > 0 /\ answers' = [answers EXCEPT ![c] = @ - 1]
      /\ UNCHANGED <<clients, clients_count, names, interrupted, deserted, requests>>
  BY DEF TakeAnswer, ClientGoes, table, history
<1>2. client'[c] = "ready" /\ Phase(c) /\ (InTable(c)' <=> InTable(c))
  BY <1>1 DEF TypeOK, Working, InTable
<1>3. Inits(c)' = Inits(c) /\ Asked(c)' = Asked(c) /\ Stops(c)' = Stops(c)
  BY <1>1, SilentCounts
<1>4. answers'[c] = answers[c] - 1 /\ answers[c] \in Nat
      /\ \A d \in Clients \ {c} : answers'[d] = answers[d]
  BY <1>1 DEF TypeOK
<1>5. Asked(c) = 0 /\ Inits(c) = 0 /\ answers[c] = 1 /\ answers'[c] = 0
  <2>1. Asked(c) + answers[c] <= 1
    BY <1>2 DEF Phase, Messaging
  <2>2. Asked(c) \in Nat /\ Inits(c) \in Nat /\ Inits(c) <= Asked(c)
    BY CountsType
  <2> QED
    BY <1>1, <1>4, <2>1, <2>2
<1>6. ~Unhandled(c)'
  BY <1>2, <1>3, <1>5 DEF Unhandled
<1>7. Messaging(c)'
  BY <1>1, <1>2, <1>3, <1>5 DEF Phase, Messaging, Waiting
<1>8. Noted(c)'
  BY <1>1, <1>2, <1>3, <1>5, <1>6 DEF Phase, Noted
<1> QED
  BY <1>1, <1>4, <1>6, <1>7, <1>8, SilentCounts, ClientWorks DEF Phase, Working

LEMMA RemoveOwnWorks ==
  ASSUME TypeOK, Working, NEW c \in Clients, RemoveOwnQueue(c)
  PROVE  Working'
<1>1. /\ client[c] = "unlink" /\ client' = [client EXCEPT ![c] = "gone"]
      /\ names' = names \ {c}
      /\ UNCHANGED <<clients, clients_count, answers, interrupted, deserted, requests>>
  BY DEF RemoveOwnQueue, ClientGoes, table, history
<1>2. client'[c] = "gone" /\ Phase(c) /\ (InTable(c)' <=> InTable(c))
  BY <1>1 DEF TypeOK, Working, InTable
<1>3. Inits(c)' = Inits(c) /\ Asked(c)' = Asked(c) /\ Stops(c)' = Stops(c)
  BY <1>1, SilentCounts
<1>4. Unhandled(c)' => Unhandled(c)
  BY <1>2, <1>3 DEF Unhandled
<1>5. Messaging(c)'
  BY <1>1, <1>2, <1>3 DEF Phase, Messaging, Waiting
<1>6. Noted(c)'
  BY <1>1, <1>2, <1>3, <1>4 DEF Phase, Noted
<1> QED
  BY <1>1, <1>4, <1>5, <1>6, SilentCounts, ClientWorks DEF Phase, Working

LEMMA InterruptWorks ==
  ASSUME TypeOK, Working, NEW c \in Clients, InterruptClient(c)
  PROVE  Working'
<1> DEFINE place == IF client[c] \in {"start", "exit", "unlink"} THEN "gone" ELSE "exit"
<1>1. /\ client[c] # "gone" /\ client' = [client EXCEPT ![c] = place]
      /\ interrupted' = interrupted \cup {c}
      /\ deserted' = IF client[c] = "connecting" THEN deserted \cup {c} ELSE deserted
      /\ UNCHANGED <<clients, clients_count, names, answers, requests>>
  BY DEF InterruptClient, table, message
<1>2. /\ client[c] = "unlink" => place = "gone"
      /\ place \in {"exit", "gone"}
  OBVIOUS
<1> HIDE DEF place
<1>3. client'[c] = place /\ Phase(c) /\ (InTable(c)' <=> InTable(c))
      /\ c \in interrupted' /\ deserted \subseteq deserted'
  BY <1>1, <1>2 DEF TypeOK, Working, InTable
<1>4. Inits(c)' = Inits(c) /\ Asked(c)' = Asked(c) /\ Stops(c)' = Stops(c)
  BY <1>1, SilentCounts
<1>5. Unhandled(c)' => Unhandled(c)
  BY <1>2, <1>3, <1>4 DEF Unhandled
<1>6. Messaging(c)'
  <2>1. ~Waiting(c)' /\ client'[c] \notin {"connecting", "ready", "waiting"}
    BY <1>2, <1>3 DEF Waiting
  <2>2. Inits(c)' > 0 => c \in deserted'
    BY <1>1, <1>3, <1>4 DEF Phase, Messaging
  <2>3. Stops(c)' = 1 => client'[c] \in {"unlink", "gone"}
    BY <1>1, <1>2, <1>3, <1>4 DEF Phase, Messaging
  <2> QED
    BY <1>1, <1>3, <1>4, <2>1, <2>2, <2>3 DEF Phase, Messaging
<1>7. Noted(c)'
  BY <1>1, <1>2, <1>3, <1>4, <1>5 DEF Phase, Noted
<1>8. \A d \in Clients \ {c} : d \in interrupted' <=> d \in interrupted
  BY <1>1
<1> QED
  BY <1>1, <1>3, <1>5, <1>6, <1>7, <1>8, SilentCounts, ClientWorks DEF Phase, Working

\* The four messages a client sends.
LEMMA SendWorks ==
  ASSUME TypeOK, Working, NEW c \in Clients,
         NEW type \in {"INIT", "ORDER", "END", "STOP"}, NEW from, NEW to,
         send_request(c, type, from, to),
         \/ type = "INIT" /\ from = "opened" /\ to = "connecting"
         \/ type = "ORDER" /\ from = "ready" /\ to = "waiting"
         \/ type = "END" /\ from = "ready" /\ to = "exit"
         \/ type = "STOP" /\ from = "exit" /\ to = "unlink"
  PROVE  Working'
<1>1. /\ client[c] = from /\ client' = [client EXCEPT ![c] = to]
      /\ requests' = Append(requests, [type |-> type, pid |-> c])
      /\ UNCHANGED <<clients, clients_count, names, answers, interrupted, deserted>>
  BY DEF send_request, ClientGoes, table, history
<1>2. client'[c] = to /\ Phase(c) /\ (InTable(c)' <=> InTable(c)) /\ answers[c] \in Nat
  BY <1>1 DEF TypeOK, Working, InTable
<1>3. \A d \in Clients \ {c} :
        Inits(d)' = Inits(d) /\ Asked(d)' = Asked(d) /\ Stops(d)' = Stops(d)
  <2> TAKE d \in Clients \ {c}
  <2>1. /\ Inits(d)' = Inits(d) + 0 /\ Asked(d)' = Asked(d) + 0
        /\ Stops(d)' = Stops(d) + 0
    BY <1>1, SendCounts DEF Count
  <2> QED
    BY <2>1, CountsType
<1>4. Inits(c) \in Nat /\ Asked(c) \in Nat /\ Stops(c) \in Nat /\ Inits(c) <= Asked(c)
  BY CountsType
<1>5. client[c] \in {"opened", "ready", "exit"} /\ ~Waiting(c)
  BY <1>1 DEF Waiting
<1>6. c \notin interrupted => Asked(c) = 0 /\ Inits(c) = 0 /\ answers[c] = 0
  <2>1. c \notin interrupted => Asked(c) + answers[c] = 0
    BY <1>2, <1>5 DEF Phase, Messaging
  <2> QED
    BY <1>2, <1>4, <2>1
<1>7. Stops(c) = 0
  <2>1. Stops(c) <= 1 /\ Stops(c) # 1
    BY <1>2, <1>5 DEF Phase, Messaging
  <2> QED
    BY <1>4, <2>1
<1>8. from # "exit" => c \notin interrupted
  BY <1>1, <1>2, <1>5 DEF Phase, Noted
<1>9. Phase(c)' /\ (Unhandled(c)' => Unhandled(c))
  <2>1. CASE type = "INIT"
    <3>1. Inits(c)' = Inits(c) + 1 /\ Asked(c)' = Asked(c) + 1 /\ Stops(c)' = Stops(c) + 0
      BY <1>1, <2>1, SendCounts DEF Count
    <3>2. /\ Inits(c)' = 1 /\ Asked(c)' = 1 /\ Stops(c)' = 0 /\ answers'[c] = 0
          /\ client[c] = "opened" /\ client'[c] = "connecting" /\ c \notin interrupted'
      BY <1>1, <1>2, <1>4, <1>6, <1>7, <1>8, <2>1, <3>1
    <3>3. Messaging(c)'
      BY <3>2 DEF Messaging, Waiting
    <3>4. Unhandled(c)
      BY <3>2 DEF Unhandled
    <3>5. Noted(c)'
      BY <1>1, <1>2, <3>2, <3>4 DEF Phase, Noted
    <3> QED
      BY <3>3, <3>4, <3>5 DEF Phase
  <2>2. CASE type = "ORDER"
    <3>1. Inits(c)' = Inits(c) + 0 /\ Asked(c)' = Asked(c) + 1 /\ Stops(c)' = Stops(c) + 0
      BY <1>1, <2>2, SendCounts DEF Count
    <3>2. /\ Inits(c)' = 0 /\ Asked(c)' = 1 /\ Stops(c)' = 0 /\ answers'[c] = 0
          /\ client[c] = "ready" /\ client'[c] = "waiting" /\ c \notin interrupted'
      BY <1>1, <1>2, <1>4, <1>6, <1>7, <1>8, <2>2, <3>1
    <3>3. Messaging(c)'
      BY <3>2 DEF Messaging, Waiting
    <3>4. ~Unhandled(c)'
      BY <3>2 DEF Unhandled
    <3>5. Noted(c)'
      BY <1>1, <1>2, <3>2, <3>4 DEF Phase, Noted
    <3> QED
      BY <3>3, <3>4, <3>5 DEF Phase
  <2>3. CASE type = "END"
    <3>1. Inits(c)' = Inits(c) + 0 /\ Asked(c)' = Asked(c) + 0 /\ Stops(c)' = Stops(c) + 0
      BY <1>1, <2>3, SendCounts DEF Count
    <3>2. /\ Inits(c)' = 0 /\ Asked(c)' = 0 /\ Stops(c)' = 0 /\ answers'[c] = 0
          /\ client[c] = "ready" /\ client'[c] = "exit" /\ c \notin interrupted'
      BY <1>1, <1>2, <1>4, <1>6, <1>7, <1>8, <2>3, <3>1
    <3>3. Messaging(c)'
      BY <3>2 DEF Messaging, Waiting
    <3>4. ~Unhandled(c)'
      BY <3>2 DEF Unhandled
    <3>5. Noted(c)'
      BY <1>1, <1>2, <3>2, <3>4 DEF Phase, Noted
    <3> QED
      BY <3>3, <3>4, <3>5 DEF Phase
  <2>4. CASE type = "STOP"
    <3>1. Inits(c)' = Inits(c) + 0 /\ Asked(c)' = Asked(c) + 0 /\ Stops(c)' = Stops(c) + 1
      BY <1>1, <2>4, SendCounts DEF Count
    <3>2. /\ Inits(c)' = Inits(c) /\ Asked(c)' = Asked(c) /\ Stops(c)' = 1
          /\ client[c] = "exit" /\ client'[c] = "unlink"
      BY <1>1, <1>2, <1>4, <1>7, <2>4, <3>1
    <3>3. Messaging(c)'
      BY <1>1, <1>2, <1>5, <3>2 DEF Phase, Messaging, Waiting
    <3>4. Unhandled(c)' => Unhandled(c)
      BY <3>2 DEF Unhandled
    <3>5. Noted(c)'
      BY <1>1, <1>2, <3>2, <3>4 DEF Phase, Noted
    <3> QED
      BY <3>3, <3>4, <3>5 DEF Phase
  <2> QED
    BY <2>1, <2>2, <2>3, <2>4
<1>10. StopsLast'
  BY <1>1, <1>7, StopsLastSent DEF Working
<1> QED
  BY <1>1, <1>3, <1>9, <1>10, ClientWorks DEF Working

\* The types, whatever the server does.
LEMMA ClientTypes ==
  ASSUME TypeOK, NEW c \in Clients, ClientStep(c) \/ SendStop(c) \/ User(c)
  PROVE  TypeOK' /\ UNCHANGED <<server, ended>> /\ deserted \subseteq deserted'
<1> DEFINE Places == {"start", "opened", "connecting", "ready", "waiting", "exit", "unlink",
                      "gone"}
<1>1. UNCHANGED <<server, ended, clients, clients_count>>
  BY DEF ClientStep, User, OpenServerQueue, connect, TakeAnswer, SendStop, RemoveOwnQueue,
         SendOrder, SendEnd, EndOfInput, InterruptClient, send_request, ClientGoes, table
<1>2. \E place \in Places : client' = [client EXCEPT ![c] = place]
  BY DEF ClientStep, User, OpenServerQueue, connect, TakeAnswer, SendStop, RemoveOwnQueue,
         SendOrder, SendEnd, EndOfInput, InterruptClient, send_request, ClientGoes
<1>3. names' \subseteq names
  BY DEF ClientStep, User, OpenServerQueue, connect, TakeAnswer, SendStop, RemoveOwnQueue,
         SendOrder, SendEnd, EndOfInput, InterruptClient, send_request, message
<1>4. \/ interrupted' = interrupted /\ deserted' = deserted
      \/ interrupted' = interrupted \cup {c} /\ deserted' \in {deserted, deserted \cup {c}}
  BY DEF ClientStep, User, OpenServerQueue, connect, TakeAnswer, SendStop, RemoveOwnQueue,
         SendOrder, SendEnd, EndOfInput, InterruptClient, send_request, ClientGoes, history
<1>5. \/ answers' = answers
      \/ answers[c] > 0 /\ answers' = [answers EXCEPT ![c] = @ - 1]
  BY DEF ClientStep, User, OpenServerQueue, connect, TakeAnswer, SendStop, RemoveOwnQueue,
         SendOrder, SendEnd, EndOfInput, InterruptClient, send_request, message
<1>6. \/ requests' = requests
      \/ /\ Len(requests) < MQ_MAXMSG
         /\ \E type \in {"INIT", "ORDER", "END", "STOP"} :
              requests' = Append(requests, [type |-> type, pid |-> c])
  BY DEF ClientStep, User, OpenServerQueue, connect, TakeAnswer, SendStop, RemoveOwnQueue,
         SendOrder, SendEnd, EndOfInput, InterruptClient, send_request, message
<1>7. requests' \in Seq(Messages) /\ Len(requests') <= MQ_MAXMSG
  <2>1. requests \in Seq(Messages) /\ Len(requests) \in Nat /\ Len(requests) <= MQ_MAXMSG
    BY LenProperties DEF TypeOK
  <2>2. ASSUME Len(requests) < MQ_MAXMSG, NEW type \in {"INIT", "ORDER", "END", "STOP"},
               requests' = Append(requests, [type |-> type, pid |-> c])
        PROVE  requests' \in Seq(Messages) /\ Len(requests') <= MQ_MAXMSG
    <3>1. [type |-> type, pid |-> c] \in Messages
      BY DEF Messages
    <3>2. requests' \in Seq(Messages) /\ Len(requests') = Len(requests) + 1
      BY <2>1, <2>2, <3>1, AppendProperties
    <3> QED
      BY <2>1, <2>2, <3>2
  <2> QED
    BY <1>6, <2>1, <2>2
<1>8. answers' \in [Clients -> 0 .. MQ_MAXMSG]
  BY <1>5 DEF TypeOK
<1>9. client' \in [Clients -> Places]
  BY <1>2 DEF TypeOK
<1>10. deserted' \subseteq interrupted' /\ interrupted' \subseteq Clients
       /\ deserted \subseteq deserted'
  BY <1>4 DEF TypeOK
<1> QED
  BY <1>1, <1>3, <1>7, <1>8, <1>9, <1>10 DEF TypeOK

LEMMA ClientPreserves ==
  ASSUME IInv, NEW c \in Clients, ClientStep(c) \/ SendStop(c) \/ User(c)
  PROVE  IInv'
<1>0. TypeOK /\ ErrorsOnlyOnDesertion /\ (server = "loop" => Working)
  BY DEF IInv
<1>1. TypeOK' /\ UNCHANGED <<server, ended>> /\ deserted \subseteq deserted'
  BY <1>0, ClientTypes
<1>2. ASSUME Working PROVE Working'
  <2>1. ASSUME connect(c) \/ SendOrder(c) \/ SendEnd(c) \/ SendStop(c) PROVE Working'
    BY <1>0, <1>2, <2>1, SendWorks DEF connect, SendOrder, SendEnd, SendStop
  <2> QED
    BY <1>0, <1>2, <2>1, OpenWorks, EndOfInputWorks, TakeAnswerWorks, RemoveOwnWorks,
       InterruptWorks DEF ClientStep, User
<1> QED
  BY <1>0, <1>1, <1>2 DEF IInv, ErrorsOnlyOnDesertion

-----------------------------------------------------------------------------
(* The results.                                                            *)

LEMMA InitInvariant == Init => IInv
<1> SUFFICES ASSUME Init PROVE IInv
  OBVIOUS
<1> USE DEF Init
<1>1. << >> \in Seq(Messages) /\ Len(<< >>) = 0 /\ DOMAIN << >> = {}
  BY EmptySeq, LenProperties
<1>2. TypeOK
  <2>1. Cardinality(Clients) \in Nat
    BY FS_CardinalityType
  <2>2. 0 \in 0 .. Cardinality(Clients)
    BY <2>1
  <2> QED
    BY <1>1, <2>2 DEF TypeOK
<1>3. \A c \in Clients : Inits(c) = 0 /\ Asked(c) = 0 /\ Stops(c) = 0
  <2>1. \A M : Number(<< >>, M) = 0
    BY <1>1, NumberType
  <2> QED
    BY <1>1, <2>1, UnderWayIsNumber DEF Inits, Asked, Stops
<1>4. \A c \in Clients : ~InTable(c)
  BY NamesAssumption DEF InTable
<1>5. CountRight
  <2>1. Pool \subseteq Clients
    BY DEF Pool
  <2>2. Cardinality(Pool) \in Nat /\ Cardinality(Pool) <= Cardinality(Clients)
    BY <2>1, FS_Subset, FS_CardinalityType
  <2> QED
    BY <2>2 DEF CountRight
<1>6. TableOrdered /\ StopsLast
  BY <1>1 DEF TableOrdered, StopsLast
<1>7. ASSUME NEW c \in Clients PROVE Phase(c)
  BY <1>3, <1>4 DEF Phase, Messaging, Noted, Waiting
<1> QED
  BY <1>2, <1>5, <1>6, <1>7 DEF IInv, Working, ErrorsOnlyOnDesertion

LEMMA NextInvariant == IInv /\ [Next]_vars => IInv'
<1>1. ASSUME IInv, UNCHANGED vars PROVE IInv'
  <2>1. UNCHANGED <<server, ended, clients, clients_count, names, requests, answers, client,
                    interrupted, deserted>>
    BY <1>1 DEF vars, table, message, history
  <2>2. TypeOK' /\ ErrorsOnlyOnDesertion'
    BY <1>1, <2>1 DEF IInv, TypeOK, ErrorsOnlyOnDesertion
  <2>3. Pool' = Pool /\ \A c \in Clients : Phase(c) => Phase(c)'
    BY <2>1 DEF Pool, Phase, Messaging, Noted, Waiting, TurnedAway, InTable, Unhandled, Inits,
                Asked, Stops, UnderWay
  <2>4. Working => Working'
    BY <2>1, <2>3 DEF Working, TableOrdered, CountRight, StopsLast
  <2> QED
    BY <1>1, <2>1, <2>2, <2>4 DEF IInv
<1> QED
  BY <1>1, ServerPreserves, ClientPreserves DEF Next

\* What the server and the clients know of one another, at any time.
THEOREM Invariance == Spec => []IInv
BY InitInvariant, NextInvariant, PTL DEF Spec

\* Queues, table and clients agree, for any number of clients and entries and any room in
\* the queues: one answer for each request, one entry for each client that works with the
\* server, none for those whose goodbye it has read.
THEOREM AlwaysConsistent == Spec => []Consistent
<1>1. ASSUME TypeOK, Working, NEW c \in Clients
      PROVE  /\ Waiting(c) => \/ UnderWay(c, {"INIT", "ORDER"}) + answers[c] = 1
                              \/ Refused(c) /\ \A i \in Slots : clients[i] # c
             /\ client[c] = "ready" => UnderWay(c, {"INIT", "ORDER"}) + answers[c] = 0
  <2>1. Messaging(c)
    BY <1>1 DEF Working, Phase
  <2>2. TurnedAway(c) /\ Asked(c) + answers[c] # 1 => Inits(c) = 0 /\ answers[c] = 0
    <3>1. Asked(c) + answers[c] <= 1
      BY <2>1 DEF Messaging
    <3>2. Asked(c) \in Nat /\ Inits(c) \in Nat /\ Inits(c) <= Asked(c) /\ answers[c] \in Nat
      BY <1>1, CountsType DEF TypeOK
    <3> QED
      BY <3>1, <3>2
  <2>3. Waiting(c) /\ Asked(c) + answers[c] # 1
          => Refused(c) /\ \A i \in Slots : clients[i] # c
    BY <2>1, <2>2 DEF Messaging, TurnedAway, Refused, Inits, InTable
  <2>4. client[c] = "ready" => Asked(c) + answers[c] = 0
    <3>1. client[c] = "ready" => ~Waiting(c)
      BY DEF Waiting
    <3>2. client[c] = "ready" => c \notin interrupted
      BY <1>1 DEF Working, Phase, Noted
    <3> QED
      BY <2>1, <3>1, <3>2 DEF Messaging
  <2> QED
    BY <2>3, <2>4 DEF Asked
<1>2. ASSUME TypeOK, Working, NEW c \in Clients, NEW entries,
             entries = {i \in Slots : i < clients_count /\ clients[i] = c}
      PROVE  /\ client[c] \in {"ready", "waiting"} => Cardinality(entries) = 1
             /\ client[c] = "gone" /\ entries # {} =>
                  c \in interrupted \/ UnderWay(c, {"STOP"}) = 1
  <2>1. entries = {i \in Slots : clients[i] = c}
    <3>1. \A i \in Slots : i < clients_count \/ i >= clients_count
      BY <1>2, SlotNumbers
    <3>2. \A i \in Slots : clients[i] = c => i < clients_count
      BY <1>2, <3>1, NamesAssumption DEF Working, TableOrdered
    <3> QED
      BY <1>2, <3>2
  <2>2. InTable(c) => \E i \in Slots : entries = {i}
    BY <1>2, <2>1, NamesAssumption DEF InTable, Working, TableOrdered
  <2>3. InTable(c) => Cardinality(entries) = 1
    BY <2>2, FS_Singleton
  <2>4. entries # {} => InTable(c)
    BY <2>1 DEF InTable
  <2> QED
    BY <1>2, <2>3, <2>4 DEF Working, Phase, Noted, Stops
<1>3. ASSUME IInv PROVE OneAnswerEach
  BY <1>1, <1>3 DEF IInv, OneAnswerEach
<1>4. ASSUME IInv PROVE TableFollowsClients
  BY <1>2, <1>4 DEF IInv, TableFollowsClients
<1>5. IInv => Consistent
  BY <1>3, <1>4 DEF IInv, Consistent
<1> QED
  BY <1>5, Invariance, PTL

\* The server dies on a client only if that very client left before its queue was opened.
THEOREM ErrorsAlwaysOnDesertion == Spec => []ErrorsOnlyOnDesertion
<1>1. IInv => ErrorsOnlyOnDesertion
  BY DEF IInv
<1> QED
  BY <1>1, Invariance, PTL
=============================================================================

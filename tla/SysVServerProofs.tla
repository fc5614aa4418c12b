-------------------------- MODULE SysVServerProofs --------------------------
(***************************************************************************)
(* Proofs about SysVServer, for any number of clients and any table.       *)
(*                                                                         *)
(* What a client may have under way depends on where it is: its phase.     *)
(* The steps of a client and the server's handling of its messages change  *)
(* the phase of this client alone.                                         *)
(***************************************************************************)
EXTENDS SysVServer, CommonLemmas

USE NamesAssumption, LimitAssumption

\* How many messages of a client are in the server's queue: first messages, requests
\* that are answered, and goodbyes.
Inits(c) == UnderWay(c, {"INIT"})
Asked(c) == UnderWay(c, {"INIT", "ORDER"})
Goodbyes(c) == UnderWay(c, {"STOP", "END"})

InTable(c) == \E i \in Slots : clients[i] = c

\* The server has not handled the INIT of c.
Unhandled(c) == client[c] \in {"start", "opened"} \/ Inits(c) > 0

TurnedAway(c) == client[c] = "connecting" /\ clients_count > MAX_CLIENTS /\ ~InTable(c)

\* The entries after clients_count are empty, and no client has two.
TableOrdered ==
  /\ \A i \in Slots : i >= clients_count => clients[i] = NoPid
  /\ \A i, j \in Slots : clients[i] = clients[j] /\ clients[i] # NoPid => i = j

\* What is under way for a client ...
Messaging(c) ==
  /\ Asked(c) + answers[c] <= 1
  /\ Waiting(c) => (Asked(c) + answers[c] = 1) \/ TurnedAway(c)
  /\ ~Waiting(c) /\ c \notin deserted => Asked(c) + answers[c] = 0
  /\ client[c] = "connecting" => Asked(c) = Inits(c)
  /\ client[c] \in {"ready", "waiting"} => Inits(c) = 0
  /\ Goodbyes(c) > 0 => client[c] \in {"ending", "exit", "close", "gone"}
  /\ c \notin interrupted => Goodbyes(c) <= 1 /\ (client[c] = "exit" => Goodbyes(c) = 0)

\* ... and what the server has noted about it.
Noted(c) ==
  /\ client[c] \in {"ready", "waiting"} => InTable(c)
  /\ client[c] = "connecting" /\ answers[c] = 1 => InTable(c)
  /\ Unhandled(c) => ~InTable(c)
  /\ client[c] # "gone" => c \in queues
  /\ client[c] \in {"ending", "close", "gone"} /\ c \notin interrupted /\ InTable(c) =>
       (Goodbyes(c) = 1) \/ ~server_status
  /\ c \in deserted => client[c] \in {"exit", "close", "gone"}

Phase(c) == Messaging(c) /\ Noted(c)

\* Clients that the server has counted, and those that it may still count.
Pool == {c \in Clients : Unhandled(c)}

CountRight == clients_count + Cardinality(Pool) <= Cardinality(Clients)

Working ==
  /\ Server \in queues
  /\ TableOrdered /\ CountRight
  /\ \A c \in Clients : Phase(c)

IInv == TypeOK /\ (server = "loop" => Working) /\ ErrorsOnlyOnDesertion

-----------------------------------------------------------------------------
(* The messages in the server's queue.                                     *)

Of(c, types) == {m \in Messages : m.pid = c /\ m.type \in types}

LEMMA UnderWayIsNumber ==
  ASSUME requests \in Seq(Messages), NEW c, NEW types
  PROVE  UnderWay(c, types) = Number(requests, Of(c, types))
<1>1. \A i \in DOMAIN requests : requests[i] \in Messages
  OBVIOUS
<1>2. {i \in DOMAIN requests : requests[i].pid = c /\ requests[i].type \in types}
        = Hits(requests, Of(c, types))
  BY <1>1 DEF Hits, Of
<1> QED
  BY <1>2 DEF UnderWay, Number

LEMMA CountsType ==
  ASSUME TypeOK, NEW c \in Clients
  PROVE  /\ Inits(c) \in Nat /\ Asked(c) \in Nat /\ Goodbyes(c) \in Nat
         /\ Inits(c) <= Asked(c)
<1>1. requests \in Seq(Messages)
  BY DEF TypeOK
<1>2. \A types : UnderWay(c, types) \in Nat
  BY <1>1, UnderWayIsNumber, NumberType
<1>3. UnderWay(c, {"INIT"}) <= UnderWay(c, {"INIT", "ORDER"})
  <2>1. Of(c, {"INIT"}) \subseteq Of(c, {"INIT", "ORDER"})
    BY DEF Of
  <2> QED
    BY <1>1, <2>1, UnderWayIsNumber, NumberInSubset
<1> QED
  BY <1>2, <1>3 DEF Inits, Asked, Goodbyes

LEMMA SendCounts ==
  ASSUME TypeOK, NEW c \in Clients, NEW type \in {"INIT", "ORDER", "END", "STOP"},
         requests' = Append(requests, [type |-> type, pid |-> c])
  PROVE  /\ requests' \in Seq(Messages)
         /\ \A d \in Clients :
              /\ Inits(d)' = Inits(d) + Count(d = c /\ type = "INIT")
              /\ Asked(d)' = Asked(d) + Count(d = c /\ type \in {"INIT", "ORDER"})
              /\ Goodbyes(d)' = Goodbyes(d) + Count(d = c /\ type \in {"STOP", "END"})
<1> DEFINE m == [type |-> type, pid |-> c]
<1>1. requests \in Seq(Messages) /\ m \in Messages /\ m.pid = c /\ m.type = type
  BY DEF TypeOK, Messages
<1> HIDE DEF m
<1>2. requests' \in Seq(Messages)
  BY <1>1, AppendProperties DEF m
<1>3. ASSUME NEW d \in Clients, NEW types
      PROVE  UnderWay(d, types)' = UnderWay(d, types) + Count(d = c /\ type \in types)
  <2>1. UnderWay(d, types)' = Number(requests', Of(d, types))
    <3>1. \A i \in DOMAIN requests' : requests'[i] \in Messages
      BY <1>2
    <3>2. {i \in DOMAIN requests' : requests'[i].pid = d /\ requests'[i].type \in types}
            = Hits(requests', Of(d, types))
      BY <3>1 DEF Hits, Of
    <3> QED
      BY <3>2 DEF UnderWay, Number
  <2>2. Number(requests', Of(d, types))
          = Number(requests, Of(d, types)) + Count(m \in Of(d, types))
    BY <1>1, NumberAfterAppend DEF m
  <2>3. m \in Of(d, types) <=> d = c /\ type \in types
    BY <1>1 DEF Of
  <2> QED
    BY <1>1, <2>1, <2>2, <2>3, UnderWayIsNumber DEF Count
<1> QED
  BY <1>2, <1>3 DEF Inits, Asked, Goodbyes

LEMMA ReceiveCounts ==
  ASSUME TypeOK, NEW c \in Clients, NEW type \in {"INIT", "ORDER", "END", "STOP"},
         Receive(c, type)
  PROVE  /\ requests' \in Seq(Messages)
         /\ \A d \in Clients :
              /\ Inits(d)' \in Nat /\ Asked(d)' \in Nat /\ Goodbyes(d)' \in Nat
              /\ Inits(d)' <= Asked(d)'
              /\ Inits(d) = Inits(d)' + Count(d = c /\ type = "INIT")
              /\ Asked(d) = Asked(d)' + Count(d = c /\ type \in {"INIT", "ORDER"})
              /\ Goodbyes(d) = Goodbyes(d)' + Count(d = c /\ type \in {"STOP", "END"})
<1> DEFINE m == Head(requests)
<1>1. /\ requests \in Seq(Messages) /\ requests # << >> /\ requests' = Tail(requests)
      /\ m \in Messages /\ m.pid = c /\ m.type = type
  BY DEF TypeOK, Messages, Receive
<1> HIDE DEF m
<1>2. requests' \in Seq(Messages)
  BY <1>1, HeadTailProperties
<1>3. \A d, types : UnderWay(d, types)' = Number(requests', Of(d, types))
  <2>1. \A i \in DOMAIN requests' : requests'[i] \in Messages
    BY <1>2
  <2>2. ASSUME NEW d, NEW types
        PROVE  {i \in DOMAIN requests' : requests'[i].pid = d /\ requests'[i].type \in types}
                 = Hits(requests', Of(d, types))
    BY <2>1 DEF Hits, Of
  <2> QED
    BY <2>2 DEF UnderWay, Number
<1>4. ASSUME NEW d \in Clients, NEW types
      PROVE  /\ UnderWay(d, types) = UnderWay(d, types)' + Count(d = c /\ type \in types)
             /\ UnderWay(d, types)' \in Nat
  <2>1. Number(requests, Of(d, types))
          = Number(requests', Of(d, types)) + Count(m \in Of(d, types))
    BY <1>1, NumberBeforeHead DEF m
  <2>2. m \in Of(d, types) <=> d = c /\ type \in types
    BY <1>1 DEF Of
  <2>3. Number(requests', Of(d, types)) \in Nat
    BY <1>2, NumberType
  <2> QED
    BY <1>1, <1>3, <2>1, <2>2, <2>3, UnderWayIsNumber DEF Count
<1>5. ASSUME NEW d \in Clients
      PROVE  UnderWay(d, {"INIT"})' <= UnderWay(d, {"INIT", "ORDER"})'
  <2>1. Of(d, {"INIT"}) \subseteq Of(d, {"INIT", "ORDER"})
    BY DEF Of
  <2> QED
    BY <1>2, <1>3, <2>1, NumberInSubset
<1> QED
  BY <1>2, <1>4, <1>5 DEF Inits, Asked, Goodbyes

-----------------------------------------------------------------------------
(* What the steps have in common.                                          *)

LEMMA SlotNumbers ==
  ASSUME TypeOK
  PROVE  /\ clients_count \in Nat
         /\ \A i \in Slots : i \in Nat /\ (i < clients_count \/ i >= clients_count)
<1>1. clients_count \in Nat
  BY DEF TypeOK
<1> QED
  BY <1>1 DEF Slots

LEMMA PoolSize ==
  ASSUME NEW c \in Clients, \A d \in Clients \ {c} : Unhandled(d)' <=> Unhandled(d)
  PROVE  /\ Cardinality(Pool) \in Nat /\ Cardinality(Pool') \in Nat
         /\ Cardinality(Pool') = Cardinality(Pool) + Count(Unhandled(c)') - Count(Unhandled(c))
<1>1. IsFiniteSet(Pool)
  BY FS_Subset DEF Pool
<1>2. /\ Pool \ {c} = Pool' \ {c}
      /\ c \in Pool <=> Unhandled(c)
      /\ c \in Pool' <=> Unhandled(c)'
  BY DEF Pool
<1>3. /\ Cardinality(Pool) \in Nat /\ Cardinality(Pool') \in Nat
      /\ Cardinality(Pool') = Cardinality(Pool) + Count(c \in Pool') - Count(c \in Pool)
  BY <1>1, <1>2, SizeChange
<1> QED
  BY <1>2, <1>3 DEF Count

\* A step of another client, or the handling of another client's message.
LEMMA PhaseKept ==
  ASSUME TypeOK, NEW d \in Clients, Phase(d),
         client'[d] = client[d], answers'[d] = answers[d], d \in queues => d \in queues',
         Inits(d)' = Inits(d), Asked(d)' = Asked(d), Goodbyes(d)' = Goodbyes(d),
         InTable(d)' <=> InTable(d), d \in deserted' <=> d \in deserted,
         interrupted \subseteq interrupted', server_status' => server_status,
         clients_count' \in {clients_count, clients_count + 1}
  PROVE  Phase(d)' /\ (Unhandled(d)' <=> Unhandled(d))
<1>1. Waiting(d)' <=> Waiting(d)
  BY DEF Waiting
<1>2. TurnedAway(d) => TurnedAway(d)'
  <2>1. clients_count > MAX_CLIENTS => clients_count' > MAX_CLIENTS
    BY DEF TypeOK
  <2> QED
    BY <2>1 DEF TurnedAway
<1>3. Unhandled(d)' <=> Unhandled(d)
  BY DEF Unhandled
<1>4. Messaging(d)'
  BY <1>1, <1>2 DEF Phase, Messaging
<1>5. Noted(d)'
  BY <1>3 DEF Phase, Noted
<1> QED
  BY <1>3, <1>4, <1>5 DEF Phase

\* The handling of an INIT.
LEMMA InitHandled ==
  ASSUME TypeOK, Working, NEW c \in Clients, Receive(c, "INIT"),
         clients_count' = clients_count + 1
  PROVE  /\ CountRight' /\ clients_count' \in 0 .. Cardinality(Clients)
         /\ Inits(c) = 1 /\ Asked(c) = 1 /\ answers[c] = 0
         /\ Inits(c)' = 0 /\ Asked(c)' = 0 /\ Goodbyes(c)' = Goodbyes(c)
         /\ client[c] = "connecting" \/ c \in deserted
         /\ ~InTable(c) /\ ~Unhandled(c)'
<1>1. Phase(c) /\ answers[c] \in Nat /\ client' = client
  BY DEF Working, TypeOK, Receive
<1>2. /\ Inits(c)' \in Nat /\ Asked(c)' \in Nat
      /\ Inits(c) = Inits(c)' + 1 /\ Asked(c) = Asked(c)' + 1 /\ Goodbyes(c) = Goodbyes(c)'
  BY ReceiveCounts DEF Count
<1>3. Goodbyes(c) \in Nat
  BY CountsType
<1>4. Inits(c) = 1 /\ Asked(c) = 1 /\ answers[c] = 0 /\ Inits(c)' = 0 /\ Asked(c)' = 0
  <2>1. Inits(c) <= Asked(c) /\ Asked(c) + answers[c] <= 1
    BY <1>1, CountsType DEF Phase, Messaging
  <2> QED
    BY <1>1, <1>2, <2>1
<1>5. client[c] = "connecting" \/ c \in deserted
  <2>1. Waiting(c) \/ c \in deserted
    BY <1>1, <1>4 DEF Phase, Messaging
  <2>2. client[c] # "waiting"
    BY <1>1, <1>4 DEF Phase, Messaging
  <2> QED
    BY <2>1, <2>2 DEF Waiting
<1>6. ~InTable(c) /\ Unhandled(c)
  <2>1. Unhandled(c)
    BY <1>4 DEF Unhandled
  <2> QED
    BY <1>1, <2>1 DEF Phase, Noted
<1>7. ~Unhandled(c)'
  <2>1. client[c] \notin {"start", "opened"}
    BY <1>1, <1>5 DEF Phase, Noted
  <2> QED
    BY <1>1, <1>4, <2>1 DEF Unhandled
<1>8. \A d \in Clients \ {c} : Unhandled(d)' <=> Unhandled(d)
  <2>1. \A d \in Clients \ {c} : Inits(d)' = Inits(d)
    <3>1. \A d \in Clients \ {c} : Inits(d)' \in Nat /\ Inits(d) = Inits(d)' + 0
      BY ReceiveCounts DEF Count
    <3> QED
      BY <3>1
  <2> QED
    BY <1>1, <2>1 DEF Unhandled
<1>9. CountRight' /\ clients_count' \in 0 .. Cardinality(Clients)
  <2>1. /\ Cardinality(Pool) \in Nat /\ Cardinality(Pool') \in Nat
        /\ Cardinality(Pool') = Cardinality(Pool) - 1
    <3>1. Count(Unhandled(c)') = 0 /\ Count(Unhandled(c)) = 1
      BY <1>6, <1>7 DEF Count
    <3>2. /\ Cardinality(Pool) \in Nat /\ Cardinality(Pool') \in Nat
          /\ Cardinality(Pool') = Cardinality(Pool) + Count(Unhandled(c)') - Count(Unhandled(c))
      BY <1>8, PoolSize
    <3> QED
      BY <3>1, <3>2
  <2>2. clients_count \in Nat /\ Cardinality(Clients) \in Nat
        /\ clients_count + Cardinality(Pool) <= Cardinality(Clients)
    BY FS_CardinalityType DEF Working, CountRight, TypeOK
  <2>3. clients_count' + Cardinality(Pool') <= Cardinality(Clients)
    BY <2>1, <2>2
  <2>4. clients_count' \in 0 .. Cardinality(Clients)
    BY <2>1, <2>2, <2>3
  <2> QED
    BY <2>3, <2>4 DEF CountRight
<1> QED
  BY <1>2, <1>4, <1>5, <1>6, <1>7, <1>9

\* The clients whose message is not the one that is handled.
LEMMA OthersHandled ==
  ASSUME TypeOK, Working, NEW c \in Clients, NEW type \in {"INIT", "ORDER", "END", "STOP"},
         Receive(c, type), answers' \in [Clients -> Nat],
         \A d \in Clients \ {c} : answers'[d] = answers[d] /\ (InTable(d)' <=> InTable(d)),
         server_status' => server_status,
         clients_count' \in {clients_count, clients_count + 1}
  PROVE  \A d \in Clients \ {c} : Phase(d)' /\ (Unhandled(d)' <=> Unhandled(d))
<1> TAKE d \in Clients \ {c}
<1>1. Inits(d)' = Inits(d) /\ Asked(d)' = Asked(d) /\ Goodbyes(d)' = Goodbyes(d)
  <2>1. /\ Inits(d)' \in Nat /\ Asked(d)' \in Nat /\ Goodbyes(d)' \in Nat
        /\ Inits(d) = Inits(d)' + 0 /\ Asked(d) = Asked(d)' + 0
        /\ Goodbyes(d) = Goodbyes(d)' + 0
    BY ReceiveCounts DEF Count
  <2> QED
    BY <2>1
<1>2. UNCHANGED <<queues, client, deserted, interrupted>> /\ Phase(d)
  BY DEF Receive, history, Working
<1> QED
  BY <1>1, <1>2, PhaseKept

-----------------------------------------------------------------------------
(* The server's steps.                                                     *)

\* What a step that stays in the loop has to show of the client it concerns.
LEMMA HandledWorks ==
  ASSUME TypeOK, Working, NEW c \in Clients, NEW type \in {"INIT", "ORDER", "END", "STOP"},
         Receive(c, type), answers' \in [Clients -> Nat],
         \A d \in Clients \ {c} : answers'[d] = answers[d] /\ (InTable(d)' <=> InTable(d)),
         server_status' => server_status,
         clients_count' \in {clients_count, clients_count + 1},
         TableOrdered', CountRight', Phase(c)'
  PROVE  Working'
<1>1. \A d \in Clients : Phase(d)'
  BY OthersHandled
<1>2. Server \in queues'
  BY DEF Working, Receive
<1> QED
  BY <1>1, <1>2 DEF Working

\* Refuse, and the part of Admit before the answer.
LEMMA RefuseWorks ==
  ASSUME TypeOK, Working, NEW c \in Clients, Refuse(c)
  PROVE  Working'
<1> USE DEF Refuse
<1>1. /\ CountRight'
      /\ Inits(c)' = 0 /\ Asked(c)' = 0 /\ Goodbyes(c)' = Goodbyes(c) /\ answers[c] = 0
      /\ client[c] = "connecting" \/ c \in deserted
      /\ ~InTable(c) /\ ~Unhandled(c)'
  BY InitHandled
<1>2. UNCHANGED <<answers, clients, client, queues, deserted, interrupted, server_status>>
  BY DEF Receive, history
<1>3. clients_count \in Nat /\ clients_count' = clients_count + 1 /\ clients_count' > MAX_CLIENTS
      /\ answers \in [Clients -> Nat]
  BY DEF TypeOK
<1>4. \A d \in Clients : InTable(d)' <=> InTable(d)
  BY <1>2 DEF InTable
<1>5. TableOrdered'
  <2>1. \A i \in Slots : i \in Nat
    BY DEF Slots
  <2>2. \A i \in Slots : i >= clients_count' => i >= clients_count
    BY <1>3, <2>1
  <2> QED
    BY <1>2, <2>2 DEF TableOrdered, Working
<1>6. Phase(c) /\ Goodbyes(c) \in Nat
  BY CountsType DEF Working
<1>7. Messaging(c)'
  <2>1. TurnedAway(c)' \/ ~Waiting(c)'
    BY <1>1, <1>2, <1>3, <1>4, <1>6 DEF TurnedAway, Waiting, Phase, Noted
  <2>2. client'[c] \notin {"ready", "waiting"}
    BY <1>1, <1>2, <1>6 DEF Phase, Noted
  <2> QED
    BY <1>1, <1>2, <1>6, <2>1, <2>2 DEF Phase, Messaging
<1>8. Noted(c)'
  <2>1. answers'[c] = 0 /\ ~InTable(c)'
    BY <1>1, <1>2, <1>4
  <2>2. client'[c] \notin {"ready", "waiting"}
    BY <1>1, <1>2, <1>6 DEF Phase, Noted
  <2> QED
    BY <1>1, <1>2, <1>6, <2>1, <2>2 DEF Phase, Noted
<1> QED
  BY <1>1, <1>2, <1>3, <1>4, <1>5, <1>7, <1>8, HandledWorks DEF Phase

\* The table with one entry more.
LEMMA Admitted ==
  ASSUME TypeOK, Working, NEW c \in Clients, ~InTable(c), clients_count < MAX_CLIENTS,
         clients' = [clients EXCEPT ![clients_count] = c], clients_count' = clients_count + 1
  PROVE  /\ TableOrdered' /\ clients' \in [Slots -> Clients \cup {NoPid}]
         /\ InTable(c)' /\ \A d \in Clients \ {c} : InTable(d)' <=> InTable(d)
         /\ get_client_queue(clients', clients_count', c) = c
<1>1. clients_count \in Slots /\ clients_count < clients_count'
      /\ \A i \in Slots : i \in Nat /\ (i >= clients_count' => i >= clients_count /\ i # clients_count)
  BY SlotNumbers DEF Slots
<1>2. clients \in [Slots -> Clients \cup {NoPid}] /\ clients[clients_count] = NoPid
      /\ \A i \in Slots : clients[i] # c
  <2>1. clients_count >= clients_count
    BY DEF TypeOK
  <2> QED
    BY <1>1, <2>1 DEF TypeOK, Working, TableOrdered, InTable
<1>3. /\ clients' \in [Slots -> Clients \cup {NoPid}]
      /\ clients'[clients_count] = c
      /\ \A i \in Slots : i # clients_count => clients'[i] = clients[i]
  BY <1>1, <1>2
<1>4. TableOrdered'
  <2>1. \A i \in Slots : i >= clients_count' => clients'[i] = NoPid
    BY <1>1, <1>3 DEF Working, TableOrdered
  <2>2. \A i, j \in Slots : clients'[i] = clients'[j] /\ clients'[i] # NoPid => i = j
    BY <1>1, <1>2, <1>3 DEF Working, TableOrdered
  <2> QED
    BY <2>1, <2>2 DEF TableOrdered
<1>5. \A d \in Clients \ {c} : InTable(d)' <=> InTable(d)
  BY <1>1, <1>2, <1>3 DEF InTable
<1> QED
  BY <1>1, <1>3, <1>4, <1>5 DEF InTable, get_client_queue

LEMMA AdmitWorks ==
  ASSUME TypeOK, Working, NEW c \in Clients, Admit(c)
  PROVE  \/ ServerGoesOn /\ Working' /\ answers' \in [Clients -> Nat]
         \/ ServerExits("error", c) /\ c \in deserted /\ answers' = answers
<1> USE DEF Admit
<1>1. /\ CountRight'
      /\ Inits(c)' = 0 /\ Asked(c)' = 0 /\ Goodbyes(c)' = Goodbyes(c) /\ answers[c] = 0
      /\ client[c] = "connecting" \/ c \in deserted
      /\ ~InTable(c) /\ ~Unhandled(c)'
  BY InitHandled
<1>2. UNCHANGED <<client, queues, deserted, interrupted, server_status>>
  BY DEF Receive, history
<1>3. /\ TableOrdered' /\ InTable(c)' /\ \A d \in Clients \ {c} : InTable(d)' <=> InTable(d)
      /\ get_client_queue(clients', clients_count', c) = c
  BY <1>1, Admitted
<1>4. Phase(c) /\ Goodbyes(c) \in Nat /\ answers \in [Clients -> Nat]
  BY CountsType DEF Working, TypeOK
<1>5. CASE c \in queues
  <2>1. answers' = [answers EXCEPT ![c] = @ + 1] /\ ServerGoesOn
    BY <1>3, <1>5 DEF send_response
  <2>2. answers' \in [Clients -> Nat] /\ answers'[c] = 1
        /\ \A d \in Clients \ {c} : answers'[d] = answers[d]
    BY <1>1, <1>4, <2>1
  <2>3. Messaging(c)'
    <3>1. client'[c] \notin {"ready", "waiting"}
      BY <1>1, <1>2, <1>4 DEF Phase, Noted
    <3>2. Waiting(c)' \/ c \in deserted'
      BY <1>1, <1>2 DEF Waiting
    <3>3. (Asked(c)' + answers'[c] = 1)
      BY <1>1, <2>2
    <3> QED
      BY <1>1, <1>2, <1>4, <3>1, <3>2, <3>3 DEF Phase, Messaging
  <2>4. Noted(c)'
    <3>1. client'[c] \in {"close", "gone"} => c \in interrupted'
      BY <1>1, <1>2 DEF TypeOK
    <3> QED
      BY <1>1, <1>2, <1>3, <1>4, <3>1 DEF Phase, Noted
  <2>5. Working'
    BY <1>1, <1>2, <1>3, <2>2, <2>3, <2>4, HandledWorks DEF Phase
  <2> QED
    BY <2>1, <2>2, <2>5
<1>6. CASE c \notin queues
  <2>1. answers' = answers /\ ServerExits("error", c)
    BY <1>3, <1>6 DEF send_response
  <2>2. c \in deserted
    BY <1>1, <1>4, <1>6 DEF Phase, Noted
  <2> QED
    BY <2>1, <2>2
<1> QED
  BY <1>5, <1>6

\* The handling of a request that is neither INIT nor STOP: nothing in the table changes,
\* and the others are left alone.
LEMMA LaterHandled ==
  ASSUME TypeOK, Working, NEW c \in Clients, NEW type \in {"ORDER", "END"}, Receive(c, type),
         UNCHANGED table
  PROVE  /\ TableOrdered' /\ CountRight' /\ \A d \in Clients : InTable(d)' <=> InTable(d)
         /\ Inits(c)' = Inits(c) /\ (Unhandled(c)' <=> Unhandled(c))
<1>1. UNCHANGED <<clients, clients_count, client>>
  BY DEF table, Receive
<1>2. \A d \in Clients : Inits(d)' = Inits(d)
  <2>1. \A d \in Clients : Inits(d)' \in Nat /\ Inits(d) = Inits(d)' + 0
    BY ReceiveCounts DEF Count
  <2> QED
    BY <2>1
<1>3. \A d \in Clients : Unhandled(d)' <=> Unhandled(d)
  BY <1>1, <1>2 DEF Unhandled
<1>4. Pool' = Pool
  BY <1>3 DEF Pool
<1> QED
  BY <1>1, <1>2, <1>3, <1>4 DEF TableOrdered, CountRight, InTable, Working

LEMMA OrderWorks ==
  ASSUME TypeOK, Working, NEW c \in Clients, handle_order(c)
  PROVE  \/ ServerGoesOn /\ Working' /\ answers' \in [Clients -> Nat]
         \/ ServerExits("error", c) /\ c \in deserted /\ answers' = answers
<1> USE DEF handle_order
<1>1. /\ TableOrdered' /\ CountRight' /\ \A d \in Clients : InTable(d)' <=> InTable(d)
      /\ Inits(c)' = Inits(c) /\ (Unhandled(c)' <=> Unhandled(c))
  BY LaterHandled
<1>2. UNCHANGED <<client, queues, deserted, interrupted, server_status, clients_count>>
  BY DEF Receive, history, table
<1>3. /\ Asked(c)' \in Nat /\ Inits(c)' <= Asked(c)' /\ Inits(c) \in Nat
      /\ Asked(c) = Asked(c)' + 1 /\ Goodbyes(c) = Goodbyes(c)' /\ Goodbyes(c) \in Nat
  <2>1. /\ Asked(c)' \in Nat /\ Inits(c)' <= Asked(c)' /\ Goodbyes(c)' \in Nat
        /\ Asked(c) = Asked(c)' + 1 /\ Goodbyes(c) = Goodbyes(c)' + 0
    BY ReceiveCounts DEF Count
  <2> QED
    BY <2>1, CountsType
<1>4. Phase(c) /\ answers \in [Clients -> Nat]
  BY DEF Working, TypeOK
<1>5. Asked(c) = 1 /\ Asked(c)' = 0 /\ Inits(c) = 0 /\ answers[c] = 0
  <2>1. Asked(c) + answers[c] <= 1
    BY <1>4 DEF Phase, Messaging
  <2> QED
    BY <1>1, <1>3, <1>4, <2>1
<1>6. client[c] = "waiting" \/ c \in deserted
  <2>1. Waiting(c) \/ c \in deserted
    BY <1>4, <1>5 DEF Phase, Messaging
  <2>2. client[c] # "connecting"
    BY <1>4, <1>5 DEF Phase, Messaging
  <2> QED
    BY <2>1, <2>2 DEF Waiting
<1> DEFINE queue == get_client_queue(clients, clients_count, c)
<1>7. queue \in {c, NoPid} /\ (InTable(c) => queue = c)
  <2>1. \A i \in Slots : i \in Nat /\ clients_count \in Nat
    BY SlotNumbers
  <2>2. \A i \in Slots : i < clients_count \/ i >= clients_count
    BY <2>1
  <2>3. \A i \in Slots : clients[i] = c => i < clients_count
    BY <2>2, NamesAssumption DEF Working, TableOrdered
  <2> QED
    BY <2>3 DEF get_client_queue, InTable
<1>8. send_response(c, queue)
  OBVIOUS
<1> HIDE DEF queue
<1>9. CASE queue \in queues
  <2>1. queue = c
    BY <1>7, <1>9 DEF TypeOK
  <2>2. answers' = [answers EXCEPT ![c] = @ + 1] /\ ServerGoesOn
    BY <1>8, <1>9, <2>1 DEF send_response
  <2>3. answers' \in [Clients -> Nat] /\ answers'[c] = 1
        /\ \A d \in Clients \ {c} : answers'[d] = answers[d]
    BY <1>4, <1>5, <2>2
  <2>4. Messaging(c)'
    <3>1. client'[c] = "waiting" \/ client'[c] \notin {"connecting", "ready"}
      BY <1>2, <1>4, <1>6 DEF Phase, Noted
    <3>2. Waiting(c)' \/ c \in deserted'
      BY <1>2, <1>6 DEF Waiting
    <3>3. (Asked(c)' + answers'[c] = 1) /\ Inits(c)' = 0
      BY <1>1, <1>5, <2>3
    <3> QED
      BY <1>2, <1>3, <1>4, <3>1, <3>2, <3>3 DEF Phase, Messaging
  <2>5. Noted(c)'
    <3>1. client'[c] # "connecting"
      BY <1>2, <1>4, <1>6 DEF Phase, Noted
    <3> QED
      BY <1>1, <1>2, <1>3, <1>4, <3>1 DEF Phase, Noted
  <2>6. Working'
    BY <1>1, <1>2, <2>3, <2>4, <2>5, HandledWorks DEF Phase
  <2> QED
    BY <2>2, <2>3, <2>6
<1>10. CASE queue \notin queues
  <2>1. answers' = answers /\ ServerExits("error", c)
    BY <1>8, <1>10 DEF send_response
  <2>2. c \in deserted
    <3>1. client[c] = "waiting" => InTable(c) /\ c \in queues
      BY <1>4 DEF Phase, Noted
    <3> QED
      BY <1>6, <1>7, <1>10, <3>1
  <2> QED
    BY <2>1, <2>2
<1> QED
  BY <1>9, <1>10

LEMMA EndWorks ==
  ASSUME TypeOK, Working, NEW c \in Clients, handle_request_end(c)
  PROVE  Working'
<1> USE DEF handle_request_end
<1>1. /\ TableOrdered' /\ CountRight' /\ \A d \in Clients : InTable(d)' <=> InTable(d)
      /\ Inits(c)' = Inits(c) /\ (Unhandled(c)' <=> Unhandled(c))
  BY LaterHandled
<1>2. UNCHANGED <<answers, client, queues, deserted, interrupted, clients_count>>
      /\ server_status' = FALSE
  BY DEF Receive, history, table
<1>3. /\ Asked(c)' = Asked(c) /\ Goodbyes(c) = Goodbyes(c)' + 1 /\ Goodbyes(c)' \in Nat
  <2>1. /\ Asked(c)' \in Nat /\ Goodbyes(c)' \in Nat
        /\ Asked(c) = Asked(c)' + 0 /\ Goodbyes(c) = Goodbyes(c)' + 1
    BY ReceiveCounts DEF Count
  <2> QED
    BY <2>1
<1>4. Phase(c) /\ answers' \in [Clients -> Nat]
  BY <1>2 DEF Working, TypeOK
<1>5. /\ Goodbyes(c)' > 0 => client'[c] \in {"ending", "exit", "close", "gone"}
      /\ c \notin interrupted' => Goodbyes(c)' = 0
  <2>1. /\ Goodbyes(c) > 0 => client[c] \in {"ending", "exit", "close", "gone"}
        /\ c \notin interrupted => Goodbyes(c) <= 1
    BY <1>4 DEF Phase, Messaging
  <2> QED
    BY <1>2, <1>3, <2>1
<1>6. Waiting(c)' <=> Waiting(c)
  BY <1>2 DEF Waiting
<1>7. TurnedAway(c)' <=> TurnedAway(c)
  BY <1>1, <1>2 DEF TurnedAway
<1>8. Messaging(c)'
  BY <1>1, <1>2, <1>3, <1>4, <1>5, <1>6, <1>7 DEF Phase, Messaging
<1>9. Noted(c)'
  BY <1>1, <1>2, <1>4 DEF Phase, Noted
<1> QED
  BY <1>1, <1>2, <1>4, <1>8, <1>9, HandledWorks DEF Phase

LEMMA StopWorks ==
  ASSUME TypeOK, Working, NEW c \in Clients, handle_request_stop(c)
  PROVE  Working' /\ clients' \in [Slots -> Clients \cup {NoPid}]
<1> USE DEF handle_request_stop
<1>1. UNCHANGED <<answers, client, queues, deserted, interrupted, clients_count, server_status>>
  BY DEF Receive, history
<1>2. clients \in [Slots -> Clients \cup {NoPid}] /\ TableOrdered
  BY DEF TypeOK, Working
<1>3. \A i \in Slots : clients'[i] = IF clients[i] = c THEN NoPid ELSE clients[i]
  <2>1. \A i \in Slots : i \in Nat /\ clients_count \in Nat
    BY SlotNumbers
  <2>2. \A i \in Slots : i < clients_count \/ i >= clients_count
    BY <2>1
  <2>3. \A i \in Slots : clients[i] = c => i < clients_count
    BY <1>2, <2>2, NamesAssumption DEF TableOrdered
  <2> QED
    BY <2>3
<1>4. clients' \in [Slots -> Clients \cup {NoPid}]
  BY <1>2
<1>5. TableOrdered'
  BY <1>1, <1>2, <1>3 DEF TableOrdered
<1>6. ~InTable(c)' /\ \A d \in Clients \ {c} : InTable(d)' <=> InTable(d)
  BY <1>3, NamesAssumption DEF InTable
<1>7. \A d \in Clients : Inits(d)' = Inits(d)
  <2>1. \A d \in Clients : Inits(d)' \in Nat /\ Inits(d) = Inits(d)' + 0
    BY ReceiveCounts DEF Count
  <2> QED
    BY <2>1
<1>8. CountRight'
  <2>1. \A d \in Clients : Unhandled(d)' <=> Unhandled(d)
    BY <1>1, <1>7 DEF Unhandled
  <2>2. Pool' = Pool
    BY <2>1 DEF Pool
  <2> QED
    BY <1>1, <2>2 DEF CountRight, Working
<1>9. /\ Asked(c)' = Asked(c) /\ Goodbyes(c) = Goodbyes(c)' + 1 /\ Goodbyes(c)' \in Nat
  <2>1. /\ Asked(c)' \in Nat /\ Goodbyes(c)' \in Nat
        /\ Asked(c) = Asked(c)' + 0 /\ Goodbyes(c) = Goodbyes(c)' + 1
    BY ReceiveCounts DEF Count
  <2> QED
    BY <2>1
<1>10. Phase(c) /\ answers' \in [Clients -> Nat]
  BY <1>1 DEF Working, TypeOK
<1>11. Goodbyes(c) > 0 /\ (c \notin interrupted' => Goodbyes(c)' = 0)
  <2>1. c \notin interrupted => Goodbyes(c) <= 1
    BY <1>10 DEF Phase, Messaging
  <2> QED
    BY <1>1, <1>9, <2>1
<1>12. client[c] \in {"ending", "exit", "close", "gone"} /\ ~Waiting(c) /\ ~Waiting(c)'
  <2>1. client[c] \in {"ending", "exit", "close", "gone"}
    BY <1>10, <1>11 DEF Phase, Messaging
  <2> QED
    BY <1>1, <2>1 DEF Waiting
<1>13. Messaging(c)'
  BY <1>1, <1>7, <1>9, <1>10, <1>11, <1>12 DEF Phase, Messaging
<1>14. Noted(c)'
  BY <1>1, <1>6, <1>10, <1>12 DEF Phase, Noted
<1>15. Working'
  BY <1>1, <1>5, <1>6, <1>8, <1>10, <1>13, <1>14, HandledWorks DEF Phase
<1> QED
  BY <1>4, <1>15

LEMMA ServerPreserves ==
  ASSUME IInv, ServerStep \/ InterruptServer
  PROVE  IInv'
<1>0. TypeOK /\ ErrorsOnlyOnDesertion /\ (server = "loop" => Working)
  BY DEF IInv
<1>1. ASSUME NEW c \in Clients, Refuse(c) \/ Admit(c) \/ handle_order(c)
                                \/ handle_request_end(c) \/ handle_request_stop(c)
      PROVE  IInv'
  <2>1. PICK type \in {"INIT", "ORDER", "END", "STOP"} : Receive(c, type)
    BY <1>1 DEF Refuse, Admit, handle_order, handle_request_end, handle_request_stop
  <2>2. server = "loop" /\ Working /\ UNCHANGED <<queues, client, deserted, interrupted>>
    BY <1>0, <2>1 DEF Receive, history
  <2>3. requests' \in Seq(Messages)
    BY <1>0, <2>1, ReceiveCounts
  <2>4. /\ answers' \in [Clients -> Nat]
        /\ \/ ServerGoesOn /\ Working'
           \/ ServerExits("error", c) /\ c \in deserted
    <3>1. ASSUME Refuse(c) PROVE answers' = answers /\ ServerGoesOn /\ Working'
      BY <1>0, <2>2, <3>1, RefuseWorks DEF Refuse
    <3>2. ASSUME handle_request_end(c) PROVE answers' = answers /\ ServerGoesOn /\ Working'
      BY <1>0, <2>2, <3>2, EndWorks DEF handle_request_end
    <3>3. ASSUME handle_request_stop(c) PROVE answers' = answers /\ ServerGoesOn /\ Working'
      BY <1>0, <2>2, <3>3, StopWorks DEF handle_request_stop
    <3>4. answers \in [Clients -> Nat]
      BY <1>0 DEF TypeOK
    <3> QED
      BY <1>0, <1>1, <2>2, <3>1, <3>2, <3>3, <3>4, AdmitWorks, OrderWorks
  <2>5. clients' \in [Slots -> Clients \cup {NoPid}]
    <3>1. clients \in [Slots -> Clients \cup {NoPid}]
      BY <1>0 DEF TypeOK
    <3>2. ASSUME Admit(c) PROVE clients' \in [Slots -> Clients \cup {NoPid}]
      BY <3>1, <3>2 DEF Admit
    <3> QED
      BY <1>0, <1>1, <2>2, <3>1, <3>2, StopWorks DEF Refuse, handle_order, handle_request_end, table
  <2>6. clients_count' \in 0 .. Cardinality(Clients)
    <3>1. ASSUME Refuse(c) \/ Admit(c) PROVE clients_count' \in 0 .. Cardinality(Clients)
      BY <1>0, <2>2, <3>1, InitHandled DEF Refuse, Admit
    <3> QED
      BY <1>0, <1>1, <3>1 DEF TypeOK, handle_order, handle_request_end, handle_request_stop, table
  <2>7. server_status' \in BOOLEAN
    BY <1>0, <1>1 DEF TypeOK, Refuse, Admit, handle_order, handle_request_end,
                      handle_request_stop
  <2>8. TypeOK'
    <3>1. /\ server' \in {"loop", "exit", "gone"}
          /\ ended' \in [cause : {"no", "END", "SIGINT", "error"}, pid : Clients \cup {NoPid}]
      BY <1>0, <2>4 DEF TypeOK, ServerGoesOn, ServerExits
    <3> QED
      BY <1>0, <2>2, <2>3, <2>4, <2>5, <2>6, <2>7, <3>1 DEF TypeOK
  <2> QED
    BY <1>0, <2>2, <2>4, <2>8 DEF IInv, ErrorsOnlyOnDesertion, ServerGoesOn, ServerExits
<1>2. ASSUME LeaveLoop \/ RemoveServerQueue \/ InterruptServer PROVE IInv'
  <2>1. /\ server' \in {"exit", "gone"}
        /\ ended' = ended \/ \E cause \in {"END", "SIGINT"} :
                               ended' = [cause |-> cause, pid |-> NoPid]
        /\ UNCHANGED <<server_status, clients, clients_count, answers, client, interrupted,
                       deserted>>
        /\ queues' \subseteq queues
        /\ requests' \in {requests, << >>}
    BY <1>2 DEF LeaveLoop, RemoveServerQueue, InterruptServer, ServerExits, table, history,
                message
  <2>2. requests' \in Seq(Messages)
    <3>1. << >> \in Seq(Messages)
      BY EmptySeq
    <3> QED
      BY <1>0, <2>1, <3>1 DEF TypeOK
  <2>3. TypeOK'
    BY <1>0, <2>1, <2>2 DEF TypeOK
  <2> QED
    BY <1>0, <2>1, <2>3 DEF IInv, ErrorsOnlyOnDesertion
<1> QED
  BY <1>1, <1>2 DEF ServerStep

-----------------------------------------------------------------------------
(* The clients' steps.                                                     *)

LEMMA ClientWorks ==
  ASSUME TypeOK, Working, NEW c \in Clients, NEW place,
         client' = [client EXCEPT ![c] = place],
         UNCHANGED <<server_status, clients, clients_count>>,
         Server \in queues',
         interrupted \subseteq interrupted',
         \A d \in Clients \ {c} :
           /\ answers'[d] = answers[d] /\ (d \in queues => d \in queues')
           /\ d \in deserted' <=> d \in deserted
           /\ Inits(d)' = Inits(d) /\ Asked(d)' = Asked(d) /\ Goodbyes(d)' = Goodbyes(d),
         Phase(c)', Unhandled(c)' => Unhandled(c)
  PROVE  Working'
<1>1. \A d \in Clients : InTable(d)' <=> InTable(d)
  BY DEF InTable
<1>2. \A d \in Clients \ {c} : Phase(d)' /\ (Unhandled(d)' <=> Unhandled(d))
  <2> TAKE d \in Clients \ {c}
  <2>1. client'[d] = client[d] /\ Phase(d)
    BY DEF TypeOK, Working
  <2> QED
    BY <1>1, <2>1, PhaseKept
<1>3. CountRight'
  <2>1. /\ Cardinality(Pool) \in Nat /\ Cardinality(Pool') \in Nat
        /\ Cardinality(Pool') = Cardinality(Pool) + Count(Unhandled(c)') - Count(Unhandled(c))
    BY <1>2, PoolSize
  <2>2. Count(Unhandled(c)') - Count(Unhandled(c)) <= 0
    BY DEF Count
  <2>3. clients_count \in Nat /\ Cardinality(Clients) \in Nat
        /\ clients_count + Cardinality(Pool) <= Cardinality(Clients)
    BY FS_CardinalityType DEF Working, CountRight, TypeOK
  <2>4. Count(Unhandled(c)') \in Int /\ Count(Unhandled(c)) \in Int
    BY DEF Count
  <2>5. clients_count + Cardinality(Pool') <= Cardinality(Clients)
    BY <2>1, <2>2, <2>3, <2>4
  <2> QED
    BY <2>5 DEF CountRight
<1>4. TableOrdered'
  BY DEF TableOrdered, Working
<1> QED
  BY <1>2, <1>3, <1>4 DEF Working

\* A step that sends nothing.
LEMMA SilentCounts ==
  ASSUME requests' = requests, NEW d \in Clients
  PROVE  Inits(d)' = Inits(d) /\ Asked(d)' = Asked(d) /\ Goodbyes(d)' = Goodbyes(d)
BY DEF Inits, Asked, Goodbyes, UnderWay

LEMMA OpenWorks ==
  ASSUME TypeOK, Working, NEW c \in Clients, OpenServerQueue(c)
  PROVE  Working'
<1>1. /\ client[c] = "start" /\ client' = [client EXCEPT ![c] = "opened"]
      /\ UNCHANGED <<server_status, clients, clients_count, queues, answers, interrupted,
                     deserted, requests>>
  BY DEF OpenServerQueue, ClientGoes, Working, table, history, message
<1>2. client'[c] = "opened" /\ Phase(c) /\ (InTable(c)' <=> InTable(c))
  BY <1>1 DEF TypeOK, Working, InTable
<1>3. Inits(c)' = Inits(c) /\ Asked(c)' = Asked(c) /\ Goodbyes(c)' = Goodbyes(c)
  BY <1>1, SilentCounts
<1>4. Unhandled(c)' /\ Unhandled(c)
  BY <1>1, <1>2 DEF Unhandled
<1>5. Messaging(c)'
  BY <1>1, <1>2, <1>3 DEF Phase, Messaging, Waiting
<1>6. Noted(c)'
  BY <1>1, <1>2, <1>3, <1>4 DEF Phase, Noted
<1> QED
  BY <1>1, <1>4, <1>5, <1>6, SilentCounts, ClientWorks DEF Phase, Working

LEMMA EndOfInputWorks ==
  ASSUME TypeOK, Working, NEW c \in Clients, EndOfInput(c)
  PROVE  Working'
<1>1. /\ client[c] = "ready" /\ client' = [client EXCEPT ![c] = "exit"]
      /\ UNCHANGED <<server_status, clients, clients_count, queues, answers, interrupted,
                     deserted, requests>>
  BY DEF EndOfInput, ClientGoes, Working, table, history, message
<1>2. client'[c] = "exit" /\ Phase(c) /\ (InTable(c)' <=> InTable(c))
  BY <1>1 DEF TypeOK, Working, InTable
<1>3. Inits(c)' = Inits(c) /\ Asked(c)' = Asked(c) /\ Goodbyes(c)' = Goodbyes(c)
  BY <1>1, SilentCounts
<1>4. Unhandled(c)' => Unhandled(c)
  BY <1>1, <1>2, <1>3 DEF Unhandled
<1>5. Messaging(c)'
  <2>1. Goodbyes(c) \in Nat /\ ~(Goodbyes(c) > 0)
    BY <1>1, <1>2, CountsType DEF Phase, Messaging
  <2>2. Goodbyes(c)' = 0
    BY <1>3, <2>1
  <2> QED
    BY <1>1, <1>2, <1>3, <2>2 DEF Phase, Messaging, Noted, Waiting
<1>6. Noted(c)'
  BY <1>1, <1>2, <1>3, <1>4 DEF Phase, Noted
<1> QED
  BY <1>1, <1>4, <1>5, <1>6, SilentCounts, ClientWorks DEF Phase, Working

LEMMA ForgetWorks ==
  ASSUME TypeOK, Working, NEW c \in Clients, ForgetServer(c)
  PROVE  Working'
<1>1. /\ client[c] = "ending" /\ client' = [client EXCEPT ![c] = "close"]
      /\ UNCHANGED <<server_status, clients, clients_count, queues, answers, interrupted,
                     deserted, requests>>
  BY DEF ForgetServer, ClientGoes, Working, table, history, message
<1>2. client'[c] = "close" /\ Phase(c) /\ (InTable(c)' <=> InTable(c))
  BY <1>1 DEF TypeOK, Working, InTable
<1>3. Inits(c)' = Inits(c) /\ Asked(c)' = Asked(c) /\ Goodbyes(c)' = Goodbyes(c)
  BY <1>1, SilentCounts
<1>4. Unhandled(c)' => Unhandled(c)
  BY <1>1, <1>2, <1>3 DEF Unhandled
<1>5. Messaging(c)'
  BY <1>1, <1>2, <1>3 DEF Phase, Messaging, Waiting
<1>6. Noted(c)'
  BY <1>1, <1>2, <1>3, <1>4 DEF Phase, Noted
<1> QED
  BY <1>1, <1>4, <1>5, <1>6, SilentCounts, ClientWorks DEF Phase, Working

LEMMA TakeAnswerWorks ==
  ASSUME TypeOK, Working, NEW c \in Clients, TakeAnswer(c)
  PROVE  Working' /\ answers' \in [Clients -> Nat]
<1>1. /\ client[c] \in {"connecting", "waiting"} /\ client' = [client EXCEPT ![c] = "ready"]
      /\ answers[c] > 0 /\ answers' = [answers EXCEPT ![c] = @ - 1]
      /\ UNCHANGED <<server_status, clients, clients_count, queues, interrupted, deserted,
                     requests>>
  BY DEF TakeAnswer, ClientGoes, Working, table, history
<1>2. client'[c] = "ready" /\ Phase(c) /\ (InTable(c)' <=> InTable(c))
  BY <1>1 DEF TypeOK, Working, InTable
<1>3. Inits(c)' = Inits(c) /\ Asked(c)' = Asked(c) /\ Goodbyes(c)' = Goodbyes(c)
  BY <1>1, SilentCounts
<1>4. answers' \in [Clients -> Nat] /\ answers'[c] = answers[c] - 1 /\ answers[c] \in Nat
      /\ \A d \in Clients \ {c} : answers'[d] = answers[d]
  BY <1>1 DEF TypeOK
<1>5. Asked(c) = 0 /\ Inits(c) = 0 /\ answers[c] = 1 /\ answers'[c] = 0
  <2>1. Asked(c) + answers[c] <= 1
    BY <1>2 DEF Phase, Messaging
  <2>2. Asked(c) \in Nat /\ Inits(c) \in Nat /\ Inits(c) <= Asked(c)
    BY CountsType
  <2> QED
    BY <1>1, <1>4, <2>1, <2>2
<1>6. ~Unhandled(c)'
  BY <1>2, <1>3, <1>5 DEF Unhandled
<1>7. Messaging(c)'
  BY <1>1, <1>2, <1>3, <1>5 DEF Phase, Messaging, Waiting
<1>8. Noted(c)'
  BY <1>1, <1>2, <1>3, <1>5, <1>6 DEF Phase, Noted
<1>9. Working'
  BY <1>1, <1>4, <1>6, <1>7, <1>8, SilentCounts, ClientWorks DEF Phase, Working
<1> QED
  BY <1>4, <1>9

LEMMA RemoveOwnWorks ==
  ASSUME TypeOK, Working, NEW c \in Clients, RemoveOwnQueue(c)
  PROVE  Working' /\ answers' \in [Clients -> Nat]
<1>1. /\ client[c] = "close" /\ client' = [client EXCEPT ![c] = "gone"]
      /\ answers' = [answers EXCEPT ![c] = 0] /\ queues' = queues \ {c}
      /\ UNCHANGED <<server_status, clients, clients_count, interrupted, deserted, requests>>
  BY DEF RemoveOwnQueue, ClientGoes, Working, table, history
<1>2. client'[c] = "gone" /\ Phase(c) /\ (InTable(c)' <=> InTable(c))
  BY <1>1 DEF TypeOK, Working, InTable
<1>3. Inits(c)' = Inits(c) /\ Asked(c)' = Asked(c) /\ Goodbyes(c)' = Goodbyes(c)
  BY <1>1, SilentCounts
<1>4. answers' \in [Clients -> Nat] /\ answers'[c] = 0
      /\ \A d \in Clients \ {c} : answers'[d] = answers[d]
  BY <1>1 DEF TypeOK
<1>5. Unhandled(c)' => Unhandled(c)
  BY <1>2, <1>3 DEF Unhandled
<1>6. Messaging(c)'
  <2>1. Asked(c)' + answers'[c] <= 1 /\ (c \notin deserted => Asked(c)' + answers'[c] = 0)
    <3>1. Asked(c) + answers[c] <= 1
          /\ (c \notin deserted => Asked(c) + answers[c] = 0)
      BY <1>1, <1>2 DEF Phase, Messaging, Waiting
    <3>2. Asked(c) \in Nat /\ answers[c] \in Nat
      BY CountsType DEF TypeOK
    <3> QED
      BY <1>3, <1>4, <3>1, <3>2
  <2> QED
    BY <1>1, <1>2, <1>3, <2>1 DEF Phase, Messaging, Waiting
<1>7. Noted(c)'
  BY <1>1, <1>2, <1>3, <1>5 DEF Phase, Noted
<1>8. Server \in queues' /\ \A d \in Clients \ {c} : d \in queues => d \in queues'
  BY <1>1, NamesAssumption DEF Working
<1>9. Working'
  BY <1>1, <1>4, <1>5, <1>6, <1>7, <1>8, SilentCounts, ClientWorks DEF Phase
<1> QED
  BY <1>4, <1>9

LEMMA InterruptWorks ==
  ASSUME TypeOK, Working, NEW c \in Clients, InterruptClient(c)
  PROVE  Working'
<1> DEFINE place == CASE client[c] = "start" -> "close"
                      [] client[c] \in {"exit", "close"} -> "gone"
                      [] OTHER -> "exit"
<1>1. /\ client[c] # "gone" /\ client' = [client EXCEPT ![c] = place]
      /\ interrupted' = interrupted \cup {c}
      /\ deserted' = IF Waiting(c) THEN deserted \cup {c} ELSE deserted
      /\ UNCHANGED <<server_status, clients, clients_count, queues, answers, requests>>
  BY DEF InterruptClient, table, message, Waiting
<1>2. /\ client[c] = "start" => place = "close"
      /\ client[c] \in {"exit", "close"} => place = "gone"
      /\ client[c] \notin {"start", "exit", "close"} => place = "exit"
  OBVIOUS
<1> HIDE DEF place
<1>3. client'[c] = place /\ Phase(c) /\ (InTable(c)' <=> InTable(c)) /\ client[c] # "gone"
      /\ place \in {"exit", "close", "gone"} /\ c \in interrupted'
  BY <1>1, <1>2 DEF TypeOK, Working, InTable
<1>4. Inits(c)' = Inits(c) /\ Asked(c)' = Asked(c) /\ Goodbyes(c)' = Goodbyes(c)
  BY <1>1, SilentCounts
<1>5. Unhandled(c)' => Unhandled(c)
  BY <1>3, <1>4 DEF Unhandled
<1>6. Messaging(c)'
  <2>1. ~Waiting(c)' /\ client'[c] \notin {"connecting", "ready", "waiting"}
    BY <1>3 DEF Waiting
  <2>2. c \notin deserted' => Asked(c)' + answers'[c] = 0
    BY <1>1, <1>3, <1>4 DEF Phase, Messaging
  <2>3. Goodbyes(c)' > 0 => client'[c] \in {"ending", "exit", "close", "gone"}
    BY <1>3
  <2> QED
    BY <1>1, <1>3, <1>4, <2>1, <2>2, <2>3 DEF Phase, Messaging
<1>7. Noted(c)'
  BY <1>1, <1>3, <1>4, <1>5 DEF Phase, Noted
<1>8. \A d \in Clients \ {c} : d \in deserted' <=> d \in deserted
  BY <1>1
<1> QED
  BY <1>1, <1>5, <1>6, <1>7, <1>8, SilentCounts, ClientWorks DEF Phase, Working

\* The four messages a client sends while the server is in its loop.
LEMMA SendWorks ==
  ASSUME TypeOK, Working, NEW c \in Clients, NEW failed,
         NEW type \in {"INIT", "ORDER", "END", "STOP"}, NEW from, NEW to,
         Send(c, type, from, to, failed),
         \/ type = "INIT" /\ from = "opened" /\ to = "connecting"
         \/ type = "ORDER" /\ from = "ready" /\ to = "waiting"
         \/ type = "END" /\ from = "ready" /\ to = "ending"
         \/ type = "STOP" /\ from = "exit" /\ to = "close"
  PROVE  Working'
<1>1. /\ client[c] = from /\ client' = [client EXCEPT ![c] = to]
      /\ requests' = Append(requests, [type |-> type, pid |-> c])
      /\ UNCHANGED <<server_status, clients, clients_count, queues, answers, interrupted,
                     deserted>>
  BY DEF Send, ClientGoes, Working, table, history
<1>2. client'[c] = to /\ Phase(c) /\ (InTable(c)' <=> InTable(c)) /\ answers[c] \in Nat
  BY <1>1 DEF TypeOK, Working, InTable
<1>3. \A d \in Clients \ {c} :
        Inits(d)' = Inits(d) /\ Asked(d)' = Asked(d) /\ Goodbyes(d)' = Goodbyes(d)
  <2> TAKE d \in Clients \ {c}
  <2>1. /\ Inits(d)' = Inits(d) + 0 /\ Asked(d)' = Asked(d) + 0
        /\ Goodbyes(d)' = Goodbyes(d) + 0
    BY <1>1, SendCounts DEF Count
  <2> QED
    BY <2>1, CountsType
<1>4. Inits(c) \in Nat /\ Asked(c) \in Nat /\ Goodbyes(c) \in Nat /\ Inits(c) <= Asked(c)
  BY CountsType
<1>5. client[c] \in {"opened", "ready", "exit"} /\ ~Waiting(c)
  BY <1>1 DEF Waiting
<1>6. c \notin deserted => Asked(c) = 0 /\ Inits(c) = 0 /\ answers[c] = 0
  <2>1. c \notin deserted => Asked(c) + answers[c] = 0
    BY <1>2, <1>5 DEF Phase, Messaging
  <2> QED
    BY <1>2, <1>4, <2>1
<1>7. (from # "exit" => Goodbyes(c) = 0) /\ (c \notin interrupted => Goodbyes(c) = 0)
  <2>1. /\ Goodbyes(c) > 0 => client[c] \in {"ending", "exit", "close", "gone"}
        /\ c \notin interrupted => ~(client[c] = "exit" /\ Goodbyes(c) # 0)
    BY <1>2 DEF Phase, Messaging
  <2> QED
    BY <1>1, <1>4, <1>5, <2>1
<1>8. from # "exit" => c \notin deserted
  BY <1>1, <1>2, <1>5 DEF Phase, Noted
<1>9. Phase(c)' /\ (Unhandled(c)' => Unhandled(c))
  <2>1. CASE type = "INIT"
    <3>1. Inits(c)' = Inits(c) + 1 /\ Asked(c)' = Asked(c) + 1 /\ Goodbyes(c)' = Goodbyes(c) + 0
      BY <1>1, <2>1, SendCounts DEF Count
    <3>2. /\ Inits(c)' = 1 /\ Asked(c)' = 1 /\ Goodbyes(c)' = 0 /\ answers'[c] = 0
          /\ client[c] = "opened" /\ client'[c] = "connecting" /\ c \notin deserted'
      BY <1>1, <1>2, <1>4, <1>6, <1>7, <1>8, <2>1, <3>1
    <3>3. Messaging(c)'
      BY <3>2 DEF Messaging, Waiting
    <3>4. Unhandled(c)
      BY <3>2 DEF Unhandled
    <3>5. Noted(c)'
      BY <1>1, <1>2, <3>2, <3>4 DEF Phase, Noted
    <3> QED
      BY <3>3, <3>4, <3>5 DEF Phase
  <2>2. CASE type = "ORDER"
    <3>1. Inits(c)' = Inits(c) + 0 /\ Asked(c)' = Asked(c) + 1 /\ Goodbyes(c)' = Goodbyes(c) + 0
      BY <1>1, <2>2, SendCounts DEF Count
    <3>2. /\ Inits(c)' = 0 /\ Asked(c)' = 1 /\ Goodbyes(c)' = 0 /\ answers'[c] = 0
          /\ client[c] = "ready" /\ client'[c] = "waiting" /\ c \notin deserted'
      BY <1>1, <1>2, <1>4, <1>6, <1>7, <1>8, <2>2, <3>1
    <3>3. Messaging(c)'
      BY <3>2 DEF Messaging, Waiting
    <3>4. ~Unhandled(c)'
      BY <3>2 DEF Unhandled
    <3>5. Noted(c)'
      BY <1>1, <1>2, <3>2, <3>4 DEF Phase, Noted
    <3> QED
      BY <3>3, <3>4, <3>5 DEF Phase
  <2>3. CASE type \in {"END", "STOP"}
    <3>1. Inits(c)' = Inits(c) + 0 /\ Asked(c)' = Asked(c) + 0 /\ Goodbyes(c)' = Goodbyes(c) + 1
      BY <1>1, <2>3, SendCounts DEF Count
    <3>2. /\ Inits(c)' = Inits(c) /\ Asked(c)' = Asked(c)
          /\ Goodbyes(c)' \in Nat /\ (c \notin interrupted' => Goodbyes(c)' = 1)
          /\ client[c] \in {"ready", "exit"} /\ client'[c] \in {"ending", "close"}
      BY <1>1, <1>2, <1>4, <1>7, <2>3, <3>1
    <3>3. Messaging(c)'
      BY <1>1, <1>2, <1>5, <3>2 DEF Phase, Messaging, Waiting
    <3>4. Unhandled(c)' => Unhandled(c)
      BY <3>2 DEF Unhandled
    <3>5. Noted(c)'
      BY <1>1, <1>2, <3>2, <3>4 DEF Phase, Noted
    <3> QED
      BY <3>3, <3>4, <3>5 DEF Phase
  <2> QED
    BY <2>1, <2>2, <2>3
<1> QED
  BY <1>1, <1>3, <1>9, ClientWorks DEF Working

\* The types, whatever the server does.
LEMMA ClientTypes ==
  ASSUME TypeOK, NEW c \in Clients, ClientStep(c) \/ User(c)
  PROVE  TypeOK' /\ UNCHANGED <<server, ended>> /\ deserted \subseteq deserted'
<1> DEFINE Places == {"start", "opened", "connecting", "ready", "waiting", "ending", "exit",
                      "close", "gone"}
<1>1. UNCHANGED <<server, server_status, ended, clients, clients_count>>
  BY DEF ClientStep, User, OpenServerQueue, connect, TakeAnswer, SendStop, RemoveOwnQueue,
         SendOrder, SendEnd, ForgetServer, EndOfInput, InterruptClient, Send, ClientGoes, table
<1>2. \E place \in Places : client' = [client EXCEPT ![c] = place]
  BY DEF ClientStep, User, OpenServerQueue, connect, TakeAnswer, SendStop, RemoveOwnQueue,
         SendOrder, SendEnd, ForgetServer, EndOfInput, InterruptClient, Send, ClientGoes
<1>3. queues' \subseteq queues
  BY DEF ClientStep, User, OpenServerQueue, connect, TakeAnswer, SendStop, RemoveOwnQueue,
         SendOrder, SendEnd, ForgetServer, EndOfInput, InterruptClient, Send, message
<1>4. \/ interrupted' = interrupted /\ deserted' = deserted
      \/ interrupted' = interrupted \cup {c} /\ deserted' \in {deserted, deserted \cup {c}}
  BY DEF ClientStep, User, OpenServerQueue, connect, TakeAnswer, SendStop, RemoveOwnQueue,
         SendOrder, SendEnd, ForgetServer, EndOfInput, InterruptClient, Send, ClientGoes, history
<1>5. \/ answers' = answers
      \/ answers[c] > 0 /\ answers' = [answers EXCEPT ![c] = @ - 1]
      \/ answers' = [answers EXCEPT ![c] = 0]
  BY DEF ClientStep, User, OpenServerQueue, connect, TakeAnswer, SendStop, RemoveOwnQueue,
         SendOrder, SendEnd, ForgetServer, EndOfInput, InterruptClient, Send, message
<1>6. \/ requests' = requests
      \/ \E type \in {"INIT", "ORDER", "END", "STOP"} :
           requests' = Append(requests, [type |-> type, pid |-> c])
  BY DEF ClientStep, User, OpenServerQueue, connect, TakeAnswer, SendStop, RemoveOwnQueue,
         SendOrder, SendEnd, ForgetServer, EndOfInput, InterruptClient, Send, message
<1>7. requests' \in Seq(Messages)
  BY <1>6, SendCounts DEF TypeOK
<1>8. answers' \in [Clients -> Nat]
  BY <1>5 DEF TypeOK
<1>9. client' \in [Clients -> Places]
  BY <1>2 DEF TypeOK
<1>10. deserted' \subseteq interrupted' /\ interrupted' \subseteq Clients
       /\ deserted \subseteq deserted'
  BY <1>4 DEF TypeOK
<1> QED
  BY <1>1, <1>3, <1>7, <1>8, <1>9, <1>10 DEF TypeOK

LEMMA ClientPreserves ==
  ASSUME IInv, NEW c \in Clients, ClientStep(c) \/ User(c)
  PROVE  IInv'
<1>0. TypeOK /\ ErrorsOnlyOnDesertion /\ (server = "loop" => Working)
  BY DEF IInv
<1>1. TypeOK' /\ UNCHANGED <<server, ended>> /\ deserted \subseteq deserted'
  BY <1>0, ClientTypes
<1>2. ASSUME Working PROVE Working'
  <2>1. ASSUME connect(c) \/ SendOrder(c) \/ SendEnd(c) \/ SendStop(c) PROVE Working'
    BY <1>0, <1>2, <2>1, SendWorks DEF connect, SendOrder, SendEnd, SendStop
  <2> QED
    BY <1>0, <1>2, <2>1, OpenWorks, ForgetWorks, EndOfInputWorks, TakeAnswerWorks, RemoveOwnWorks,
       InterruptWorks DEF ClientStep, User
<1> QED
  BY <1>0, <1>1, <1>2 DEF IInv, ErrorsOnlyOnDesertion

-----------------------------------------------------------------------------
(* The results.                                                            *)

LEMMA InitInvariant == Init => IInv
<1> SUFFICES ASSUME Init PROVE IInv
  OBVIOUS
<1> USE DEF Init
<1>1. << >> \in Seq(Messages)
  BY EmptySeq
<1>2. TypeOK
  <2>1. Cardinality(Clients) \in Nat
    BY FS_CardinalityType
  <2>2. 0 \in 0 .. Cardinality(Clients)
    BY <2>1
  <2> QED
    BY <1>1, <2>2 DEF TypeOK
<1>3. \A c \in Clients : Inits(c) = 0 /\ Asked(c) = 0 /\ Goodbyes(c) = 0
  <2>1. \A M : Number(<< >>, M) = 0
    <3> TAKE M
    <3>1. DOMAIN << >> = {}
      BY LenProperties, EmptySeq
    <3> QED
      BY <1>1, <3>1, NumberType
  <2> QED
    BY <1>1, <2>1, UnderWayIsNumber DEF Inits, Asked, Goodbyes
<1>4. \A c \in Clients : ~InTable(c)
  BY NamesAssumption DEF InTable
<1>5. CountRight
  <2>1. Pool \subseteq Clients
    BY DEF Pool
  <2>2. Cardinality(Pool) \in Nat /\ Cardinality(Pool) <= Cardinality(Clients)
    BY <2>1, FS_Subset, FS_CardinalityType
  <2> QED
    BY <2>2 DEF CountRight
<1>6. TableOrdered
  BY DEF TableOrdered
<1>7. ASSUME NEW c \in Clients PROVE Phase(c)
  BY <1>3, <1>4 DEF Phase, Messaging, Noted, Waiting
<1> QED
  BY <1>2, <1>5, <1>6, <1>7 DEF IInv, Working, ErrorsOnlyOnDesertion

LEMMA NextInvariant == IInv /\ [Next]_vars => IInv'
<1>1. ASSUME IInv, UNCHANGED vars PROVE IInv'
  <2>1. UNCHANGED <<server, server_status, ended, clients, clients_count, queues, requests,
                    answers, client, interrupted, deserted>>
    BY <1>1 DEF vars, table, message, history
  <2>2. TypeOK' /\ ErrorsOnlyOnDesertion'
    BY <1>1, <2>1 DEF IInv, TypeOK, ErrorsOnlyOnDesertion
  <2>3. Pool' = Pool /\ \A c \in Clients : Phase(c) => Phase(c)'
    BY <2>1 DEF Pool, Phase, Messaging, Noted, Waiting, TurnedAway, InTable, Unhandled, Inits,
                Asked, Goodbyes, UnderWay
  <2>4. Working => Working'
    BY <2>1, <2>3 DEF Working, TableOrdered, CountRight
  <2> QED
    BY <1>1, <2>1, <2>2, <2>4 DEF IInv
<1> QED
  BY <1>1, ServerPreserves, ClientPreserves DEF Next

\* What the server and the clients know of one another, at any time.
THEOREM Invariance == Spec => []IInv
BY InitInvariant, NextInvariant, PTL DEF Spec

\* Queues, table and clients agree, for any number of clients and entries: one answer for
\* each request, one entry for each client that works with the server, none for those it
\* has heard the last of.
THEOREM AlwaysConsistent == Spec => []Consistent
<1>1. ASSUME TypeOK, Working, NEW c \in Clients
      PROVE  /\ Waiting(c) => \/ UnderWay(c, {"INIT", "ORDER"}) + answers[c] = 1
                              \/ Refused(c) /\ \A i \in Slots : clients[i] # c
             /\ client[c] = "ready" => UnderWay(c, {"INIT", "ORDER"}) + answers[c] = 0
  <2>1. Messaging(c)
    BY <1>1 DEF Working, Phase
  <2>2. TurnedAway(c) /\ Asked(c) + answers[c] # 1 => Inits(c) = 0 /\ answers[c] = 0
    <3>1. Asked(c) + answers[c] <= 1
      BY <2>1 DEF Messaging
    <3>2. Asked(c) \in Nat /\ Inits(c) \in Nat /\ Inits(c) <= Asked(c) /\ answers[c] \in Nat
      BY <1>1, CountsType DEF TypeOK
    <3> QED
      BY <3>1, <3>2
  <2>3. Waiting(c) /\ Asked(c) + answers[c] # 1
          => Refused(c) /\ \A i \in Slots : clients[i] # c
    BY <2>1, <2>2 DEF Messaging, TurnedAway, Refused, Inits, InTable
  <2>4. client[c] = "ready" => Asked(c) + answers[c] = 0
    <3>1. client[c] = "ready" => ~Waiting(c)
      BY DEF Waiting
    <3>2. client[c] = "ready" => c \notin deserted
      BY <1>1 DEF Working, Phase, Noted
    <3> QED
      BY <2>1, <3>1, <3>2 DEF Messaging
  <2> QED
    BY <2>3, <2>4 DEF Asked
<1>2. ASSUME TypeOK, Working, NEW c \in Clients, NEW entries,
             entries = {i \in Slots : i < clients_count /\ clients[i] = c}
      PROVE  /\ client[c] \in {"ready", "waiting"} => Cardinality(entries) = 1
             /\ client[c] = "gone" /\ entries # {} =>
                  \/ c \in interrupted
                  \/ UnderWay(c, {"STOP", "END"}) = 1
                  \/ ~server_status
  <2>1. entries = {i \in Slots : clients[i] = c}
    <3>1. \A i \in Slots : i < clients_count \/ i >= clients_count
      BY <1>2, SlotNumbers
    <3>2. \A i \in Slots : clients[i] = c => i < clients_count
      BY <1>2, <3>1, NamesAssumption DEF Working, TableOrdered
    <3> QED
      BY <1>2, <3>2
  <2>2. InTable(c) => \E i \in Slots : entries = {i}
    BY <1>2, <2>1, NamesAssumption DEF InTable, Working, TableOrdered
  <2>3. InTable(c) => Cardinality(entries) = 1
    BY <2>2, FS_Singleton
  <2>4. entries # {} => InTable(c)
    BY <2>1 DEF InTable
  <2> QED
    BY <1>2, <2>3, <2>4 DEF Working, Phase, Noted, Goodbyes
<1>3. ASSUME IInv PROVE OneAnswerEach
  BY <1>1, <1>3 DEF IInv, OneAnswerEach
<1>4. ASSUME IInv PROVE TableFollowsClients
  BY <1>2, <1>4 DEF IInv, TableFollowsClients
<1>5. IInv => Consistent
  BY <1>3, <1>4 DEF IInv, Consistent
<1> QED
  BY <1>5, Invariance, PTL

\* The server dies on an answer only if the very client it is for was interrupted while it
\* waited.
THEOREM ErrorsAlwaysOnDesertion == Spec => []ErrorsOnlyOnDesertion
<1>1. IInv => ErrorsOnlyOnDesertion
  BY DEF IInv
<1> QED
  BY <1>1, Invariance, PTL
=============================================================================

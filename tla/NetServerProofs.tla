-------------------------- MODULE NetServerProofs ---------------------------
(***************************************************************************)
(* Proofs about NetServer, for any clients, names and size of the table:   *)
(* the three threads never disagree about the table, and as long as the    *)
(* pinger is patient enough nobody is dropped, listed or answered wrongly. *)
(***************************************************************************)
EXTENDS NetServer, CommonLemmas

-----------------------------------------------------------------------------
(* The invariant.                                                          *)

Queued(c) == c \in Held(backlog[Kind(c)])
Seated(c) == \E i \in Slots : clients[i].fd = c

\* A connection waits in one backlog, once, and then has a slot, but never both.
QueueInv ==
  /\ \A k \in {"net", "local"} :
       /\ NoRepeats(backlog[k])
       /\ \A c \in Held(backlog[k]) : Kind(c) = k /\ client[c] # "new" /\ ~Seated(c)
       /\ k \in incoming => backlog[k] # <<>>
  /\ \A c \in Clients : client[c] = "new" => ~Seated(c)

\* The client that the server thread is dealing with.
Current == clients[thread.id].fd

\* A free slot has no name; the name that is being registered is in no slot.
NameInv ==
  /\ \A i \in Slots : clients[i].fd = NoFd => clients[i].name = EmptyName
  /\ thread.at = "register" /\ Current # NoFd =>
       /\ Name[Current] # EmptyName
       /\ \A i \in Slots : clients[i].name # Name[Current]

\* Who holds the mutex.  Only the slot the pinger has chosen can be marked, and it
\* holds the client that was pinged, also while the pinger drops it; a slot that is
\* free at the end of the ping ends the server.
PingInv ==
  /\ mutex_data = "pinger" <=> pinger.at \in {"ping", "drop"}
  /\ mutex_data = "console" <=> console.at = "send"
  /\ \A i \in Slots : clients[i].pinged =>
       /\ i = pinger.id /\ pinger.at # "interval"
       /\ clients[i].fd \in {pinged, NoFd}
       /\ clients[i].fd = NoFd /\ server = "up" => pinger.at = "ping"
  /\ pinger.at = "drop" => clients[pinger.id].fd \in {pinged, NoFd}

GoneInv ==
  /\ hungup = {c \in Clients : client[c] \in {"rejected", "exited"}}
  /\ reset \subseteq hungup

Asks(c) == "REGISTER" \in Held(toServer[c])

Listed(c) == \E i \in Slots : clients[i].fd = c /\ clients[i].registered

\* A client whose registration was read, and not answered yet.
Awaits(c) ==
  /\ client[c] \in {"registering", "exited", "rejected"} /\ ~Asks(c)
  /\ client[c] = "registering" => toClient[c] = <<>>

\* A client whose registration was answered with ACCEPTED.
Answered(c) ==
  /\ client[c] \notin {"new", "connecting"} /\ ~Asks(c)
  /\ client[c] = "registering" /\ server = "up" =>
       toClient[c] # <<>> /\ Head(toClient[c]) = "ACCEPTED"

RegisteredSlots ==
  \A i \in Slots : clients[i].registered =>
    clients[i].fd # NoFd /\ clients[i].name = Name[clients[i].fd] /\ Answered(clients[i].fd)

\* What the server thread has read is still true.
ThreadInTime ==
  /\ thread.at = "pong" => clients[thread.id].registered = thread.registered
  /\ thread.at = "register" =>
       Current # NoFd /\ ~clients[thread.id].registered /\ Awaits(Current)
  /\ thread.at = "disconnect" => Current \in hungup \cup {NoFd}
  /\ thread.at # "round" /\ thread.at # "poll" => sockets[thread.id] = {}

\* Only clients that have gone hang up.
SocketsInTime ==
  /\ thread.at = "poll" =>
       \A i \in Slots : \A c \in sockets[i] :
         c \in Clients /\ (clients[i].fd = c \/ client[c] = "frozen")
  /\ thread.at # "poll" =>
       \A i \in Slots : "HUP" \in sockets[i] => clients[i].fd \in hungup

\* The messages of a client up to its registration.
ClientInTime(c) ==
  /\ client[c] \in {"new", "connecting"} => toServer[c] = <<>>
  /\ client[c] = "new" \/ (client[c] = "connecting" /\ Queued(c)) => toClient[c] = <<>>
  /\ client[c] = "connecting" => toClient[c] \in {<<>>, <<"ACCEPTED">>, <<"REJECTED">>}
  /\ Queued(c) => client[c] \in {"connecting", "rejected", "exited"}
  /\ client[c] = "registering" /\ toClient[c] # <<>> =>
       \/ Head(toClient[c]) = "REJECTED"
       \/ Head(toClient[c]) = "ACCEPTED" /\ Listed(c)
  /\ client[c] = "registered" => Listed(c)
  /\ Asks(c) => /\ toServer[c] = <<"REGISTER">>
                /\ client[c] \in {"registering", "exited", "rejected"}
                /\ client[c] = "registering" => toClient[c] = <<>>

\* The slot that a message is being sent to is registered, or has been cleared.
ChosenInTime ==
  /\ pinger.at = "ping" =>
       clients[pinger.id].fd = NoFd \/ clients[pinger.id].registered
  /\ console.at = "send" =>
       clients[console.id].fd = NoFd \/ clients[console.id].registered

InTime ==
  /\ RegisteredSlots /\ ThreadInTime /\ SocketsInTime /\ ChosenInTime
  /\ \A c \in Clients : ClientInTime(c)

\* The client that is being dropped is frozen, and owes no message.
DropInTime ==
  pinger.at = "drop" /\ clients[pinger.id].fd # NoFd =>
    /\ client[clients[pinger.id].fd] = "frozen" /\ toServer[clients[pinger.id].fd] = <<>>
    /\ ~(thread.at = "pong" /\ thread.id = pinger.id)

TimelyInv == timely => InTime /\ DropInTime

TableInv == TableConsistent /\ QueueInv /\ NameInv

IInv == TypeOK /\ TableInv /\ PingInv /\ GoneInv /\ TimelyInv

-----------------------------------------------------------------------------
(* Choosing a slot.                                                        *)

LEMMA SlotNumbers == 0 \in Slots /\ Slots \subseteq Nat
  BY BoundsAssumption DEF Slots

LEMMA FreeId ==
  ASSUME FreeIds # {}
  PROVE  get_free_id \in Slots /\ clients[get_free_id].fd = NoFd
<1>1. FreeIds \subseteq Nat
  BY SlotNumbers DEF FreeIds
<1>2. \E i \in FreeIds : \A j \in FreeIds : i <= j
  BY <1>1, Least
<1>3. get_free_id \in FreeIds
  BY <1>2 DEF get_free_id
<1> QED
  BY <1>3 DEF FreeIds

LEMMA NextClient ==
  ASSUME Registered # {}, last_index \in Slots
  PROVE  get_next_client \in Slots /\ clients[get_next_client].registered
<1> DEFINE Distance(i) == (i - last_index - 1) % MAX_CLIENTS
           Distances == {Distance(i) : i \in Registered}
<1>1. \A i \in Registered : Distance(i) \in Nat
  BY BoundsAssumption, SlotNumbers DEF Registered
<1>2. Distances \subseteq Nat /\ Distances # {}
  BY <1>1
<1>3. PICK d \in Distances : \A e \in Distances : d <= e
  BY <1>2, Least
<1>4. \E i \in Registered : \A j \in Registered : Distance(i) <= Distance(j)
  BY <1>3
<1> HIDE DEF Distance
<1>5. get_next_client = CHOOSE i \in Registered : \A j \in Registered : Distance(i) <= Distance(j)
  BY DEF get_next_client, Distance
<1>6. get_next_client \in Registered
  BY <1>4, <1>5
<1> QED
  BY <1>6 DEF Registered

-----------------------------------------------------------------------------
(* Types.                                                                  *)

Names == {Name[c] : c \in Clients} \cup {EmptyName}
Slot == [fd : Clients \cup {NoFd}, name : Names, registered : BOOLEAN, pinged : BOOLEAN]

\* One message more to a client, unless it is gone or the descriptor is closed.
Delivered(c, type) ==
  /\ server' \in {server, "fatal", "sigpipe"}
  /\ reset \subseteq reset' /\ reset' \subseteq reset \cup (hungup \cap NetClients)
  /\ toClient' \in [Clients -> Seq(Types)]
  /\ \A d \in Clients :
       \/ toClient'[d] = toClient[d] /\ (d = c => d \notin open \/ d \in hungup)
       \/ d = c /\ d \notin hungup /\ toClient'[d] = Append(toClient[d], type)

LEMMA SendStep ==
  ASSUME TypeOK, NEW c, NEW type \in Types, Send(c, type)
  PROVE  Delivered(c, type) /\ (c \notin open => server' # "up")
<1> DEFINE sent == c \in open /\ c \notin hungup
<1>1. server' \in {server, "fatal", "sigpipe"}
  BY DEF Send, Write
<1>2. reset \subseteq reset' /\ reset' \subseteq reset \cup (hungup \cap NetClients)
  BY DEF Send, Write, TypeOK, Clients
<1>3. toClient' = IF sent THEN [toClient EXCEPT ![c] = Append(@, type)] ELSE toClient
  BY DEF Send, Write
<1>4. toClient \in [Clients -> Seq(Types)] /\ open \subseteq Clients
  BY DEF TypeOK
<1>5. toClient' \in [Clients -> Seq(Types)]
  BY <1>3, <1>4
<1>6. \A d \in Clients : toClient'[d] = IF d = c /\ sent THEN Append(toClient[d], type)
                                                         ELSE toClient[d]
  BY <1>3, <1>4
<1>7. c \notin open => server' # "up"
  BY DEF Send, Write
<1> QED
  BY <1>1, <1>2, <1>5, <1>6, <1>7 DEF Delivered

LEMMA WriteStep ==
  ASSUME TypeOK, NEW c \in Clients, NEW type \in Types, Write(TRUE, c, type)
  PROVE  Delivered(c, type) /\ (c \notin hungup => toClient'[c] = Append(toClient[c], type))
<1> DEFINE sent == c \notin hungup
<1>1. server' \in {server, "fatal", "sigpipe"}
  BY DEF Write
<1>2. reset \subseteq reset' /\ reset' \subseteq reset \cup (hungup \cap NetClients)
  BY DEF Write, TypeOK, Clients
<1>3. toClient' = IF sent THEN [toClient EXCEPT ![c] = Append(@, type)] ELSE toClient
  BY DEF Write
<1>4. toClient \in [Clients -> Seq(Types)]
  BY DEF TypeOK
<1>5. toClient' \in [Clients -> Seq(Types)]
  BY <1>3, <1>4
<1>6. \A d \in Clients : toClient'[d] = IF d = c /\ sent THEN Append(toClient[d], type)
                                                         ELSE toClient[d]
  BY <1>3, <1>4
<1> QED
  BY <1>1, <1>2, <1>5, <1>6 DEF Delivered

\* The change of one slot of the table, and what it becomes.
Becomes(id, fd, name, isRegistered, isPinged) ==
  /\ \A j \in Slots \ {id} : clients'[j] = clients[j]
  /\ clients'[id].fd = fd /\ clients'[id].name = name
  /\ clients'[id].registered = isRegistered /\ clients'[id].pinged = isPinged

LEMMA SlotChange ==
  ASSUME TypeOK, NEW id \in Slots
  PROVE  /\ clients \in [Slots -> Slot]
         /\ remove_client(id) =>
              clients' \in [Slots -> Slot] /\ Becomes(id, NoFd, EmptyName, FALSE, FALSE)
         /\ \A c \in Clients : clients' = [clients EXCEPT ![id].fd = c] =>
              /\ clients' \in [Slots -> Slot]
              /\ Becomes(id, c, clients[id].name, clients[id].registered, clients[id].pinged)
         /\ \A n \in Names :
              clients' = [clients EXCEPT ![id].name = n, ![id].registered = TRUE] =>
                /\ clients' \in [Slots -> Slot]
                /\ Becomes(id, clients[id].fd, n, TRUE, clients[id].pinged)
         /\ \A b \in BOOLEAN :
              clients' = [clients EXCEPT ![id].registered = b, ![id].pinged = FALSE] =>
                /\ clients' \in [Slots -> Slot]
                /\ Becomes(id, clients[id].fd, clients[id].name, b, FALSE)
         /\ clients' = [clients EXCEPT ![id].pinged = TRUE] =>
              /\ clients' \in [Slots -> Slot]
              /\ Becomes(id, clients[id].fd, clients[id].name, clients[id].registered, TRUE)
<1>1. clients \in [Slots -> Slot]
  BY DEF TypeOK, Slot, Names
<1>2. ASSUME NEW s \in Slot, clients' = [clients EXCEPT ![id] = s]
      PROVE  /\ clients' \in [Slots -> Slot]
             /\ Becomes(id, s.fd, s.name, s.registered, s.pinged)
  BY <1>1, <1>2 DEF Becomes
<1>3. ASSUME remove_client(id)
      PROVE  /\ clients' \in [Slots -> Slot]
             /\ Becomes(id, NoFd, EmptyName, FALSE, FALSE)
  <2> DEFINE s == FreeSlot
  <2>1. /\ s \in Slot /\ s.fd = NoFd /\ s.name = EmptyName
        /\ s.registered = FALSE /\ s.pinged = FALSE
    BY <1>1 DEF Slot, Names, FreeSlot
  <2>2. clients' = [clients EXCEPT ![id] = s]
    BY <1>1, <1>3 DEF remove_client
  <2> HIDE DEF s
  <2>3. clients' \in [Slots -> Slot] /\ Becomes(id, s.fd, s.name, s.registered, s.pinged)
    BY <1>2, <2>1, <2>2
  <2> QED
    BY <2>1, <2>3
<1>4. ASSUME NEW c \in Clients, clients' = [clients EXCEPT ![id].fd = c]
      PROVE  /\ clients' \in [Slots -> Slot]
             /\ Becomes(id, c, clients[id].name, clients[id].registered, clients[id].pinged)
  <2> DEFINE s == [clients[id] EXCEPT !.fd = c]
  <2>1. /\ s \in Slot /\ s.fd = c /\ s.name = clients[id].name
        /\ s.registered = clients[id].registered /\ s.pinged = clients[id].pinged
    BY <1>1 DEF Slot, Names
  <2>2. clients' = [clients EXCEPT ![id] = s]
    BY <1>1, <1>4
  <2> HIDE DEF s
  <2>3. clients' \in [Slots -> Slot] /\ Becomes(id, s.fd, s.name, s.registered, s.pinged)
    BY <1>2, <2>1, <2>2
  <2> QED
    BY <2>1, <2>3
<1>5. ASSUME NEW n \in Names, clients' = [clients EXCEPT ![id].name = n, ![id].registered = TRUE]
      PROVE  /\ clients' \in [Slots -> Slot]
             /\ Becomes(id, clients[id].fd, n, TRUE, clients[id].pinged)
  <2> DEFINE s == [clients[id] EXCEPT !.name = n, !.registered = TRUE]
  <2>1. /\ s \in Slot /\ s.fd = clients[id].fd /\ s.name = n
        /\ s.registered = TRUE /\ s.pinged = clients[id].pinged
    BY <1>1 DEF Slot, Names
  <2>2. clients' = [clients EXCEPT ![id] = s]
    BY <1>1, <1>5
  <2> HIDE DEF s
  <2>3. clients' \in [Slots -> Slot] /\ Becomes(id, s.fd, s.name, s.registered, s.pinged)
    BY <1>2, <2>1, <2>2
  <2> QED
    BY <2>1, <2>3
<1>6. ASSUME NEW b \in BOOLEAN, clients' = [clients EXCEPT ![id].registered = b, ![id].pinged = FALSE]
      PROVE  /\ clients' \in [Slots -> Slot]
             /\ Becomes(id, clients[id].fd, clients[id].name, b, FALSE)
  <2> DEFINE s == [clients[id] EXCEPT !.registered = b, !.pinged = FALSE]
  <2>1. /\ s \in Slot /\ s.fd = clients[id].fd /\ s.name = clients[id].name
        /\ s.registered = b /\ s.pinged = FALSE
    BY <1>1 DEF Slot, Names
  <2>2. clients' = [clients EXCEPT ![id] = s]
    BY <1>1, <1>6
  <2> HIDE DEF s
  <2>3. clients' \in [Slots -> Slot] /\ Becomes(id, s.fd, s.name, s.registered, s.pinged)
    BY <1>2, <2>1, <2>2
  <2> QED
    BY <2>1, <2>3
<1>7. ASSUME clients' = [clients EXCEPT ![id].pinged = TRUE]
      PROVE  /\ clients' \in [Slots -> Slot]
             /\ Becomes(id, clients[id].fd, clients[id].name, clients[id].registered, TRUE)
  <2> DEFINE s == [clients[id] EXCEPT !.pinged = TRUE]
  <2>1. /\ s \in Slot /\ s.fd = clients[id].fd /\ s.name = clients[id].name
        /\ s.registered = clients[id].registered /\ s.pinged = TRUE
    BY <1>1 DEF Slot, Names
  <2>2. clients' = [clients EXCEPT ![id] = s]
    BY <1>1, <1>7
  <2> HIDE DEF s
  <2>3. clients' \in [Slots -> Slot] /\ Becomes(id, s.fd, s.name, s.registered, s.pinged)
    BY <1>2, <2>1, <2>2
  <2> QED
    BY <2>1, <2>3
<1> QED
  BY <1>1, <1>3, <1>4, <1>5, <1>6, <1>7

LEMMA TypeInit == Init => TypeOK
<1> SUFFICES ASSUME Init PROVE TypeOK
  OBVIOUS
<1>1. clients \in [Slots -> Slot]
  BY DEF Init, FreeSlot, Slot, Names
<1>2. last_index \in Slots /\ thread.id \in Slots /\ pinger.id \in Slots /\ console.id \in Slots
  <2>1. last_index = 0 /\ thread.id = 0 /\ pinger.id = 0 /\ console.id = 0
    BY DEF Init
  <2> QED
    BY <2>1, SlotNumbers
<1>3. tasks \in 0 .. MaxEvents
  BY BoundsAssumption DEF Init
<1>4. /\ backlog \in [{"net", "local"} -> Seq(Clients)]
      /\ toServer \in [Clients -> Seq(Types)] /\ toClient \in [Clients -> Seq(Types)]
  BY DEF Init
<1>5. client \in [Clients -> Places]
  BY DEF Init, Places
<1> QED
  BY <1>1, <1>2, <1>3, <1>4, <1>5 DEF Init, TypeOK, Slot, Names

LEMMA TypeServer ==
  ASSUME TypeOK, QueueInv, server = "up", ServerThread
  PROVE  TypeOK'
<1> USE DEF Slot, Names
<1>1. CASE CopySockets
  <2>1. sockets' \in [Slots -> SUBSET ({"IN", "HUP"} \cup Clients)]
    BY <1>1 DEF CopySockets, TypeOK
  <2> QED
    BY <1>1, <2>1, SlotNumbers DEF CopySockets, ThreadGoes, TypeOK, table, network, history
<1>2. CASE Poll
  <2>1. sockets' \in [Slots -> SUBSET ({"IN", "HUP"} \cup Clients)]
    BY <1>2 DEF Poll, Events
  <2> QED
    BY <1>2, <2>1, SlotNumbers DEF Poll, ThreadReturns, ThreadGoes, TypeOK, table, network, history
<1>3. CASE ClearSlot
  <2>1. clients' \in [Slots -> Slot]
    BY <1>3, SlotChange DEF ClearSlot, TypeOK
  <2> QED
    BY <1>3, <2>1, SlotNumbers DEF ClearSlot, ThreadReturns, ThreadGoes, TypeOK, network, history
<1>4. CASE AcceptRegistration
  <2> DEFINE c == clients[thread.id].fd
             n == IF c = NoFd THEN EmptyName ELSE Name[c]
  <2>1. thread.id \in Slots /\ c \in Clients \cup {NoFd} /\ n \in Names
    BY DEF TypeOK
  <2>2. clients' = [clients EXCEPT ![thread.id].name = n, ![thread.id].registered = TRUE]
    BY <1>4 DEF AcceptRegistration
  <2>3. clients' \in [Slots -> Slot]
    BY <2>1, <2>2, SlotChange
  <2>4. Delivered(c, "ACCEPTED")
    BY <1>4, SendStep DEF AcceptRegistration, Types
  <2>5. /\ server' \in {server, "fatal", "sigpipe"}
        /\ reset' \subseteq NetClients /\ toClient' \in [Clients -> Seq(Types)]
    BY <2>4 DEF TypeOK, Delivered
  <2> QED
    BY <1>4, <2>3, <2>5, SlotNumbers DEF AcceptRegistration, ThreadReturns, ThreadGoes, TypeOK, history
<1>5. CASE WriteStatus
  <2>1. clients' \in [Slots -> Slot]
    BY <1>5, SlotChange DEF WriteStatus, TypeOK
  <2> QED
    BY <1>5, <2>1, SlotNumbers DEF WriteStatus, ThreadReturns, ThreadGoes, TypeOK, network, history
<1>6. ASSUME NEW k \in {"net", "local"}, Accept(k) PROVE TypeOK'
  <2> DEFINE c == Head(backlog[k])
  <2>1. c \in Clients /\ backlog' \in [{"net", "local"} -> Seq(Clients)]
    <3>1. backlog[k] \in Seq(Clients)
      BY DEF TypeOK
    <3>2. c \in Clients /\ Tail(backlog[k]) \in Seq(Clients)
      BY <1>6, <3>1, HeldBeforeHead DEF Accept, QueueInv
    <3>3. backlog' = [backlog EXCEPT ![k] = Tail(backlog[k])]
      BY <1>6 DEF Accept
    <3> QED
      BY <3>2, <3>3 DEF TypeOK
  <2>2. /\ server' \in {server, "fatal", "sigpipe"}
        /\ reset' \subseteq NetClients /\ toClient' \in [Clients -> Seq(Types)]
    <3>1. PICK type \in Types : Write(TRUE, c, type)
      BY <1>6 DEF Accept, Types
    <3> QED
      BY <2>1, <3>1, WriteStep DEF TypeOK, Delivered
  <2>3. clients' \in [Slots -> Slot]
    <3>1. CASE FreeIds = {}
      BY <1>6, <3>1 DEF Accept, TypeOK
    <3>2. CASE FreeIds # {}
      <4>1. clients' = [clients EXCEPT ![get_free_id].fd = c] /\ get_free_id \in Slots
        BY <1>6, <3>2, FreeId DEF Accept
      <4> HIDE DEF c
      <4> QED
        BY <2>1, <4>1, SlotChange
    <3> QED
      BY <3>1, <3>2
  <2> QED
    BY <1>6, <2>1, <2>2, <2>3 DEF Accept, TypeOK, history
<1>7. ASSUME NEW i \in Slots, CloseSocket(i) PROVE TypeOK'
  <2>1. sockets' \in [Slots -> SUBSET ({"IN", "HUP"} \cup Clients)]
    BY <1>7 DEF CloseSocket, NextOf, TypeOK
  <2> QED
    BY <1>7, <2>1 DEF CloseSocket, NextOf, ThreadGoes, TypeOK, table, history
<1>8. ASSUME NEW i \in Slots, ReadFails(i) \/ ReadEndOfFile(i) PROVE TypeOK'
  <2>1. sockets' \in [Slots -> SUBSET ({"IN", "HUP"} \cup Clients)]
    BY <1>8 DEF ReadFails, ReadEndOfFile, NextMessage, NextOf, TypeOK
  <2> QED
    BY <1>8, <2>1 DEF ReadFails, ReadEndOfFile, NextMessage, NextOf, TypeOK, table, network, history
<1>9. ASSUME NEW i \in Slots, NEW type, Read(i, type)
      PROVE  /\ clients[i].fd \in Clients
             /\ toServer' \in [Clients -> Seq(Types)]
             /\ sockets' \in [Slots -> SUBSET ({"IN", "HUP"} \cup Clients)]
             /\ UNCHANGED <<mutex_data, tasks, incoming, pinger, console, history, last_index,
                            backlog, open, hungup, client>>
  <2> DEFINE c == clients[i].fd
  <2>1. c \in Clients
    BY <1>9 DEF Read, TypeOK
  <2>2. toServer[c] \in Seq(Types) /\ toServer[c] # <<>>
    BY <1>9, <2>1 DEF Read, TypeOK
  <2>3. toServer' = [toServer EXCEPT ![c] = Tail(toServer[c])]
    BY <1>9 DEF Read
  <2>4. Tail(toServer[c]) \in Seq(Types)
    BY <2>2, HeldBeforeHead
  <2>5. toServer' \in [Clients -> Seq(Types)]
    BY <2>3, <2>4 DEF TypeOK
  <2>6. sockets' = [sockets EXCEPT ![i] = {}]
    BY <1>9 DEF Read, NextMessage, NextOf
  <2> QED
    BY <1>9, <2>1, <2>5, <2>6 DEF Read, NextMessage, NextOf, TypeOK
<1>10. ASSUME NEW i \in Slots, RejectRegistration(i) PROVE TypeOK'
  <2>1. Read(i, "REGISTER") /\ Delivered(clients[i].fd, "REJECTED")
    BY <1>10, SendStep DEF RejectRegistration, Types
  <2>2. /\ server' \in {server, "fatal", "sigpipe"}
        /\ reset' \subseteq NetClients /\ toClient' \in [Clients -> Seq(Types)]
    BY <2>1 DEF TypeOK, Delivered
  <2> QED
    BY <1>9, <1>10, <2>1, <2>2 DEF RejectRegistration, TypeOK, history
<1>11. ASSUME NEW i \in Slots, CheckRegistration(i) \/ ReadStatus(i) PROVE TypeOK'
  <2>1. \E type : Read(i, type)
    BY <1>11 DEF CheckRegistration, ReadStatus
  <2>2. PICK b \in BOOLEAN : \E place \in {"register", "pong"} :
          thread' = [at |-> place, id |-> i, registered |-> b]
    BY <1>11 DEF CheckRegistration, ReadStatus, ThreadGoes, TypeOK
  <2>3. UNCHANGED <<server, clients, toClient, reset>>
    BY <1>11 DEF CheckRegistration, ReadStatus
  <2>4. thread' \in [at : {"round", "poll", "disconnect", "register", "pong"},
                     id : Slots, registered : BOOLEAN]
    BY <2>2
  <2> QED
    BY <1>9, <2>1, <2>3, <2>4 DEF TypeOK, history
<1>12. ASSUME NEW i \in Slots, HandleResult(i) PROVE TypeOK'
  BY <1>9, <1>12 DEF HandleResult, TypeOK, history
<1> QED
  BY <1>1, <1>2, <1>3, <1>4, <1>5, <1>6, <1>7, <1>8, <1>10, <1>11, <1>12 DEF ServerThread

\* Tasks are sent within the bound.
LEMMA Bounded == ASSUME TypeOK, MayHappen PROVE tasks + 1 \in 0 .. MaxEvents
<1> DEFINE started == {c \in Clients : client[c] # "new"}
<1>1. IsFiniteSet(started) /\ IsFiniteSet(Departed)
  BY ClientsAssumption, FS_Subset DEF Departed
<1>2. Cardinality(started) \in Nat /\ Cardinality(Departed) \in Nat
  BY <1>1, FS_CardinalityType
<1> QED
  BY <1>2, BoundsAssumption DEF MayHappen, TypeOK

LEMMA TypeOthers ==
  ASSUME TypeOK, server = "up", Pinger \/ Console
  PROVE  TypeOK'
<1> USE DEF Slot, Names
<1>1. CASE ChooseToPing
  <2>1. get_next_client \in Slots
    BY <1>1, NextClient DEF ChooseToPing, TypeOK
  <2>2. clients' \in [Slots -> Slot]
    BY <1>1, <2>1, SlotChange DEF ChooseToPing
  <2>3. clients[get_next_client].fd \in Clients \cup {NoFd}
    BY <2>1 DEF TypeOK
  <2> QED
    BY <1>1, <2>1, <2>2, <2>3 DEF ChooseToPing, TypeOK, network
<1>2. CASE SendPing
  <2>1. /\ server' \in {server, "fatal", "sigpipe"}
        /\ reset' \subseteq NetClients /\ toClient' \in [Clients -> Seq(Types)]
    BY <1>2, SendStep DEF SendPing, Types, Delivered, TypeOK
  <2>2. pinger' \in [at : {"interval", "ping", "timeout", "drop"}, id : Slots]
    BY <1>2 DEF SendPing, TypeOK
  <2> QED
    BY <1>2, <2>1, <2>2 DEF SendPing, TypeOK, table, history
<1>3. CASE Timeout
  <2>1. pinger' \in [at : {"interval", "ping", "timeout", "drop"}, id : Slots]
    <3>1. pinger \in [at : {"interval", "ping", "timeout", "drop"}, id : Slots]
      BY DEF TypeOK
    <3>2. pinger' = [at |-> "interval", id |-> 0] \/ pinger' = [pinger EXCEPT !.at = "drop"]
      BY <1>3 DEF Timeout
    <3> QED
      BY <3>1, <3>2, SlotNumbers
  <2> QED
    BY <1>3, <2>1 DEF Timeout, TypeOK, table, network
<1>6. CASE Drop
  <2>1. clients' \in [Slots -> Slot]
    BY <1>6, SlotChange DEF Drop, TypeOK
  <2>2. pinger' \in [at : {"interval", "ping", "timeout", "drop"}, id : Slots]
    BY <1>6, SlotNumbers DEF Drop
  <2> QED
    BY <1>6, <2>1, <2>2 DEF Drop, TypeOK, network
<1>4. CASE ChooseForTask
  <2>1. get_next_client \in Slots
    BY <1>4, NextClient DEF ChooseForTask, TypeOK
  <2>2. tasks' \in 0 .. MaxEvents
    <3>1. CountTasks => tasks + 1 \in 0 .. MaxEvents
      BY <1>4, Bounded DEF ChooseForTask
    <3> QED
      BY <1>4, <3>1 DEF ChooseForTask, TypeOK
  <2> QED
    BY <1>4, <2>1, <2>2 DEF ChooseForTask, TypeOK, network, history
<1>5. CASE SendTask
  <2>1. /\ server' \in {server, "fatal", "sigpipe"}
        /\ reset' \subseteq NetClients /\ toClient' \in [Clients -> Seq(Types)]
    BY <1>5, SendStep DEF SendTask, Types, Delivered, TypeOK
  <2>2. console' \in [at : {"prompt", "send"}, id : Slots]
    BY <1>5, SlotNumbers DEF SendTask
  <2> QED
    BY <1>5, <2>1, <2>2 DEF SendTask, TypeOK, table, history
<1> QED
  BY <1>1, <1>2, <1>3, <1>4, <1>5, <1>6 DEF Pinger, Console

LEMMA TypeClients ==
  ASSUME TypeOK, server = "up", NEW c \in Clients, Client(c) \/ Exit(c) \/ Freeze(c)
  PROVE  TypeOK'
<1>1. ASSUME NEW from, NEW to \in Places, ClientGoes(c, from, to)
      PROVE  /\ client' \in [Clients -> Places]
             /\ UNCHANGED <<server, table, threads, history>>
  BY <1>1 DEF ClientGoes, TypeOK
<1>2. ASSUME NEW type, Received(c, type) PROVE toClient' \in [Clients -> Seq(Types)]
  <2>1. toClient[c] \in Seq(Types) /\ toClient[c] # <<>>
    BY <1>2 DEF Received, TypeOK
  <2>2. Tail(toClient[c]) \in Seq(Types)
    BY <2>1, HeldBeforeHead
  <2> QED
    BY <1>2, <2>2 DEF Received, TypeOK
<1>3. ASSUME NEW type \in Types, Reply(c, type)
      PROVE  toServer' \in [Clients -> Seq(Types)] /\ UNCHANGED <<backlog, open, hungup, reset>>
  <2>1. toServer[c] \in Seq(Types)
    BY DEF TypeOK
  <2>2. Append(toServer[c], type) \in Seq(Types)
    BY <2>1, HeldAfterAppend
  <2> QED
    BY <1>3, <2>2 DEF Reply, TypeOK
<1>4. ASSUME HangUp(c)
      PROVE  hungup' \subseteq Clients /\ reset' \subseteq NetClients /\ UNCHANGED <<backlog, toServer, open>>
  BY <1>4 DEF HangUp, TypeOK
<1>5. \A type \in {"ACCEPTED", "REJECTED", "REGISTER", "PING", "TASK", "RESULT"} : type \in Types
  BY DEF Types
<1>6. \A place \in {"new", "connecting", "registering", "registered", "rejected", "exited", "frozen"} :
        place \in Places
  BY DEF Places
<1>7. CASE Connect(c)
  <2>1. backlog' \in [{"net", "local"} -> Seq(Clients)]
    <3>1. Kind(c) \in {"net", "local"} /\ backlog[Kind(c)] \in Seq(Clients)
      BY DEF Kind, TypeOK
    <3>2. Append(backlog[Kind(c)], c) \in Seq(Clients)
      BY <3>1, HeldAfterAppend
    <3> QED
      BY <1>7, <3>2 DEF Connect, TypeOK
  <2> QED
    BY <1>1, <1>6, <1>7, <2>1 DEF Connect, TypeOK, table, threads, history
<1>8. CASE Register(c) \/ AnswerPing(c) \/ PerformTask(c)
  <2>1. toClient' \in [Clients -> Seq(Types)]
    BY <1>2, <1>8 DEF Register, AnswerPing, PerformTask
  <2>2. toServer' \in [Clients -> Seq(Types)] /\ UNCHANGED <<backlog, open, hungup, reset>>
    BY <1>3, <1>5, <1>8 DEF Register, AnswerPing, PerformTask
  <2>3. client' \in [Clients -> Places] /\ UNCHANGED <<server, table, threads, history>>
    BY <1>1, <1>6, <1>8 DEF Register, AnswerPing, PerformTask
  <2> QED
    BY <2>1, <2>2, <2>3 DEF TypeOK, table, threads, history
<1>9. CASE BeginWork(c)
  BY <1>1, <1>2, <1>6, <1>9 DEF BeginWork, TypeOK, table, threads, history
<1>10. CASE Rejected(c)
  <2>1. toClient' \in [Clients -> Seq(Types)]
    BY <1>2, <1>10 DEF Rejected, TypeOK
  <2>2. client' \in [Clients -> Places] /\ UNCHANGED <<server, table, threads, history>>
    BY <1>1, <1>6, <1>10 DEF Rejected
  <2>3. hungup' \subseteq Clients /\ reset' \subseteq NetClients /\ UNCHANGED <<backlog, toServer, open>>
    BY <1>4, <1>10 DEF Rejected
  <2> QED
    BY <2>1, <2>2, <2>3 DEF TypeOK, table, threads, history
<1>11. CASE Exit(c)
  <2>1. client' \in [Clients -> Places] /\ UNCHANGED <<server, table, threads, history>>
    BY <1>1, <1>6, <1>11 DEF Exit
  <2>2. hungup' \subseteq Clients /\ reset' \subseteq NetClients /\ UNCHANGED <<backlog, toServer, open>>
    BY <1>4, <1>11 DEF Exit
  <2> QED
    BY <1>11, <2>1, <2>2 DEF Exit, TypeOK, table, threads, history
<1>12. CASE Freeze(c)
  BY <1>1, <1>6, <1>12 DEF Freeze, TypeOK, table, threads, network, history
<1> QED
  BY <1>7, <1>8, <1>9, <1>10, <1>11, <1>12 DEF Client

-----------------------------------------------------------------------------
(* The table.                                                              *)

LEMMA HeldInSet ==
  ASSUME NEW S, NEW s \in Seq(S)
  PROVE  Held(s) \subseteq S
<1>1. \A n \in DOMAIN s : s[n] \in S
  BY ElementOfSeq, LenProperties
<1> QED
  BY <1>1 DEF Held

\* The slots keep client and name, or are cleared; nothing else that is said about
\* connections and names changes.
LEMMA TableKept ==
  ASSUME TypeOK, TableInv,
         \A i \in Slots :
           \/ clients'[i].fd = clients[i].fd /\ clients'[i].name = clients[i].name
           \/ clients'[i].fd = NoFd /\ clients'[i].name = EmptyName,
         UNCHANGED backlog, incoming' \subseteq incoming,
         \A c \in Clients : client'[c] = "new" <=> client[c] = "new",
         thread'.at = "register" => thread' = thread
  PROVE  TableInv'
<1> USE DEF TableInv
<1>1. \A c \in Clients : Seated(c)' => Seated(c)
  BY ClientsAssumption DEF Seated
<1>2. TableConsistent'
  BY DEF TableConsistent
<1>3. \A k \in {"net", "local"} : Held(backlog[k]) \subseteq Clients
  <2>1. \A k \in {"net", "local"} : backlog[k] \in Seq(Clients)
    BY DEF TypeOK
  <2> QED
    BY <2>1, HeldInSet
<1>4. QueueInv'
  BY <1>1, <1>3 DEF QueueInv
<1>5. NameInv'
  <2>1. \A i \in Slots : clients'[i].fd = NoFd => clients'[i].name = EmptyName
    BY DEF NameInv
  <2>2. ASSUME thread'.at = "register", Current' # NoFd
        PROVE  /\ Name[Current'] # EmptyName
               /\ \A i \in Slots : clients'[i].name # Name[Current']
    <3>1. thread' = thread /\ thread.id \in Slots
      BY <2>2 DEF TypeOK
    <3>2. Current' = Current
      BY <2>2, <3>1 DEF Current
    <3> QED
      BY <2>2, <3>1, <3>2 DEF NameInv
  <2> QED
    BY <2>1, <2>2 DEF NameInv
<1> QED
  BY <1>2, <1>4, <1>5


\* The connection that is accepted leaves its backlog.
LEMMA AcceptStep ==
  ASSUME TypeOK, QueueInv, NEW k \in {"net", "local"}, Accept(k)
  PROVE  LET c == Head(backlog[k])
         IN  /\ c \in Clients /\ Kind(c) = k /\ client[c] # "new" /\ ~Seated(c) /\ Queued(c)
             /\ \A d \in Clients : Queued(d)' <=> Queued(d) /\ d # c
             /\ \A l \in {"net", "local"} :
                  NoRepeats(backlog'[l]) /\ Held(backlog'[l]) = Held(backlog[l]) \ {c}
             /\ \E type \in {"ACCEPTED", "REJECTED"} : Delivered(c, type)
             /\ c \notin hungup => \E type \in {"ACCEPTED", "REJECTED"} :
                                     toClient'[c] = Append(toClient[c], type)
             /\ \/ UNCHANGED clients
                \/ \E id \in Slots :
                     /\ clients[id].fd = NoFd
                     /\ Becomes(id, c, clients[id].name, clients[id].registered,
                                clients[id].pinged)
<1> DEFINE c == Head(backlog[k])
<1>1. backlog[k] \in Seq(Clients) /\ backlog[k] # <<>>
  BY DEF Accept, QueueInv, TypeOK
<1>2. /\ c \in Clients /\ c \in Held(backlog[k])
      /\ Held(backlog[k]) = Held(Tail(backlog[k])) \cup {c}
      /\ NoRepeats(Tail(backlog[k])) /\ c \notin Held(Tail(backlog[k]))
  BY <1>1, HeldBeforeHead DEF QueueInv
<1>3. Kind(c) = k /\ client[c] # "new" /\ ~Seated(c)
  BY <1>2 DEF QueueInv
<1>4. backlog' = [backlog EXCEPT ![k] = Tail(backlog[k])]
  BY DEF Accept
<1>5. \E type \in {"ACCEPTED", "REJECTED"} : Write(TRUE, c, type)
  BY DEF Accept
<1> HIDE DEF c
<1>6. ASSUME NEW l \in {"net", "local"}
      PROVE  NoRepeats(backlog'[l]) /\ Held(backlog'[l]) = Held(backlog[l]) \ {c}
  <2>1. CASE l = k
    <3>1. backlog'[l] = Tail(backlog[k])
      BY <1>4, <2>1 DEF TypeOK
    <3> QED
      BY <1>2, <2>1, <3>1
  <2>2. CASE l # k
    <3>1. backlog'[l] = backlog[l]
      BY <1>4, <2>2 DEF TypeOK
    <3>2. c \notin Held(backlog[l])
      BY <1>3, <2>2 DEF QueueInv
    <3> QED
      BY <3>1, <3>2 DEF QueueInv
  <2> QED
    BY <2>1, <2>2
<1>7. \A d \in Clients : Queued(d)' <=> Queued(d) /\ d # c
  <2>1. \A d \in Clients : Kind(d) \in {"net", "local"}
    BY DEF Kind
  <2> QED
    BY <1>6, <2>1 DEF Queued
<1>8. /\ \E type \in {"ACCEPTED", "REJECTED"} : Delivered(c, type)
      /\ c \notin hungup => \E type \in {"ACCEPTED", "REJECTED"} :
                              toClient'[c] = Append(toClient[c], type)
  BY <1>2, <1>5, WriteStep DEF Types
<1>9. ASSUME clients' # clients
      PROVE  \E id \in Slots :
               /\ clients[id].fd = NoFd
               /\ Becomes(id, c, clients[id].name, clients[id].registered, clients[id].pinged)
  <2>1. FreeIds # {} /\ clients' = [clients EXCEPT ![get_free_id].fd = c]
    BY <1>9 DEF Accept, c
  <2>2. get_free_id \in Slots /\ clients[get_free_id].fd = NoFd
    BY <2>1, FreeId
  <2> QED
    BY <1>2, <2>1, <2>2, SlotChange
<1>10. Queued(c)
  BY <1>2, <1>3 DEF Queued
<1> QED
  BY <1>2, <1>3, <1>6, <1>7, <1>8, <1>9, <1>10 DEF c

LEMMA TableAccept ==
  ASSUME TypeOK, TableInv, NEW k \in {"net", "local"}, Accept(k)
  PROVE  TableInv'
<1> DEFINE c == Head(backlog[k])
<1>1. /\ c \in Clients /\ Kind(c) = k /\ client[c] # "new" /\ ~Seated(c)
      /\ \A l \in {"net", "local"} :
           NoRepeats(backlog'[l]) /\ Held(backlog'[l]) = Held(backlog[l]) \ {c}
      /\ \/ UNCHANGED clients
         \/ \E id \in Slots :
              /\ clients[id].fd = NoFd
              /\ Becomes(id, c, clients[id].name, clients[id].registered, clients[id].pinged)
  BY AcceptStep DEF TableInv
<1>2. UNCHANGED <<client, thread>> /\ incoming' = incoming \ {k} /\ thread.at = "round"
      /\ backlog' = [backlog EXCEPT ![k] = Tail(@)]
  BY DEF Accept
<1> HIDE DEF c
<1>3. /\ \A i \in Slots : clients'[i].fd \in {clients[i].fd, c} /\ clients'[i].name = clients[i].name
      /\ \A i, j \in Slots : clients'[i].fd = c /\ clients'[j].fd = c => i = j
      /\ \A i \in Slots : clients'[i].fd = NoFd => clients[i].fd = NoFd
      /\ \A i \in Slots : clients'[i].fd # c => clients'[i].fd = clients[i].fd
  BY <1>1, ClientsAssumption DEF Becomes, Seated
<1>4. TableConsistent'
  BY <1>1, <1>3 DEF TableInv, TableConsistent
<1>5. NameInv'
  BY <1>2, <1>3 DEF TableInv, NameInv
<1>6. \A d \in Clients : Seated(d)' => Seated(d) \/ d = c
  BY <1>3 DEF Seated
<1>7. \A l \in {"net", "local"} : Held(backlog[l]) \subseteq Clients
  BY HeldInSet DEF TypeOK
<1>8. \A l \in {"net", "local"} : l \in incoming' => backlog'[l] # <<>>
  BY <1>2 DEF TableInv, QueueInv, TypeOK
<1>9. QueueInv'
  BY <1>1, <1>2, <1>6, <1>7, <1>8 DEF TableInv, QueueInv
<1> QED
  BY <1>4, <1>5, <1>9 DEF TableInv

LEMMA TableServer ==
  ASSUME TypeOK, TableInv, server = "up", ServerThread
  PROVE  TableInv'
<1>1. CASE CopySockets
  BY <1>1, TableKept DEF CopySockets, ThreadGoes, table, network
<1>2. CASE Poll
  <2>1. UNCHANGED <<clients, client, backlog>> /\ thread'.at = "round"
    BY <1>2 DEF Poll, ThreadReturns, ThreadGoes, table, network
  <2>2. \A k \in {"net", "local"} : k \in incoming' => backlog[k] # <<>>
    BY <1>2 DEF Poll
  <2>3. QueueInv'
    BY <2>1, <2>2 DEF TableInv, QueueInv, Seated
  <2> QED
    BY <2>1, <2>3 DEF TableInv, TableConsistent, NameInv
<1>3. CASE ClearSlot
  <2>1. thread.id \in Slots /\ Becomes(thread.id, NoFd, EmptyName, FALSE, FALSE)
    BY <1>3, SlotChange DEF ClearSlot, TypeOK
  <2> QED
    BY <1>3, <2>1, TableKept DEF ClearSlot, ThreadReturns, ThreadGoes, Becomes, network
<1>4. CASE AcceptRegistration
  <2> DEFINE id == thread.id  c == Current  n == IF c = NoFd THEN EmptyName ELSE Name[c]
  <2>1. id \in Slots /\ c \in Clients \cup {NoFd} /\ n \in Names
    BY DEF TypeOK, Names, Current
  <2>2. clients' = [clients EXCEPT ![id].name = n, ![id].registered = TRUE]
    BY <1>4 DEF AcceptRegistration, Current
  <2>3. Becomes(id, c, n, TRUE, clients[id].pinged)
    BY <2>1, <2>2, SlotChange DEF Current
  <2>4. UNCHANGED <<client, backlog, incoming>> /\ thread'.at = "round" /\ thread.at = "register"
    BY <1>4 DEF AcceptRegistration, ThreadReturns, ThreadGoes
  <2>5. \A i \in Slots : clients'[i].fd = clients[i].fd
    BY <2>3 DEF Becomes, Current
  <2>6. /\ clients'[id].name = n
        /\ \A i \in Slots \ {id} : clients'[i].name = clients[i].name
    BY <2>3 DEF Becomes
  <2>7. n # EmptyName => \A i \in Slots \ {id} : clients[i].name # n
    BY <2>4 DEF TableInv, NameInv
  <2>8. TableConsistent'
    BY <2>1, <2>5, <2>6, <2>7 DEF TableInv, TableConsistent
  <2>9. QueueInv'
    BY <2>4, <2>5 DEF TableInv, QueueInv, Seated
  <2>10. NameInv'
    BY <2>1, <2>4, <2>5, <2>6 DEF TableInv, NameInv, Current
  <2> QED
    BY <2>8, <2>9, <2>10 DEF TableInv
<1>5. CASE WriteStatus
  <2>1. thread.id \in Slots /\ thread.registered \in BOOLEAN
    BY DEF TypeOK
  <2>2. Becomes(thread.id, clients[thread.id].fd, clients[thread.id].name, thread.registered, FALSE)
    BY <1>5, <2>1, SlotChange DEF WriteStatus
  <2> QED
    BY <1>5, <2>1, <2>2, TableKept DEF WriteStatus, ThreadReturns, ThreadGoes, Becomes, network
<1>6. ASSUME NEW k \in {"net", "local"}, Accept(k) PROVE TableInv'
  BY <1>6, TableAccept
<1>7. ASSUME NEW i \in Slots, CloseSocket(i) PROVE TableInv'
  BY <1>7, TableKept DEF CloseSocket, NextOf, ThreadGoes, table
<1>8. ASSUME NEW i \in Slots, ReadFails(i) \/ ReadEndOfFile(i) PROVE TableInv'
  BY <1>8, TableKept DEF ReadFails, ReadEndOfFile, NextMessage, NextOf, table, network
<1>9. ASSUME NEW i \in Slots,
             RejectRegistration(i) \/ ReadStatus(i) \/ HandleResult(i)
      PROVE  TableInv'
  BY <1>9, TableKept DEF RejectRegistration, ReadStatus, HandleResult, Read, NextMessage, NextOf,
                         ThreadGoes
<1>10. ASSUME NEW i \in Slots, CheckRegistration(i) PROVE TableInv'
  <2>1. /\ UNCHANGED <<clients, client, backlog, incoming>> /\ thread'.id = i
        /\ clients[i].fd # NoFd
        /\ Name[clients[i].fd] # EmptyName /\ ~NameTaken(Name[clients[i].fd])
    BY <1>10 DEF CheckRegistration, RegistrationValid, Read, NextMessage, NextOf, ThreadGoes
  <2>2. NameInv'
    BY <2>1 DEF TableInv, NameInv, NameTaken, Current
  <2> QED
    BY <2>1, <2>2 DEF TableInv, TableConsistent, QueueInv, Seated
<1> QED
  BY <1>1, <1>2, <1>3, <1>4, <1>5, <1>6, <1>7, <1>8, <1>9, <1>10 DEF ServerThread

LEMMA TableOthers ==
  ASSUME TypeOK, TableInv, server = "up", Pinger \/ Console
  PROVE  TableInv'
<1>1. CASE ChooseToPing
  <2>1. get_next_client \in Slots
    BY <1>1, NextClient DEF ChooseToPing, TypeOK
  <2>2. Becomes(get_next_client, clients[get_next_client].fd, clients[get_next_client].name,
                clients[get_next_client].registered, TRUE)
    BY <1>1, <2>1, SlotChange DEF ChooseToPing
  <2> QED
    BY <1>1, <2>1, <2>2, TableKept DEF ChooseToPing, Becomes, network
<1>2. CASE SendPing
  BY <1>2, TableKept DEF SendPing, table
<1>3. CASE Timeout
  BY <1>3, TableKept DEF Timeout, table, network
<1>6. CASE Drop
  <2>1. pinger.id \in Slots /\ Becomes(pinger.id, NoFd, EmptyName, FALSE, FALSE)
    BY <1>6, SlotChange DEF Drop, TypeOK
  <2> QED
    BY <1>6, <2>1, TableKept DEF Drop, Becomes, network
<1>4. CASE ChooseForTask
  BY <1>4, TableKept DEF ChooseForTask, network
<1>5. CASE SendTask
  BY <1>5, TableKept DEF SendTask, table
<1> QED
  BY <1>1, <1>2, <1>3, <1>4, <1>5, <1>6 DEF Pinger, Console

LEMMA ConnectStep ==
  ASSUME TypeOK, QueueInv, NEW c \in Clients, Connect(c)
  PROVE  /\ client[c] = "new" /\ ~Queued(c) /\ ~Seated(c)
         /\ client' = [client EXCEPT ![c] = "connecting"]
         /\ \A d \in Clients : Queued(d)' <=> Queued(d) \/ d = c
         /\ \A l \in {"net", "local"} :
              /\ NoRepeats(backlog'[l])
              /\ Held(backlog'[l]) = Held(backlog[l]) \cup (IF l = Kind(c) THEN {c} ELSE {})
              /\ backlog[l] # <<>> => backlog'[l] # <<>>
         /\ UNCHANGED <<clients, incoming, thread>>
<1> DEFINE k == Kind(c)
<1>1. k \in {"net", "local"} /\ backlog[k] \in Seq(Clients) /\ client[c] = "new"
  BY DEF Kind, TypeOK, Connect, ClientGoes
<1>2. c \notin Held(backlog[k]) /\ ~Seated(c)
  BY <1>1 DEF QueueInv
<1>3. /\ Held(Append(backlog[k], c)) = Held(backlog[k]) \cup {c}
      /\ NoRepeats(Append(backlog[k], c)) /\ Append(backlog[k], c) # <<>>
  BY <1>1, <1>2, HeldAfterAppend, AppendProperties DEF QueueInv
<1>4. backlog' = [backlog EXCEPT ![k] = Append(backlog[k], c)]
  BY DEF Connect
<1>5. UNCHANGED <<clients, incoming, thread>> /\ client' = [client EXCEPT ![c] = "connecting"]
  BY DEF Connect, ClientGoes, table, threads
<1> HIDE DEF k
<1>6. ASSUME NEW l \in {"net", "local"}
      PROVE  /\ NoRepeats(backlog'[l])
             /\ Held(backlog'[l]) = Held(backlog[l]) \cup (IF l = k THEN {c} ELSE {})
             /\ backlog[l] # <<>> => backlog'[l] # <<>>
  <2>1. CASE l = k
    <3>1. backlog'[l] = Append(backlog[k], c)
      BY <1>1, <1>4, <2>1 DEF TypeOK
    <3> QED
      BY <1>3, <2>1, <3>1
  <2>2. CASE l # k
    <3>1. backlog'[l] = backlog[l]
      BY <1>1, <1>4, <2>2 DEF TypeOK
    <3> QED
      BY <2>2, <3>1 DEF QueueInv
  <2> QED
    BY <2>1, <2>2
<1>7. \A d \in Clients : Queued(d)' <=> Queued(d) \/ d = c
  <2>1. \A d \in Clients : Kind(d) \in {"net", "local"}
    BY DEF Kind
  <2>2. \A d \in Clients, l \in {"net", "local"} : d \in Held(backlog[l]) => Kind(d) = l
    BY DEF QueueInv
  <2> QED
    BY <1>6, <2>1, <2>2 DEF Queued, k
<1> QED
  BY <1>1, <1>2, <1>5, <1>6, <1>7 DEF Queued, k

LEMMA TableClients ==
  ASSUME TypeOK, TableInv, server = "up", NEW c \in Clients, Client(c) \/ Exit(c) \/ Freeze(c)
  PROVE  TableInv'
<1>1. ASSUME NEW from, NEW to, ClientGoes(c, from, to), from # "new", to # "new",
             UNCHANGED backlog
      PROVE  TableInv'
  <2>1. \A d \in Clients : client'[d] = "new" <=> client[d] = "new"
    BY <1>1 DEF ClientGoes, TypeOK
  <2> QED
    BY <1>1, <2>1, TableKept DEF ClientGoes, table, threads
<1>2. CASE Connect(c)
  <2>1. /\ client[c] = "new" /\ ~Queued(c) /\ ~Seated(c)
        /\ client' = [client EXCEPT ![c] = "connecting"]
        /\ \A l \in {"net", "local"} :
             /\ NoRepeats(backlog'[l])
             /\ Held(backlog'[l]) = Held(backlog[l]) \cup (IF l = Kind(c) THEN {c} ELSE {})
             /\ backlog[l] # <<>> => backlog'[l] # <<>>
        /\ UNCHANGED <<clients, incoming, thread>>
    BY <1>2, ConnectStep DEF TableInv
  <2>2. \A d \in Clients : Seated(d)' <=> Seated(d)
    BY <2>1 DEF Seated
  <2>3. /\ client'[c] # "new"
        /\ \A d \in Clients : client'[d] = "new" => client[d] = "new"
        /\ \A l \in {"net", "local"} : Held(backlog[l]) \subseteq Clients
    BY <2>1, HeldInSet DEF TypeOK
  <2>4. QueueInv'
    BY <2>1, <2>2, <2>3 DEF TableInv, QueueInv
  <2> QED
    BY <2>1, <2>4 DEF TableInv, TableConsistent, NameInv, Current
<1>3. CASE Register(c) \/ BeginWork(c) \/ AnswerPing(c) \/ PerformTask(c)
  BY <1>1, <1>3 DEF Register, BeginWork, AnswerPing, PerformTask, Reply
<1>4. CASE Rejected(c)
  BY <1>1, <1>4 DEF Rejected, HangUp
<1>5. CASE Exit(c)
  BY <1>1, <1>5 DEF Exit, HangUp
<1>6. CASE Freeze(c)
  BY <1>1, <1>6 DEF Freeze, network
<1> QED
  BY <1>2, <1>3, <1>4, <1>5, <1>6 DEF Client

-----------------------------------------------------------------------------
(* The mutex and the ping.                                                 *)

\* No slot is marked or given away that was not.
LEMMA PingKept ==
  ASSUME TypeOK, PingInv, server = "up",
         UNCHANGED <<mutex_data, pinger, console, pinged>>,
         \A i \in Slots : clients'[i].pinged =>
           clients[i].pinged /\ clients'[i].fd = clients[i].fd,
         pinger.at = "drop" => clients'[pinger.id].fd \in {clients[pinger.id].fd, NoFd}
  PROVE  PingInv'
  BY DEF PingInv

LEMMA PingServer ==
  ASSUME TypeOK, TableInv, PingInv, server = "up", ServerThread
  PROVE  PingInv'
<1>8. pinger.id \in Slots
  BY DEF TypeOK
<1>1. ASSUME UNCHANGED <<clients, mutex_data, pinger, console, pinged>> PROVE PingInv'
  BY <1>1, PingKept
<1>2. CASE CopySockets \/ Poll
  BY <1>1, <1>2 DEF CopySockets, Poll, table, history
<1>3. CASE ClearSlot
  <2>1. thread.id \in Slots /\ Becomes(thread.id, NoFd, EmptyName, FALSE, FALSE)
    BY <1>3, SlotChange DEF ClearSlot, TypeOK
  <2> QED
    BY <1>3, <2>1, <1>8, PingKept DEF ClearSlot, Becomes, history
<1>4. CASE AcceptRegistration
  <2> DEFINE n == IF clients[thread.id].fd = NoFd THEN EmptyName ELSE Name[clients[thread.id].fd]
  <2>1. thread.id \in Slots /\ n \in Names
    BY DEF TypeOK, Names
  <2>2. Becomes(thread.id, clients[thread.id].fd, n, TRUE, clients[thread.id].pinged)
    BY <1>4, <2>1, SlotChange DEF AcceptRegistration
  <2> QED
    BY <1>4, <2>1, <2>2, <1>8, PingKept DEF AcceptRegistration, Becomes, history
<1>5. CASE WriteStatus
  <2>1. thread.id \in Slots /\ thread.registered \in BOOLEAN
    BY DEF TypeOK
  <2>2. Becomes(thread.id, clients[thread.id].fd, clients[thread.id].name, thread.registered, FALSE)
    BY <1>5, <2>1, SlotChange DEF WriteStatus
  <2> QED
    BY <1>5, <2>1, <2>2, <1>8, PingKept DEF WriteStatus, Becomes, history
<1>6. ASSUME NEW k \in {"net", "local"}, Accept(k) PROVE PingInv'
  <2>1. UNCHANGED <<mutex_data, pinger, console, pinged>> /\ mutex_data = "free"
    BY <1>6 DEF Accept, history
  <2>2. \/ UNCHANGED clients
        \/ \E id \in Slots : clients[id].fd = NoFd
             /\ Becomes(id, Head(backlog[k]), clients[id].name, clients[id].registered,
                        clients[id].pinged)
    BY <1>6, AcceptStep DEF TableInv
  <2>3. pinger.at # "drop" /\ \A id \in Slots : clients[id].fd = NoFd => ~clients[id].pinged
    BY <2>1 DEF PingInv, TypeOK
  <2> QED
    BY <2>1, <2>2, <2>3, PingKept DEF Becomes
<1>7. ASSUME NEW i \in Slots,
             \/ CloseSocket(i) \/ ReadFails(i) \/ ReadEndOfFile(i) \/ RejectRegistration(i)
             \/ CheckRegistration(i) \/ ReadStatus(i) \/ HandleResult(i)
      PROVE  PingInv'
  BY <1>1, <1>7 DEF CloseSocket, ReadFails, ReadEndOfFile, RejectRegistration, CheckRegistration,
                    ReadStatus, HandleResult, Read, NextMessage, NextOf, table, history
<1> QED
  BY <1>2, <1>3, <1>4, <1>5, <1>6, <1>7 DEF ServerThread

LEMMA PingOthers ==
  ASSUME TypeOK, TableInv, PingInv, server = "up", Pinger \/ Console
  PROVE  PingInv'
<1>1. CASE ChooseToPing
  <2> DEFINE id == get_next_client
  <2>1. id \in Slots
    BY <1>1, NextClient DEF ChooseToPing, TypeOK
  <2>2. Becomes(id, clients[id].fd, clients[id].name, clients[id].registered, TRUE)
    BY <1>1, <2>1, SlotChange DEF ChooseToPing
  <2>3. /\ pinger.at = "interval" /\ mutex_data = "free" /\ mutex_data' = "pinger"
        /\ pinger' = [at |-> "ping", id |-> id] /\ pinged' = clients[id].fd
        /\ UNCHANGED <<server, console>>
    BY <1>1 DEF ChooseToPing
  <2> HIDE DEF id
  <2>4. \A i \in Slots : clients'[i].pinged => i = id
    BY <2>2, <2>3 DEF Becomes, PingInv
  <2> QED
    BY <2>1, <2>2, <2>3, <2>4 DEF Becomes, PingInv
<1>2. CASE SendPing
  <2>1. /\ pinger.at = "ping" /\ mutex_data' = "free" /\ pinger' = [pinger EXCEPT !.at = "timeout"]
        /\ UNCHANGED <<clients, console, pinged>> /\ Send(clients[pinger.id].fd, "PING")
    BY <1>2 DEF SendPing, table, history
  <2>2. pinger'.at = "timeout" /\ pinger'.id = pinger.id
    BY <2>1 DEF TypeOK
  <2>3. clients[pinger.id].fd = NoFd => server' # "up"
    BY <2>1, ClientsAssumption DEF Send, Write, TypeOK
  <2> QED
    BY <2>1, <2>2, <2>3 DEF PingInv
<1>3. CASE Timeout
  <2>1. pinger.at = "timeout" /\ mutex_data = "free" /\ UNCHANGED <<clients, console, server>>
        /\ pinger.id \in Slots
    BY <1>3 DEF Timeout, table, TypeOK
  <2>2. CASE clients[pinger.id].pinged
    <3>1. /\ pinger'.at = "drop" /\ pinger'.id = pinger.id /\ mutex_data' = "pinger"
          /\ UNCHANGED pinged
      BY <1>3, <2>2 DEF Timeout, TypeOK
    <3> QED
      BY <2>1, <2>2, <3>1 DEF PingInv
  <2>3. CASE ~clients[pinger.id].pinged
    <3>1. pinger'.at = "interval" /\ UNCHANGED mutex_data
      BY <1>3, <2>3 DEF Timeout
    <3>2. \A i \in Slots : ~clients'[i].pinged
      BY <2>1, <2>3 DEF PingInv
    <3> QED
      BY <2>1, <3>1, <3>2 DEF PingInv
  <2> QED
    BY <2>2, <2>3
<1>6. CASE Drop
  <2>1. Becomes(pinger.id, NoFd, EmptyName, FALSE, FALSE)
    BY <1>6, SlotChange DEF Drop, TypeOK
  <2>2. /\ pinger.at = "drop" /\ pinger'.at = "interval" /\ mutex_data' = "free"
        /\ UNCHANGED console
    BY <1>6 DEF Drop
  <2>3. \A i \in Slots : ~clients'[i].pinged
    BY <2>1 DEF PingInv, Becomes
  <2> QED
    BY <2>2, <2>3 DEF PingInv
<1>4. CASE ChooseForTask
  BY <1>4 DEF ChooseForTask, PingInv, history
<1>5. CASE SendTask
  BY <1>5 DEF SendTask, PingInv, table, history
<1> QED
  BY <1>1, <1>2, <1>3, <1>4, <1>5, <1>6 DEF Pinger, Console

LEMMA PingClients ==
  ASSUME TypeOK, PingInv, server = "up", NEW c \in Clients, Client(c) \/ Exit(c) \/ Freeze(c)
  PROVE  PingInv'
<1>1. \E from, to : ClientGoes(c, from, to)
  BY DEF Client, Connect, Register, BeginWork, AnswerPing, PerformTask, Rejected, Exit, Freeze
<1> QED
  BY <1>1, PingKept DEF ClientGoes, table, threads, history

-----------------------------------------------------------------------------
(* Who is gone.                                                            *)

LEMMA GoneStep ==
  ASSUME TypeOK, TableInv, GoneInv, server = "up",
         \/ ServerThread \/ Pinger \/ Console
         \/ \E c \in Clients : Client(c) \/ Exit(c) \/ Freeze(c)
  PROVE  GoneInv'
<1>1. ASSUME NEW c, NEW type \in Types, Send(c, type), UNCHANGED <<client, hungup>> PROVE GoneInv'
  BY <1>1, SendStep DEF Delivered, GoneInv
<1>2. ASSUME UNCHANGED <<client, hungup, reset>> PROVE GoneInv'
  BY <1>2 DEF GoneInv
<1>3. CASE ServerThread
  <2>1. CASE CopySockets \/ Poll \/ ClearSlot \/ WriteStatus
    BY <1>2, <2>1 DEF CopySockets, Poll, ClearSlot, WriteStatus, network
  <2>2. CASE AcceptRegistration
    BY <1>1, <2>2 DEF AcceptRegistration, Types
  <2>3. ASSUME NEW k \in {"net", "local"}, Accept(k) PROVE GoneInv'
    <3>1. UNCHANGED <<client, hungup>>
      BY <2>3 DEF Accept
    <3> QED
      BY <2>3, <3>1, AcceptStep DEF TableInv, Delivered, GoneInv
  <2>4. ASSUME NEW i \in Slots, RejectRegistration(i) PROVE GoneInv'
    BY <1>1, <2>4 DEF RejectRegistration, Read, Types
  <2>5. ASSUME NEW i \in Slots,
               \/ CloseSocket(i) \/ ReadFails(i) \/ ReadEndOfFile(i)
               \/ CheckRegistration(i) \/ ReadStatus(i) \/ HandleResult(i)
        PROVE  GoneInv'
    BY <1>2, <2>5 DEF CloseSocket, ReadFails, ReadEndOfFile, CheckRegistration, ReadStatus,
                      HandleResult, Read, network
  <2> QED
    BY <1>3, <2>1, <2>2, <2>3, <2>4, <2>5 DEF ServerThread
<1>4. CASE Pinger \/ Console
  <2>1. CASE ChooseToPing \/ Timeout \/ Drop \/ ChooseForTask
    BY <1>2, <2>1 DEF ChooseToPing, Timeout, Drop, ChooseForTask, network
  <2>2. CASE SendPing
    BY <1>1, <2>2 DEF SendPing, Types
  <2>3. CASE SendTask
    BY <1>1, <2>3 DEF SendTask, Types
  <2> QED
    BY <1>4, <2>1, <2>2, <2>3 DEF Pinger, Console
<1>5. ASSUME NEW c \in Clients, Client(c) \/ Exit(c) \/ Freeze(c) PROVE GoneInv'
  <2>1. ASSUME NEW from, NEW to, ClientGoes(c, from, to),
               from \notin {"rejected", "exited"}, to \notin {"rejected", "exited"},
               UNCHANGED <<hungup, reset>>
        PROVE  GoneInv'
    BY <2>1 DEF ClientGoes, GoneInv, TypeOK
  <2>2. ASSUME NEW from, NEW to \in {"rejected", "exited"}, ClientGoes(c, from, to), HangUp(c)
        PROVE  GoneInv'
    <3>1. client' = [client EXCEPT ![c] = to] /\ hungup' = hungup \cup {c}
          /\ reset' \subseteq reset \cup {c}
      BY <2>2 DEF ClientGoes, HangUp
    <3> QED
      BY <3>1 DEF GoneInv, TypeOK
  <2>3. CASE Connect(c) \/ Register(c) \/ BeginWork(c) \/ AnswerPing(c) \/ PerformTask(c) \/ Freeze(c)
    BY <2>1, <2>3 DEF Connect, Register, BeginWork, AnswerPing, PerformTask, Freeze, Reply, network
  <2>4. CASE Rejected(c) \/ Exit(c)
    BY <2>2, <2>4 DEF Rejected, Exit
  <2> QED
    BY <1>5, <2>3, <2>4 DEF Client
<1> QED
  BY <1>3, <1>4, <1>5

-----------------------------------------------------------------------------
(* In time.                                                                *)

LEMMA OneMessage ==
  ASSUME NEW x
  PROVE  /\ Append(<<>>, x) = <<x>> /\ Head(<<x>>) = x /\ Tail(<<x>>) = <<>> /\ <<x>> # <<>>
         /\ Held(<<x>>) = {x} /\ Held(<<>>) = {}
  BY DEF Held

LEMMA HeadKept ==
  ASSUME NEW S, NEW s \in Seq(S), NEW x \in S, s # <<>>
  PROVE  Append(s, x) # <<>> /\ Head(Append(s, x)) = Head(s)
  BY AppendProperties, HeadTailProperties, LenProperties, EmptySeq

LEMMA RegisteredAgain ==
  ASSUME \A i \in Slots : clients'[i].registered =>
           \E c \in Clients : clients'[i].fd = c /\ clients'[i].name = Name[c] /\ Answered(c)'
  PROVE  RegisteredSlots'
  BY ClientsAssumption DEF RegisteredSlots, Answered, Asks

LEMMA RegisteredClient ==
  ASSUME TypeOK, RegisteredSlots, NEW i \in Slots, clients[i].registered
  PROVE  \E c \in Clients : clients[i].fd = c /\ clients[i].name = Name[c] /\ Answered(c)
<1>1. clients[i].fd \in Clients
  BY DEF TypeOK, RegisteredSlots
<1> QED
  BY <1>1 DEF RegisteredSlots

\* Nothing happens to the messages, and no slot of a client that asks or works is
\* cleared.
LEMMA ListingKept ==
  ASSUME TypeOK, InTime, UNCHANGED <<client, toServer, toClient, backlog>>,
         server' = "up" => server = "up",
         \A i \in Slots :
           \/ /\ clients'[i].fd = clients[i].fd /\ clients'[i].name = clients[i].name
              /\ clients'[i].registered = clients[i].registered
           \/ /\ clients'[i].fd = NoFd /\ ~clients'[i].registered
              /\ clients[i].registered => client[clients[i].fd] \notin {"registering", "registered"}
  PROVE  RegisteredSlots' /\ \A c \in Clients : ClientInTime(c)'
<1>1. \A c \in Clients : Asks(c)' = Asks(c) /\ Queued(c)' = Queued(c)
  BY DEF Asks, Queued
<1>2. \A c \in Clients : client[c] \in {"registering", "registered"} /\ Listed(c) => Listed(c)'
  BY DEF Listed
<1>3. RegisteredSlots'
  <2>1. \A c \in Clients : Answered(c) => Answered(c)'
    BY DEF Answered, Asks
  <2>2. ASSUME NEW i \in Slots, clients'[i].registered
        PROVE  \E c \in Clients : clients'[i].fd = c /\ clients'[i].name = Name[c] /\ Answered(c)'
    BY <2>1, <2>2, RegisteredClient DEF InTime
  <2> QED
    BY <2>2, RegisteredAgain
<1>4. ASSUME NEW c \in Clients PROVE ClientInTime(c)'
  BY <1>1, <1>2 DEF InTime, ClientInTime
<1> QED
  BY <1>3, <1>4

LEMMA InTimeRound ==
  ASSUME TypeOK, InTime, GoneInv, server = "up", CopySockets \/ Poll
  PROVE  InTime'
<1>1. /\ UNCHANGED <<server, clients, client, toServer, toClient, backlog, hungup, pinger, console>>
      /\ clients \in [Slots -> Slot]
  BY DEF CopySockets, Poll, table, network, TypeOK, Slot, Names
<1>2. RegisteredSlots' /\ \A c \in Clients : ClientInTime(c)'
  BY <1>1, ListingKept
<1>3. ThreadInTime' /\ ChosenInTime'
  BY <1>1 DEF CopySockets, Poll, ThreadReturns, ThreadGoes, ThreadInTime, InTime, ChosenInTime
<1>4. CASE CopySockets
  <2>1. SocketsInTime'
    BY <1>1, <1>4 DEF CopySockets, ThreadGoes, SocketsInTime, Slot
  <2> QED
    BY <1>2, <1>3, <2>1 DEF InTime
<1>5. CASE Poll
  <2>1. thread'.at = "round" /\ sockets' = [i \in Slots |-> UNION {Events(c) : c \in sockets[i]}]
    BY <1>5 DEF Poll, ThreadReturns, ThreadGoes
  <2>2. \A c \in Clients : "HUP" \in Events(c) => c \in hungup
    BY DEF Events, GoneInv
  <2>3. \A c \in hungup : client[c] # "frozen"
    BY DEF GoneInv
  <2>4. \A i \in Slots : \A c \in sockets[i] : c \in Clients /\ (clients[i].fd = c \/ client[c] = "frozen")
    BY <1>5 DEF Poll, InTime, SocketsInTime
  <2>5. SocketsInTime'
    BY <1>1, <2>1, <2>2, <2>3, <2>4 DEF SocketsInTime
  <2> QED
    BY <1>2, <1>3, <2>5 DEF InTime
<1> QED
  BY <1>4, <1>5

LEMMA InTimeAccept ==
  ASSUME TypeOK, TableInv, PingInv, GoneInv, InTime, NEW k \in {"net", "local"}, Accept(k),
         server = "up"
  PROVE  InTime'
<1>1. PICK c \in Clients :
      /\ ~Seated(c) /\ Queued(c)
      /\ \A d \in Clients : Queued(d)' <=> Queued(d) /\ d # c
      /\ \E type \in {"ACCEPTED", "REJECTED"} : Delivered(c, type)
      /\ c \notin hungup => \E type \in {"ACCEPTED", "REJECTED"} :
                              toClient'[c] = Append(toClient[c], type)
      /\ \/ UNCHANGED clients
         \/ \E id \in Slots :
              /\ clients[id].fd = NoFd
              /\ Becomes(id, c, clients[id].name, clients[id].registered, clients[id].pinged)
  BY AcceptStep DEF TableInv
<1>2. \A d \in Clients : d # c => toClient'[d] = toClient[d]
  BY <1>1 DEF Delivered
<1>3. /\ UNCHANGED <<client, toServer, hungup, thread, sockets, pinger, console>>
      /\ thread.at = "round" /\ mutex_data = "free"
      /\ server' = "up" => server = "up"
  BY DEF Accept
<1>4. \A i \in Slots : \/ /\ clients'[i].fd = clients[i].fd /\ clients'[i].name = clients[i].name
                          /\ clients'[i].registered = clients[i].registered
                       \/ clients[i].fd = NoFd /\ ~clients'[i].registered
  BY <1>1 DEF Becomes, InTime, RegisteredSlots
<1>5. \A d \in Clients : Listed(d) => Listed(d)'
  BY <1>4, ClientsAssumption DEF Listed
<1>6. RegisteredSlots'
  <2>1. \A d \in Clients : d # c /\ Answered(d) => Answered(d)'
    BY <1>2, <1>3 DEF Answered, Asks
  <2>2. ASSUME NEW i \in Slots, clients'[i].registered
        PROVE  \E d \in Clients : clients'[i].fd = d /\ clients'[i].name = Name[d] /\ Answered(d)'
    <3>1. /\ clients'[i].fd = clients[i].fd /\ clients'[i].name = clients[i].name
          /\ clients[i].registered
      BY <1>4, <2>2
    <3>2. clients[i].fd # c
      BY <1>1 DEF Seated
    <3> QED
      BY <2>1, <3>1, <3>2, RegisteredClient DEF InTime
  <2> QED
    BY <2>2, RegisteredAgain
<1>7. ThreadInTime' /\ ChosenInTime'
  BY <1>3 DEF ThreadInTime, ChosenInTime, PingInv
<1>8. SocketsInTime'
  <2>1. \A i \in Slots : clients[i].fd \in hungup => clients'[i].fd = clients[i].fd
    BY <1>4, ClientsAssumption DEF TypeOK
  <2> QED
    BY <1>3, <2>1 DEF InTime, SocketsInTime
<1>9. ASSUME NEW d \in Clients PROVE ClientInTime(d)'
  <2>1. ClientInTime(d)
    BY DEF InTime
  <2>2. toServer'[d] = toServer[d] /\ (Asks(d)' <=> Asks(d)) /\ client'[d] = client[d]
    BY <1>3 DEF Asks
  <2>3. CASE d # c
    <3>1. toClient'[d] = toClient[d] /\ (Queued(d)' <=> Queued(d)) /\ (Listed(d) => Listed(d)')
      BY <1>1, <1>2, <1>5, <2>3
    <3> QED
      BY <2>1, <2>2, <3>1 DEF ClientInTime
  <2>4. CASE d = c
    <3>1. /\ client[c] \in {"connecting", "rejected", "exited"} /\ ~Queued(c)'
          /\ client[c] = "connecting" => toClient[c] = <<>> /\ c \notin hungup
      BY <1>1, <2>1, <2>4 DEF ClientInTime, GoneInv
    <3>2. client[c] = "connecting" => toClient'[c] \in {<<"ACCEPTED">>, <<"REJECTED">>}
      BY <1>1, <3>1, OneMessage
    <3> QED
      BY <2>1, <2>2, <2>4, <3>1, <3>2 DEF ClientInTime
  <2> QED
    BY <2>3, <2>4
<1> QED
  BY <1>6, <1>7, <1>8, <1>9 DEF InTime

LEMMA InTimeClose ==
  ASSUME TypeOK, GoneInv, InTime, server = "up",
         ClearSlot \/ \E i \in Slots : CloseSocket(i)
  PROVE  InTime'
<1>1. CASE ClearSlot
  <2> DEFINE id == thread.id
  <2>1. id \in Slots /\ Becomes(id, NoFd, EmptyName, FALSE, FALSE)
    BY <1>1, SlotChange DEF ClearSlot, TypeOK
  <2>2. /\ UNCHANGED <<server, client, toServer, toClient, backlog, hungup, pinger, console>>
        /\ UNCHANGED sockets /\ thread'.at = "round" /\ thread.at = "disconnect"
    BY <1>1 DEF ClearSlot, network, ThreadReturns, ThreadGoes
  <2>3. clients[id].fd \in hungup \cup {NoFd} /\ sockets[id] = {}
    BY <2>2 DEF InTime, ThreadInTime, Current
  <2>4. clients[id].registered => client[clients[id].fd] \notin {"registering", "registered"}
    BY <2>1, <2>3 DEF InTime, RegisteredSlots, GoneInv
  <2> HIDE DEF id
  <2>5. RegisteredSlots' /\ \A c \in Clients : ClientInTime(c)'
    BY <2>1, <2>2, <2>4, ListingKept DEF Becomes
  <2>6. ThreadInTime' /\ ChosenInTime'
    BY <2>1, <2>2 DEF InTime, ThreadInTime, ChosenInTime, Becomes, TypeOK
  <2>7. SocketsInTime'
    BY <2>1, <2>2, <2>3 DEF InTime, SocketsInTime, Becomes
  <2> QED
    BY <2>5, <2>6, <2>7 DEF InTime
<1>2. ASSUME NEW i \in Slots, CloseSocket(i) PROVE InTime'
  <2>1. /\ UNCHANGED <<server, clients, client, toServer, toClient, backlog, hungup, pinger, console>>
        /\ thread'.at = "disconnect" /\ thread'.id = i /\ thread.at = "round"
        /\ "HUP" \in sockets[i] /\ sockets' = [sockets EXCEPT ![i] = {}]
    BY <1>2 DEF CloseSocket, NextOf, HungUp, table, ThreadGoes
  <2>2. RegisteredSlots' /\ \A c \in Clients : ClientInTime(c)'
    BY <2>1, ListingKept
  <2>3. clients[i].fd \in hungup
    BY <2>1 DEF InTime, SocketsInTime
  <2>4. sockets'[i] = {} /\ \A j \in Slots : sockets'[j] \subseteq sockets[j]
    BY <2>1 DEF TypeOK
  <2>5. ThreadInTime' /\ ChosenInTime'
    BY <2>1, <2>3, <2>4 DEF InTime, ThreadInTime, Current, ChosenInTime
  <2>6. SocketsInTime'
    BY <2>1, <2>4 DEF InTime, SocketsInTime
  <2> QED
    BY <2>2, <2>5, <2>6 DEF InTime
<1> QED
  BY <1>1, <1>2

\* A message is taken from a client that has one under way.
LEMMA ReadStep ==
  ASSUME TypeOK, InTime, NEW i \in Slots, NEW type, Read(i, type)
  PROVE  \E c \in Clients :
           /\ clients[i].fd = c /\ type \in Types
           /\ client[c] \notin {"new", "connecting"} /\ ~Asks(c)'
           /\ type = "REGISTER" =>
                /\ Asks(c) /\ client[c] \in {"registering", "exited", "rejected"}
                /\ client[c] = "registering" => toClient[c] = <<>>
           /\ type # "REGISTER" => ~Asks(c)
           /\ \A d \in Clients : d # c => toServer'[d] = toServer[d]
           /\ UNCHANGED <<backlog, hungup, client, pinger, console>>
           /\ thread.at = "round" /\ sockets'[i] = {}
           /\ \A j \in Slots : sockets'[j] \subseteq sockets[j]
<1> DEFINE c == clients[i].fd  s == toServer[c]
<1>1. c \in Clients /\ s \in Seq(Types) /\ s # <<>> /\ Head(s) = type
  BY DEF Read, TypeOK
<1>2. toServer' = [toServer EXCEPT ![c] = Tail(s)]
  BY DEF Read
<1>3. Head(s) \in Types /\ Held(s) = Held(Tail(s)) \cup {Head(s)}
  BY <1>1, HeldBeforeHead
<1>4. ClientInTime(c)
  BY <1>1 DEF InTime
<1>5. toServer'[c] = Tail(s) /\ \A d \in Clients : d # c => toServer'[d] = toServer[d]
  BY <1>1, <1>2 DEF TypeOK
<1>6. client[c] \notin {"new", "connecting"}
  BY <1>1, <1>4 DEF ClientInTime
<1>7. ASSUME "REGISTER" \in Held(s)
      PROVE  /\ type = "REGISTER" /\ "REGISTER" \notin Held(Tail(s))
             /\ client[c] \in {"registering", "exited", "rejected"}
             /\ client[c] = "registering" => toClient[c] = <<>>
  <2>1. /\ s = <<"REGISTER">> /\ client[c] \in {"registering", "exited", "rejected"}
        /\ client[c] = "registering" => toClient[c] = <<>>
    BY <1>4, <1>7 DEF ClientInTime, Asks
  <2>2. type = "REGISTER" /\ "REGISTER" \notin Held(Tail(s))
    BY <1>1, <2>1, OneMessage
  <2> QED
    BY <2>1, <2>2
<1>8. "REGISTER" \notin Held(s) => type # "REGISTER" /\ "REGISTER" \notin Held(Tail(s))
  BY <1>1, <1>3
<1>9. /\ UNCHANGED <<backlog, hungup, client, pinger, console>>
      /\ thread.at = "round" /\ sockets' = [sockets EXCEPT ![i] = {}]
  BY DEF Read, NextMessage, NextOf
<1>10. sockets'[i] = {} /\ \A j \in Slots : sockets'[j] \subseteq sockets[j]
  BY <1>9 DEF TypeOK
<1>11. PICK d \in Clients : d = c
  BY <1>1
<1>12. (Asks(d) <=> "REGISTER" \in Held(s)) /\ (Asks(d)' <=> "REGISTER" \in Held(Tail(s)))
  BY <1>5, <1>11 DEF Asks
<1> HIDE DEF c, s
<1>13. /\ "REGISTER" \notin Held(Tail(s)) /\ (type = "REGISTER" <=> "REGISTER" \in Held(s))
       /\ type = "REGISTER" => /\ client[c] \in {"registering", "exited", "rejected"}
                               /\ client[c] = "registering" => toClient[c] = <<>>
  BY <1>7, <1>8
<1> QED
  BY <1>1, <1>3, <1>5, <1>6, <1>9, <1>10, <1>11, <1>12, <1>13 DEF c

LEMMA InTimeEnd ==
  ASSUME TypeOK, InTime, server = "up", NEW i \in Slots, ReadFails(i) \/ ReadEndOfFile(i)
  PROVE  InTime'
<1>1. /\ UNCHANGED <<clients, client, toServer, toClient, backlog, hungup, thread, pinger, console>>
      /\ thread.at = "round" /\ sockets' = [sockets EXCEPT ![i] = {}]
  BY DEF ReadFails, ReadEndOfFile, NextMessage, NextOf, table, network
<1>2. RegisteredSlots' /\ \A c \in Clients : ClientInTime(c)'
  BY <1>1, ListingKept
<1>3. ThreadInTime' /\ ChosenInTime'
  BY <1>1 DEF InTime, ThreadInTime, ChosenInTime
<1>4. SocketsInTime'
  BY <1>1 DEF InTime, SocketsInTime, TypeOK
<1> QED
  BY <1>2, <1>3, <1>4 DEF InTime

LEMMA InTimeRead ==
  ASSUME TypeOK, InTime, server = "up", NEW i \in Slots,
         CheckRegistration(i) \/ ReadStatus(i) \/ HandleResult(i)
  PROVE  InTime'
<1>1. PICK type : Read(i, type) /\ (CheckRegistration(i) => type = "REGISTER")
  BY DEF CheckRegistration, ReadStatus, HandleResult
<1>2. PICK c \in Clients :
        /\ clients[i].fd = c
        /\ client[c] \notin {"new", "connecting"} /\ ~Asks(c)'
        /\ type = "REGISTER" =>
             /\ client[c] \in {"registering", "exited", "rejected"}
             /\ client[c] = "registering" => toClient[c] = <<>>
        /\ \A d \in Clients : d # c => toServer'[d] = toServer[d]
        /\ UNCHANGED <<backlog, hungup, client, pinger, console>>
        /\ thread.at = "round" /\ sockets'[i] = {}
        /\ \A j \in Slots : sockets'[j] \subseteq sockets[j]
  BY <1>1, ReadStep
<1>3. UNCHANGED <<server, clients, toClient>>
  BY DEF CheckRegistration, ReadStatus, HandleResult
<1>4. \/ CheckRegistration(i) /\ thread'.at = "register" /\ thread'.id = i
      \/ thread'.at = "pong" /\ thread'.id = i /\ thread'.registered = clients[i].registered
      \/ UNCHANGED thread
  BY DEF CheckRegistration, ReadStatus, HandleResult, ThreadGoes
<1>5. RegisteredSlots'
  <2>1. \A d \in Clients : Answered(d) => Answered(d)'
    BY <1>2, <1>3 DEF Answered, Asks
  <2>2. ASSUME NEW j \in Slots, clients'[j].registered
        PROVE  \E d \in Clients : clients'[j].fd = d /\ clients'[j].name = Name[d] /\ Answered(d)'
    BY <1>3, <2>1, <2>2, RegisteredClient DEF InTime
  <2> QED
    BY <2>2, RegisteredAgain
<1>6. ThreadInTime'
  <2>1. CASE CheckRegistration(i) /\ thread'.at = "register" /\ thread'.id = i
    <3>1. ~clients[i].registered /\ type = "REGISTER"
      BY <1>1, <2>1 DEF CheckRegistration, RegistrationValid
    <3>2. Awaits(c)'
      BY <1>2, <1>3, <3>1 DEF Awaits, Asks
    <3>3. Current' = c
      BY <1>2, <1>3, <2>1 DEF Current
    <3>4. Awaits(Current)'
      BY <3>2, <3>3 DEF Awaits, Asks
    <3> QED
      BY <1>2, <1>3, <2>1, <3>1, <3>3, <3>4, ClientsAssumption DEF ThreadInTime
  <2>2. CASE /\ thread'.at = "pong" /\ thread'.id = i
             /\ thread'.registered = clients[i].registered
    BY <1>2, <1>3, <2>2 DEF ThreadInTime
  <2>3. CASE UNCHANGED thread
    BY <1>2, <2>3 DEF ThreadInTime
  <2> QED
    BY <1>4, <2>1, <2>2, <2>3
<1>7. SocketsInTime' /\ ChosenInTime'
  <2>1. thread'.at # "poll"
    BY <1>2, <1>4
  <2> QED
    BY <1>2, <1>3, <2>1 DEF InTime, SocketsInTime, ChosenInTime
<1>8. ASSUME NEW d \in Clients PROVE ClientInTime(d)'
  <2>1. ClientInTime(d) /\ (Listed(d)' <=> Listed(d)) /\ (Queued(d)' <=> Queued(d))
    BY <1>2, <1>3 DEF InTime, Listed, Queued
  <2>2. client'[d] = client[d] /\ toClient'[d] = toClient[d]
    BY <1>2, <1>3
  <2>3. CASE d = c
    BY <1>2, <2>1, <2>2, <2>3 DEF ClientInTime
  <2>4. CASE d # c
    <3>1. toServer'[d] = toServer[d] /\ (Asks(d)' <=> Asks(d))
      BY <1>2, <2>4 DEF Asks
    <3> QED
      BY <2>1, <2>2, <3>1 DEF ClientInTime
  <2> QED
    BY <2>3, <2>4
<1> QED
  BY <1>5, <1>6, <1>7, <1>8 DEF InTime

LEMMA InTimeReject ==
  ASSUME TypeOK, GoneInv, InTime, server = "up", NEW i \in Slots, RejectRegistration(i)
  PROVE  InTime'
<1>1. PICK c \in Clients :
        /\ clients[i].fd = c
        /\ Asks(c) /\ ~Asks(c)'
        /\ client[c] \in {"registering", "exited", "rejected"}
        /\ client[c] = "registering" => toClient[c] = <<>>
        /\ \A d \in Clients : d # c => toServer'[d] = toServer[d]
        /\ UNCHANGED <<backlog, hungup, client, pinger, console>>
        /\ thread.at = "round" /\ \A j \in Slots : sockets'[j] \subseteq sockets[j]
  <2>1. Read(i, "REGISTER")
    BY DEF RejectRegistration
  <2> QED
    BY <2>1, ReadStep
<1>2. Delivered(c, "REJECTED")
  BY <1>1, SendStep DEF RejectRegistration, Types
<1>3. /\ \A d \in Clients : d # c => toClient'[d] = toClient[d]
      /\ toClient'[c] = toClient[c] \/ toClient'[c] = Append(toClient[c], "REJECTED")
  BY <1>2 DEF Delivered
<1>4. UNCHANGED <<clients, thread>> /\ server = "up"
  BY DEF RejectRegistration
<1>5. RegisteredSlots'
  <2>1. \A d \in Clients : d # c /\ Answered(d) => Answered(d)'
    BY <1>1, <1>3, <1>4 DEF Answered, Asks
  <2>2. ~Answered(c)
    BY <1>1 DEF Answered
  <2>3. ASSUME NEW j \in Slots, clients'[j].registered
        PROVE  \E d \in Clients : clients'[j].fd = d /\ clients'[j].name = Name[d] /\ Answered(d)'
    BY <1>4, <2>1, <2>2, <2>3, RegisteredClient DEF InTime
  <2> QED
    BY <2>3, RegisteredAgain
<1>6. ThreadInTime' /\ SocketsInTime' /\ ChosenInTime'
  BY <1>1, <1>4 DEF InTime, ThreadInTime, SocketsInTime, ChosenInTime
<1>7. ASSUME NEW d \in Clients PROVE ClientInTime(d)'
  <2>1. ClientInTime(d) /\ (Listed(d)' <=> Listed(d)) /\ (Queued(d)' <=> Queued(d))
    BY <1>1, <1>4 DEF InTime, Listed, Queued
  <2>2. client'[d] = client[d]
    BY <1>1
  <2>3. CASE d = c
    <3>1. client[c] = "registering" => toClient'[c] \in {<<>>, <<"REJECTED">>}
      BY <1>1, <1>3, OneMessage
    <3>2. client[c] = "registering" /\ toClient'[c] # <<>> => Head(toClient'[c]) = "REJECTED"
      BY <3>1, OneMessage
    <3> QED
      BY <1>1, <2>1, <2>2, <2>3, <3>2 DEF ClientInTime
  <2>4. CASE d # c
    <3>1. /\ toServer'[d] = toServer[d] /\ (Asks(d)' <=> Asks(d))
          /\ toClient'[d] = toClient[d]
      BY <1>1, <1>3, <2>4 DEF Asks
    <3> QED
      BY <2>1, <2>2, <3>1 DEF ClientInTime
  <2> QED
    BY <2>3, <2>4
<1> QED
  BY <1>5, <1>6, <1>7 DEF InTime

LEMMA InTimeAnswer ==
  ASSUME TypeOK, TableInv, GoneInv, InTime, server = "up", AcceptRegistration
  PROVE  InTime'
<1>1. /\ thread.at = "register" /\ thread'.at = "round"
      /\ UNCHANGED <<sockets, pinger, console, backlog, toServer, open, hungup, client>>
  BY DEF AcceptRegistration, ThreadReturns, ThreadGoes
<1>2. PICK id \in Slots : id = thread.id
  BY DEF TypeOK
<1>3. PICK c \in Clients : c = clients[id].fd
  BY <1>1, <1>2 DEF InTime, ThreadInTime, Current, TypeOK
<1>4. Awaits(c)
  BY <1>1, <1>2, <1>3 DEF InTime, ThreadInTime, Current
<1>5. Becomes(id, c, Name[c], TRUE, clients[id].pinged)
  <2>1. Name[c] \in Names
    BY DEF Names
  <2>2. clients' = [clients EXCEPT ![id].name = Name[c], ![id].registered = TRUE]
    BY <1>2, <1>3, ClientsAssumption DEF AcceptRegistration
  <2> QED
    BY <1>3, <2>1, <2>2, SlotChange
<1>6. Send(c, "ACCEPTED")
  BY <1>2, <1>3 DEF AcceptRegistration
<1>7. /\ Delivered(c, "ACCEPTED") /\ (c \notin open => server' # "up")
      /\ \A d \in Clients : d # c => toClient'[d] = toClient[d]
      /\ server' = "up" => server = "up"
  BY <1>6, SendStep DEF Types, Delivered
<1>8. client[c] = "registering" =>
        /\ toClient'[c] \in {<<>>, <<"ACCEPTED">>}
        /\ server' = "up" => toClient'[c] = <<"ACCEPTED">>
  <2>1. client[c] = "registering" => toClient[c] = <<>> /\ c \notin hungup
    BY <1>4 DEF Awaits, GoneInv
  <2>2. \/ toClient'[c] = toClient[c] /\ (c \notin open \/ c \in hungup)
        \/ c \notin hungup /\ toClient'[c] = Append(toClient[c], "ACCEPTED")
    BY <1>7 DEF Delivered
  <2> QED
    BY <1>7, <2>1, <2>2, OneMessage
<1>9. Answered(c)'
  BY <1>1, <1>4, <1>8, OneMessage DEF Answered, Awaits, Asks
<1>10. /\ \A i \in Slots : clients'[i].fd = clients[i].fd
       /\ \A i \in Slots \ {id} : clients'[i] = clients[i]
       /\ \A i \in Slots : clients[i].registered => clients'[i].registered
       /\ clients'[id].name = Name[c] /\ clients'[id].registered
  BY <1>3, <1>5 DEF Becomes
<1>11. RegisteredSlots'
  <2>1. \A d \in Clients : d # c /\ Answered(d) => Answered(d)'
    BY <1>1, <1>7 DEF Answered, Asks
  <2>2. ASSUME NEW j \in Slots, clients'[j].registered
        PROVE  \E d \in Clients : clients'[j].fd = d /\ clients'[j].name = Name[d] /\ Answered(d)'
    <3>1. CASE j = id
      BY <1>3, <1>9, <1>10, <3>1
    <3>2. CASE j # id
      <4>1. clients'[j] = clients[j] /\ clients[j].registered
        BY <1>10, <2>2, <3>2
      <4>2. clients[j].fd # c
        BY <1>3, <3>2, ClientsAssumption DEF TableInv, TableConsistent
      <4> QED
        BY <2>1, <4>1, <4>2, RegisteredClient DEF InTime
    <3> QED
      BY <3>1, <3>2
  <2> QED
    BY <2>2, RegisteredAgain
<1>12. ThreadInTime' /\ SocketsInTime' /\ ChosenInTime'
  <2>1. ThreadInTime'
    BY <1>1 DEF ThreadInTime
  <2>2. SocketsInTime'
    BY <1>1, <1>10 DEF InTime, SocketsInTime
  <2>3. ChosenInTime'
    BY <1>1, <1>10 DEF InTime, ChosenInTime, TypeOK
  <2> QED
    BY <2>1, <2>2, <2>3
<1>13. ASSUME NEW d \in Clients PROVE ClientInTime(d)'
  <2>1. ClientInTime(d) /\ (Queued(d)' <=> Queued(d)) /\ (Asks(d)' <=> Asks(d))
    BY <1>1 DEF InTime, Queued, Asks
  <2>2. client'[d] = client[d] /\ toServer'[d] = toServer[d] /\ (Listed(d) => Listed(d)')
    BY <1>1, <1>10 DEF Listed
  <2>3. CASE d = c
    <3>1. Listed(c)'
      BY <1>3, <1>10 DEF Listed
    <3>2. client[c] \in {"registering", "exited", "rejected"} /\ ~Asks(c)
      BY <1>4 DEF Awaits
    <3>3. client[c] = "registering" /\ toClient'[c] # <<>> => Head(toClient'[c]) = "ACCEPTED"
      BY <1>8, OneMessage
    <3>4. ~Queued(c)
      BY <1>2, <1>3 DEF TableInv, QueueInv, Queued, Seated, Kind
    <3> QED
      BY <2>1, <2>2, <2>3, <3>1, <3>2, <3>3, <3>4 DEF ClientInTime
  <2>4. CASE d # c
    BY <1>7, <2>1, <2>2, <2>4 DEF ClientInTime
  <2> QED
    BY <2>3, <2>4
<1> QED
  BY <1>11, <1>12, <1>13 DEF InTime

LEMMA InTimeWrite ==
  ASSUME TypeOK, InTime, server = "up", WriteStatus
  PROVE  InTime'
<1>1. /\ thread.at = "pong" /\ thread'.at = "round" /\ UNCHANGED sockets
      /\ UNCHANGED <<server, client, toServer, toClient, backlog, hungup, pinger, console>>
  BY DEF WriteStatus, ThreadReturns, ThreadGoes, network
<1>2. Becomes(thread.id, clients[thread.id].fd, clients[thread.id].name,
              clients[thread.id].registered, FALSE)
  <2>1. thread.id \in Slots /\ thread.registered \in BOOLEAN
    BY DEF TypeOK
  <2>2. Becomes(thread.id, clients[thread.id].fd, clients[thread.id].name, thread.registered, FALSE)
    BY <2>1, SlotChange DEF WriteStatus
  <2>3. clients[thread.id].registered = thread.registered
    BY <1>1 DEF InTime, ThreadInTime
  <2> QED
    BY <2>2, <2>3
<1>3. \A i \in Slots : /\ clients'[i].fd = clients[i].fd /\ clients'[i].name = clients[i].name
                       /\ clients'[i].registered = clients[i].registered
  BY <1>2 DEF Becomes
<1>4. RegisteredSlots' /\ \A c \in Clients : ClientInTime(c)'
  BY <1>1, <1>3, ListingKept
<1>5. ThreadInTime' /\ SocketsInTime'
  BY <1>1, <1>3 DEF InTime, ThreadInTime, SocketsInTime
<1>6. ChosenInTime'
  BY <1>1, <1>3 DEF InTime, ChosenInTime, TypeOK
<1> QED
  BY <1>4, <1>5, <1>6 DEF InTime

\* A ping or a task is sent to a client that is registered, or to nobody.
LEMMA SendKept ==
  ASSUME TypeOK, InTime, server = "up",
         NEW i \in Slots, clients[i].fd = NoFd \/ clients[i].registered,
         NEW type \in Types, Send(clients[i].fd, type),
         UNCHANGED <<clients, client, toServer, backlog, hungup, thread, sockets>>
  PROVE  /\ RegisteredSlots' /\ ThreadInTime' /\ SocketsInTime'
         /\ \A c \in Clients : ClientInTime(c)'
<1>1. Delivered(clients[i].fd, type)
  BY SendStep
<1>2. ASSUME NEW c \in Clients
      PROVE  \/ toClient'[c] = toClient[c]
             \/ Answered(c) /\ toClient'[c] = Append(toClient[c], type)
  <2>1. c = clients[i].fd => Answered(c)
    BY ClientsAssumption DEF InTime, RegisteredSlots
  <2> QED
    BY <1>1, <2>1 DEF Delivered
<1>3. ASSUME NEW c \in Clients
      PROVE  \/ toClient'[c] = toClient[c]
             \/ /\ client[c] \notin {"new", "connecting"} /\ ~Asks(c) /\ toClient'[c] # <<>>
                /\ client[c] = "registering" =>
                     /\ toClient[c] # <<>>
                     /\ Head(toClient[c]) = "ACCEPTED" /\ Head(toClient'[c]) = "ACCEPTED"
  <2>1. toClient[c] \in Seq(Types)
    BY DEF TypeOK
  <2>2. CASE Answered(c) /\ toClient'[c] = Append(toClient[c], type)
    <3>1. toClient'[c] # <<>>
      BY <2>1, <2>2, AppendProperties, EmptySeq
    <3>2. toClient[c] # <<>> => Head(toClient'[c]) = Head(toClient[c])
      BY <2>1, <2>2, HeadKept
    <3> QED
      BY <2>2, <3>1, <3>2 DEF Answered
  <2> QED
    BY <1>2, <2>2
<1>4. \A c \in Clients : Asks(c)' = Asks(c) /\ Queued(c)' = Queued(c) /\ Listed(c)' = Listed(c)
  BY DEF Asks, Queued, Listed
<1>5. RegisteredSlots'
  <2>1. ASSUME NEW c \in Clients, Answered(c) PROVE Answered(c)'
    BY <1>3, <1>4, <2>1 DEF Answered
  <2>2. ASSUME NEW j \in Slots, clients'[j].registered
        PROVE  \E d \in Clients : clients'[j].fd = d /\ clients'[j].name = Name[d] /\ Answered(d)'
    BY <2>1, <2>2, RegisteredClient DEF InTime
  <2> QED
    BY <2>2, RegisteredAgain
<1>6. ThreadInTime'
  <2>1. ASSUME NEW c \in Clients, Awaits(c) PROVE Awaits(c)'
    BY <1>3, <1>4, <2>1 DEF Awaits
  <2>2. thread.at = "register" => \E c \in Clients : c = Current /\ Awaits(c)
    BY DEF InTime, ThreadInTime, Current, TypeOK
  <2>3. thread'.at = "register" => Awaits(Current)'
    BY <2>1, <2>2 DEF Current, Awaits, Asks
  <2> QED
    BY <2>3 DEF InTime, ThreadInTime, Current
<1>7. SocketsInTime'
  BY DEF InTime, SocketsInTime
<1>8. ASSUME NEW c \in Clients PROVE ClientInTime(c)'
  BY <1>3, <1>4 DEF InTime, ClientInTime
<1> QED
  BY <1>5, <1>6, <1>7, <1>8

\* The slot of a client that was dropped or has never come is cleared, or none is.
LEMMA SlotsKept ==
  ASSUME TypeOK, GoneInv, InTime,
         UNCHANGED <<server, client, toServer, toClient, backlog, hungup, thread, sockets>>,
         \A i \in Slots :
           \/ /\ clients'[i].fd = clients[i].fd /\ clients'[i].name = clients[i].name
              /\ clients'[i].registered = clients[i].registered
           \/ /\ clients'[i].fd = NoFd /\ ~clients'[i].registered
              /\ clients[i].fd \in Clients /\ client[clients[i].fd] = "frozen"
              /\ ~(thread.at = "pong" /\ thread.id = i)
  PROVE  /\ RegisteredSlots' /\ ThreadInTime' /\ SocketsInTime'
         /\ \A c \in Clients : ClientInTime(c)'
<1>1. RegisteredSlots' /\ \A c \in Clients : ClientInTime(c)'
  BY ListingKept
<1>2. ThreadInTime'
  <2>1. \A c \in Clients : Awaits(c) => Awaits(c)' /\ client[c] # "frozen"
    BY DEF Awaits, Asks
  <2>2. thread.at = "register" =>
          \E c \in Clients : c = Current /\ Awaits(c) /\ ~clients[thread.id].registered
    BY DEF InTime, ThreadInTime, Current, TypeOK
  <2>3. thread.id \in Slots
    BY DEF TypeOK
  <2>4. thread.at = "register" =>
          /\ clients'[thread.id].fd = clients[thread.id].fd /\ ~clients'[thread.id].registered
    BY <2>1, <2>2, <2>3 DEF Current
  <2>5. thread'.at = "register" =>
          Current' # NoFd /\ ~clients'[thread'.id].registered /\ Awaits(Current)'
    BY <2>1, <2>2, <2>4, ClientsAssumption DEF Current, Awaits, Asks
  <2>6. thread'.at = "pong" => clients'[thread'.id].registered = thread'.registered
    BY <2>3 DEF InTime, ThreadInTime
  <2>7. thread'.at = "disconnect" => Current' \in hungup' \cup {NoFd}
    BY <2>3 DEF InTime, ThreadInTime, Current
  <2> QED
    BY <2>5, <2>6, <2>7 DEF InTime, ThreadInTime
<1>3. SocketsInTime'
  <2>1. \A c \in hungup : client[c] # "frozen"
    BY DEF GoneInv
  <2> QED
    BY <2>1 DEF InTime, SocketsInTime
<1> QED
  BY <1>1, <1>2, <1>3

LEMMA InTimeOthers ==
  ASSUME TypeOK, TableInv, PingInv, GoneInv, InTime, DropInTime, server = "up",
         Pinger \/ Console
  PROVE  InTime'
<1>1. CASE ChooseToPing
  <2> DEFINE id == get_next_client
  <2>1. id \in Slots /\ clients[id].registered
    BY <1>1, NextClient DEF ChooseToPing, TypeOK
  <2>2. Becomes(id, clients[id].fd, clients[id].name, clients[id].registered, TRUE)
    BY <1>1, <2>1, SlotChange DEF ChooseToPing
  <2>3. /\ UNCHANGED <<server, client, toServer, toClient, backlog, hungup, thread, sockets>>
        /\ mutex_data = "free" /\ pinger' = [at |-> "ping", id |-> id] /\ UNCHANGED console
    BY <1>1 DEF ChooseToPing, network
  <2> HIDE DEF id
  <2>4. /\ RegisteredSlots' /\ ThreadInTime' /\ SocketsInTime'
        /\ \A c \in Clients : ClientInTime(c)'
    BY <2>2, <2>3, SlotsKept DEF Becomes
  <2>5. ChosenInTime'
    BY <2>1, <2>2, <2>3 DEF ChosenInTime, PingInv, Becomes
  <2> QED
    BY <2>4, <2>5 DEF InTime
<1>2. CASE SendPing
  <2>1. /\ pinger.at = "ping" /\ pinger'.at = "timeout" /\ mutex_data # "console"
        /\ Send(clients[pinger.id].fd, "PING") /\ pinger.id \in Slots
        /\ UNCHANGED <<clients, client, toServer, backlog, hungup, thread, sockets, console>>
    BY <1>2 DEF SendPing, table, PingInv, TypeOK
  <2>2. clients[pinger.id].fd = NoFd \/ clients[pinger.id].registered
    BY <2>1 DEF InTime, ChosenInTime
  <2>3. /\ RegisteredSlots' /\ ThreadInTime' /\ SocketsInTime'
        /\ \A c \in Clients : ClientInTime(c)'
    BY <2>1, <2>2, SendKept DEF Types
  <2>4. ChosenInTime'
    BY <2>1 DEF ChosenInTime, PingInv
  <2> QED
    BY <2>3, <2>4 DEF InTime
<1>3. CASE Timeout
  <2>1. /\ UNCHANGED <<server, clients, client, toServer, toClient, backlog, hungup, thread,
                       sockets, console>>
        /\ mutex_data = "free" /\ pinger'.at # "ping"
    BY <1>3 DEF Timeout, table, network, TypeOK
  <2>2. /\ RegisteredSlots' /\ ThreadInTime' /\ SocketsInTime'
        /\ \A c \in Clients : ClientInTime(c)'
    BY <2>1, SlotsKept
  <2>3. ChosenInTime'
    BY <2>1 DEF ChosenInTime, PingInv
  <2> QED
    BY <2>2, <2>3 DEF InTime
<1>6. CASE Drop
  <2>1. /\ UNCHANGED <<server, client, toServer, toClient, backlog, hungup, thread, sockets>>
        /\ pinger.at = "drop" /\ mutex_data = "pinger" /\ pinger'.at = "interval" /\ UNCHANGED console
        /\ pinger.id \in Slots
    BY <1>6 DEF Drop, network, TypeOK, PingInv
  <2>2. Becomes(pinger.id, NoFd, EmptyName, FALSE, FALSE)
    BY <1>6, <2>1, SlotChange DEF Drop
  <2>3. ASSUME NEW i \in Slots
        PROVE  \/ /\ clients'[i].fd = clients[i].fd /\ clients'[i].name = clients[i].name
                  /\ clients'[i].registered = clients[i].registered
               \/ /\ clients'[i].fd = NoFd /\ ~clients'[i].registered
                  /\ clients[i].fd \in Clients /\ client[clients[i].fd] = "frozen"
                  /\ ~(thread.at = "pong" /\ thread.id = i)
    <3>1. CASE clients'[i] = clients[i]
      BY <3>1
    <3>2. CASE i = pinger.id /\ clients[i].fd = NoFd /\ Becomes(i, NoFd, EmptyName, FALSE, FALSE)
      <4>1. clients[i].name = EmptyName /\ clients[i].registered = FALSE
        BY <3>2 DEF TableInv, NameInv, InTime, RegisteredSlots, TypeOK
      <4> QED
        BY <3>2, <4>1 DEF Becomes
    <3>3. CASE /\ i = pinger.id /\ clients[i].fd # NoFd
               /\ Becomes(i, NoFd, EmptyName, FALSE, FALSE)
      BY <2>1, <3>3 DEF DropInTime, Becomes, TypeOK
    <3> QED
      BY <2>2, <3>1, <3>2, <3>3 DEF Becomes
  <2>4. /\ RegisteredSlots' /\ ThreadInTime' /\ SocketsInTime'
        /\ \A c \in Clients : ClientInTime(c)'
    BY <2>1, <2>3, SlotsKept
  <2>5. ChosenInTime'
    BY <2>1 DEF ChosenInTime, PingInv
  <2> QED
    BY <2>4, <2>5 DEF InTime
<1>4. CASE ChooseForTask
  <2>1. get_next_client \in Slots /\ clients[get_next_client].registered
    BY <1>4, NextClient DEF ChooseForTask, TypeOK
  <2>2. /\ UNCHANGED <<server, clients, client, toServer, toClient, backlog, hungup, thread,
                       sockets, pinger>>
        /\ mutex_data = "free" /\ console' = [at |-> "send", id |-> get_next_client]
    BY <1>4 DEF ChooseForTask, network
  <2>3. /\ RegisteredSlots' /\ ThreadInTime' /\ SocketsInTime'
        /\ \A c \in Clients : ClientInTime(c)'
    BY <2>2, SlotsKept
  <2>4. ChosenInTime'
    BY <2>1, <2>2 DEF ChosenInTime, PingInv
  <2> QED
    BY <2>3, <2>4 DEF InTime
<1>5. CASE SendTask
  <2>1. /\ console.at = "send" /\ console'.at = "prompt" /\ mutex_data # "pinger"
        /\ Send(clients[console.id].fd, "TASK") /\ console.id \in Slots
        /\ UNCHANGED <<clients, client, toServer, backlog, hungup, thread, sockets, pinger>>
    BY <1>5 DEF SendTask, table, PingInv, TypeOK
  <2>2. clients[console.id].fd = NoFd \/ clients[console.id].registered
    BY <2>1 DEF InTime, ChosenInTime
  <2>3. /\ RegisteredSlots' /\ ThreadInTime' /\ SocketsInTime'
        /\ \A c \in Clients : ClientInTime(c)'
    BY <2>1, <2>2, SendKept DEF Types
  <2>4. ChosenInTime'
    BY <2>1 DEF ChosenInTime, PingInv
  <2> QED
    BY <2>3, <2>4 DEF InTime
<1> QED
  BY <1>1, <1>2, <1>3, <1>4, <1>5, <1>6 DEF Pinger, Console

\* What a step of one client has to keep.
LEMMA ClientKept ==
  ASSUME TypeOK, InTime, server = "up", NEW c \in Clients,
         UNCHANGED <<server, clients, thread, sockets, pinger, console>>,
         hungup \subseteq hungup', client[c] # "frozen",
         \A d \in Clients : d # c =>
           /\ client'[d] = client[d] /\ toServer'[d] = toServer[d] /\ toClient'[d] = toClient[d]
           /\ Queued(d)' <=> Queued(d),
         Listed(c) => Answered(c)',
         thread.at = "register" /\ Current = c => Awaits(c)',
         ClientInTime(c)'
  PROVE  InTime'
<1>1. RegisteredSlots'
  <2>1. ASSUME NEW d \in Clients, Answered(d), Listed(d) PROVE Answered(d)'
    <3>1. CASE d = c
      BY <2>1, <3>1
    <3>2. CASE d # c
      BY <2>1, <3>2 DEF Answered, Asks
    <3> QED
      BY <3>1, <3>2
  <2>2. ASSUME NEW j \in Slots, clients'[j].registered
        PROVE  \E d \in Clients : clients'[j].fd = d /\ clients'[j].name = Name[d] /\ Answered(d)'
    <3>1. clients[j].registered
      BY <2>2
    <3>2. PICK d \in Clients : clients[j].fd = d /\ clients[j].name = Name[d] /\ Answered(d)
      BY <3>1, RegisteredClient DEF InTime
    <3>3. Listed(d)
      BY <3>1, <3>2 DEF Listed
    <3> QED
      BY <2>1, <3>2, <3>3
  <2> QED
    BY <2>2, RegisteredAgain
<1>2. ThreadInTime'
  <2>1. ASSUME NEW d \in Clients, Awaits(d), thread.at = "register", Current = d
        PROVE  Awaits(d)'
    <3>1. CASE d = c
      BY <2>1, <3>1
    <3>2. CASE d # c
      BY <2>1, <3>2 DEF Awaits, Asks
    <3> QED
      BY <3>1, <3>2
  <2>2. thread.at = "register" => \E d \in Clients : d = Current /\ Awaits(d)
    BY DEF InTime, ThreadInTime, Current, TypeOK
  <2>3. thread'.at = "register" => Awaits(Current)'
    BY <2>1, <2>2 DEF Current, Awaits, Asks
  <2> QED
    BY <2>3 DEF InTime, ThreadInTime, Current
<1>3. SocketsInTime'
  BY DEF InTime, SocketsInTime
<1>4. ChosenInTime'
  BY DEF InTime, ChosenInTime
<1>5. ASSUME NEW d \in Clients PROVE ClientInTime(d)'
  <2>1. CASE d = c
    BY <2>1
  <2>2. CASE d # c
    <3>1. ClientInTime(d) /\ (Listed(d)' <=> Listed(d)) /\ (Asks(d)' <=> Asks(d))
      BY <2>2 DEF InTime, Listed, Asks
    <3> QED
      BY <2>2, <3>1 DEF ClientInTime
  <2> QED
    BY <2>1, <2>2
<1> QED
  BY <1>1, <1>2, <1>3, <1>4, <1>5 DEF InTime

LEMMA InTimeClients ==
  ASSUME TypeOK, TableInv, GoneInv, InTime, server = "up", NEW c \in Clients,
         Client(c) \/ Exit(c) \/ Freeze(c)
  PROVE  InTime'
<1> DEFINE Steady == UNCHANGED <<server, clients, thread, sockets, pinger, console>>
           Others ==
             \A d \in Clients : d # c =>
               /\ client'[d] = client[d] /\ toServer'[d] = toServer[d]
               /\ toClient'[d] = toClient[d] /\ (Queued(d)' <=> Queued(d))
<1>1. ClientInTime(c) /\ (Listed(c) => Answered(c))
  BY ClientsAssumption DEF InTime, Listed, RegisteredSlots
<1>2. thread.at = "register" /\ Current = c => Awaits(c) /\ Seated(c)
  BY DEF InTime, ThreadInTime, TypeOK, Seated, Current
<1>3. ASSUME NEW from, NEW to, ClientGoes(c, from, to)
      PROVE  /\ Steady /\ client[c] = from /\ client'[c] = to
             /\ \A d \in Clients : d # c => client'[d] = client[d]
             /\ Listed(c)' <=> Listed(c)
  BY <1>3 DEF ClientGoes, table, threads, TypeOK, Listed
<1>4. ASSUME NEW type, Received(c, type)
      PROVE  /\ toClient[c] # <<>> /\ Head(toClient[c]) = type /\ toClient'[c] = Tail(toClient[c])
             /\ \A d \in Clients : d # c => toClient'[d] = toClient[d]
  BY <1>4 DEF Received, TypeOK
<1>5. ASSUME NEW type \in Types, Reply(c, type)
      PROVE  /\ toServer'[c] = Append(toServer[c], type)
             /\ \A d \in Clients : d # c => toServer'[d] = toServer[d]
             /\ type # "REGISTER" => (Asks(c)' <=> Asks(c))
             /\ UNCHANGED <<backlog, hungup>>
  <2>1. toServer[c] \in Seq(Types) /\ toServer' = [toServer EXCEPT ![c] = Append(toServer[c], type)]
    BY <1>5 DEF Reply, TypeOK
  <2>2. /\ toServer'[c] = Append(toServer[c], type)
        /\ \A d \in Clients : d # c => toServer'[d] = toServer[d]
    BY <2>1 DEF TypeOK
  <2>3. Held(Append(toServer[c], type)) = Held(toServer[c]) \cup {type}
    BY <2>1, HeldAfterAppend
  <2> QED
    BY <1>5, <2>2, <2>3 DEF Reply, Asks
<1>6. CASE Connect(c)
  <2>1. /\ client[c] = "new" /\ ~Seated(c) /\ client' = [client EXCEPT ![c] = "connecting"]
        /\ \A d \in Clients : Queued(d)' <=> Queued(d) \/ d = c
    BY <1>6, ConnectStep DEF TableInv
  <2>2. Steady /\ Others
    BY <1>3, <1>6, <2>1 DEF Connect
  <2>3. UNCHANGED <<toServer, toClient, hungup>> /\ ~Listed(c) /\ client'[c] = "connecting"
    BY <1>6, <2>1 DEF Connect, Listed, Seated, TypeOK
  <2>4. toServer[c] = <<>> /\ toClient[c] = <<>>
    BY <1>1, <2>1 DEF ClientInTime
  <2>5. ~Asks(c)'
    BY <2>3, <2>4, OneMessage DEF Asks
  <2>6. ClientInTime(c)'
    BY <2>3, <2>4, <2>5 DEF ClientInTime
  <2> QED
    BY <1>2, <2>1, <2>2, <2>3, <2>6, ClientKept
<1>7. CASE Register(c)
  <2>1. /\ Steady /\ client[c] = "connecting" /\ client'[c] = "registering"
        /\ toClient[c] # <<>> /\ Head(toClient[c]) = "ACCEPTED" /\ toClient'[c] = Tail(toClient[c])
        /\ toServer'[c] = Append(toServer[c], "REGISTER") /\ UNCHANGED <<backlog, hungup>>
        /\ \A d \in Clients : d # c => toServer'[d] = toServer[d]
    BY <1>3, <1>4, <1>5, <1>7 DEF Register, Types
  <2>2. Others
    BY <1>3, <1>4, <1>7, <2>1 DEF Register, Queued
  <2>3. ~Queued(c) /\ ~Listed(c) /\ ~Awaits(c)
    BY <1>1, <2>1 DEF ClientInTime, Answered, Awaits
  <2>4. toClient'[c] = <<>> /\ toServer'[c] = <<"REGISTER">>
    BY <1>1, <2>1, OneMessage DEF ClientInTime
  <2>5. ClientInTime(c)'
    BY <2>1, <2>3, <2>4 DEF ClientInTime, Queued
  <2> QED
    BY <1>2, <2>1, <2>2, <2>3, <2>5, ClientKept
<1>8. ASSUME client[c] = "registered" \/ BeginWork(c)
      PROVE  /\ Listed(c) /\ ~Asks(c) /\ ~Queued(c)
             /\ ~(thread.at = "register" /\ Current = c)
  <2>1. client[c] = "registered" \/ (client[c] = "registering" /\ Listed(c) /\ toClient[c] # <<>>)
    BY <1>1, <1>3, <1>4, <1>8 DEF BeginWork, ClientInTime
  <2> QED
    BY <1>1, <1>2, <2>1 DEF ClientInTime, Answered, Awaits
<1>9. CASE BeginWork(c)
  <2>1. /\ Steady /\ client[c] = "registering" /\ client'[c] = "registered"
        /\ UNCHANGED <<backlog, hungup, toServer>> /\ (Listed(c)' <=> Listed(c))
    BY <1>3, <1>9 DEF BeginWork
  <2>2. Others
    BY <1>3, <1>4, <1>9, <2>1 DEF BeginWork, Queued
  <2>3. ClientInTime(c)' /\ Answered(c)'
    BY <1>8, <1>9, <2>1 DEF ClientInTime, Answered, Queued, Asks
  <2> QED
    BY <1>8, <1>9, <2>1, <2>2, <2>3, ClientKept
<1>10. CASE AnswerPing(c) \/ PerformTask(c)
  <2>1. /\ Steady /\ client[c] = "registered" /\ client'[c] = "registered"
        /\ UNCHANGED <<backlog, hungup>> /\ (Asks(c)' <=> Asks(c)) /\ (Listed(c)' <=> Listed(c))
    BY <1>3, <1>5, <1>10 DEF AnswerPing, PerformTask, Types
  <2>2. Others
    BY <1>3, <1>4, <1>5, <1>10, <2>1 DEF AnswerPing, PerformTask, Queued, Types
  <2>3. ClientInTime(c)' /\ Answered(c)'
    BY <1>8, <2>1 DEF ClientInTime, Answered, Queued
  <2> QED
    BY <1>8, <2>1, <2>2, <2>3, ClientKept
<1>11. CASE Rejected(c) \/ Exit(c)
  <2>1. PICK from \in {"connecting", "registering", "registered"}, to \in {"rejected", "exited"} :
          ClientGoes(c, from, to)
    BY <1>11 DEF Rejected, Exit
  <2>2. HangUp(c) /\ \A d \in Clients : d # c => toClient'[d] = toClient[d]
    BY <1>4, <1>11 DEF Rejected, Exit
  <2>3. /\ UNCHANGED <<backlog, toServer>> /\ hungup \subseteq hungup'
        /\ Asks(c)' = Asks(c) /\ Queued(c)' = Queued(c)
    BY <2>2 DEF HangUp, Asks, Queued
  <2>4. Others /\ Steady /\ client[c] # "frozen" /\ client'[c] = to
    BY <1>3, <2>1, <2>2, <2>3 DEF Queued
  <2>5. ClientInTime(c)' /\ (Answered(c) => Answered(c)') /\ (Awaits(c) => Awaits(c)')
    BY <1>1, <2>1, <2>3, <2>4 DEF ClientInTime, Answered, Awaits
  <2> QED
    BY <1>1, <1>2, <2>3, <2>4, <2>5, ClientKept
<1>12. CASE Freeze(c)
  <2>1. /\ Steady /\ client[c] = "registered" /\ client'[c] = "frozen"
        /\ UNCHANGED <<backlog, hungup, toServer, toClient>> /\ (Listed(c)' <=> Listed(c))
    BY <1>3, <1>12 DEF Freeze, network
  <2>2. Others
    BY <1>3, <1>12, <2>1 DEF Freeze, Queued
  <2>3. ClientInTime(c)' /\ Answered(c)'
    BY <1>8, <2>1 DEF ClientInTime, Answered, Queued, Asks
  <2> QED
    BY <1>8, <2>1, <2>2, <2>3, ClientKept
<1> QED
  BY <1>6, <1>7, <1>9, <1>10, <1>11, <1>12 DEF Client

-----------------------------------------------------------------------------
(* The theorems.                                                           *)

LEMMA InitialState == Init => IInv
<1> SUFFICES ASSUME Init PROVE IInv
  OBVIOUS
<1>1. TypeOK
  BY TypeInit
<1>2. \A i \in Slots : /\ clients[i].fd = NoFd /\ clients[i].name = EmptyName
                       /\ ~clients[i].registered /\ ~clients[i].pinged
  BY DEF Init, FreeSlot
<1>3. \A c \in Clients : ~Seated(c)
  BY <1>2, ClientsAssumption DEF Seated
<1>4. \A k \in {"net", "local"} : Held(backlog[k]) = {} /\ NoRepeats(backlog[k])
  BY DEF Init, Held, NoRepeats
<1>5. TableInv
  BY <1>2, <1>3, <1>4 DEF Init, TableInv, TableConsistent, QueueInv, NameInv
<1>6. PingInv
  BY <1>2 DEF Init, PingInv
<1>7. GoneInv
  BY DEF Init, GoneInv
<1>8. ASSUME NEW c \in Clients PROVE ClientInTime(c)
  <2>1. client[c] = "new" /\ toServer[c] = <<>> /\ toClient[c] = <<>>
    BY DEF Init
  <2>2. ~Asks(c) /\ ~Queued(c)
    BY <1>4, <2>1, OneMessage DEF Asks, Queued, Kind
  <2> QED
    BY <2>1, <2>2 DEF ClientInTime
<1>9. InTime
  BY <1>2, <1>8 DEF Init, InTime, RegisteredSlots, ThreadInTime, SocketsInTime, ChosenInTime
<1>10. DropInTime
  BY DEF Init, DropInTime
<1> QED
  BY <1>1, <1>5, <1>6, <1>7, <1>9, <1>10 DEF IInv, TimelyInv

\* Only messages of the client, which has none left, and the mutex, which the pinger
\* holds, could change what is known of the client that is being dropped.
LEMMA DropKept ==
  ASSUME TypeOK, PingInv, DropInTime, timely, server = "up",
         \/ ServerThread \/ Pinger \/ Console
         \/ \E c \in Clients : Client(c) \/ Exit(c) \/ Freeze(c)
  PROVE  DropInTime'
<1> DEFINE id == pinger.id
           fd == clients[id].fd
<1>1. id \in Slots /\ fd \in Clients \cup {NoFd}
  BY DEF TypeOK
<1>2. ASSUME pinger' = pinger, client' = client,
             pinger.at = "drop" =>
               /\ clients'[id].fd \in {fd, NoFd}
               /\ fd # NoFd /\ toServer[fd] = <<>> => toServer'[fd] = <<>>
               /\ thread'.at = "pong" /\ thread'.id = id => thread = thread' \/ fd = NoFd
      PROVE  DropInTime'
  BY <1>1, <1>2 DEF DropInTime
<1>3. CASE ServerThread
  <2>1. CASE CopySockets \/ Poll
    BY <1>2, <2>1 DEF CopySockets, Poll, ThreadReturns, ThreadGoes, table, network
  <2>2. CASE ClearSlot
    <3>1. thread.id \in Slots /\ Becomes(thread.id, NoFd, EmptyName, FALSE, FALSE)
      BY <2>2, SlotChange DEF ClearSlot, TypeOK
    <3> QED
      BY <1>1, <1>2, <2>2, <3>1 DEF ClearSlot, ThreadReturns, ThreadGoes, Becomes, network
  <2>3. CASE AcceptRegistration
    BY <1>2, <2>3 DEF AcceptRegistration, ThreadReturns, ThreadGoes, PingInv
  <2>4. CASE WriteStatus
    <3>1. thread.id \in Slots /\ thread.registered \in BOOLEAN
      BY DEF TypeOK
    <3>2. Becomes(thread.id, clients[thread.id].fd, clients[thread.id].name, thread.registered, FALSE)
      BY <2>4, <3>1, SlotChange DEF WriteStatus
    <3> QED
      BY <1>1, <1>2, <2>4, <3>1, <3>2 DEF WriteStatus, ThreadReturns, ThreadGoes, Becomes, network
  <2>5. ASSUME NEW k \in {"net", "local"}, Accept(k) PROVE DropInTime'
    BY <1>2, <2>5 DEF Accept, PingInv
  <2>6. ASSUME NEW i \in Slots, CloseSocket(i) \/ ReadFails(i) \/ ReadEndOfFile(i)
        PROVE  DropInTime'
    BY <1>2, <2>6 DEF CloseSocket, ReadFails, ReadEndOfFile, NextMessage, NextOf, ThreadGoes,
                      table, network
  <2>7. ASSUME NEW i \in Slots,
               \/ RejectRegistration(i) \/ CheckRegistration(i) \/ ReadStatus(i) \/ HandleResult(i)
        PROVE  DropInTime'
    <3> DEFINE c == clients[i].fd
    <3>1. PICK type : Read(i, type)
      BY <2>7 DEF RejectRegistration, CheckRegistration, ReadStatus, HandleResult
    <3>2. /\ toServer[c] # <<>> /\ c \in Clients
          /\ toServer' = [toServer EXCEPT ![c] = Tail(@)] /\ toServer \in [Clients -> Seq(Types)]
          /\ pinger' = pinger /\ client' = client
      BY <3>1 DEF Read, NextMessage, NextOf, TypeOK
    <3>3. clients' = clients /\ (thread' = thread \/ thread'.id = i)
      BY <2>7 DEF RejectRegistration, CheckRegistration, ReadStatus, HandleResult, ThreadGoes
    <3>4. fd \in Clients /\ toServer[fd] = <<>> => toServer'[fd] = <<>>
      BY <3>2
    <3>5. CASE pinger.at = "drop" /\ fd # NoFd
      <4>1. toServer[fd] = <<>>
        BY <3>5 DEF DropInTime
      <4>2. i # id
        BY <3>2, <4>1
      <4> QED
        BY <1>1, <1>2, <3>2, <3>3, <3>4, <4>2
    <3>6. CASE ~(pinger.at = "drop" /\ fd # NoFd)
      BY <1>1, <1>2, <3>2, <3>3, <3>6
    <3> QED
      BY <3>5, <3>6
  <2> QED
    BY <1>3, <2>1, <2>2, <2>3, <2>4, <2>5, <2>6, <2>7 DEF ServerThread
<1>4. CASE Pinger
  <2>1. CASE Timeout
    <3>1. pinger'.at = "drop" => pinger'.id = id /\ clients[id].pinged
      BY <2>1 DEF Timeout, TypeOK
    <3>2. UNCHANGED <<clients, client, toServer, thread>> /\ TimeoutInTime
      BY <2>1 DEF Timeout, table, network
    <3> QED
      BY <3>1, <3>2 DEF DropInTime, TimeoutInTime
  <2>2. CASE ChooseToPing \/ SendPing \/ Drop
    <3>1. pinger'.at # "drop"
      <4>1. \/ \E i : pinger' \in {[at |-> "ping", id |-> i], [at |-> "interval", id |-> i]}
            \/ pinger' = [pinger EXCEPT !.at = "timeout"]
        BY <2>2 DEF ChooseToPing, SendPing, Drop
      <4>2. pinger \in [at : {"interval", "ping", "timeout", "drop"}, id : Slots]
        BY DEF TypeOK
      <4> QED
        BY <4>1, <4>2
    <3> QED
      BY <3>1 DEF DropInTime
  <2> QED
    BY <1>4, <2>1, <2>2 DEF Pinger
<1>5. CASE Console
  BY <1>2, <1>5 DEF Console, ChooseForTask, SendTask, table, network
<1>6. ASSUME NEW c \in Clients, Client(c) \/ Exit(c) \/ Freeze(c) PROVE DropInTime'
  <2>1. PICK from, to : ClientGoes(c, from, to) /\ from # "frozen"
    BY <1>6 DEF Client, Connect, Register, BeginWork, AnswerPing, PerformTask, Rejected, Exit, Freeze
  <2>2. /\ client[c] # "frozen" /\ client' = [client EXCEPT ![c] = to]
        /\ client \in [Clients -> Places] /\ UNCHANGED <<clients, pinger, thread>>
    BY <2>1 DEF ClientGoes, table, threads, TypeOK
  <2>3. \A d \in Clients \ {c} : client'[d] = client[d] /\ toServer'[d] = toServer[d]
    BY <1>6, <2>2 DEF Client, Connect, Register, BeginWork, AnswerPing, PerformTask, Rejected, Exit,
                      Freeze, Reply, HangUp, network, TypeOK
  <2> QED
    BY <1>1, <2>2, <2>3 DEF DropInTime
<1> QED
  BY <1>3, <1>4, <1>5, <1>6

LEMMA NextState ==
  ASSUME IInv, server = "up",
         \/ ServerThread \/ Pinger \/ Console
         \/ \E c \in Clients : Client(c) \/ Exit(c) \/ Freeze(c)
  PROVE  IInv'
<1>1. TypeOK /\ TableInv /\ QueueInv /\ PingInv /\ GoneInv /\ (timely => InTime /\ DropInTime)
  BY DEF IInv, TableInv, TimelyInv
<1>2. TypeOK' /\ TableInv' /\ PingInv'
  <2>1. CASE ServerThread
    BY <1>1, <2>1, TypeServer, TableServer, PingServer
  <2>2. CASE Pinger \/ Console
    BY <1>1, <2>2, TypeOthers, TableOthers, PingOthers
  <2>3. ASSUME NEW c \in Clients, Client(c) \/ Exit(c) \/ Freeze(c)
        PROVE  TypeOK' /\ TableInv' /\ PingInv'
    BY <1>1, <2>3, TypeClients, TableClients, PingClients
  <2> QED
    BY <2>1, <2>2, <2>3
<1>3. GoneInv'
  BY <1>1, GoneStep
<1>4. timely' = timely
  <2>1. CASE ServerThread
    BY <2>1 DEF ServerThread, CopySockets, Poll, ClearSlot, AcceptRegistration, WriteStatus, Accept,
                CloseSocket, ReadFails, ReadEndOfFile, RejectRegistration, CheckRegistration,
                ReadStatus, HandleResult, Read, NextMessage, NextOf, history
  <2>2. CASE Pinger \/ Console
    BY <2>2 DEF Pinger, Console, ChooseToPing, SendPing, Timeout, Drop, ChooseForTask, SendTask,
                history
  <2>3. ASSUME NEW c \in Clients, Client(c) \/ Exit(c) \/ Freeze(c) PROVE timely' = timely
    BY <2>3 DEF Client, Connect, Register, BeginWork, AnswerPing, PerformTask, Rejected, Exit,
                Freeze, ClientGoes, history
  <2> QED
    BY <2>1, <2>2, <2>3
<1>5. ASSUME timely PROVE InTime'
  <2>1. CASE ServerThread
    <3>1. CASE CopySockets \/ Poll
      BY <1>1, <1>5, <3>1, InTimeRound
    <3>2. ASSUME NEW k \in {"net", "local"}, Accept(k) PROVE InTime'
      BY <1>1, <1>5, <3>2, InTimeAccept
    <3>3. ASSUME NEW i \in Slots, RejectRegistration(i) PROVE InTime'
      BY <1>1, <1>5, <3>3, InTimeReject
    <3>4. ASSUME NEW i \in Slots, CheckRegistration(i) \/ ReadStatus(i) \/ HandleResult(i)
          PROVE  InTime'
      BY <1>1, <1>5, <3>4, InTimeRead
    <3>5. ASSUME NEW i \in Slots, ReadFails(i) \/ ReadEndOfFile(i) PROVE InTime'
      BY <1>1, <1>5, <3>5, InTimeEnd
    <3>6. CASE ClearSlot \/ \E i \in Slots : CloseSocket(i)
      BY <1>1, <1>5, <3>6, InTimeClose
    <3>7. CASE AcceptRegistration
      BY <1>1, <1>5, <3>7, InTimeAnswer
    <3>8. CASE WriteStatus
      BY <1>1, <1>5, <3>8, InTimeWrite
    <3> QED
      BY <2>1, <3>1, <3>2, <3>3, <3>4, <3>5, <3>6, <3>7, <3>8 DEF ServerThread
  <2>2. CASE Pinger \/ Console
    BY <1>1, <1>5, <2>2, InTimeOthers
  <2>3. ASSUME NEW c \in Clients, Client(c) \/ Exit(c) \/ Freeze(c) PROVE InTime'
    BY <1>1, <1>5, <2>3, InTimeClients
  <2> QED
    BY <2>1, <2>2, <2>3
<1>6. ASSUME timely PROVE DropInTime'
  BY <1>1, <1>6, DropKept
<1> QED
  BY <1>2, <1>3, <1>4, <1>5, <1>6 DEF IInv, TimelyInv

\* A step of the three threads or of a client, whatever it finds in the table and
\* on the connections, keeps what the proofs below need.
THEOREM Invariance == Spec => []IInv
<1>1. Init => IInv
  BY InitialState
<1>2. IInv /\ [Next]_vars => IInv'
  <2> SUFFICES ASSUME IInv, [Next]_vars PROVE IInv'
    OBVIOUS
  <2>1. CASE UNCHANGED vars
    <3>1. UNCHANGED <<timely, server, clients, mutex_data, last_index, tasks, thread, sockets,
                      incoming, pinger, console, backlog, toServer, toClient, open, hungup,
                      reset, client, pinged>>
      BY <2>1 DEF vars, table, threads, network, history
    <3>2. TypeOK'
      BY <3>1 DEF IInv, TypeOK
    <3>3. TableInv'
      BY <3>1 DEF IInv, TableInv, TableConsistent, QueueInv, NameInv, Seated, Current
    <3>4. PingInv' /\ GoneInv'
      BY <3>1 DEF IInv, PingInv, GoneInv
    <3>5. InTime /\ DropInTime => InTime' /\ DropInTime'
      BY <3>1 DEF InTime, DropInTime, RegisteredSlots, ThreadInTime, SocketsInTime, ChosenInTime, ClientInTime,
                  Awaits, Answered, Asks, Listed, Queued, Current
    <3> QED
      BY <3>1, <3>2, <3>3, <3>4, <3>5 DEF IInv, TimelyInv
  <2>2. CASE server = "up" /\ (\/ ServerThread \/ Pinger \/ Console
                               \/ \E c \in Clients : Client(c) \/ Exit(c) \/ Freeze(c))
    BY <2>2, NextState
  <2> QED
    BY <2>1, <2>2 DEF Next
<1> QED
  BY <1>1, <1>2, PTL DEF Spec

\* The table never has one connection in two slots, or two clients of one name,
\* although names are checked and slots cleared without the mutex.
THEOREM AlwaysConsistent == Spec => []Consistent
<1>1. IInv => Consistent
  BY DEF IInv, TableInv, Consistent
<1> QED
  BY <1>1, Invariance, PTL

\* The pinger never drops a client that was given the slot of the pinged one.
THEOREM DropsAlwaysOnlyPinged == Spec => []DropsOnlyPinged
<1>1. IInv => DropsOnlyPinged
  BY DEF IInv, TypeOK, PingInv, DropsOnlyPinged
<1> QED
  BY <1>1, Invariance, PTL

\* While the pinger is patient enough, a client that waits for the reply to its
\* connection or registration finds no ping and no task in front of it.
THEOREM RepliesAlwaysFirst == Spec => []RepliesFirst
<1>1. IInv => RepliesFirst
  BY OneMessage DEF IInv, TimelyInv, InTime, ClientInTime, RepliesFirst
<1> QED
  BY <1>1, Invariance, PTL

\* While the pinger is patient enough, a client that works is in the table, under
\* its name and registered: the server can give it tasks.
THEOREM WorkersAlwaysListed == Spec => []WorkersListed
<1>1. IInv => WorkersListed
  BY DEF IInv, TimelyInv, InTime, ClientInTime, RegisteredSlots, Listed, WorkersListed
<1> QED
  BY <1>1, Invariance, PTL
=============================================================================

----------------------------- MODULE NetServer ------------------------------
(***************************************************************************)
(* src/lab10-Network/zad1: a server that hands tasks to the clients that   *)
(* registered with it over TCP ("net") or a Unix socket ("local").         *)
(*                                                                         *)
(* Three threads of the server share the table of clients: handle_server   *)
(* (accepts, reads messages, notices hang-ups), handle_pinger (drops the   *)
(* clients that do not answer) and handle_console (sends tasks).  Only     *)
(* part of their accesses hold mutex_data; those that do not are steps of  *)
(* their own here.  A critical section is one step when the unlocked       *)
(* accesses of the server thread cannot fall inside it.                    *)
(***************************************************************************)
EXTENDS Integers, Sequences, FiniteSets

CONSTANTS
  NetClients, LocalClients,   \* client processes; each connects once
  Name,                       \* the <name> argument of each client
  EmptyName,
  NoFd,                       \* the fd of a free slot, -1
  MAX_CLIENTS,
  MaxEvents,                  \* bound on what users do: see MayHappen
  CountTasks,                 \* do tasks count as such, or are they unlimited?
  SocketRoom                  \* how many messages a connection holds, each way

Clients == NetClients \cup LocalClients
Slots == 0 .. MAX_CLIENTS - 1
Kind(c) == IF c \in NetClients THEN "net" ELSE "local"

ASSUME ClientsAssumption ==
  /\ IsFiniteSet(Clients) /\ NetClients \cap LocalClients = {}
  /\ NoFd \notin Clients
  /\ DOMAIN Name = Clients

ASSUME BoundsAssumption ==
  MAX_CLIENTS \in Nat \ {0} /\ MaxEvents \in Nat /\ CountTasks \in BOOLEAN
  /\ SocketRoom \in Nat \ {0}

VARIABLES
  timely,       \* is the pinger's timeout long enough?  See TimeoutInTime
  server,       \* "up", or how the process ended
  clients,      \* the table: fd (here the client connected to it), name, status
  mutex_data,   \* "free", or the thread that holds it across steps
  last_index,
  tasks,        \* tasks sent so far, where they are counted
  thread,       \* the server thread: where it is, the slot and status it read
  sockets,      \* what poll() reported and this round has not yet handled
  incoming,     \* the listening sockets poll() reported
  pinger,       \* the pinger: where it is, and the slot it pinged
  console,      \* the console: where it is, and the slot it chose
  backlog,      \* connections not accepted yet, for each listening socket
  toServer, toClient,   \* the messages under way on each connection
  open,         \* connections whose server end is an open descriptor
  hungup,       \* clients that closed their end
  reset,        \* net connections that were reset
  client,       \* where each client process is
  pinged        \* history: the client that a ping is under way to

table    == <<clients, last_index>>
threads  == <<mutex_data, tasks, thread, sockets, incoming, pinger, console>>
network  == <<backlog, toServer, toClient, open, hungup, reset>>
history  == <<timely, pinged>>
vars     == <<server, table, threads, network, client, history>>

FreeSlot == [fd |-> NoFd, name |-> EmptyName, registered |-> FALSE, pinged |-> FALSE]

\* The state in which main has called setup_local_socket and the threads exist.
Init ==
  /\ timely \in BOOLEAN
  /\ server = "up"
  /\ clients = [i \in Slots |-> FreeSlot]
  /\ mutex_data = "free"
  /\ last_index = 0
  /\ tasks = 0
  /\ thread = [at |-> "round", id |-> 0, registered |-> FALSE]
  /\ sockets = [i \in Slots |-> {}]
  /\ incoming = {}
  /\ pinger = [at |-> "interval", id |-> 0]
  /\ console = [at |-> "prompt", id |-> 0]
  /\ backlog = [k \in {"net", "local"} |-> <<>>]
  /\ toServer = [c \in Clients |-> <<>>]
  /\ toClient = [c \in Clients |-> <<>>]
  /\ open = {}
  /\ hungup = {}
  /\ reset = {}
  /\ client = [c \in Clients |-> "new"]
  /\ pinged = NoFd

-----------------------------------------------------------------------------
\* Users start clients, stop them or suspend them, and type tasks: in all, at
\* most MaxEvents times, or as many tasks as they like if these do not count.
Departed == {c \in Clients : client[c] \in {"exited", "frozen"}}

MayHappen ==
  tasks + Cardinality({c \in Clients : client[c] # "new"}) + Cardinality(Departed)
    < MaxEvents

(* Messages.                                                               *)

\* send_message on the server's end of a connection; "valid" tells whether the
\* descriptor is open.  A failing write() ends the server: by exit_fatal_no on a
\* bad descriptor, by SIGPIPE if the peer is known to be gone.  A TCP peer that
\* is gone is known to be so only after it answered one message with a reset.
\* A write() to a connection that is full waits for the peer to read.
Full(c) == c \notin hungup /\ Len(toClient[c]) >= SocketRoom

Write(valid, c, type) ==
  LET pipe == valid /\ (c \in reset \/ (c \in hungup /\ c \in LocalClients))
      lost == valid /\ ~pipe /\ c \in hungup
  IN  /\ valid => ~Full(c)
      /\ server' = IF ~valid THEN "fatal" ELSE IF pipe THEN "sigpipe" ELSE server
      /\ reset' = IF lost THEN reset \cup {c} ELSE reset
      /\ toClient' = IF valid /\ c \notin hungup
                       THEN [toClient EXCEPT ![c] = Append(@, type)] ELSE toClient

Send(c, type) == Write(c \in open, c, type)

\* Mutant of remove_client: does not reset all of the status.
forget_client(id) ==
  clients' = [clients EXCEPT ![id] = [FreeSlot EXCEPT !.pinged = clients[id].pinged]]

remove_client(id) == clients' = [clients EXCEPT ![id] = FreeSlot]

FreeIds == {i \in Slots : clients[i].fd = NoFd}

\* get_free_id, for the case that there is one.
get_free_id == CHOOSE i \in FreeIds : \A j \in FreeIds : i <= j

NameTaken(name) == \E i \in Slots : clients[i].name = name

\* get_next_client, round robin over the registered clients; the console and
\* the pinger advance the same last_index.
Registered == {i \in Slots : clients[i].registered}

\* Mutant of get_next_client: begins with the first slot every time.
get_first_client == CHOOSE i \in Registered : \A j \in Registered : i <= j

get_next_client ==
  LET Distance(i) == (i - last_index - 1) % MAX_CLIENTS
  IN  CHOOSE i \in Registered : \A j \in Registered : Distance(i) <= Distance(j)

-----------------------------------------------------------------------------
(* handle_server                                                           *)

ThreadGoes(place, id, registered) ==
  thread' = [at |-> place, id |-> id, registered |-> registered]

ThreadReturns == ThreadGoes("round", 0, FALSE)

NothingReported == incoming = {} /\ \A i \in Slots : sockets[i] = {}

\* What poll() reports for a connection.  A TCP connection that the peer has
\* closed is readable (read() returns 0), and hangs up only once reset.
Events(c) ==
  {e \in {"IN", "HUP"} :
    \/ e = "IN" /\ c # NoFd /\ (toServer[c] # <<>> \/ c \in hungup)
    \/ e = "HUP" /\ (c \in reset \/ (c \in hungup /\ c \in LocalClients))}

\* Start of a round: copies the descriptors under the mutex, to poll them.
CopySockets ==
  /\ thread.at = "round"
  /\ NothingReported
  /\ mutex_data = "free"
  /\ ThreadGoes("poll", 0, FALSE)
  /\ sockets' = [i \in Slots |-> IF clients[i].fd = NoFd THEN {} ELSE {clients[i].fd}]
  /\ UNCHANGED <<server, table, mutex_data, tasks, incoming, pinger, console,
                 network, client, history>>

\* poll() returns when there is something to report on the copied descriptors.
Poll ==
  LET revents == [i \in Slots |-> UNION {Events(c) : c \in sockets[i]}]
      ready   == {k \in {"net", "local"} : backlog[k] # <<>>}
  IN  /\ thread.at = "poll"
      /\ ready # {} \/ \E i \in Slots : revents[i] # {}
      /\ ThreadReturns
      /\ sockets' = revents
      /\ incoming' = ready
      /\ UNCHANGED <<server, table, mutex_data, tasks, pinger, console, network,
                     client, history>>

\* accept_net, then accept_local.  A connection that finds the table full is
\* told so, and its descriptor stays open.
Accept(k) ==
  LET c == Head(backlog[k])
  IN  /\ thread.at = "round"
      /\ k \in incoming /\ (k = "local" => "net" \notin incoming)
      /\ mutex_data = "free"
      /\ incoming' = incoming \ {k}
      /\ backlog' = [backlog EXCEPT ![k] = Tail(@)]
      /\ open' = open \cup {c}
      /\ \/ /\ FreeIds = {}
            /\ Write(TRUE, c, "REJECTED")
            /\ UNCHANGED clients
         \/ /\ FreeIds # {}
            /\ Write(TRUE, c, "ACCEPTED")
            /\ clients' = [clients EXCEPT ![get_free_id].fd = c]
      /\ UNCHANGED <<last_index, mutex_data, tasks, thread, sockets, pinger,
                     console, toServer, hungup, client, history>>

\* The slots of this round that are handled next: those that hung up, then
\* those with something to read, in the order of the table.
HungUp   == {i \in Slots : "HUP" \in sockets[i]}
Readable == {i \in Slots : "IN" \in sockets[i]}

NextOf(S, i) ==
  /\ thread.at = "round"
  /\ incoming = {}
  /\ i \in S /\ \A j \in S : i <= j
  /\ sockets' = [sockets EXCEPT ![i] = {}]
  /\ UNCHANGED <<mutex_data, tasks, incoming, pinger, console, history>>

\* handle_disconnect holds no mutex: it closes the socket, then clears the slot.
CloseSocket(i) ==
  /\ NextOf(HungUp, i)
  /\ open' = open \ {clients[i].fd}
  /\ ThreadGoes("disconnect", i, FALSE)
  /\ UNCHANGED <<server, table, backlog, toServer, toClient, hungup, reset, client>>

ClearSlot ==
  /\ thread.at = "disconnect"
  /\ remove_client(thread.id)
  /\ ThreadReturns
  /\ UNCHANGED <<server, last_index, mutex_data, tasks, sockets, incoming, pinger,
                 console, network, client, history>>

\* handle_message: read_message uses the descriptor that the table holds now,
\* not the one that was polled, and ends the server when read() fails.
NextMessage(i) == HungUp = {} /\ NextOf(Readable, i)

ReadFails(i) ==
  LET c == clients[i].fd
  IN  /\ NextMessage(i)
      /\ c = NoFd \/ (c \in reset /\ toServer[c] = <<>>)
      /\ server' = "fatal"
      /\ UNCHANGED <<table, thread, network, client>>

ReadEndOfFile(i) ==
  LET c == clients[i].fd
  IN  /\ NextMessage(i)
      /\ c \in hungup \ reset /\ toServer[c] = <<>>
      /\ UNCHANGED <<server, table, thread, network, client>>

Read(i, type) ==
  LET c == clients[i].fd
  IN  /\ NextMessage(i)
      /\ c # NoFd
      /\ toServer[c] # <<>> /\ Head(toServer[c]) = type
      /\ toServer' = [toServer EXCEPT ![c] = Tail(@)]
      /\ UNCHANGED <<last_index, backlog, open, hungup, client>>

\* Mutant of RegistrationValid: does not look for the name.
NameGiven(i, name) == ~clients[i].registered /\ name # EmptyName

\* handle_message_register: the checks are made without the mutex.
RegistrationValid(i, name) ==
  ~clients[i].registered /\ name # EmptyName /\ ~NameTaken(name)

RejectRegistration(i) ==
  /\ Read(i, "REGISTER")
  /\ ~RegistrationValid(i, Name[clients[i].fd])
  /\ Send(clients[i].fd, "REJECTED")
  /\ UNCHANGED <<clients, thread>>

\* Mutant of CheckRegistration: sets the status before it takes the mutex.
RegisterUnlocked(i) ==
  /\ Read(i, "REGISTER")
  /\ RegistrationValid(i, Name[clients[i].fd])
  /\ clients' = [clients EXCEPT ![i].registered = TRUE]
  /\ ThreadGoes("register", i, FALSE)
  /\ UNCHANGED <<server, toClient, reset>>

CheckRegistration(i) ==
  /\ Read(i, "REGISTER")
  /\ RegistrationValid(i, Name[clients[i].fd])
  /\ ThreadGoes("register", i, FALSE)
  /\ UNCHANGED <<server, clients, toClient, reset>>

\* The name is the one the message brought; nobody but this thread, which is
\* still handling that message, gives the slot to another client.
AcceptRegistration ==
  LET c == clients[thread.id].fd
  IN  /\ thread.at = "register"
      /\ mutex_data = "free"
      /\ clients' = [clients EXCEPT ![thread.id].name = IF c = NoFd THEN EmptyName ELSE Name[c],
                                    ![thread.id].registered = TRUE]
      /\ Send(c, "ACCEPTED")
      /\ ThreadReturns
      /\ UNCHANGED <<last_index, mutex_data, tasks, sockets, incoming, pinger, console,
                     backlog, toServer, open, hungup, client, history>>

\* handle_message_ping: reads the status, then writes it back without the bit;
\* the status written is the one read, whatever became of the slot meanwhile.
ReadStatus(i) ==
  /\ Read(i, "PING")
  /\ ThreadGoes("pong", i, clients[i].registered)
  /\ UNCHANGED <<server, clients, toClient, reset>>

WriteStatus ==
  /\ thread.at = "pong"
  /\ clients' = [clients EXCEPT ![thread.id].registered = thread.registered,
                                ![thread.id].pinged = FALSE]
  /\ ThreadReturns
  /\ UNCHANGED <<server, last_index, mutex_data, tasks, sockets, incoming, pinger,
                 console, network, client, history>>

\* handle_message_result only logs.
HandleResult(i) ==
  /\ Read(i, "RESULT")
  /\ UNCHANGED <<server, clients, thread, toClient, reset>>

ServerThread ==
  \/ CopySockets \/ Poll \/ ClearSlot \/ AcceptRegistration \/ WriteStatus
  \/ \E k \in {"net", "local"} : Accept(k)
  \/ \E i \in Slots :
       \/ CloseSocket(i) \/ ReadFails(i) \/ ReadEndOfFile(i)
       \/ RejectRegistration(i) \/ CheckRegistration(i)
       \/ ReadStatus(i) \/ HandleResult(i)

-----------------------------------------------------------------------------
(* handle_pinger.  With no client registered it only waits again.          *)

ChooseToPing ==
  /\ pinger.at = "interval"
  /\ mutex_data = "free"
  /\ Registered # {}
  /\ mutex_data' = "pinger"
  /\ last_index' = get_next_client
  /\ clients' = [clients EXCEPT ![get_next_client].pinged = TRUE]
  /\ pinger' = [at |-> "ping", id |-> get_next_client]
  /\ pinged' = clients[get_next_client].fd
  /\ UNCHANGED <<server, tasks, thread, sockets, incoming, console, network,
                 client, timely>>

SendPing ==
  /\ pinger.at = "ping"
  /\ Send(clients[pinger.id].fd, "PING")
  /\ mutex_data' = "free"
  /\ pinger' = [pinger EXCEPT !.at = "timeout"]
  /\ UNCHANGED <<table, tasks, thread, sockets, incoming, console, backlog,
                 toServer, open, hungup, client, history>>

\* The environment in which a timeout tells the truth: when sleep() returns,
\* the client has either answered, or hung up, and the server thread has dealt
\* with it; or it is frozen, and nothing of it is left to read.
TimeoutInTime ==
  LET c == clients[pinger.id].fd
  IN  clients[pinger.id].pinged /\ c # NoFd
        => /\ client[c] = "frozen" /\ toServer[c] = <<>>
           /\ ~(thread.at = "pong" /\ thread.id = pinger.id)

\* Mutant of Timeout: does not look whether the client has answered.
TimeoutAlways ==
  /\ pinger.at = "timeout"
  /\ mutex_data = "free"
  /\ timely => TimeoutInTime
  /\ pinger' = [pinger EXCEPT !.at = "drop"]
  /\ mutex_data' = "pinger"
  /\ UNCHANGED <<server, table, tasks, thread, sockets, incoming, console, network,
                 client, history>>

\* The mutex is held from this test to the removal, but handle_message_ping and
\* handle_disconnect do without it and may come in between.
Timeout ==
  /\ pinger.at = "timeout"
  /\ mutex_data = "free"
  /\ timely => TimeoutInTime
  /\ \/ /\ ~clients[pinger.id].pinged
        /\ pinger' = [at |-> "interval", id |-> 0]
        /\ pinged' = NoFd
        /\ UNCHANGED mutex_data
     \/ /\ clients[pinger.id].pinged
        /\ pinger' = [pinger EXCEPT !.at = "drop"]
        /\ mutex_data' = "pinger"
        /\ UNCHANGED pinged
  /\ UNCHANGED <<server, table, tasks, thread, sockets, incoming, console, network,
                 client, timely>>

Drop ==
  /\ pinger.at = "drop"
  /\ remove_client(pinger.id)
  /\ mutex_data' = "free"
  /\ pinger' = [at |-> "interval", id |-> 0]
  /\ pinged' = NoFd
  /\ UNCHANGED <<server, last_index, tasks, thread, sockets, incoming, console, network,
                 client, timely>>

Pinger == ChooseToPing \/ SendPing \/ Timeout \/ Drop

-----------------------------------------------------------------------------
(* handle_console.  A task typed while no client is registered is refused. *)

ChooseForTask ==
  /\ console.at = "prompt"
  /\ CountTasks => MayHappen
  /\ tasks' = IF CountTasks THEN tasks + 1 ELSE tasks
  /\ mutex_data = "free"
  /\ Registered # {}
  /\ mutex_data' = "console"
  /\ last_index' = get_next_client
  /\ console' = [at |-> "send", id |-> get_next_client]
  /\ UNCHANGED <<server, clients, thread, sockets, incoming, pinger, network,
                 client, history>>

SendTask ==
  /\ console.at = "send"
  /\ Send(clients[console.id].fd, "TASK")
  /\ mutex_data' = "free"
  /\ console' = [at |-> "prompt", id |-> 0]
  /\ UNCHANGED <<table, tasks, thread, sockets, incoming, pinger, backlog,
                 toServer, open, hungup, client, history>>

Console == ChooseForTask \/ SendTask

-----------------------------------------------------------------------------
(* The clients.                                                            *)

ClientGoes(c, from, to) ==
  /\ client[c] = from
  /\ client' = [client EXCEPT ![c] = to]
  /\ UNCHANGED <<server, table, threads, history>>

\* connect() succeeds as soon as the connection is in the backlog.
Connect(c) ==
  /\ MayHappen
  /\ ClientGoes(c, "new", "connecting")
  /\ backlog' = [backlog EXCEPT ![Kind(c)] = Append(@, c)]
  /\ UNCHANGED <<toServer, toClient, open, hungup, reset>>

Received(c, type) ==
  /\ toClient[c] # <<>> /\ Head(toClient[c]) = type
  /\ toClient' = [toClient EXCEPT ![c] = Tail(@)]

Reply(c, type) ==
  /\ Len(toServer[c]) < SocketRoom
  /\ toServer' = [toServer EXCEPT ![c] = Append(@, type)]
  /\ UNCHANGED <<backlog, open, hungup, reset>>

Register(c) ==
  /\ ClientGoes(c, "connecting", "registering")
  /\ Received(c, "ACCEPTED")
  /\ Reply(c, "REGISTER")

BeginWork(c) ==
  /\ ClientGoes(c, "registering", "registered")
  /\ Received(c, "ACCEPTED")
  /\ UNCHANGED <<backlog, toServer, open, hungup, reset>>

AnswerPing(c) ==
  /\ ClientGoes(c, "registered", "registered")
  /\ Received(c, "PING")
  /\ Reply(c, "PING")

PerformTask(c) ==
  /\ ClientGoes(c, "registered", "registered")
  /\ Received(c, "TASK")
  /\ Reply(c, "RESULT")

\* handle_exit closes the socket; TCP resets a connection closed with messages
\* unread.
HangUp(c) ==
  /\ hungup' = hungup \cup {c}
  /\ reset' = IF c \in NetClients /\ toClient'[c] # <<>> THEN reset \cup {c} ELSE reset
  /\ UNCHANGED <<backlog, toServer, open>>

\* The server has closed the connection, and nothing is left to read.
EndOfFile(c) ==
  /\ c \notin open /\ toClient[c] = <<>>
  /\ \A i \in DOMAIN backlog[Kind(c)] : backlog[Kind(c)][i] # c

\* Anything but ACCEPTED is taken for a rejection, and so is the end of the
\* file, where the type is read from a message that was never filled in.
Rejected(c) ==
  /\ \E place \in {"connecting", "registering"} : ClientGoes(c, place, "rejected")
  /\ \/ \E type \in {"REJECTED", "PING", "TASK"} : Received(c, type)
     \/ EndOfFile(c) /\ UNCHANGED toClient
  /\ HangUp(c)

\* A client that is registered does not read the end of the file as long as the
\* server runs: the server closes only connections that hung up, or, where a slot
\* was given away since poll(), one that it accepted in the same round.

\* SIGINT, or a task that kills it (DIV by 0), ends the client at any time.
Exit(c) ==
  /\ MayHappen
  /\ \E place \in {"connecting", "registering", "registered"} : ClientGoes(c, place, "exited")
  /\ UNCHANGED toClient
  /\ HangUp(c)

\* A client that stops answering, for good.
Freeze(c) ==
  /\ MayHappen
  /\ ClientGoes(c, "registered", "frozen")
  /\ UNCHANGED network

Client(c) ==
  \/ Connect(c) \/ Register(c) \/ BeginWork(c) \/ AnswerPing(c) \/ PerformTask(c)
  \/ Rejected(c)

Next ==
  \/ /\ server = "up"
     /\ \/ ServerThread \/ Pinger \/ Console
        \/ \E c \in Clients : Client(c) \/ Exit(c) \/ Freeze(c)
  \/ server # "up" /\ UNCHANGED vars

\* The threads and the clients that can run do.  The server thread and the
\* pinger compete for the mutex with each other and with a console that waits
\* for the keyboard most of the time, and get it in the end.  Nobody has to
\* type, exit or freeze.
Fairness ==
  /\ SF_vars(server = "up" /\ ServerThread)
  /\ SF_vars(server = "up" /\ Pinger)
  /\ WF_vars(server = "up" /\ SendTask)
  /\ \A c \in Clients : WF_vars(server = "up" /\ Client(c))

Spec == Init /\ [][Next]_vars /\ Fairness

-----------------------------------------------------------------------------
Places == {"new", "connecting", "registering", "registered", "rejected",
           "exited", "frozen"}
Types == {"ACCEPTED", "REJECTED", "REGISTER", "PING", "TASK", "RESULT"}

TypeOK ==
  /\ timely \in BOOLEAN
  /\ server \in {"up", "fatal", "sigpipe"}
  /\ clients \in [Slots -> [fd : Clients \cup {NoFd},
                            name : {Name[c] : c \in Clients} \cup {EmptyName},
                            registered : BOOLEAN, pinged : BOOLEAN]]
  /\ mutex_data \in {"free", "pinger", "console"}
  /\ last_index \in Slots
  /\ tasks \in 0 .. MaxEvents
  /\ thread \in [at : {"round", "poll", "disconnect", "register", "pong"},
                 id : Slots, registered : BOOLEAN]
  /\ sockets \in [Slots -> SUBSET ({"IN", "HUP"} \cup Clients)]
  /\ incoming \subseteq {"net", "local"}
  /\ pinger \in [at : {"interval", "ping", "timeout", "drop"}, id : Slots]
  /\ console \in [at : {"prompt", "send"}, id : Slots]
  /\ backlog \in [{"net", "local"} -> Seq(Clients)]
  /\ toServer \in [Clients -> Seq(Types)]
  /\ toClient \in [Clients -> Seq(Types)]
  /\ open \subseteq Clients
  /\ hungup \subseteq Clients
  /\ reset \subseteq NetClients
  /\ client \in [Clients -> Places]
  /\ pinged \in Clients \cup {NoFd}

\* No descriptor is in two slots, and no two registered clients have one name,
\* although registration checks the names before it takes the mutex, and slots
\* are cleared without it.
TableConsistent ==
  \A i, j \in Slots : i # j =>
    /\ clients[i].fd # NoFd => clients[i].fd # clients[j].fd
    /\ clients[i].name # EmptyName => clients[i].name # clients[j].name

\* The table as the three threads find it, between any two of their accesses.
Consistent == TypeOK /\ TableConsistent

\* The replies to connecting and to registering reach a client before anything
\* else does: a client that takes the first messages for these replies is right.
RepliesFirst ==
  timely => \A c \in Clients :
    client[c] \in {"connecting", "registering"} /\ toClient[c] # <<>>
      => Head(toClient[c]) \in {"ACCEPTED", "REJECTED"}

\* What a working client believes is what the table says.
WorkersListed ==
  timely => \A c \in Clients :
    client[c] = "registered" /\ server = "up"
      => \E i \in Slots : clients[i].fd = c /\ clients[i].name = Name[c] /\ clients[i].registered

\* When the pinger wakes up, and while it drops a client, the slot it pinged
\* holds the client it pinged, or is not marked: it never drops a client that
\* got the slot in the meantime.
DropsOnlyPinged ==
  pinger.at = "drop" \/ (pinger.at = "timeout" /\ clients[pinger.id].pinged)
    => clients[pinger.id].fd \in {pinged, NoFd}

\* The pinger or the console holds the mutex and waits for room in a connection
\* to a client that will not make any: the client is frozen, or waits itself for
\* the server thread to read, which waits for the mutex.
AtLock == thread.at = "register" \/ (thread.at = "round" /\ (NothingReported \/ incoming # {}))

Jammed(c) ==
  /\ c \in open /\ Full(c)
  /\ \/ pinger.at = "ping" /\ clients[pinger.id].fd = c
     \/ console.at = "send" /\ clients[console.id].fd = c
  /\ \/ client[c] = "frozen"
     \/ client[c] = "registered" /\ Len(toServer[c]) = SocketRoom /\ AtLock

\* A registered client that has gone, or is frozen, does not keep its slot,
\* however many tasks are typed.  The console shares the round robin with the
\* pinger and may always be the one whose turn this client gets; then it is the
\* tasks that find it out, as their write ends the server or fills the
\* connection.  Tasks that fill a connection jam the server for ever.
GoneIsRemoved ==
  \A c \in Clients :
    timely /\ c \in Departed /\ (\E i \in Slots : clients[i].fd = c /\ clients[i].registered)
      ~> \/ server # "up"
         \/ \A i \in Slots : clients[i].fd # c
         \/ [](\E d \in Clients : Jammed(d))
=============================================================================

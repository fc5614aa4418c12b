----------------------------- MODULE PosixServer -----------------------------
(***************************************************************************)
(* src/lab06-Queues/zad2: the server of SysVServer over POSIX message      *)
(* queues.  A queue has room for few messages here, so that mq_send() may  *)
(* block; it has a name and lives on without it as long as somebody has it *)
(* open; the server keeps the queues of its clients open, stops as soon as *)
(* it has read an END, and clients say goodbye in every case.              *)
(*                                                                         *)
(* "ORDER" stands for MIRROR, CALC and TIME, and reading a request and     *)
(* handling it are one step, as in SysVServer.  What lies behind the end   *)
(* of the table holds no pid; the exit handler may stumble over it.        *)
(***************************************************************************)
EXTENDS Integers, Sequences, FiniteSets

CONSTANTS
  Clients,        \* client processes, each with its pid and its own queue
  Server,         \* the server, and its queue
  NoPid,          \* the pid of an entry that has been disabled, -1
  MAX_CLIENTS,
  MQ_MAXMSG,      \* the room in a queue
  MaxInterrupted  \* bound on the number of clients whose users interrupt them

ASSUME NamesAssumption ==
  IsFiniteSet(Clients) /\ Server \notin Clients /\ NoPid \notin Clients \cup {Server}

ASSUME LimitsAssumption ==
  MAX_CLIENTS \in Nat \ {0} /\ MQ_MAXMSG \in Nat \ {0} /\ MaxInterrupted \in Nat

VARIABLES
  server,         \* "loop", "exit" while the exit handler runs, or "gone"
  ended,          \* history: why the server left its loop, and whose answer failed
  clients,        \* the table: the pid in each entry
  clients_count,
  names,          \* whose queues can be opened by name
  requests,       \* the messages in the server's queue, read or not
  answers,        \* the number of messages in the queue of each client
  client,         \* where each client is
  interrupted,    \* history: the clients that got a SIGINT
  deserted        \* history: those that got it while they were connecting

table   == <<clients, clients_count>>
message == <<names, requests, answers>>
history == <<interrupted, deserted>>
vars    == <<server, ended, table, message, client, history>>

Slots == 0 .. MAX_CLIENTS - 1

\* The server has made its queue; the clients have made theirs.
Init ==
  /\ server = "loop"
  /\ ended = [cause |-> "no", pid |-> NoPid]
  /\ clients = [i \in Slots |-> NoPid]
  /\ clients_count = 0
  /\ names = Clients \cup {Server}
  /\ requests = <<>>
  /\ answers = [c \in Clients |-> 0]
  /\ client = [c \in Clients |-> "start"]
  /\ interrupted = {}
  /\ deserted = {}

-----------------------------------------------------------------------------
(* The server.                                                             *)

\* exit(), wherever it is called: the exit handler comes next.
ServerExits(cause, pid) == server' = "exit" /\ ended' = [cause |-> cause, pid |-> pid]

ServerGoesOn == UNCHANGED <<server, ended>>

\* Mutant of get_client_queue: stops one entry early.
SearchAllButLast(entries, count, pid) ==
  IF \E i \in Slots : i < count - 1 /\ entries[i] = pid THEN pid ELSE NoPid

\* The queue that get_client_queue finds for a pid, or none.
get_client_queue(entries, count, pid) ==
  IF \E i \in Slots : i < count /\ entries[i] = pid THEN pid ELSE NoPid

\* send_response to a client.  A queue the server has open takes messages after its client
\* has gone, until it is full; then the server blocks.
send_response(pid, queue) ==
  \/ /\ queue # NoPid
     /\ answers[queue] < MQ_MAXMSG
     /\ answers' = [answers EXCEPT ![queue] = @ + 1]
     /\ ServerGoesOn
  \/ /\ queue = NoPid
     /\ ServerExits("error", pid)
     /\ UNCHANGED answers

Receive(c, type) ==
  /\ server = "loop"
  /\ requests # <<>> /\ Head(requests) = [type |-> type, pid |-> c]
  /\ requests' = Tail(requests)
  /\ UNCHANGED <<names, client, history>>

\* handle_request_init counts the client before it looks at the limit, and
\* sends no answer to a client above it.
Refuse(c) ==
  /\ Receive(c, "INIT")
  /\ clients_count >= MAX_CLIENTS
  /\ clients_count' = clients_count + 1
  /\ ServerGoesOn
  /\ UNCHANGED <<clients, answers>>

\* The client's queue is opened by its name, which may be gone.
Admit(c) ==
  /\ Receive(c, "INIT")
  /\ clients_count < MAX_CLIENTS
  /\ clients_count' = clients_count + 1
  /\ clients' = [clients EXCEPT ![clients_count] = c]
  /\ \/ c \in names /\ send_response(c, get_client_queue(clients', clients_count', c))
     \/ c \notin names /\ ServerExits("error", c) /\ UNCHANGED answers

handle_request_end(c) ==
  /\ Receive(c, "END")
  /\ ServerExits("END", NoPid)
  /\ UNCHANGED <<table, answers>>

\* Mutant of handle_request_stop: closes the queue and leaves the entry.
KeepEntry(c) ==
  /\ Receive(c, "STOP")
  /\ ServerGoesOn
  /\ UNCHANGED <<table, answers>>

\* The client's queue is closed, its entry disabled; it stays counted.
handle_request_stop(c) ==
  /\ Receive(c, "STOP")
  /\ clients' = [i \in Slots |-> IF i < clients_count /\ clients[i] = c THEN NoPid ELSE clients[i]]
  /\ ServerGoesOn
  /\ UNCHANGED <<clients_count, answers>>

\* Mutant of handle_order: returns without an answer if arguments are missing.
AnswerSometimes(c) ==
  /\ Receive(c, "ORDER")
  /\ UNCHANGED answers
  /\ ServerGoesOn
  /\ UNCHANGED table

\* handle_request_mirror, handle_request_calc and handle_request_time.
handle_order(c) ==
  /\ Receive(c, "ORDER")
  /\ send_response(c, get_client_queue(clients, clients_count, c))
  /\ UNCHANGED table

\* handle_exit takes the name from the server's queue; what is in the queue
\* stays there for ever.  It goes through clients_count entries, and may find
\* something it cannot close behind the end of the table: then it stops there.
RemoveServerQueue ==
  /\ server = "exit"
  /\ server' = "gone"
  /\ \/ names' = names \ {Server}
     \/ clients_count > MAX_CLIENTS /\ UNCHANGED names
  /\ UNCHANGED <<ended, table, requests, answers, client, history>>

\* handle_sigint.  A second exit() skips the handler that is running.
InterruptServer ==
  /\ server \in {"loop", "exit"}
  /\ IF server = "loop" THEN ServerExits("SIGINT", NoPid) ELSE server' = "gone" /\ UNCHANGED ended
  /\ UNCHANGED <<table, message, client, history>>

\* Another server is started: it cannot make a queue that exists, and its exit
\* handler removes the name of the queue all the same.
StartSecondServer ==
  /\ Server \in names
  /\ names' = names \ {Server}
  /\ UNCHANGED <<server, ended, table, requests, answers, client, history>>

ServerStep ==
  \/ RemoveServerQueue
  \/ \E c \in Clients :
       \/ Refuse(c) \/ Admit(c) \/ handle_order(c)
       \/ handle_request_end(c) \/ handle_request_stop(c)

-----------------------------------------------------------------------------
(* The clients.  "exit" is the exit handler, "unlink" what it does last.   *)

ClientGoes(c, from, to) ==
  /\ client[c] = from
  /\ client' = [client EXCEPT ![c] = to]
  /\ UNCHANGED <<server, ended, table, history>>

\* setup_server_queue.  Without a server the exit handler sends its message
\* to -1, which fails, and the rest of it is skipped.
OpenServerQueue(c) ==
  /\ ClientGoes(c, "start", IF Server \in names THEN "opened" ELSE "gone")
  /\ UNCHANGED message

\* mq_send() to the server waits for room in the queue, whether or not there
\* is still somebody to read it.
send_request(c, type, from, to) ==
  /\ ClientGoes(c, from, to)
  /\ Len(requests) < MQ_MAXMSG
  /\ requests' = Append(requests, [type |-> type, pid |-> c])
  /\ UNCHANGED <<names, answers>>

connect(c) == send_request(c, "INIT", "opened", "connecting")

\* execute_line, for the orders that wait for an answer, and for END.
SendOrder(c) == send_request(c, "ORDER", "ready", "waiting")

SendEnd(c) == send_request(c, "END", "ready", "exit")

TakeAnswer(c) ==
  /\ \E place \in {"connecting", "waiting"} : ClientGoes(c, place, "ready")
  /\ answers[c] > 0
  /\ answers' = [answers EXCEPT ![c] = @ - 1]
  /\ UNCHANGED <<names, requests>>

EndOfInput(c) == ClientGoes(c, "ready", "exit") /\ UNCHANGED message

\* handle_exit.
SendStop(c) == send_request(c, "STOP", "exit", "unlink")

RemoveOwnQueue(c) ==
  /\ ClientGoes(c, "unlink", "gone")
  /\ names' = names \ {c}
  /\ UNCHANGED <<requests, answers>>

\* handle_sigint, at any time.
InterruptClient(c) ==
  /\ client[c] # "gone"
  /\ client' = [client EXCEPT ![c] = IF @ \in {"start", "exit", "unlink"} THEN "gone" ELSE "exit"]
  /\ interrupted' = interrupted \cup {c}
  /\ Cardinality(interrupted') <= MaxInterrupted
  /\ deserted' = IF client[c] = "connecting" THEN deserted \cup {c} ELSE deserted
  /\ UNCHANGED <<server, ended, table, message>>

ClientStep(c) == OpenServerQueue(c) \/ connect(c) \/ TakeAnswer(c) \/ RemoveOwnQueue(c)

\* What the user of a client does.
User(c) == SendOrder(c) \/ SendEnd(c) \/ EndOfInput(c) \/ InterruptClient(c)

Next ==
  \/ ServerStep \/ InterruptServer \/ StartSecondServer
  \/ \E c \in Clients : ClientStep(c) \/ SendStop(c) \/ User(c)

\* Every process that can run does, and the senders that wait for room in a
\* queue get it in turn.  Nobody has to type anything.
Spec ==
  /\ Init /\ [][Next]_vars
  /\ WF_vars(ServerStep)
  /\ \A c \in Clients : WF_vars(ClientStep(c)) /\ SF_vars(SendStop(c))

-----------------------------------------------------------------------------
Messages == [type : {"INIT", "ORDER", "END", "STOP"}, pid : Clients]

TypeOK ==
  /\ server \in {"loop", "exit", "gone"}
  /\ ended \in [cause : {"no", "END", "SIGINT", "error"}, pid : Clients \cup {NoPid}]
  /\ clients \in [Slots -> Clients \cup {NoPid}]
  /\ clients_count \in 0 .. Cardinality(Clients)
  /\ names \subseteq Clients \cup {Server}
  /\ requests \in Seq(Messages) /\ Len(requests) <= MQ_MAXMSG
  /\ answers \in [Clients -> 0 .. MQ_MAXMSG]
  /\ client \in [Clients -> {"start", "opened", "connecting", "ready", "waiting",
                             "exit", "unlink", "gone"}]
  /\ deserted \subseteq interrupted /\ interrupted \subseteq Clients

Waiting(c) == client[c] \in {"connecting", "waiting"}

UnderWay(c, types) ==
  Cardinality({i \in DOMAIN requests : requests[i].pid = c /\ requests[i].type \in types})

Refused(c) ==
  /\ client[c] = "connecting" /\ UnderWay(c, {"INIT"}) = 0 /\ answers[c] = 0
  /\ clients_count > MAX_CLIENTS

\* As long as the server is in its loop, a client that waits has exactly one
\* request or one answer under way, or was refused; a client that does not wait
\* has none.  The server hence never blocks on a full queue of a client.
OneAnswerEach ==
  server = "loop" => \A c \in Clients :
    /\ Waiting(c) =>
         \/ UnderWay(c, {"INIT", "ORDER"}) + answers[c] = 1
         \/ Refused(c) /\ \A i \in Slots : clients[i] # c
    /\ client[c] = "ready" => UnderWay(c, {"INIT", "ORDER"}) + answers[c] = 0

\* The server finds the queue of every client that works with it, in exactly one
\* entry, and has closed the queue of every client that left and whose messages
\* it has all read, unless that one was interrupted on its way out.
TableFollowsClients ==
  server = "loop" => \A c \in Clients :
    LET entries == {i \in Slots : i < clients_count /\ clients[i] = c}
    IN  /\ client[c] \in {"ready", "waiting"} => Cardinality(entries) = 1
        /\ client[c] = "gone" /\ entries # {} => c \in interrupted \/ UnderWay(c, {"STOP"}) = 1

\* Queues, table and clients agree, however their steps interleave.
Consistent == TypeOK /\ OneAnswerEach /\ TableFollowsClients

\* The server never dies on a client's queue unless that very client was
\* interrupted before the queue had been opened; later the queue stays open whatever the client does.
ErrorsOnlyOnDesertion == ended.cause = "error" => ended.pid \in deserted

\* A client that leaves, for whatever reason, gets past its last message as long
\* as the server runs, although others fill the queue.
LeaversGetAway ==
  \A c \in Clients : client[c] = "exit" ~> client[c] = "gone" \/ ended.cause # "no"

\* A request in the queue of a running server is answered, unless its client is
\* refused or interrupted or the server ends.
RequestsAnswered ==
  \A c \in Clients :
    server = "loop" /\ Waiting(c) /\ UnderWay(c, {"INIT", "ORDER"}) = 1
      ~> client[c] = "ready" \/ Refused(c) \/ c \in interrupted \/ ended.cause # "no"

\* Nobody waits for ever on a full queue or for an answer of a running server.
Progress == LeaversGetAway /\ RequestsAnswered

\* The queue of a running server can be found by its name: what the exit handler
\* of a server removes is its own queue, "remove server queue".
RunningServerIsFound == server = "loop" => Server \in names
=============================================================================

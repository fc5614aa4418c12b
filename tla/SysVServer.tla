----------------------------- MODULE SysVServer ------------------------------
(***************************************************************************)
(* src/lab06-Queues/zad1: a server that answers requests over System V     *)
(* message queues, one queue for the requests to it and one for the        *)
(* answers to each client.                                                 *)
(*                                                                         *)
(* MIRROR, CALC and TIME are one type of request here, "ORDER": their      *)
(* handlers compute a text and send one answer.  msgrcv() of a request and *)
(* its handler are one step, since nothing else changes what the handler   *)
(* reads.  A queue of System V has room for hundreds of these messages and *)
(* a client has at most two under way, so that msgsnd() does not block.    *)
(* Behind the end of the table, where the code looks once clients_count    *)
(* has passed MAX_CLIENTS, no pid is found.                                *)
(***************************************************************************)
EXTENDS Integers, Sequences, FiniteSets

CONSTANTS
  Clients,        \* client processes, each with its pid and its own queue
  Server,         \* the server, and its queue
  NoPid,          \* the pid of an entry that has been disabled, -1
  MAX_CLIENTS,
  MaxInterrupted  \* bound on the number of clients whose users interrupt them

ASSUME NamesAssumption ==
  IsFiniteSet(Clients) /\ Server \notin Clients /\ NoPid \notin Clients \cup {Server}

ASSUME LimitAssumption == MAX_CLIENTS \in Nat \ {0} /\ MaxInterrupted \in Nat

VARIABLES
  server,         \* "loop", "exit" while the exit handler runs, or "gone"
  server_status,  \* TRUE until an END was handled
  ended,          \* history: why the server left its loop, and whose answer failed
  clients,        \* the table: the pid in each entry
  clients_count,
  queues,         \* the message queues that exist
  requests,       \* the messages in the server's queue
  answers,        \* the number of messages in the queue of each client
  client,         \* where each client is
  interrupted,    \* history: the clients that got a SIGINT
  deserted        \* history: those of them that were waiting for an answer

table   == <<clients, clients_count>>
message == <<queues, requests, answers>>
history == <<interrupted, deserted>>
vars    == <<server, server_status, ended, table, message, client, history>>

Slots == 0 .. MAX_CLIENTS - 1

\* The server has made its queue; the clients have made theirs.
Init ==
  /\ server = "loop"
  /\ server_status = TRUE
  /\ ended = [cause |-> "no", pid |-> NoPid]
  /\ clients = [i \in Slots |-> NoPid]
  /\ clients_count = 0
  /\ queues = Clients \cup {Server}
  /\ requests = <<>>
  /\ answers = [c \in Clients |-> 0]
  /\ client = [c \in Clients |-> "start"]
  /\ interrupted = {}
  /\ deserted = {}

-----------------------------------------------------------------------------
(* The server.                                                             *)

\* exit(), wherever it is called: the exit handler comes next.
ServerExits(cause, pid) == server' = "exit" /\ ended' = [cause |-> cause, pid |-> pid]

ServerGoesOn == UNCHANGED <<server, ended>>

\* Mutant of get_client_queue: stops one entry early.
SearchAllButLast(entries, count, pid) ==
  IF \E i \in Slots : i < count - 1 /\ entries[i] = pid THEN pid ELSE NoPid

\* The queue that get_client_queue finds for a pid, or none.
get_client_queue(entries, count, pid) ==
  IF \E i \in Slots : i < count /\ entries[i] = pid THEN pid ELSE NoPid

\* send_response to a client, whose queue may be gone: msgsnd() then fails.
send_response(pid, queue) ==
  \/ /\ queue \in queues
     /\ answers' = [answers EXCEPT ![queue] = @ + 1]
     /\ ServerGoesOn
  \/ /\ queue \notin queues
     /\ ServerExits("error", pid)
     /\ UNCHANGED answers

Receive(c, type) ==
  /\ server = "loop"
  /\ requests # <<>> /\ Head(requests) = [type |-> type, pid |-> c]
  /\ requests' = Tail(requests)
  /\ UNCHANGED <<queues, client, history>>

\* handle_request_init counts the client before it looks at the limit, and
\* sends no answer to a client above it.
Refuse(c) ==
  /\ Receive(c, "INIT")
  /\ clients_count >= MAX_CLIENTS
  /\ clients_count' = clients_count + 1
  /\ ServerGoesOn
  /\ UNCHANGED <<server_status, clients, answers>>

Admit(c) ==
  /\ Receive(c, "INIT")
  /\ clients_count < MAX_CLIENTS
  /\ clients_count' = clients_count + 1
  /\ clients' = [clients EXCEPT ![clients_count] = c]
  /\ send_response(c, get_client_queue(clients', clients_count', c))
  /\ UNCHANGED server_status

handle_request_end(c) ==
  /\ Receive(c, "END")
  /\ server_status' = FALSE
  /\ ServerGoesOn
  /\ UNCHANGED <<table, answers>>

\* The entry is disabled and stays counted: no later client gets it.
handle_request_stop(c) ==
  /\ Receive(c, "STOP")
  /\ clients' = [i \in Slots |-> IF i < clients_count /\ clients[i] = c THEN NoPid ELSE clients[i]]
  /\ ServerGoesOn
  /\ UNCHANGED <<server_status, clients_count, answers>>

\* Mutant of handle_order: goes on after the answer to a request with arguments
\* missing, and answers once more.
AnswerTwice(c) ==
  /\ Receive(c, "ORDER")
  /\ get_client_queue(clients, clients_count, c) \in queues
  /\ answers' = [answers EXCEPT ![c] = @ + 2]
  /\ ServerGoesOn
  /\ UNCHANGED <<server_status, table>>

\* handle_request_mirror, handle_request_calc and handle_request_time.
handle_order(c) ==
  /\ Receive(c, "ORDER")
  /\ send_response(c, get_client_queue(clients, clients_count, c))
  /\ UNCHANGED <<server_status, table>>

\* Mutant of LeaveLoop: tests the status before each request, as zad2 does.
LeaveAtOnce ==
  /\ server = "loop"
  /\ ~server_status
  /\ ServerExits("END", NoPid)
  /\ UNCHANGED <<server_status, table, message, client, history>>

\* Once stopped, the server leaves its loop when it finds its queue empty.
LeaveLoop ==
  /\ server = "loop"
  /\ ~server_status /\ requests = <<>>
  /\ ServerExits("END", NoPid)
  /\ UNCHANGED <<server_status, table, message, client, history>>

\* handle_exit removes the queue with all that is in it.
RemoveServerQueue ==
  /\ server = "exit"
  /\ server' = "gone"
  /\ queues' = queues \ {Server}
  /\ requests' = <<>>
  /\ UNCHANGED <<server_status, ended, table, answers, client, history>>

\* handle_sigint.  A second exit() skips the handler that is running.
InterruptServer ==
  /\ server \in {"loop", "exit"}
  /\ IF server = "loop" THEN ServerExits("SIGINT", NoPid) ELSE server' = "gone" /\ UNCHANGED ended
  /\ UNCHANGED <<server_status, table, message, client, history>>

ServerStep ==
  \/ LeaveLoop \/ RemoveServerQueue
  \/ \E c \in Clients :
       \/ Refuse(c) \/ Admit(c) \/ handle_order(c)
       \/ handle_request_end(c) \/ handle_request_stop(c)

-----------------------------------------------------------------------------
(* The clients.  "exit" and "exit without server" are the exit handler with *)
(* server_queue_id set and not set; "close" is what it does last.          *)

ClientGoes(c, from, to) ==
  /\ client[c] = from
  /\ client' = [client EXCEPT ![c] = to]
  /\ UNCHANGED <<server, server_status, ended, table, history>>

\* setup_server_queue, whether the queue is there or not.
OpenServerQueue(c) ==
  /\ ClientGoes(c, "start", IF Server \in queues THEN "opened" ELSE "close")
  /\ UNCHANGED message

\* msgsnd() to the server, and what follows if it has removed its queue.
Send(c, type, from, to, failed) ==
  /\ ClientGoes(c, from, IF Server \in queues THEN to ELSE failed)
  /\ requests' = IF Server \in queues THEN Append(requests, [type |-> type, pid |-> c])
                                      ELSE requests
  /\ UNCHANGED <<queues, answers>>

connect(c) == Send(c, "INIT", "opened", "connecting", "exit")

\* execute_line, for the orders that wait for an answer, and for END, after
\* which the client forgets the server's queue and exits.
SendOrder(c) == Send(c, "ORDER", "ready", "waiting", "exit")

SendEnd(c) == Send(c, "END", "ready", "ending", "exit")

ForgetServer(c) == ClientGoes(c, "ending", "close") /\ UNCHANGED message

TakeAnswer(c) ==
  /\ \E place \in {"connecting", "waiting"} : ClientGoes(c, place, "ready")
  /\ answers[c] > 0
  /\ answers' = [answers EXCEPT ![c] = @ - 1]
  /\ UNCHANGED <<queues, requests>>

EndOfInput(c) == ClientGoes(c, "ready", "exit") /\ UNCHANGED message

\* handle_exit.  A failing send_request calls exit() again, which skips the rest.
SendStop(c) == Send(c, "STOP", "exit", "close", "gone")

RemoveOwnQueue(c) ==
  /\ ClientGoes(c, "close", "gone")
  /\ queues' = queues \ {c}
  /\ answers' = [answers EXCEPT ![c] = 0]
  /\ UNCHANGED requests

\* handle_sigint, at any time.
InterruptClient(c) ==
  /\ client[c] # "gone"
  /\ client' = [client EXCEPT ![c] = CASE @ = "start" -> "close"
                                       [] @ \in {"exit", "close"} -> "gone"
                                       [] OTHER -> "exit"]
  /\ interrupted' = interrupted \cup {c}
  /\ Cardinality(interrupted') <= MaxInterrupted
  /\ deserted' = IF client[c] \in {"connecting", "waiting"} THEN deserted \cup {c} ELSE deserted
  /\ UNCHANGED <<server, server_status, ended, table, message>>

ClientStep(c) ==
  \/ OpenServerQueue(c) \/ connect(c) \/ TakeAnswer(c)
  \/ ForgetServer(c) \/ SendStop(c) \/ RemoveOwnQueue(c)

\* What the user of a client does.
User(c) == SendOrder(c) \/ SendEnd(c) \/ EndOfInput(c) \/ InterruptClient(c)

Next ==
  \/ ServerStep \/ InterruptServer
  \/ \E c \in Clients : ClientStep(c) \/ User(c)

\* Every process that can run does; nobody has to type anything.
Spec ==
  /\ Init /\ [][Next]_vars
  /\ WF_vars(ServerStep)
  /\ \A c \in Clients : WF_vars(ClientStep(c))

-----------------------------------------------------------------------------
Messages == [type : {"INIT", "ORDER", "END", "STOP"}, pid : Clients]

TypeOK ==
  /\ server \in {"loop", "exit", "gone"}
  /\ server_status \in BOOLEAN
  /\ ended \in [cause : {"no", "END", "SIGINT", "error"}, pid : Clients \cup {NoPid}]
  /\ clients \in [Slots -> Clients \cup {NoPid}]
  /\ clients_count \in 0 .. Cardinality(Clients)
  /\ queues \subseteq Clients \cup {Server}
  /\ requests \in Seq(Messages)
  /\ answers \in [Clients -> Nat]
  /\ client \in [Clients -> {"start", "opened", "connecting", "ready", "waiting",
                             "ending", "exit", "close", "gone"}]
  /\ deserted \subseteq interrupted /\ interrupted \subseteq Clients

Waiting(c) == client[c] \in {"connecting", "waiting"}

UnderWay(c, types) ==
  Cardinality({i \in DOMAIN requests : requests[i].pid = c /\ requests[i].type \in types})

Refused(c) ==
  /\ client[c] = "connecting" /\ UnderWay(c, {"INIT"}) = 0 /\ answers[c] = 0
  /\ clients_count > MAX_CLIENTS

\* As long as the server is in its loop, a client that waits has exactly one
\* request or one answer under way, or was refused; a client that does not wait
\* has none.  A second answer would be taken for the one to the next request.
OneAnswerEach ==
  server = "loop" => \A c \in Clients :
    /\ Waiting(c) =>
         \/ UnderWay(c, {"INIT", "ORDER"}) + answers[c] = 1
         \/ Refused(c) /\ \A i \in Slots : clients[i] # c
    /\ client[c] = "ready" => UnderWay(c, {"INIT", "ORDER"}) + answers[c] = 0

\* The server finds the queue of every client that works with it, in exactly one
\* entry, and forgets those that left: an entry whose client is gone belongs to
\* one that sent the END, whose STOP is still to be read, or that was interrupted.
TableFollowsClients ==
  server = "loop" => \A c \in Clients :
    LET entries == {i \in Slots : i < clients_count /\ clients[i] = c}
    IN  /\ client[c] \in {"ready", "waiting"} => Cardinality(entries) = 1
        /\ client[c] = "gone" /\ entries # {} =>
             \/ c \in interrupted
             \/ UnderWay(c, {"STOP", "END"}) = 1
             \/ ~server_status

\* Queues, table and clients agree, however their steps interleave.
Consistent == TypeOK /\ OneAnswerEach /\ TableFollowsClients

\* The server never dies on an answer unless the very client it was for was
\* interrupted while it waited.
ErrorsOnlyOnDesertion == ended.cause = "error" => ended.pid \in deserted

\* A request in the queue of a server in its loop is answered, END or no END:
\* the client goes on, unless it is refused or interrupted, or the server
\* ends for another reason than END.
RequestsAnswered ==
  \A c \in Clients :
    server = "loop" /\ Waiting(c) /\ UnderWay(c, {"INIT", "ORDER"}) = 1
      ~> \/ client[c] = "ready" \/ Refused(c) \/ c \in interrupted
         \/ ended.cause \in {"SIGINT", "error"}

=============================================================================

# TLA+ models of the operating-systems labs

The repository holds ten labs in C. Labs 4 to 10 are concurrent programs:
signals, pipes, message queues, semaphores, threads, condition variables and
sockets. Labs 1 to 3 are sequential. This directory holds TLA+ models of the
concurrent programs and of the one sequential program that can be killed half
way, the TLC configurations that check them, and proofs that the TLA+ proof
system (tlapm) checks.

To check a model: `tlc -config MCMutexBuffer.cfg MCMutexBuffer`.
To check the proofs: `tlapm CommonLemmas.tla`, then the same for each module whose name
ends with `Proofs`.

## 1. Inventory

| Part | State | Operations | What is hard | What makes it correct |
|---|---|---|---|---|
| lab 9 zad1, producers and consumers, mutex and condition variable | ring of lines (`queue`, `queue_head`, `queue_tail`), `finished`, position in the input file, mutex, condition variable | `produce`, `consume`, `main` | one condition variable for two kinds of waiting threads; end of input met by several producers; time limit | no lost wake-up, bounded FIFO queue, lines printed once and in order, everybody finishes |
| lab 9 zad2, the same with semaphores | the same, three semaphores | the same | a permit is taken before the critical section; an empty queue means "finished" | permits match slots and lines at every point; the same FIFO queue |
| lab 7 zad1 and zad2, barber shop | shared memory (`chair`, status, ring of pids), semaphores DATA, CHAIR and DONE, a signal | `handle_shop`, `visit_shop`, set-up, SIGINT | processes, an invitation by signal, one semaphore used in two directions, chair read without DATA; customers that come during the set-up, SIGINT under waiting customers, a second barber | FIFO service, one client in the chair, no missed wake-up, everybody served; nobody forgotten who found an open shop |
| lab 10, task server and clients | table of clients, round-robin index, mutex, connections, messages | accept, register, ping and answer, task and result, hang up, drop | three threads, some accesses without the mutex, clients that exit or freeze, write to a closed peer | consistent table, replies in order, the right client dropped, dead clients removed |
| lab 6 zad1 and zad2, message-queue server | table of clients, `clients_count`, server and client queues, `server_status` | INIT, STOP, END, MIRROR, CALC, TIME | slots never reused, limit of 10, END against requests under way, client queues removed | every request answered or refused |
| lab 4 zad2, permits by real-time signals | pids and statuses of children, `main_status` | SIGUSR1, SIGCHLD, SIGRT, SIGINT handlers | handler interrupts the creation of children | no permit before K requests, all granted after |
| lab 4 zad3, signal echo | four counters | three ways of sending | standard signals coalesce, counter tested before `sigsuspend`, a counter incremented by program and handler | no count without a signal, enough signals sent, both processes end |
| lab 4 zad1, stop and resume | `waiting`, pid of the child | SIGTSTP, SIGINT | a signal before the pid is stored, before `pause`, or in the child itself | one script at a time, none while stopped or after the end |
| lab 5 zad1, pipelines | pipes, pids | run a line | ends of pipes kept open | everybody sees the end of the input; the line ends when its commands do |
| lab 5 zad2, a named pipe | the pipe and its name | master: make, read, close, remove; slaves: open, write, close | slaves that come while the master leaves | lines of slaves in time are printed, and they end |
| lab 8, image filter | batches, output | `calculate` per thread | rounding of the batch size | batches cover the image once, inside it; every pixel from its window |
| lab 2 zad1, record files | a file, the buffer of stdio | sort in place, copy | killed half way and repeated; output that exists, or is the input | sorted stably, at most one record lost per crash, faithful copies |
| lab 1, block arrays; lab 2, directory walk; lab 3, interpreters | arrays | find, compare, fork and wait | boundaries | not modelled, see section 6 |

Interaction is by shared memory (labs 7, 8 and 9), messages (5, 6 and 10) and
signals (4 and 7). Only lab 2 persists anything; no program recovers after a crash.
PROJECT.json lists each component, and each hazard at its line.

## 2. Modules

| Module | Models |
|---|---|
| `LineInput` | input file and filter that both programs of lab 9 share |
| `LineChannel` | abstract: a bounded FIFO channel from writers to readers |
| `MutexBuffer` | lab 9 zad1; implements `LineChannel` |
| `SemBuffer` | lab 9 zad2; implements `LineChannel` |
| `BarberService` | abstract: one chair and a bounded FIFO waiting line |
| `BarberShop` | the protocol of lab 7; implements `BarberService` |
| `NetServer` | lab 10: server threads, both sockets, clients |
| `SysVServer` | lab 6 zad1: server and clients over System V message queues |
| `PosixServer` | lab 6 zad2: the same over POSIX message queues |
| `PermitServer` | lab 4 zad2: requests and permits by signals |
| `ShopLifecycle` | lab 7: set-up, SIGINT and a second barber around `BarberShop`, which it extends |
| `SignalEcho` | lab 4 zad3: the three ways of sending |
| `RecordFiles` | lab 2 zad1: sort and copy by system calls or stdio, under crashes |
| `ImageFilter` | lab 8: batches, threads and indices |
| `StopResume` | lab 4 zad1: `main2.c` |
| `Pipeline` | lab 5 zad1: one line of commands |
| `NamedPipe` | lab 5 zad2: master and slaves |
| `MC...` | the instances TLC checks, where constants need more than a .cfg |
| `CommonLemmas` | lemmas that several proofs need: indices modulo the size of a ring, least elements, sizes of sets that change by one element, what a sequence holds |
| `MutexBufferProofs`, `SemBufferProofs`, `NetServerProofs`, `SysVServerProofs`, `PosixServerProofs` | proofs about the module of that name |
| `BarberShopProofs` | proofs about `BarberShop` and `ShopLifecycle` |
| `SmallProgramsProofs` | proofs about `ImageFilter`, `StopResume`, `SignalEcho`, `PermitServer`, `Pipeline`, `NamedPipe` and `RecordFiles` |

Names follow the code: a variable is the C variable, an action is a function or
the part of one that runs without another process being able to look. Where the
code has no name (`EncounterEOF`, `ConsumerLeaves`) the action is named for the
branch. A small program's name, or that of its part, stands before names that
several of these programs use (`stop_main`, `echo_handle_SIGINT`, `file_i`, `cmd_i`, `slave_N`), so
that one module can hold proofs about all of them. Operators whose comment starts with "Mutant of" are deliberately wrong
variants of the next definition; they show that the properties notice. No
specification uses them.

### Lab 9, zad1: MutexBuffer

`pc[t]` is where a thread is: `none` before `pthread_create`, `ready` before
`pthread_mutex_lock`, `locked`, `waiting` inside `pthread_cond_wait`, `left`
after it returned. `Lock` and the waits are steps of their own. The rest of a
critical section, with its broadcast and unlock, is one step: nobody can see
inside it. A thread that wakes tests its condition again, so it continues at
`ready`. `SpuriousWakeup` is the freedom POSIX gives `pthread_cond_wait`.
`position` stands for the state of `FILE* input`. A line is its number in the
file; of its text only the length counts, and cutting off the last character is
modelled (`StoredLength`). A push into a full queue would end the process, as in the
code; a producer tests for that in the same critical section, so no run has a property
about it, and the proofs note it in passing (`NoFailure`).
`TimeLimitReached` is `main` returning after `sleep(limit)`, whatever the
threads are doing.

### Lab 9, zad2: SemBuffer

Each `sem_wait` and each `sem_post` is a step. `posts[t]` holds the `sem_post`s
that a thread still has to make, in the order of the code, so that another
thread can run between any two of them.

### Lab 7: BarberShop

`barber` and `customer[c]` are places in `handle_shop` and `visit_shop`. A
customer is inside while it holds DATA. The signal is a count of pending
invitations, delivered in `sigsuspend` only, because it is blocked elsewhere.
`queue_pop` in `visit_shop` ignores which pid it removes, and so does the
action; that the pid is its own is part of `ImplementsService`. zad2 has the same
calls in the same order on POSIX semaphores.

### Lab 7: ShopLifecycle

`stage` follows the barber through `setup_semaphores` and `setup_shop`, `names`
is what can be found by key or by name, and `member[c]` is how far a customer
got with the same: it opens the semaphores, then maps the shop, then its visits
are those of `BarberShop`. `program` says which of the two programs it is. They differ in

* the semaphores, which zad1 creates with the value 0 and sets afterwards;
* the shared memory, which in zad2 has no size until `ftruncate`: a customer that
  looks at it before that dies of SIGBUS, with DATA taken (`BusError`);
* the removal, which in zad1 makes every semaphore operation fail, those under
  way too, and in zad2 takes only the names;
* the exit handler of a second barber, which has nothing to remove in zad1 and
  removes the names of the open shop in zad2 (`SecondBarber`).

`queue_init` takes no semaphore. Its first line gives the shop its seats, and from
then until it has reset head and tail customers may come. Sitting down is therefore three
steps during that time: `WriteSlot`, `ReadTail` and `WriteTail` are `queue_push`, and
`pushing` and `tail_read` say how far the one customer that holds DATA got. The reset
(`ResetQueue`) may fall between any two of them, so that the queue holds a slot that
nobody wrote or lacks a customer who thinks it is in it. `early` is who was waiting or
within `queue_push` at the reset, and `Forgotten` who waits and is neither in the queue nor
invited. Once the shop is open nothing interferes, and sitting down is the one step of
`BarberShop`.

### Lab 10: NetServer

A descriptor is the client connected to it. Critical sections that the
unlocked accesses of the server thread can fall into (sending a ping or a task)
are two steps, with `mutex_data` held in between; so are `handle_disconnect`
and `handle_message_ping`, which hold no mutex. `poll` is modelled with what it
reports (`Events`), and each round handles hang-ups before messages, in the
order of the table, as the code does. `read` and `write` on a descriptor that
was removed, reset or closed have their real effect: the server ends. A `write`
to a connection that is full (`Full`, at `SocketRoom` messages) waits, with the mutex
held. The pinger's test of the answer and its removal of the client are two steps too
(`Timeout`, `Drop`): the mutex is held in between, but the server thread records answers
and hang-ups without it.

The pinger's timeout can race with an answer. Then the code does what
`WriteStatus` says, which writes back the status that was read: a free slot may become
registered. `timely`, chosen in `Init`, tells whether timeouts are long
enough for this not to happen. `RepliesFirst`, `WorkersListed` and
`GoneIsRemoved` are about timely behaviours; without timeliness the first two
do not hold, and the hazard list says so. `Consistent` and
`DropsOnlyPinged` hold in both.

Console and pinger take turns on one round robin, so a client that is gone may always get
the console's turn and never be pinged. It then gets tasks without end, and either a write
ends the server or its connection is full and the console waits for ever, with the mutex
(`Jammed`). The same happens to a client that works, if its results fill its own connection
while the server thread waits for the mutex. `GoneIsRemoved` names these ends.

### Lab 6: SysVServer and PosixServer

`client[c]` is where a client is: `start` (its own queue exists), `opened`,
`connecting` and `waiting` (blocked in the two receives), `ready` for a line,
`exit` and `close` or `unlink` (the two halves of its exit handler), `gone`. In zad1
`ending` is between the END and forgetting the server's queue: a client interrupted there
sends a STOP behind its END. `ended` records why the server left its loop, and on which
client's answer or INIT if it was one. The
server reads a request and handles it in one step: nobody else changes the table,
and whether the client's queue exists is looked up when the answer is sent.
Between leaving its loop and removing its queue others act (`exit`).

`exit()` within an exit handler skips what is left of that handler: that is how
glibc treats a failing `send_request` there, or a second SIGINT. The models have
those steps, with the queues they leave behind.

zad1: a queue that is removed takes its messages with it (`RemoveServerQueue`),
and sending to it fails. Its size is no bound, as a client has at most two
messages under way and a queue holds hundreds. After an END the server goes on
until it finds its queue empty.

`clients_count` only grows (`server.c:61`): leavers do not make room.

zad2: `names` says which queues can be opened by name; a queue that somebody has
open lives on without a name, so sending never fails, but blocks when there are
`MQ_MAXMSG` messages. The server stops as soon as it has read END. A second
server (`StartSecondServer`) finds the queue in existence, exits, and its exit
handler removes the name.

### Lab 4, zad2: PermitServer

The handlers of the parent block each other, so each is one step, which may come
between any two statements of the loop that creates the children (`Fork`,
`StorePid`, `StoreStatus`). Pending signals are delivered in the order of their
numbers. SIGCHLD is a flag that does not count deaths; real-time signals
queue. Control-C reaches the whole group, and `kill` with a pid that is still 0
does too (`Killed`).

A child sleeps `rand() % 11` seconds. With 0 its request may come before the
parent has stored its pid, which ends the parent, or before its status is set,
which loses the request; both are steps of the model. `timely`, chosen in
`Init`, tells whether children sleep long enough; `RequestsRemembered` (a part
of `PermitsFollowRequests`) and `ProgramEnds` are about those behaviours only. So is
the second half of `NobodyLeftBehind`: `exit(1)` at a request of an unknown pid
(`ended = "unknown"`) does not happen then. Otherwise it does, and children that
wait for their permit are left behind; the first half is about all other ends.

### Lab 4, zad3: SignalEcho

Pending signals are counts; a standard signal's count is at most 1 (`OneMore`).
A handler is one step between any two steps of the code it interrupts, since the
handlers block each other. `TestCounter` and `Suspend` are two steps, and so are
`kill` and the counting behind it in `main_type2`. `CountFirst` adds one to a
value that the counter had at any time since the `kill`: `counter_main_sent++` is no atomic
operation. `prompt`, chosen in `Init`, tells whether `sleep(1)` was enough for the
child to set its handlers. `sa_flags`, which the program never sets, is taken to have no SA_RESETHAND.

### Lab 4, zad1: StopResume

`handle_SIGTSTP` waits in `sigsuspend` inside of the handler: `waiting` is
both that and the variable of the code. Signals from the keyboard reach the
child too, which has its parent's handlers until it ignores the signals, and
kills the pid it inherited: that of the child before it, or -1. After
`kill(-1, SIGKILL)` the model stops (`massacre`).

### Lab 5, zad1: Pipeline

`held[p]` is the set of ends of pipes that a process has open: a child gets what its
parent had when it was forked. Commands are abstracted to how many items they
read before they exit (the first one: writes), from none, which is also one that could not be
executed; each item read is written on. `PipeStopped` says in which
states nobody has anything to do.

### Lab 5, zad2: NamedPipe

A line in the pipe is the slave that wrote it. `open()` waits for the other end,
so `OpenFifo` lets waiting slaves go on and `OpenForWriting` a waiting master. The
end of the lines, `fclose` and `remove` are three steps; `late` and `stranded`
collect the slaves that open the pipe between them.

### Lab 8: ImageFilter

The value of an output pixel is abstracted to the function from entries of the
filter to the pixels they are multiplied with. `behind` collects indices behind
the output that are written. The block behind it is that of the batches, allocated next
(`main.c:158-162`), with the limits the other threads go by; so after such a write
`OverwriteBatches` may end the threads anywhere and leave any values (`Unknown`).
`FilterRight` says exactly when it comes to that (not `BatchesFit`), and claims the output to be
right only when it does not.

### Lab 2, zad1: RecordFiles

A record is its key (first byte) and where it comes from. With `sys` a write is
stored at once; with `lib` it is `unstored` until the position is set, the file
closed, the program exits, or stdio likes (`StdioStores`). `Crash` loses what is unstored and
what is in memory; `Repeat` is the user who gives the same command again. The
two sorts are one set of actions, as they do the same calls in the same order.

## 3. Runs

| Run | Instance | What it shows |
|---|---|---|
| `mutex_buffer` | 3 producers, 2 consumers, queue of 2, 5 lines, 1 spurious wake-up | no lost wake-up (`SleepersHaveReason`), `OutputFaithful`, refinement of the channel, every thread finishes (`AllFinish`) |
| `sem_buffer` | 2 producers, 2 consumers, queue of 2, 5 lines | permits match slots and lines between any two posts, and the queue never overflows (`PermitsGuardQueue`); the same refinement and `AllFinish` |
| `barber_shop` | 4 customers, 2 of them come twice, 2 seats | `RolesAgree`: DATA excludes, the barber cuts whom he thinks, invites only those who wait and does not sleep while somebody waits; FIFO service, `AllServed` |
| `shop_lifecycle` | 3 customers, 2 seats, both programs | who waits in an open shop is in the queue or has been called, except those that were there, or on the way into the queue, when it was emptied (`NobodyForgotten`); who found the shop is served, with the exceptions the property names (`FoundIsServed`); SIGINT ends everybody in zad1 but those that wait for the barber's signal (`ClosingEndsCustomers`) |
| `net_server` | 1 net client and 2 local clients, 2 slots, two clients want one name, 4 events | table and handshake under the three threads |
| `net_server_live` | 1 net and 1 local client, 3 events, any number of tasks, 2 messages in a connection | `GoneIsRemoved`: a client that exits or freezes loses its slot, or the server has ended, or is jammed for good |
| `sysv_server` | 3 clients, table of 2, 1 client interrupted | `Consistent`: one answer for each request, the table finds the clients that work; `RequestsAnswered`; `ErrorsOnlyOnDesertion`: if the server dies on an answer, the client it was for was interrupted while it waited |
| `posix_server` | 3 clients, table of 2, queues of 1, 1 client interrupted | `Consistent` as above; `ErrorsOnlyOnDesertion`: if the server dies on a client's queue, that client was interrupted while it connected; `Progress`: requests are answered and no client is stuck in its exit handler while the server runs |
| `posix_server_twice` | 2 clients | violated: a second server takes the name from the queue of the first |
| `permit_server` | 4 children, permits from the 2nd request on | no permit before the K-th request, none forgotten (`PermitsFollowRequests`); no child left when the parent returns or is interrupted, and no other end with children that sleep (`NobodyLeftBehind`); with those it ends (`ProgramEnds`) |
| `signal_echo` | up to 4 messages, each TYPE | `Accounted`: nothing is lost with TYPE 2 and 3; `SendsEnough`: TYPE 2 sends L to 2L; `AllEnd`, and the two situations in which TYPE 1 and 3 wait for ever |
| `small_programs` | files of up to 4 records with 3 keys, 2 crashes; images up to 3 x 3, 10 threads, filters up to 3; 3 scripts; 3 commands, 3 items, pipes of 1; 3 slaves, 2 lines each, a pipe of 2 | `OneLostPerCrash`; a sort that ends is stable and leaves the rest alone (`SortedStably`); a copy is faithful, also when it is killed and repeated or the output exists (`CopyFaithful`); the filter's output is right when nothing is written behind it, and when that is (`FilterRight`); `TerminalObeyed`; the end of the input reaches every command (`EndReachesAll`), and a line hangs only before a full pipe that is left (`OnlyLeftFullPipesBlock`); slaves in time lose nothing (`OnlyLatecomersLose`), and only those between `fclose` and `remove` wait for ever (`OnlyStrandedWait`) |

`small_programs` holds five programs that have nothing to do with each other. Each
behaviour is one of them: `program` chooses, and the others stand still.

Why these bounds are enough. The rings are smaller than what goes through them,
so that they fill, empty and wrap more than once. There are more producers than
slots, more customers than seats and chair together, and more clients than
slots. Two threads of a kind are enough for one to overtake another; with three
producers several meet the end of the input while others wait. Customers that
come twice meet a signal handler and a ring that served them before.
`MaxSpurious` bounds spurious wake-ups, and `MaxEvents` bounds what users do
(start, stop or freeze a client, type a task); four events include start,
start, stop, start, where a slot is given to another client. In `net_server_live` tasks do
not count (`CountTasks`): there are as many as somebody types, so that the console can take
any share of the round robin, and start, start, stop is what its property needs. Pings and
messages are bounded by `SocketRoom` only: two messages are enough for a ping or a task to
meet another message, and for a connection to be full. In lab 6 there is one client more than the table
holds, so that one is refused, and the queues of `posix_server` are shorter than
the messages of even one client. `MaxInterrupted` bounds the clients that
get a SIGINT, each as often as it likes; the server gets them without a bound, and
so do the clients their orders, since a client that has its answer is where it was.
Four children with two requests to wait for let permits be given while children
are being created, requests collect before that, and several children die at once.
Three customers with two seats suffice for `shop_lifecycle`: one waits and one is within
`queue_push` at the reset, or is killed, when the third comes. With two seats the slot that
a split push wrote and the one the tail points to differ. Four messages in a row are more than a
standard signal can hold and let the echoes of several be under way. Four records with three keys
have equal keys apart and next to each other and one key above 127, which is negative in a
`char`; 10 threads are more than the 9 pixels; three commands have one that is neither first nor last; of three slaves one can come in time, one late and
one too late.

`CHECK_DEADLOCK FALSE` is set where the system really may stop: the barber
sleeps when the last customer has gone, the server of lab 10 waits for clients, and a client of lab 6 waits for ever
for a server that refused it or has gone.

### Fairness

* Lab 9: weak fairness of each thread and of `main`. The scheduler runs every
  thread that can run. Nothing is assumed of the order in which a mutex or a
  semaphore is granted: `AllFinish` holds without it, because the queue blocks
  whoever overtakes.
* Lab 7: weak fairness of each process, and strong fairness of taking DATA.
  System V semaphores serve sleeping processes in the order of their calls; a
  customer that finds the waiting room full tries again at once, and without
  this order it could overtake the others for ever. POSIX does not promise the
  order for `sem_wait`, so for zad2 `AllServed` is conditional on it.
* Lab 10: weak fairness of the clients and the sending of a chosen task; strong
  fairness of the server thread and of the pinger, which compete for the mutex with
  each other and with a console that waits for the keyboard most of the time. Nobody has to
  type, exit or freeze.
* Lab 6: weak fairness of the server and of each client, none of what users do.
  In zad2 strong fairness of the last message of a client, which waits for room
  in the queue while others use it: Linux gives the room to the
  sender that has waited longest. With weak fairness `Progress` does not
  hold: another client's orders could always come first.
* Lab 4: weak fairness of the parent, of the delivery of its signals, and of each
  child. Nobody has to press Control-C.
* `ShopLifecycle`: that of `BarberShop`, and of the set-up. Nobody has to close
  the shop or to start a second barber.
* `RecordFiles`, `ImageFilter`, `StopResume`, `Pipeline` and `NamedPipe` claim no liveness;
  who hangs in a pipe is said of the states where nothing is ENABLED.

## 4. Proofs

What follows is proved for all values of the constants: any threads, processes,
clients and customers, any sizes of queues and tables, any input.

| Module | Theorem | Statement |
|---|---|---|
| `MutexBufferProofs` | `TypeCorrectness` | `Spec => []TypeOK` |
| | `NoLostWakeup` | `Spec => []SleepersHaveReason` |
| | `OutputIsFaithful` | `Spec => []OutputFaithful` |
| | `Refinement` | `Spec => ImplementsChannel` |
| `SemBufferProofs` | `TypeCorrectness` | `Spec => []TypeOK` |
| | `PermitsAreKept` | `Spec => []PermitsGuardQueue` |
| | `Refinement` | `Spec => ImplementsChannel` |
| `BarberShopProofs` | `TypeCorrectness` | `Spec => []TypeOK` |
| | `RolesAlwaysAgree` | `Spec => []RolesAgree` |
| | `Refinement` | `Spec => ImplementsService` |
| | `NobodyEverForgotten` | `LifeSpec => []NobodyForgotten` |
| `NetServerProofs` | `AlwaysConsistent` | `Spec => []Consistent` |
| | `RepliesAlwaysFirst` | `Spec => []RepliesFirst` |
| | `WorkersAlwaysListed` | `Spec => []WorkersListed` |
| | `DropsAlwaysOnlyPinged` | `Spec => []DropsOnlyPinged` |
| `SysVServerProofs` | `AlwaysConsistent` | `Spec => []Consistent` |
| | `ErrorsAlwaysOnDesertion` | `Spec => []ErrorsOnlyOnDesertion` |
| `PosixServerProofs` | `AlwaysConsistent` | `Spec => []Consistent` |
| | `ErrorsAlwaysOnDesertion` | `Spec => []ErrorsOnlyOnDesertion` |
| `SmallProgramsProofs` | `FilterAlwaysRight` | `FilterSpec => []FilterRight` |
| | `TerminalAlwaysObeyed` | `StopSpec => []TerminalObeyed` |
| | `AlwaysAccounted` | `EchoSpec => []Accounted` |
| | `AlwaysSendsEnough` | `EchoSpec => []SendsEnough` |
| | `PermitsAlwaysFollowRequests` | `Spec => []PermitsFollowRequests` |
| | `NeverLeavesAChild` | `Spec => []NobodyLeftBehind` |
| | `EndAlwaysReachesAll` | `PipeSpec => []EndReachesAll` |
| | `OnlyLeftFullPipesEverBlock` | in every state of `PipeSpec`: if `PipeStopped`, the parent has ended or some command is `Abandoned` |
| | `AlwaysOnlyLatecomersLose` | `FifoSpec => []OnlyLatecomersLose` |
| | `OnlyStrandedEverWait` | `FifoSpec => [](FifoStopped => OnlyStrandedLeft)` |
| | `AlwaysOneLostPerCrash` | `FilesSpec => []OneLostPerCrash` |
| | `AlwaysSortedStably` | `FilesSpec => []SortedStably` |
| | `AlwaysCopyFaithful` | `FilesSpec => []CopyFaithful` |

In each module a theorem `Invariance` (`LifeInvariance`, `FilterInvariance`,
`StopInvariance`, `EchoInvariance`, `PermitInvariance`, `PipeInvariance`, `FifoInvariance`,
`FilesInvariance`) comes first: the inductive invariant, with one lemma per action or group of actions. TLC
has checked each of these invariants on the instance of the module's run.

### The assumptions

They are those that the modules name. Lab 9: what `load_settings` verifies (queue
size and search length positive, a known operator, at least one thread of each
kind), and that `getline` returns at least one character. Lab 7: at least one
customer, up to `SHOP_MAX_SEATS` seats. Lab 10: finitely many clients, each with a name; the
table has a slot. Lab 6: finitely many clients, at least one entry in the table and room for
one message in a queue. Lab 4: at least one child, and a K from 1 to N. Lab 5: at least one
command in a line, room for one item or line in a pipe; the slaves are any set, also an infinite one.
Lab 2: a key is a byte. Bounds that only TLC
needs (`MaxEvents`, `SocketRoom` (at least 1), `MaxSpurious`, `MaxForks`, `MaxL`, `MaxInterrupted`, `Items`, `MaxLines`, `MaxLength`,
`MaxCrashes`) are any naturals.

### The inductive invariants, and why they are needed

None of the properties is inductive.

* `MutexBuffer`. `TypeOK` needs that the popped slot holds a line, so it needs
  the ring; that no push finds the queue full (`NoFailure`) needs that the mutex keeps the
  test and the push together; `SleepersHaveReason` needs that the test was made by the thread that
  goes to sleep. So: the owner of the mutex is the thread that is `locked`
  (`Mutex`); head and tail are at most a queue apart (`Counters`); every line
  between them is in its slot (`Ring`), which a push preserves because entries less
  than a turn apart have different slots (`CommonLemmas!DistinctSlots`); whoever
  left saw the end of the file, and a consumer also the empty queue (`EndOfInput`);
  what was printed is the filter of what was popped (`Output`).
* `SemBuffer`. Nobody looks at the queue here: that it has room, and that an empty
  queue means the end, both follow from counting. `Permits` says of each semaphore
  that its value and the number of threads that claim one of its permits add up. The
  claims are sets of threads, and each step changes such a set by one element
  (`CommonLemmas!SizeChange`). `Posting` limits the posts a thread can still owe to
  the suffixes of the two sequences in the code.
* `BarberShop`. `CustomerSees` and `BarberSees` are the protocol: what the place of
  the one customer that is served says about the barber and the semaphores, and what
  the place of the barber says about the customers. `Room` says that the queue holds
  those who wait, each once.
* `ShopLifecycle`. From the moment it opens, the shop keeps the invariant of `BarberShop`,
  which early customers do not disturb. Before that other facts take its place: nobody
  gets in without the shared memory (`NobodyYet`), and then customers only come and wait
  while the barber serves nobody (`Preparing`). A push that was under way at the reset may put
  the tail behind slots nobody can reach otherwise: as long as it lasts, every slot before the
  one it wrote belongs to somebody who waits (`Slots`, `MidPush`), so that the barber never
  finds an empty one. Whoever waits is in the queue, called, or was early (`Covered`). `NamesKept` says of zad1 which
  names are there at which stage.
* `SysVServer` and `PosixServer`. A request is answered because of what is under way for
  its client in each of its phases (`Messaging`) and of what the server has
  noted about it (`Noted`). Messages under way are numbers of positions in a sequence
  (`CommonLemmas!NumberAfterAppend`, `NumberBeforeHead`). That the table has room for whom it
  admits, and that `clients_count` stays within the number of clients, needs the clients
  that may still be counted (`Pool`, `CountRight`). In `PosixServer` what the server has open
  stays open, so that an answer cannot fail; but the client must still be in the
  table, which needs that nothing of it comes after its goodbye (`StopsLast`). All this
  holds while the server is in its loop (`Working`).
* `NetServer`. The table needs the backlogs: a connection is in one of them or in
  one slot, never both (`QueueInv`). That no two slots get one name although it is
  looked up without the mutex needs that nobody else gives names, and that clearing
  a slot takes a name away (`NameInv`). `PingInv` says that only the slot that
  the pinger chose can be marked, and that a new client in it ends the server first.
  `InTime` holds when the pinger is patient: what the server thread has
  read between two accesses is still true (`ThreadInTime`), a descriptor reported to
  hang up belongs to somebody who is gone (`SocketsInTime`), and for each client
  how far its handshake got in the messages under way on both sides (`ClientInTime`,
  `Awaits`, `Answered`). A client that is being dropped is frozen and owes no message, until
  the slot is cleared (`DropInTime`). Without patience `InTime` fails, and so do `RepliesFirst` and
  `WorkersListed`.
* `PermitServer`. `PermitTables` says in what way the entries of a child may be late,
  `Requests` that a pending request is the only one of a child whose entry does not show
  it yet, `PermitCreation` what has not been done yet when a handler comes in between.
* `SignalEcho`. `OneUnderWay` bounds the increments TYPE 2 can lose by the echoes
  counted so far; `EchoTermination` says when the child may be told to end.
* `ImageFilter`. As long as nothing is written behind the output (`Unharmed`), each thread has
  written the pixels of its batch that it passed, and nobody else writes them. The rest is arithmetic: the batches are in order and
  cover the image whatever the rounding does (`Batches`), column and row of a pixel
  come back from its index (`Grid`), the clamped index is the nearest one
  (`Clamped`).
* `StopResume`. `KnowsItsScript` says when the stored pid is that of the last child,
  `LastOnly` that no other is alive.
* `Pipeline`. Who has which end of which pipe depends on how far the parent's loop is (`InTurn`):
  a write end is with its command, and with the parent only while it makes that command
  (`WritersOnly`). So the end of the input is real: whoever met it had a predecessor that has
  exited (`NoFalseEnd`). `Flow` counts items: what a command took, what is in its pipe and what
  the one before it holds in its hand is what that one took.
* `NamedPipe`. Each line that was written is printed or in the pipe (`EachLineSomewhere`), which
  is counted per slave (`CommonLemmas!NumberAfterAppend`). `LateOnly` says that behind the end of
  the lines only slaves named in `late` can have the pipe open.
* `RecordFiles`. The sort keeps, of the file as the program sees it (what stdio has not stored
  included, `Visible`), that its first records are those of the input in some order that is
  sorted and stable, and that the rest is untouched; while a record is inserted there is a gap at
  `file_j`, behind which all have greater keys (`SortedTo`, `Gap`). `MoveUp` moves the gap and
  `Insertion` fills it, with a longer order (`LongerOrder`). What is on the disk may
  be one write behind. `Losses` counts: a run keeps all it began with but one record, the one in
  memory or the one stdio had not stored, and it is this record that a kill costs. A
  killed run leaves a record twice; the next run sorts what it finds, which is why `SortedTo`
  compares with `before` and only `Lost` with `original`. The copy keeps that the output
  is a beginning of the input in front of a rest of the old output (`Spliced`), and that the
  writes stdio holds are the next ones in turn (`Consecutive`).

### The refinements

`MutexBuffer` and `SemBuffer` map the tail to lines written, the head to lines taken
and the threads that have not left to those present; `Ring` shows that the line
popped is the next one. In `BarberShop` the line is the ring read from its head, and
the haircut is done when the barber has said so or the customer is leaving. Each step
of the detailed specification is a step of the abstract one or leaves its variables
alone. The abstract specifications promise no liveness.

### Folds

What stdio stores is a fold of writes over a file (`Stored`). The community modules
define `FoldLeft` by a function on sets of positions that a CHOOSE picks. `PutIsIterated` shows that there is
such a function: otherwise there were a least number of positions for which there is none
(`CommonLemmas!Least`), but the function for one position less can be extended. `OneAfterTheOther`
restates the result as a recurrence over the writes, which is all that the other proofs use. The library's
theorems about induction and recursive functions take operators as parameters and were of no use here.

### Points of method

tlapm's SMT encoding gives every value a length, which together with the type
of a function on `0 .. n - 1` is contradictory. Operators on sequences are
therefore kept behind definitions (`LineCount`, `Printouts`, `NothingPrinted`,
`PostSequences`, `NoPosts`, `Held`), and `Slots` stays unexpanded in steps that speak
of sequences. Every leaf of the proofs was also tried
with the goal FALSE, which no leaf proves unless its hypotheses are meant to
contradict each other.

### Proved and not model-checked

The `TypeOK` of `MutexBuffer`, `SemBuffer` and `BarberShop`: their theorems cover every instance, so no run
repeats them. The other modules state types within their invariants.

### Only model-checked

* Liveness: `AllFinish`, `AllServed`, `FoundIsServed`, `ClosingEndsCustomers`,
  `GoneIsRemoved`, `RequestsAnswered`, `Progress`, `ProgramEnds` and `AllEnd`. It is
  out of the prover's reach.
* `OnlyLeftFullPipesBlock` and `OnlyStrandedWait` speak of ENABLED, which
  is out of its reach too. TLC shows that nothing is enabled only in states that satisfy `PipeStopped`
  and `FifoStopped`; what follows from these is proved
  (`OnlyLeftFullPipesEverBlock`, `OnlyStrandedEverWait`).
* `RunningServerIsFound`, which is violated.

## 5. Disagreements

Where code and its texts, or code and what one expects of it, differ. The first is
a run; the others are described by properties that say what the code really does, or were only read.

* Lab 6 zad2: a second server removes the queue of the first (`posix_server_twice`).
* Lab 7 zad2: a second barber removes the names of the open shop;
  `OpenShopIsFound` is claimed of zad1 only.
* Lab 7: an early customer waits for ever; `FoundIsServed` excepts it.
* Lab 10: a client that is reported as "not responding - disconnected"
  (`server.c:342`) loses its slot but keeps its connection; nobody closes the descriptor.
* Lab 6 zad1: `clients_count` never goes down (`server.c:61`), so a
  server without clients may refuse one.
* Lab 4 zad3: the comment at `main.c:169` says that SIGCHLD or SIGINT ends the wait; the
  loop tests the counter only, and TYPE 1 and 3 may wait for ever (`Stuck`). TYPE 2 may send up to 2L.
* Lab 4 zad2: a request that comes before its pid is stored ends the parent by `exit(1)`
  (`main.c:252`); children that wait then stay in their loop `while(1) sleep(1)` for ever.
* Lab 4 zad1: Control-C or Control-Z before the first pid is stored is
  `kill(-1, SIGKILL)`.
* Lab 5 zad1: a line whose reader exits early may hang (`Abandoned`), where in a
  shell SIGPIPE would end it.
* Lab 5 zad2: a slave that opens the pipe when the master has met its end loses its lines; one
  that opens it after `fclose` waits for ever.
* Lab 8: if the batch size, rounded up, times the number of threads less one is above the number
  of pixels, the filter writes behind its output, over the batches of its threads: with 9 pixels
  and 6 threads the tenth pixel. The window of a
  filter begins ceil(C / 2) before its pixel, so that it is off centre.
* Lab 1: `find_block` (`static_array.c:33`, `dynamic_array.c:47`) returns -1 for every array, as it starts
  from -1 and compares differences with the difference to nothing; its comment says it finds the closest block.
* Lab 3 zad1: `compare_dates` (`main.c:18`) compares a year with itself.

## 6. Not modelled, and why

* Verbose output and logging: they change nothing.
* Lab 9: input whose last line lacks its newline is in the model
  (`LastTerminated`), but `OutputFaithful` is claimed only for input that has it.
  The runs use such input, like the files in the repository. After the time
  limit nothing runs: the process is gone.
* Lab 7: more seats than `SHOP_MAX_SEATS`, which corrupts memory; a new shop after
  the closing or after its names were removed, which would start from nothing
  beside the customers of the old one.
* Lab 10: SIGINT of the server, which ends all; names longer than their field;
  partial reads and writes; the computation of a task.
* Lab 6: the text of requests and answers, so also a CALC or MIRROR without
  arguments, whose message is not initialised, and the overflow of a CALC; what
  the loops find behind the table once `clients_count` is above the limit (no pid
  is found; the exit handler of zad2 may stop there). In zad1 the queue of a
  client whose server has gone stays for ever; no property says so.
* Lab 4 zad2: `printf` in handlers that interrupt `printf`; K above N or below 1.
* Lab 4 zad1: `main1.c`, the same handler without a child.
* Lab 4 zad3: SIGINT within a handler, which ends the program with a second
  TER_SIGNAL sent.
* Lab 5: the parsing of lines, the descriptors that a line leaves open for the next; zad2: a slave
  whose `date` fails.
* Lab 8: sums and rounding of pixel values, and the files.
* Lab 2 zad1: `generate`; machine crashes, which may lose more than the process does.
* Lab 1, lab 2 zad2, lab 3: sequential code without a protocol: arrays and sums,
  a directory walk around one comparison, fork, exec and wait one after the other. The drivers and timing
  programs of lab 1 and the logging library of lab 10 have no state worth a model.

## 7. Plan

Done, in this order: `LineInput`, `LineChannel`, `MutexBuffer`, `SemBuffer`,
`BarberService`, `BarberShop`, `NetServer`, `CommonLemmas`, `MutexBufferProofs`,
`SysVServer`, `PosixServer`, `PermitServer`, `SignalEcho`, `ShopLifecycle`,
`RecordFiles`, `ImageFilter`, `StopResume`, `Pipeline`, `NamedPipe`; then the proofs
`SemBufferProofs`, `BarberShopProofs`, `NetServerProofs`, `SysVServerProofs`,
`PosixServerProofs` and `SmallProgramsProofs`. Every safety property that the runs check has a
proof, but for the parts that speak of ENABLED; so have the action properties and the three refinements.

Left: more than one line in `Pipeline`, with the descriptors the lines before it leave open; `generate` of
lab 2.

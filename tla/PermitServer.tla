----------------------------- MODULE PermitServer ----------------------------
(***************************************************************************)
(* src/lab04-Signals/zad2: a process that starts N children, collects      *)
(* their requests and, from the K-th on, grants them all.                  *)
(*                                                                         *)
(* Everything is done by signals.  The handlers of the parent block each   *)
(* other, so each of them is one step; they interrupt the loop that        *)
(* creates the children between any two of its statements.  (SIGINT is not *)
(* blocked, but ends the process.)  Pending signals are delivered in the   *)
(* order of their numbers: SIGCHLD, the real-time signals, SIGRTMAX.       *)
(*                                                                         *)
(* The arrays come from malloc() at the start of the program, from memory  *)
(* the kernel has cleared: their entries are 0 until they are set.         *)
(***************************************************************************)
EXTENDS Integers, Sequences, FiniteSets

CONSTANTS
  N,    \* children
  K     \* requests that are waited for; with more than N nobody gets a permit

ASSUME ArgumentsAssumption == N \in Nat \ {0} /\ K \in 1 .. N

VARIABLES
  timely,       \* does every child sleep until its entry is complete?
  main,         \* where the parent is in its loops, or "ended"
  i,            \* the child it creates
  ended,        \* what ended it
  main_status,
  processes_ids,        \* the children whose pid has been stored
  processes_statuses,
  child,        \* where each child is
  sigchld,      \* is SIGCHLD pending?  It does not count the deaths.
  zombies,      \* dead children the parent has not waited for
  requests,     \* pending SIGRTMAX, each with its sender
  runtime,      \* pending real-time signals, by their senders
  asked         \* history: the children whose requests have been handled

own     == <<i, main_status, processes_ids, processes_statuses>>
signals == <<sigchld, zombies, requests, runtime>>
vars    == <<timely, main, ended, own, child, signals, asked>>

Children == 0 .. N - 1

Init ==
  /\ timely \in BOOLEAN
  /\ main = "fork"
  /\ i = 0
  /\ ended = "no"
  /\ main_status = 1
  /\ processes_ids = {}
  /\ processes_statuses = [c \in Children |-> 0]
  /\ child = [c \in Children |-> "none"]
  /\ sigchld = FALSE
  /\ zombies = {}
  /\ requests = <<>>
  /\ runtime = {}
  /\ asked = {}

Running == main # "ended"

-----------------------------------------------------------------------------
(* create_child_processes, and main.                                       *)

Fork ==
  /\ main = "fork" /\ i < N
  /\ main' = "store_pid"
  /\ child' = [child EXCEPT ![i] = "asleep"]
  /\ UNCHANGED <<timely, ended, own, signals, asked>>

StorePid ==
  /\ main = "store_pid"
  /\ main' = "store_status"
  /\ processes_ids' = processes_ids \cup {i}
  /\ UNCHANGED <<timely, ended, i, main_status, processes_statuses, child, signals, asked>>

\* The status is set to 0 whatever a handler has made of it since StorePid.
StoreStatus ==
  /\ main = "store_status"
  /\ main' = "fork"
  /\ i' = i + 1
  /\ processes_statuses' = [processes_statuses EXCEPT ![i] = 0]
  /\ UNCHANGED <<timely, ended, main_status, processes_ids, child, signals, asked>>

Ends(cause) == main' = "ended" /\ ended' = cause

\* Back in main a pending signal is handled before the loop looks at the status.
Return ==
  /\ main = "fork" /\ i = N
  /\ main_status = 0
  /\ ~sigchld /\ runtime = {} /\ requests = <<>>
  /\ Ends("return")
  /\ UNCHANGED <<timely, own, child, signals, asked>>

-----------------------------------------------------------------------------
(* The handlers.                                                           *)

count_processes(status) == Cardinality({c \in Children : processes_statuses[c] = status})

\* Mutant of handle_SIGCHLD: waits for one child for each signal.
ReapOne ==
  /\ Running /\ sigchld
  /\ sigchld' = FALSE
  /\ \E c \in zombies :
       /\ zombies' = zombies \ {c}
       /\ processes_statuses' = [processes_statuses EXCEPT ![c] = -1]
  /\ main_status' = IF \A c \in Children : processes_statuses'[c] = -1 THEN 0 ELSE main_status
  /\ UNCHANGED <<timely, main, ended, i, processes_ids, child, requests, runtime, asked>>

\* Children die only after their request was handled, so their pids are known.
handle_SIGCHLD ==
  /\ Running /\ sigchld
  /\ sigchld' = FALSE
  /\ zombies' = {}
  /\ processes_statuses' = [c \in Children |-> IF c \in zombies THEN -1 ELSE processes_statuses[c]]
  /\ main_status' = IF \A c \in Children : processes_statuses'[c] = -1 THEN 0 ELSE main_status
  /\ UNCHANGED <<timely, main, ended, i, processes_ids, child, requests, runtime, asked>>

EnoughRequests(statuses) == Cardinality({c \in Children : statuses[c] = 1}) >= K

\* Mutant of Granted: answers the last one only.
GrantedLast(statuses, c) == {c}

\* The children whose requests are accepted now that requests are accepted.
Granted(statuses, c) == {d \in Children : statuses[d] = 1}

\* A request that comes from a child whose pid is not stored yet ends the parent,
\* and the children that wait then do so for ever.
handle_SIGUSR1 ==
  LET c == Head(requests)
      marked  == [processes_statuses EXCEPT ![c] = 1]
      accept  == main_status = 2 \/ EnoughRequests(marked)
      granted == IF accept THEN Granted(marked, c) ELSE {}
  IN  /\ Running /\ requests # <<>>
      /\ ~sigchld /\ runtime = {}
      /\ requests' = Tail(requests)
      /\ asked' = asked \cup {c}
      /\ \/ /\ c \notin processes_ids
            /\ Ends("unknown")
            /\ UNCHANGED <<own, child>>
         \/ /\ c \in processes_ids
            /\ main_status' = IF accept THEN 2 ELSE main_status
            /\ processes_statuses' = [d \in Children |-> IF d \in granted THEN 2 ELSE marked[d]]
            /\ child' = [d \in Children |-> IF d \in granted THEN "granted" ELSE child[d]]
            /\ UNCHANGED <<main, ended, i, processes_ids>>
      /\ UNCHANGED <<timely, sigchld, zombies, runtime>>

\* handle_SIGRT only logs; the sender's pid has been known since its request.
handle_SIGRT ==
  /\ Running /\ ~sigchld
  /\ \E c \in runtime : runtime' = runtime \ {c}
  /\ UNCHANGED <<timely, main, ended, own, child, sigchld, zombies, requests, asked>>

\* Mutant of Killed: spares the children that have been told to end.
KilledIfRunning == {c \in processes_ids : processes_statuses[c] \in {0, 1}}

\* Whom handle_SIGINT kills: with an entry whose pid is still 0, kill() reaches the
\* whole group, and the parent itself.
Killed ==
  IF processes_ids # Children THEN Children
  ELSE {c \in Children : processes_statuses[c] # -1}

\* Control-C.  Children have blocked the signal; one that has not got so far runs
\* the handler of the parent, where its own pid is 0, and kills the group as well.
handle_SIGINT ==
  /\ Running /\ main_status # 0
  /\ Ends("SIGINT")
  /\ main_status' = 0
  /\ processes_statuses' = [c \in Children |-> -1]
  /\ child' = [c \in Children |-> IF c \in Killed /\ child[c] # "none" THEN "ended" ELSE child[c]]
  /\ UNCHANGED <<timely, i, processes_ids, signals, asked>>

Handler == handle_SIGCHLD \/ handle_SIGUSR1 \/ handle_SIGRT

-----------------------------------------------------------------------------
(* The children.                                                           *)

\* The child wakes up and sends its request.  The sleep may be one of 0 seconds.
\* If the parent has gone, sigqueue() fails and the child exits.
Request(c) ==
  /\ child[c] = "asleep"
  /\ timely => c < i
  /\ child' = [child EXCEPT ![c] = IF Running THEN "waiting" ELSE "ended"]
  /\ requests' = IF Running THEN Append(requests, c) ELSE requests
  /\ UNCHANGED <<timely, main, ended, own, sigchld, zombies, runtime, asked>>

\* handle_SIGUSR2: sends a real-time signal, then exits.
handle_SIGUSR2(c) ==
  /\ child[c] = "granted"
  /\ child' = [child EXCEPT ![c] = IF Running THEN "exiting" ELSE "ended"]
  /\ runtime' = IF Running THEN runtime \cup {c} ELSE runtime
  /\ UNCHANGED <<timely, main, ended, own, sigchld, zombies, requests, asked>>

Exit(c) ==
  /\ child[c] = "exiting"
  /\ child' = [child EXCEPT ![c] = "ended"]
  /\ sigchld' = TRUE
  /\ zombies' = zombies \cup {c}
  /\ UNCHANGED <<timely, main, ended, own, requests, runtime, asked>>

Child(c) == Request(c) \/ handle_SIGUSR2(c) \/ Exit(c)

Next ==
  \/ Fork \/ StorePid \/ StoreStatus \/ Return
  \/ Handler \/ handle_SIGINT
  \/ \E c \in Children : Child(c)

\* The parent and the children run; signals are delivered.
Spec ==
  /\ Init /\ [][Next]_vars
  /\ WF_vars(Fork \/ StorePid \/ StoreStatus \/ Return) /\ WF_vars(Handler)
  /\ \A c \in Children : WF_vars(Child(c))

-----------------------------------------------------------------------------
TypeOK ==
  /\ timely \in BOOLEAN
  /\ main \in {"fork", "store_pid", "store_status", "ended"}
  /\ i \in 0 .. N
  /\ ended \in {"no", "return", "unknown", "SIGINT"}
  /\ main_status \in 0 .. 2
  /\ processes_ids \subseteq Children
  /\ processes_statuses \in [Children -> -1 .. 2]
  /\ child \in [Children -> {"none", "asleep", "waiting", "granted", "exiting", "ended"}]
  /\ sigchld \in BOOLEAN
  /\ zombies \subseteq Children /\ runtime \subseteq Children /\ asked \subseteq Children
  /\ requests \in Seq(Children)

\* No child gets its permit before K of them have asked for one, although requests
\* come in while children are still being created.
PermitsAfterK ==
  (\E c \in Children : child[c] \in {"granted", "exiting"}) => Cardinality(asked) >= K

\* The parent does not forget a child that waits: its request is pending, or is
\* noted and waits for the K-th.  Nor does it note a request of one that does not
\* wait.  (A child that does not sleep can be forgotten: see StoreStatus.)
RequestsRemembered ==
  timely /\ Running => \A c \in Children :
    /\ child[c] = "waiting" =>
         \/ \E n \in DOMAIN requests : requests[n] = c
         \/ processes_statuses[c] = 1 /\ main_status = 1 /\ count_processes(1) < K
    /\ processes_statuses[c] = 1 => child[c] = "waiting"

\* Permits follow the requests: none before the K-th, none forgotten, and none of a
\* child that is not in the tables.
PermitsFollowRequests == TypeOK /\ PermitsAfterK /\ RequestsRemembered

\* When the parent ends, no child of it is left, also if some were just being created.
\* There is one way to leave children behind: exit() at a request nobody is known to
\* have sent, and that takes a child that does not sleep.
NobodyLeftBehind ==
  /\ ended \in {"return", "SIGINT"} => \A c \in Children :
       child[c] = "ended" \/ (child[c] = "none" /\ ended = "SIGINT")
  /\ ended = "unknown" => ~timely

\* With children that sleep the program comes to its end.
ProgramEnds == timely ~> ~Running
=============================================================================

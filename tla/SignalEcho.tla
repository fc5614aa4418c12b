----------------------------- MODULE SignalEcho -----------------------------
(***************************************************************************)
(* src/lab04-Signals/zad3: a parent sends MSG_SIGNAL to its child, which   *)
(* sends each one back.  TYPE 1 sends L of them in a row by a standard     *)
(* signal, of which no second one can be pending; TYPE 3 does the same by  *)
(* a real-time signal, which queues; TYPE 2 sends the next one when the    *)
(* echo of the last is there.                                              *)
(*                                                                         *)
(* The handlers block each other: each is one step, that may come between  *)
(* any two steps of the code it interrupts.  MSG_SIGNAL has the lower      *)
(* number, so of two pending signals it is delivered first.  The handlers  *)
(* stay installed: sa_flags, which no one sets, has no SA_RESETHAND.       *)
(*                                                                         *)
(* main, the child and their handlers have the names of their counterparts *)
(* in PermitServer and StopResume, with a prefix: proofs put the modules   *)
(* together.                                                               *)
(***************************************************************************)
EXTENDS Integers

CONSTANT MaxL   \* bound on the first argument

ASSUME MaxLAssumption == MaxL \in Nat

VARIABLES
  TYPE, L,          \* the arguments
  prompt,           \* is the child ready when the parent's sleep(1) is over?
  echo_main,        \* where the parent is
  echo_child,       \* where the child is
  to_child,         \* pending MSG_SIGNALs of the child
  terminate,        \* is TER_SIGNAL pending for the child?
  to_main,          \* pending MSG_SIGNALs of the parent
  counter_main_sent,
  counter_main_received,
  counter_child_sent,
  counter_child_received,
  posted,           \* MSG_SIGNALs the parent sent; i of the loop in main_type1
  interrupted       \* has the parent got SIGINT?

arguments == <<TYPE, L, prompt>>
of_main   == <<echo_main, counter_main_sent, counter_main_received, posted>>
of_child  == <<echo_child, counter_child_sent, counter_child_received>>
pending   == <<to_child, terminate, to_main>>
echoVars  == <<arguments, of_main, of_child, pending, interrupted>>

EchoInit ==
  /\ TYPE \in 1 .. 3 /\ L \in 0 .. MaxL /\ prompt \in BOOLEAN
  /\ echo_main = "sleep"
  /\ echo_child = "start"
  /\ to_child = 0 /\ terminate = FALSE /\ to_main = 0
  /\ counter_main_sent = 0 /\ counter_main_received = 0
  /\ counter_child_sent = 0 /\ counter_child_received = 0
  /\ posted = 0
  /\ interrupted = FALSE

\* "ended" is after exit(0), "killed" after a SIGINT without a handler for it.
MainRuns == echo_main \notin {"ended", "killed"}

-----------------------------------------------------------------------------
(* Signals.                                                                *)

\* Mutant of OneMore: standard signals are sent as real-time signals are.
QueueAll(count) == count + 1

\* What is pending after one more MSG_SIGNAL.
OneMore(count) == IF TYPE = 3 THEN count + 1 ELSE 1

PostMessage ==
  /\ to_child' = OneMore(to_child)
  /\ posted' = posted + 1

-----------------------------------------------------------------------------
(* The parent.                                                             *)

MainGoes(from, to) == echo_main = from /\ echo_main' = to

\* sleep(1), set_SIGINT_handler, and the handler for MSG_SIGNAL.
SetHandlers ==
  /\ MainGoes("sleep", "send")
  /\ prompt => echo_child = "ready"
  /\ UNCHANGED <<arguments, counter_main_sent, counter_main_received, posted,
                 of_child, pending, interrupted>>

\* main_type1, for TYPE 1 and 3.  handle_type1 leaves counter_main_sent alone, so
\* nobody sees whether kill() or the counting was first.
SendInARow ==
  /\ TYPE # 2 /\ MainGoes("send", "send") /\ posted < L
  /\ PostMessage
  /\ counter_main_sent' = counter_main_sent + 1
  /\ UNCHANGED <<arguments, counter_main_received, of_child, terminate, to_main, interrupted>>

SendTermination ==
  /\ TYPE # 2 /\ MainGoes("send", "test") /\ posted = L
  /\ terminate' = TRUE
  /\ counter_main_sent' = counter_main_sent + 1
  /\ UNCHANGED <<arguments, counter_main_received, posted, of_child, to_child, to_main,
                 interrupted>>

\* The condition of the loop, and exit(0) behind it.
TestCounter ==
  /\ echo_main = "test"
  /\ echo_main' = IF counter_main_received < L THEN "enter" ELSE "ended"
  /\ UNCHANGED <<arguments, counter_main_sent, counter_main_received, posted,
                 of_child, pending, interrupted>>

\* The call of sigsuspend.  MSG_SIGNAL was not blocked before it: an echo between
\* the test and this step has been handled and does not end the wait.
Suspend ==
  /\ MainGoes("enter", "suspended")
  /\ UNCHANGED <<arguments, counter_main_sent, counter_main_received, posted,
                 of_child, pending, interrupted>>

\* sigsuspend returns after the handler, and the loop goes on.
handle_type1 ==
  /\ TYPE # 2 /\ echo_main \in {"send", "test", "enter", "suspended"}
  /\ to_main > 0 /\ to_main' = to_main - 1
  /\ counter_main_received' = counter_main_received + 1
  /\ echo_main' = IF echo_main = "suspended" THEN "test" ELSE echo_main
  /\ UNCHANGED <<arguments, counter_main_sent, posted, of_child, to_child, terminate,
                 interrupted>>

\* main_type2: kill() and the counting after it are two steps here.
SendFirst ==
  /\ TYPE = 2 /\ MainGoes("send", "count")
  /\ PostMessage
  /\ UNCHANGED <<arguments, counter_main_sent, counter_main_received, of_child,
                 terminate, to_main, interrupted>>

\* counter_main_sent++ reads and writes a variable that handle_type2 increments in
\* between: it adds one to any value the counter has had since the kill().
CountFirst ==
  /\ MainGoes("count", "suspended")
  /\ \E seen \in 0 .. counter_main_sent : counter_main_sent' = seen + 1
  /\ UNCHANGED <<arguments, counter_main_received, posted, of_child, pending, interrupted>>

HandleEcho2(enough, action) ==
  /\ TYPE = 2 /\ echo_main \in {"count", "suspended"}
  /\ to_main > 0 /\ to_main' = to_main - 1
  /\ counter_main_received' = counter_main_received + 1
  /\ enough /\ action
  /\ counter_main_sent' = counter_main_sent + 1
  /\ UNCHANGED <<arguments, of_child, interrupted>>

EndProgram ==
  terminate' = TRUE /\ echo_main' = "ended" /\ UNCHANGED <<to_child, posted>>

SendNext == PostMessage /\ UNCHANGED <<echo_main, terminate>>

\* Mutant of handle_type2: sends one more than asked for.
SendOneTooMany ==
  \/ HandleEcho2(counter_main_sent > L, EndProgram)
  \/ HandleEcho2(counter_main_sent <= L, SendNext)

handle_type2 ==
  \/ HandleEcho2(counter_main_sent >= L, EndProgram)
  \/ HandleEcho2(counter_main_sent < L, SendNext)

\* Mutant of handle_SIGINT: leaves without telling the child.
LeaveSilently ==
  /\ MainRuns /\ echo_main # "sleep"
  /\ interrupted' = TRUE
  /\ echo_main' = "ended"
  /\ UNCHANGED <<arguments, counter_main_sent, counter_main_received, posted,
                 of_child, pending>>

\* SIGINT to the parent, or to the whole group: a child that does not block it,
\* as it does in sigsuspend and in its handlers, dies of it.
echo_handle_SIGINT ==
  /\ MainRuns /\ echo_main # "sleep"
  /\ interrupted' = TRUE
  /\ terminate' = TRUE
  /\ counter_main_sent' = counter_main_sent + 1
  /\ echo_main' = "ended"
  /\ echo_child' \in (IF echo_child = "leave" THEN {echo_child} ELSE {echo_child, "dead"})
  /\ UNCHANGED <<arguments, counter_main_received, posted, counter_child_sent,
                 counter_child_received, to_child, to_main>>

InterruptedEarly ==
  /\ echo_main = "sleep" /\ echo_main' = "killed"
  /\ interrupted' = TRUE
  /\ echo_child' \in {echo_child, "dead"}
  /\ UNCHANGED <<arguments, counter_main_sent, counter_main_received, posted,
                 counter_child_sent, counter_child_received, pending>>

MainStep ==
  \/ SetHandlers \/ SendInARow \/ SendTermination \/ TestCounter \/ Suspend
  \/ SendFirst \/ CountFirst

Echo == handle_type1 \/ handle_type2

-----------------------------------------------------------------------------
(* The child.                                                              *)

\* set_child_handlers: first for MSG_SIGNAL, then for TER_SIGNAL.
SetChildHandler ==
  /\ \/ echo_child = "start" /\ echo_child' = "half"
     \/ echo_child = "half"  /\ echo_child' = "ready"
  /\ UNCHANGED <<arguments, of_main, counter_child_sent, counter_child_received, pending,
                 interrupted>>

\* A signal without a handler ends the process.
SignalTooEarly ==
  /\ \/ echo_child = "start" /\ (to_child > 0 \/ terminate)
     \/ echo_child = "half" /\ terminate
  /\ echo_child' = "dead"
  /\ UNCHANGED <<arguments, of_main, counter_child_sent, counter_child_received, pending,
                 interrupted>>

\* In handle_TER_SIGNAL MSG_SIGNAL is not blocked.  Without its parent the child
\* sends its echo to somebody else.
handle_MSG_SIGNAL ==
  /\ echo_child \in {"half", "ready", "leave"}
  /\ to_child > 0 /\ to_child' = to_child - 1
  /\ counter_child_received' = counter_child_received + 1
  /\ to_main' = IF MainRuns THEN OneMore(to_main) ELSE to_main
  /\ counter_child_sent' = counter_child_sent + 1
  /\ UNCHANGED <<arguments, of_main, echo_child, terminate, interrupted>>

\* Mutant of handle_TER_SIGNAL: the two signals have their numbers exchanged.
TerminationFirst ==
  /\ echo_child = "ready" /\ terminate
  /\ echo_child' = "leave" /\ terminate' = FALSE
  /\ counter_child_received' = counter_child_received + 1
  /\ UNCHANGED <<arguments, of_main, counter_child_sent, to_child, to_main, interrupted>>

handle_TER_SIGNAL ==
  /\ echo_child = "ready" /\ terminate /\ to_child = 0
  /\ echo_child' = "leave" /\ terminate' = FALSE
  /\ counter_child_received' = counter_child_received + 1
  /\ UNCHANGED <<arguments, of_main, counter_child_sent, to_child, to_main, interrupted>>

\* exit(0) in that handler.
ChildExits ==
  /\ echo_child = "leave" /\ echo_child' = "dead"
  /\ UNCHANGED <<arguments, of_main, counter_child_sent, counter_child_received, pending,
                 interrupted>>

EchoChild ==
  \/ SetChildHandler \/ SignalTooEarly \/ handle_MSG_SIGNAL \/ handle_TER_SIGNAL
  \/ ChildExits

EchoNext == MainStep \/ Echo \/ echo_handle_SIGINT \/ InterruptedEarly \/ EchoChild

\* Both processes run, and pending signals are delivered; nobody has to press
\* Control-C.
EchoSpec ==
  /\ EchoInit /\ [][EchoNext]_echoVars
  /\ WF_echoVars(MainStep) /\ WF_echoVars(Echo) /\ WF_echoVars(EchoChild)

-----------------------------------------------------------------------------
EchoTypeOK ==
  /\ TYPE \in 1 .. 3 /\ L \in 0 .. MaxL /\ prompt \in BOOLEAN
  /\ echo_main \in {"sleep", "send", "count", "test", "enter", "suspended", "ended", "killed"}
  /\ echo_child \in {"start", "half", "ready", "leave", "dead"}
  /\ to_child \in Nat /\ terminate \in BOOLEAN /\ to_main \in Nat
  /\ TYPE # 3 => to_child \in {0, 1} /\ to_main \in {0, 1}
  /\ counter_main_sent \in Nat /\ counter_main_received \in Nat
  /\ counter_child_sent \in Nat /\ counter_child_received \in Nat
  /\ posted \in Nat
  /\ interrupted \in BOOLEAN

\* No message and no echo gets lost with TYPE 3, where they queue and the last
\* signal cannot overtake them, and with TYPE 2, where only one of them is ever
\* under way.  With TYPE 1 they coalesce: what is counted was sent, but not all.
NothingLost ==
  prompt /\ MainRuns =>
    LET under_way == to_main + (IF echo_child = "dead" THEN 0 ELSE to_child)
        accounted == counter_main_received + under_way
    IN  IF TYPE = 1 THEN accounted <= posted ELSE accounted = posted

\* No counter and no pending signal says more than was sent.
Accounted == EchoTypeOK /\ NothingLost

\* At the end of TYPE 2 every message has been counted back, and there were as
\* many as asked for.  There can be more: if echoes are handled before the first
\* message is counted, and their counting is lost, up to twice as many.
SendsEnough ==
  TYPE = 2 /\ echo_main = "ended" /\ ~interrupted =>
    /\ counter_main_received = posted
    /\ L <= posted /\ posted <= (IF L = 0 THEN 1 ELSE 2 * L)

\* The parent waits for ever for a signal that does not come: the last echo came
\* between the test and sigsuspend, or echoes coalesced.
Stuck ==
  /\ echo_main = "suspended" /\ to_main = 0 /\ echo_child = "dead"
  /\ TYPE # 2
  /\ TYPE = 3 => counter_main_received = L

\* TYPE 2 always ends, the others end or are stuck; and with the parent the child
\* ends, SIGINT or not.
AllEnd ==
  /\ prompt ~> ~MainRuns \/ Stuck
  /\ echo_main = "ended" ~> echo_child = "dead"
=============================================================================

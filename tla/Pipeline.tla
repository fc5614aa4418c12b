------------------------------ MODULE Pipeline -------------------------------
(***************************************************************************)
(* src/lab05-Pipes/zad1: the commands of a line are started from the left, *)
(* each with a pipe of its own for its output, and waited for from the     *)
(* left.  A child inherits what its parent has open, and the programs it   *)
(* executes keep it: a pipe ends for its reader when nobody has its write  *)
(* end, and a writer notices that its reader has gone only when nobody has *)
(* its read end.                                                           *)
(*                                                                         *)
(* Commands are numbered from 0.  The first one writes up to Items items,  *)
(* the others hand on what they read, up to some number, or up to the end. *)
(***************************************************************************)
EXTENDS Integers

CONSTANTS
  MAX_COMMANDS,
  Items,        \* bound on what the first command writes
  Capacity      \* of a pipe

ASSUME PipelineAssumption ==
  MAX_COMMANDS \in Nat \ {0} /\ Items \in Nat /\ Capacity \in Nat \ {0}

VARIABLES
  cmdc,         \* commands in the line
  wants,        \* how much each one takes before it exits; Items + 1: all there is
  parent,       \* what the parent is about to do
  cmd_i,        \* the command it does it for
  state,        \* "none", "runs" or "exited", for each command
  pipes,        \* how many items are in the pipe of each command
  held,         \* the ends that the parent (-1) and each command have open
  taken,        \* how much each command has taken
  inHand        \* has it something to write?

commands == <<state, pipes, taken, inHand>>
pipeVars == <<cmdc, wants, parent, cmd_i, commands, held>>

Commands == 0 .. cmdc - 1
Parent == -1
ReadEnd(c) == <<c, "read">>
WriteEnd(c) == <<c, "write">>

PipeInit ==
  /\ cmdc \in 1 .. MAX_COMMANDS
  /\ wants \in [Commands -> 0 .. Items + 1] /\ wants[0] <= Items
  /\ parent = "pipe" /\ cmd_i = 0
  /\ state = [c \in Commands |-> "none"]
  /\ pipes = [c \in Commands |-> 0]
  /\ held = [p \in Commands \cup {Parent} |-> {}]
  /\ taken = [c \in Commands |-> 0]
  /\ inHand = [c \in Commands |-> FALSE]

-----------------------------------------------------------------------------
(* The parent: execute_command for one after the other, and waitpid.       *)

ParentGoes(from, to) == parent = from /\ parent' = to /\ UNCHANGED <<cmdc, wants>>

CreatePipe ==
  /\ ParentGoes("pipe", "fork")
  /\ held' = [held EXCEPT ![Parent] = @ \cup {ReadEnd(cmd_i), WriteEnd(cmd_i)}]
  /\ UNCHANGED <<cmd_i, commands>>

\* Mutant of ForkCommand: the child closes the end it writes to.
ForkWithoutOutput ==
  /\ ParentGoes("fork", "close")
  /\ held' = [held EXCEPT ![cmd_i] = held[Parent] \ {WriteEnd(cmd_i)}]
  /\ state' = [state EXCEPT ![cmd_i] = "runs"]
  /\ UNCHANGED <<cmd_i, pipes, taken, inHand>>

\* The child moves two of the ends it has to its standard input and output.
ForkCommand ==
  /\ ParentGoes("fork", "close")
  /\ held' = [held EXCEPT ![cmd_i] = held[Parent]]
  /\ state' = [state EXCEPT ![cmd_i] = "runs"]
  /\ UNCHANGED <<cmd_i, pipes, taken, inHand>>

ForkFails ==
  /\ ParentGoes("fork", "failed")
  /\ held' = [held EXCEPT ![Parent] = {}]
  /\ UNCHANGED <<cmd_i, commands>>

\* Mutant of CloseWriteEnd: closes the read end instead.
CloseReadEnd == held' = [held EXCEPT ![Parent] = @ \ {ReadEnd(cmd_i)}]

CloseWriteEnd == held' = [held EXCEPT ![Parent] = @ \ {WriteEnd(cmd_i)}]

GoOn ==
  /\ IF cmd_i = cmdc - 1
     THEN ParentGoes("close", "wait") /\ cmd_i' = 0
     ELSE ParentGoes("close", "pipe") /\ cmd_i' = cmd_i + 1
  /\ CloseWriteEnd
  /\ UNCHANGED commands

WaitForCommand ==
  /\ state[cmd_i] = "exited"
  /\ IF cmd_i = cmdc - 1
     THEN ParentGoes("wait", "ended") /\ UNCHANGED cmd_i
     ELSE ParentGoes("wait", "wait") /\ cmd_i' = cmd_i + 1
  /\ UNCHANGED <<commands, held>>

ParentStep == CreatePipe \/ ForkCommand \/ ForkFails \/ GoOn \/ WaitForCommand

-----------------------------------------------------------------------------
(* The commands.  What the last one writes goes to the terminal.           *)

IsLast(c) == c = cmdc - 1

OpenSomewhere(end) == \E p \in DOMAIN held : end \in held[p]

Take(c) ==
  /\ state[c] = "runs" /\ ~inHand[c] /\ taken[c] < wants[c]
  /\ c > 0 => pipes[c - 1] > 0
  /\ pipes' = [d \in Commands |-> IF d = c - 1 THEN pipes[d] - 1 ELSE pipes[d]]
  /\ taken' = [taken EXCEPT ![c] = @ + 1]
  /\ inHand' = [inHand EXCEPT ![c] = ~IsLast(c)]
  /\ UNCHANGED <<cmdc, wants, parent, cmd_i, state, held>>

\* Without a reader left write() would end the command: EndReachesAll says that this
\* does not happen.
HandOn(c) ==
  /\ state[c] = "runs" /\ inHand[c] /\ pipes[c] < Capacity
  /\ pipes' = [pipes EXCEPT ![c] = @ + 1]
  /\ inHand' = [inHand EXCEPT ![c] = FALSE]
  /\ UNCHANGED <<cmdc, wants, parent, cmd_i, state, held, taken>>

\* It has what it wanted, could not be executed at all, or read to the end.
CommandExits(c) ==
  /\ state[c] = "runs" /\ ~inHand[c]
  /\ \/ taken[c] = wants[c]
     \/ c > 0 /\ pipes[c - 1] = 0 /\ ~OpenSomewhere(WriteEnd(c - 1))
  /\ state' = [state EXCEPT ![c] = "exited"]
  /\ held' = [held EXCEPT ![c] = {}]
  /\ UNCHANGED <<cmdc, wants, parent, cmd_i, pipes, taken, inHand>>

PipeNext ==
  ParentStep \/ \E c \in Commands : Take(c) \/ HandOn(c) \/ CommandExits(c)

PipeSpec == PipeInit /\ [][PipeNext]_pipeVars

-----------------------------------------------------------------------------
\* A command that blocks for good on its full pipe: the next one has exited without
\* reading it all, but the parent, the command itself, and later ones keep the read
\* end open.
Abandoned(c) ==
  /\ state[c] = "runs" /\ inHand[c] /\ pipes[c] = Capacity
  /\ ~IsLast(c) /\ state[c + 1] = "exited" /\ taken[c + 1] = wants[c + 1]

\* Nobody has anything to do: the parent has ended or waits for a command, and each
\* command has ended, or waits for input that somebody may still write, or for room.
PipeStopped ==
  /\ parent \in {"ended", "failed"} \/ (parent = "wait" /\ state[cmd_i] = "runs")
  /\ \A c \in Commands : state[c] = "runs" =>
       IF inHand[c] THEN pipes[c] = Capacity
       ELSE /\ taken[c] < wants[c] /\ c > 0
            /\ pipes[c - 1] = 0 /\ OpenSomewhere(WriteEnd(c - 1))

\* A line comes to its end unless some command exits before it has read everything:
\* then the line may hang for ever, as nobody who writes to a pipe ever gets
\* SIGPIPE.
OnlyLeftFullPipesBlock ==
  ~ENABLED PipeNext =>
    /\ PipeStopped
    /\ parent \in {"ended", "failed"} \/ \E c \in Commands : Abandoned(c)

\* The end of the input reaches everybody, and nobody takes a pipe for empty that
\* will be written to: when the line has ended, a command that wanted all has taken
\* all that the one before it did, and a command that left early what it wanted.
\* Until then somebody has the read end of every command that runs.
EndReachesAll ==
  /\ parent = "ended" => \A c \in Commands \ {0} :
       taken[c] = IF wants[c] < taken[c - 1] THEN wants[c] ELSE taken[c - 1]
  /\ \A c \in Commands : state[c] = "runs" => OpenSomewhere(ReadEnd(c))
=============================================================================

---------------------------- MODULE LineChannel -----------------------------
(***************************************************************************)
(* What both programs of lab 9 promise.  Writers move the lines of a file, *)
(* in order, into a channel of bounded capacity; readers take them out in  *)
(* the same order and print the selected ones.  A writer leaves once the   *)
(* file is exhausted, a reader once it is exhausted and the channel empty. *)
(* A time limit may stop everything at any moment.                         *)
(***************************************************************************)
EXTENDS Integers, Sequences

CONSTANTS
  Writers, Readers,
  Capacity,         \* lines the channel holds
  LineCount,        \* lines of the file
  Selected          \* the lines that are printed

VARIABLES
  written,          \* lines moved into the channel so far
  taken,            \* lines taken out of it so far
  exhausted,        \* has a writer met the end of the file?
  out,              \* the lines printed, oldest first
  present,          \* writers and readers still at work
  stopped           \* has the time limit stopped the program?

vars == <<written, taken, exhausted, out, present, stopped>>

Init ==
  /\ written = 0
  /\ taken = 0
  /\ exhausted = FALSE
  /\ out = <<>>
  /\ present = Writers \cup Readers
  /\ stopped = FALSE

Write ==
  /\ ~stopped
  /\ written < LineCount
  /\ written - taken < Capacity
  /\ written' = written + 1
  /\ UNCHANGED <<taken, exhausted, out, present, stopped>>

WriterLeaves(w) ==
  /\ ~stopped
  /\ written = LineCount
  /\ exhausted' = TRUE
  /\ present' = present \ {w}
  /\ UNCHANGED <<written, taken, out, stopped>>

Take ==
  /\ ~stopped
  /\ taken < written
  /\ taken' = taken + 1
  /\ out' = IF taken + 1 \in Selected THEN Append(out, taken + 1) ELSE out
  /\ UNCHANGED <<written, exhausted, present, stopped>>

ReaderLeaves(r) ==
  /\ ~stopped
  /\ exhausted
  /\ taken = written
  /\ present' = present \ {r}
  /\ UNCHANGED <<written, taken, exhausted, out, stopped>>

Stop ==
  /\ stopped' = TRUE
  /\ UNCHANGED <<written, taken, exhausted, out, present>>

Next ==
  \/ Write
  \/ Take
  \/ Stop
  \/ \E w \in Writers : WriterLeaves(w)
  \/ \E r \in Readers : ReaderLeaves(r)

Spec == Init /\ [][Next]_vars
=============================================================================

----------------------------- MODULE LineInput ------------------------------
(***************************************************************************)
(* The input file and the filter that the two programs of lab 9 share      *)
(* (zad1, mutex and condition variable; zad2, semaphores).                 *)
(*                                                                         *)
(* A line is identified by its position in the file, so two equal lines    *)
(* are still told apart.  Of its text only the length matters.             *)
(***************************************************************************)
EXTENDS Integers, Sequences

CONSTANTS
  Input,            \* Input[l] = what getline() returns for line l
  LastTerminated,   \* does the last line of the file end in a newline?
  SearchLength,     \* search_length of the settings file
  SearchOperator    \* search_operator of the settings file

\* getline() never returns 0: a line has its newline, or a character.
\* The other two are what load_settings() verifies.
ASSUME InputAssumption ==
  /\ Input \in Seq(Nat \ {0})
  /\ LastTerminated \in BOOLEAN
  /\ SearchLength \in Nat \ {0}
  /\ SearchOperator \in {"<", "=", ">"}

LineCount == Len(Input)
Lines == 1 .. LineCount

NoLine == 0   \* a slot of the queue that was never written

check_condition(length) ==
  CASE SearchOperator = "<" -> length < SearchLength
    [] SearchOperator = ">" -> length > SearchLength
    [] SearchOperator = "=" -> length = SearchLength

\* line[chars-1] = '\0': the last character goes, be it a newline or not.
StoredLength(line) == Input[line] - 1

\* Printed in the simple output mode by the consumer that pops the line.
Printed(line) == check_condition(StoredLength(line))

\* What a program has printed: the lines, oldest first.
Printouts == Seq(Lines)
NothingPrinted == <<>>
Emit(printout, line) == IF Printed(line) THEN Append(printout, line) ELSE printout

-----------------------------------------------------------------------------
\* What the user asked for: the filter applied to the line as it is in the
\* file, without its newline if it has one.
LineLength(line) ==
  IF line = LineCount /\ ~LastTerminated THEN Input[line] ELSE Input[line] - 1

Wanted == {line \in Lines : check_condition(LineLength(line))}
=============================================================================

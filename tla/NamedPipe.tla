----------------------------- MODULE NamedPipe ------------------------------
(***************************************************************************)
(* src/lab05-Pipes/zad2: a master makes a named pipe and prints the lines  *)
(* it reads from it, until all slaves that write to it have closed it;     *)
(* then it closes the pipe and removes the name.  Slaves are started at    *)
(* any time.                                                               *)
(*                                                                         *)
(* open() of one end waits for somebody who opens the other one.  A line   *)
(* is written at once, and is read whole.                                  *)
(***************************************************************************)
EXTENDS Integers, Sequences, FiniteSets

CONSTANTS
  Slaves,
  MaxLines,     \* bound on the second argument of a slave
  Room          \* for lines in the pipe

ASSUME NamedPipeAssumption == MaxLines \in Nat /\ Room \in Nat \ {0}

VARIABLES
  slave_N,      \* the second argument of each slave
  master,       \* where the master is
  fifo,         \* can the pipe be found by its name?
  slave,        \* where each slave is
  lines,        \* the lines in the pipe: whose they are
  written,      \* how many lines each slave has written
  printed,      \* what the master has printed
  late,         \* history: slaves that opened the pipe behind the end of the file
  stranded      \* history: those that came when it was closed but not removed

fifoVars == <<slave_N, master, fifo, slave, lines, written, printed, late, stranded>>

FifoInit ==
  /\ slave_N \in [Slaves -> 0 .. MaxLines]
  /\ master = "start"
  /\ fifo = FALSE
  /\ slave = [s \in Slaves |-> "start"]
  /\ lines = <<>>
  /\ written = [s \in Slaves |-> 0]
  /\ printed = <<>>
  /\ late = {} /\ stranded = {}

Writers == {s \in Slaves : slave[s] = "writing"}

\* Mutant of HasReader: the stream is closed at the end of the file.
HasReaderUntilEnd == master \in {"opening", "reading"}

\* Is the pipe open for reading, or being opened?
HasReader == master \in {"opening", "reading", "eof"}

-----------------------------------------------------------------------------
(* master.c                                                                *)

MasterGoes(from, to) ==
  /\ master = from /\ master' = to
  /\ UNCHANGED <<slave_N, written, late, stranded>>

MakeFifo ==
  /\ MasterGoes("start", "made")
  /\ fifo' = TRUE
  /\ UNCHANGED <<slave, lines, printed>>

\* fopen() lets the slaves go on that are waiting in open().
OpenFifo ==
  LET waiting == {s \in Slaves : slave[s] = "opening"}
  IN  /\ MasterGoes("made", IF waiting = {} THEN "opening" ELSE "reading")
      /\ slave' = [s \in Slaves |-> IF s \in waiting THEN "writing" ELSE slave[s]]
      /\ UNCHANGED <<fifo, lines, printed>>

PrintLine ==
  /\ MasterGoes("reading", "reading")
  /\ lines # <<>>
  /\ printed' = Append(printed, Head(lines))
  /\ lines' = Tail(lines)
  /\ UNCHANGED <<fifo, slave>>

\* Mutant of NothingToCome: does not wait for the slaves that have the pipe open.
EmptyNow == lines = <<>>

NothingToCome == lines = <<>> /\ Writers = {}

EndOfLines ==
  /\ MasterGoes("reading", "eof")
  /\ NothingToCome
  /\ UNCHANGED <<fifo, slave, lines, printed>>

CloseFifo ==
  /\ MasterGoes("eof", "closed")
  /\ UNCHANGED <<fifo, slave, lines, printed>>

RemoveFifo ==
  /\ MasterGoes("closed", "ended")
  /\ fifo' = FALSE
  /\ UNCHANGED <<slave, lines, printed>>

Master == MakeFifo \/ OpenFifo \/ PrintLine \/ EndOfLines \/ CloseFifo \/ RemoveFifo

-----------------------------------------------------------------------------
(* slave.c                                                                 *)

SlaveGoes(s, from, to) ==
  /\ slave[s] = from /\ slave' = [slave EXCEPT ![s] = to]
  /\ UNCHANGED <<slave_N, fifo, printed>>

OpenFails(s) ==
  /\ ~fifo
  /\ SlaveGoes(s, "start", "failed")
  /\ UNCHANGED <<master, lines, written, late, stranded>>

OpenForWriting(s) ==
  /\ fifo
  /\ SlaveGoes(s, "start", IF HasReader THEN "writing" ELSE "opening")
  /\ master' = IF master = "opening" THEN "reading" ELSE master
  /\ late' = IF master = "eof" THEN late \cup {s} ELSE late
  /\ stranded' = IF master = "closed" THEN stranded \cup {s} ELSE stranded
  /\ UNCHANGED <<lines, written>>

\* write() of one line; sleep() has no effect.
WriteLine(s) ==
  /\ SlaveGoes(s, "writing", "writing")
  /\ HasReader /\ written[s] < slave_N[s] /\ Len(lines) < Room
  /\ lines' = Append(lines, s)
  /\ written' = [written EXCEPT ![s] = @ + 1]
  /\ UNCHANGED <<master, late, stranded>>

\* SIGPIPE.
BrokenPipe(s) ==
  /\ SlaveGoes(s, "writing", "killed")
  /\ ~HasReader /\ written[s] < slave_N[s]
  /\ UNCHANGED <<master, lines, written, late, stranded>>

CloseForWriting(s) ==
  /\ SlaveGoes(s, "writing", "done")
  /\ written[s] = slave_N[s]
  /\ UNCHANGED <<master, lines, written, late, stranded>>

Slave(s) ==
  OpenFails(s) \/ OpenForWriting(s) \/ WriteLine(s) \/ BrokenPipe(s) \/ CloseForWriting(s)

FifoNext == Master \/ \E s \in Slaves : Slave(s)

FifoSpec == FifoInit /\ [][FifoNext]_fifoVars

-----------------------------------------------------------------------------
Printed(s) == Cardinality({n \in DOMAIN printed : printed[n] = s})

\* Every line is printed of every slave that had opened the pipe before the master
\* met its end, however the slaves overlap; only a slave that comes between that
\* and fclose() loses lines, and is killed or not told.
OnlyLatecomersLose ==
  \A s \in Slaves \ late :
    /\ Printed(s) <= written[s]
    /\ slave[s] # "killed"
    /\ master \in {"eof", "closed", "ended"} /\ slave[s] = "done" => Printed(s) = slave_N[s]

\* Nobody has anything to do: the master has ended or waits for a slave, and each
\* slave has ended, or waits for a reader, or for room in the pipe.
FifoStopped ==
  /\ \/ master \in {"opening", "ended"}
     \/ master = "reading" /\ lines = <<>> /\ ~NothingToCome
  /\ \A s \in Slaves :
       \/ slave[s] \in {"opening", "failed", "killed", "done"}
       \/ slave[s] = "writing" /\ written[s] < slave_N[s] /\ HasReader /\ Len(lines) >= Room

\* Who has not ended then.
OnlyStrandedLeft ==
  /\ \A s \in Slaves : slave[s] = "opening" <=> s \in stranded
  /\ master = "ended" \/ (master = "opening" /\ \A s \in Slaves : slave[s] = "failed")

\* Only a slave that comes between fclose() and remove() waits for ever, for a pipe
\* without a name; and the master waits for ever only if every slave came before
\* the pipe was made.
OnlyStrandedWait == ~ENABLED FifoNext => FifoStopped /\ OnlyStrandedLeft
=============================================================================

----------------------------- MODULE RecordFiles -----------------------------
(***************************************************************************)
(* src/lab02-AccessingFiles/zad1: a file of records is sorted in place by  *)
(* insertion, or copied, either by system calls ("sys") or by stdio        *)
(* ("lib").  The program may be killed at any time; its user repeats the   *)
(* command.  A system call stores a record at once; stdio stores what it   *)
(* has when the position is set, when the file is closed, on exit(), and   *)
(* whenever it likes.                                                      *)
(*                                                                         *)
(* Indices are those of the code and begin at 0; a record of a file is     *)
(* file[index + 1].  Records are stored whole.                             *)
(***************************************************************************)
EXTENDS Integers, FiniteSets, SequencesExt

CONSTANTS
  Keys,         \* values of the first byte of a record
  MaxLength,    \* bound on the records in a file
  MaxCrashes    \* bound on how often the program is killed

ASSUME KeysAssumption == Keys \subseteq 0 .. 255

ASSUME BoundsAssumption == MaxLength \in Nat /\ MaxCrashes \in Nat

VARIABLES
  command, method, records, output,   \* the arguments; the input is file "a"
  files,       \* what is stored
  unstored,    \* what stdio has not stored yet of the output
  place,       \* where the program is
  file_i, file_j,                     \* the loop variables
  record,      \* the record that is being inserted
  original,    \* the files before the first run
  before,      \* the input when this run began
  crashes

fileArguments == <<command, method, records, output, original>>
fileVars ==
  <<fileArguments, files, unstored, place, file_i, file_j, record, before, crashes>>

Named(name, keys) == [p \in DOMAIN keys |-> [key |-> keys[p], from |-> name, at |-> p]]

\* Files with different records; of an existing output only the length matters.
FilesInit ==
  /\ command \in {"sort", "copy"} /\ method \in {"sys", "lib"}
  /\ records \in 0 .. MaxLength + 1
  /\ output \in (IF command = "sort" THEN {"a"} ELSE {"a", "b"})
  /\ \E n \in 0 .. MaxLength, m \in 0 .. MaxLength :
       \E keys \in [1 .. n -> Keys] :
         files = [a |-> Named("a", keys), b |-> Named("b", [p \in 1 .. m |-> 0])]
  /\ command = "sort" => files["b"] = <<>>
  /\ original = files
  /\ unstored = <<>>
  /\ place = "open"
  /\ file_i = 0 /\ file_j = 0
  /\ record = <<>>
  /\ before = files["a"]
  /\ crashes = 0

-----------------------------------------------------------------------------
(* Writing.                                                                *)

\* The file after one write.
Put(file, write) ==
  IF write.index < Len(file) THEN [file EXCEPT ![write.index + 1] = write.record]
  ELSE Append(file, write.record)

Stored(writes) == [files EXCEPT ![output] = FoldLeft(Put, @, writes)]

\* What the program finds when it has set the position.
Current == Stored(unstored)

\* Sets the position, and writes.
WriteAt(index, what) ==
  LET write == [index |-> index, record |-> what]
  IN  IF method = "sys"
      THEN files' = Stored(<<write>>) /\ UNCHANGED unstored
      ELSE files' = Current /\ unstored' = <<write>>

\* Writes behind the last write.
WriteNext(index, what) ==
  LET write == [index |-> index, record |-> what]
  IN  IF method = "sys"
      THEN files' = Stored(<<write>>) /\ UNCHANGED unstored
      ELSE unstored' = Append(unstored, write) /\ UNCHANGED files

StoreAll == files' = Current /\ unstored' = <<>>

StdioStores ==
  /\ \E n \in 1 .. Len(unstored) :
       /\ files' = Stored(SubSeq(unstored, 1, n))
       /\ unstored' = SubSeq(unstored, n + 1, Len(unstored))
  /\ UNCHANGED <<fileArguments, place, file_i, file_j, record, before, crashes>>

-----------------------------------------------------------------------------
(* sort_sys, sort_lib.                                                     *)

OpenToSort ==
  /\ place = "open" /\ command = "sort"
  /\ place' = "load" /\ file_i' = 1
  /\ before' = files["a"]
  /\ UNCHANGED <<fileArguments, files, unstored, file_j, record, crashes>>

LoadRecord ==
  /\ place = "load" /\ file_i < records
  /\ StoreAll
  /\ IF file_i < Len(Current["a"])
     THEN place' = "search" /\ record' = Current["a"][file_i + 1] /\ file_j' = file_i
     ELSE place' = "error" /\ UNCHANGED <<record, file_j>>
  /\ UNCHANGED <<fileArguments, file_i, before, crashes>>

\* Mutant of GoesAfter: equal records change places.
GoesAfterEqual(swap) == swap.key >= record.key

\* Does the record swap belong behind the one that is inserted?
GoesAfter(swap) == swap.key > record.key

MoveSwap ==
  /\ place = "search" /\ file_j > 0
  /\ GoesAfter(Current["a"][file_j])
  /\ WriteAt(file_j, Current["a"][file_j])
  /\ file_j' = file_j - 1
  /\ UNCHANGED <<fileArguments, place, file_i, record, before, crashes>>

\* Mutant of FindPlace: the record is inserted one place too early.
FindPlaceBefore ==
  /\ place = "search"
  /\ file_j > 0 => ~GoesAfter(Current["a"][file_j])
  /\ place' = "insert" /\ file_j' = IF file_j > 0 THEN file_j - 1 ELSE 0
  /\ IF file_j > 0 THEN StoreAll ELSE UNCHANGED <<files, unstored>>
  /\ UNCHANGED <<fileArguments, file_i, record, before, crashes>>

FindPlace ==
  /\ place = "search"
  /\ file_j > 0 => ~GoesAfter(Current["a"][file_j])
  /\ place' = "insert"
  /\ IF file_j > 0 THEN StoreAll ELSE UNCHANGED <<files, unstored>>
  /\ UNCHANGED <<fileArguments, file_i, file_j, record, before, crashes>>

InsertRecord ==
  /\ place = "insert"
  /\ WriteAt(file_j, record)
  /\ place' = "load" /\ file_i' = file_i + 1
  /\ UNCHANGED <<fileArguments, file_j, record, before, crashes>>

-----------------------------------------------------------------------------
(* copy_sys, copy_lib.                                                     *)

\* Mutant of OpenToCopy: fopen(.., "r+"), as in sort_lib.
OpenToUpdate ==
  /\ place = "open" /\ command = "copy"
  /\ place' = "copy" /\ file_i' = 0
  /\ UNCHANGED <<fileArguments, files, unstored, file_j, record, before, crashes>>

\* fopen(.., "w") truncates the output, open() does not.
OpenToCopy ==
  /\ place = "open" /\ command = "copy"
  /\ place' = "copy" /\ file_i' = 0
  /\ files' = IF method = "lib" THEN [files EXCEPT ![output] = <<>>] ELSE files
  /\ UNCHANGED <<fileArguments, unstored, file_j, record, before, crashes>>

CopyRecord ==
  /\ place = "copy" /\ file_i < records /\ file_i < Len(files["a"])
  /\ WriteNext(file_i, files["a"][file_i + 1])
  /\ file_i' = file_i + 1
  /\ UNCHANGED <<fileArguments, place, file_j, record, before, crashes>>

InputEnds ==
  /\ place = "copy" /\ file_i < records /\ file_i >= Len(files["a"])
  /\ place' = "error"
  /\ StoreAll
  /\ UNCHANGED <<fileArguments, file_i, file_j, record, before, crashes>>

Close ==
  /\ place \in {"load", "copy"} /\ file_i >= records
  /\ place' = "done"
  /\ StoreAll
  /\ UNCHANGED <<fileArguments, file_i, file_j, record, before, crashes>>

-----------------------------------------------------------------------------
Crash ==
  /\ place \notin {"done", "error", "dead"} /\ crashes < MaxCrashes
  /\ place' = "dead" /\ crashes' = crashes + 1
  /\ unstored' = <<>>
  /\ UNCHANGED <<fileArguments, files, file_i, file_j, record, before>>

Repeat ==
  /\ place = "dead" /\ place' = "open"
  /\ UNCHANGED <<fileArguments, files, unstored, file_i, file_j, record, before, crashes>>

FilesNext ==
  \/ StdioStores
  \/ OpenToSort \/ LoadRecord \/ MoveSwap \/ FindPlace \/ InsertRecord
  \/ OpenToCopy \/ CopyRecord \/ InputEnds \/ Close
  \/ Crash \/ Repeat

FilesSpec == FilesInit /\ [][FilesNext]_fileVars

-----------------------------------------------------------------------------
\* The record that is only in memory, if there is one.
Inserted == IF place \in {"search", "insert"} THEN {record} ELSE {}

\* However often the sort is killed and repeated, each time costs at most the one
\* record that was in memory; without a crash none is missing, at any time.
OneLostPerCrash ==
  command = "sort" =>
    /\ Len(files["a"]) = Len(original["a"])
    /\ Cardinality(Range(original["a"]) \ (Range(Current["a"]) \cup Inserted)) <= crashes

\* In which order may n records appear?
Orders(n) == Bijection(1 .. n, 1 .. n)

\* Is record p of the input to stand in front of record q?
Precedes(p, q) ==
  \/ before[p].key < before[q].key
  \/ before[p].key = before[q].key /\ p < q

\* The sort ends with the first "records" records in the order of their keys, and
\* those with one key in the order they had; the rest is as it was.  With fewer
\* records in the file it ends with an error, and has sorted them all.
SortedStably ==
  command = "sort" /\ place \in {"done", "error"} =>
    LET file == files["a"]
        size == IF records < Len(before) THEN records ELSE Len(before)
    IN  /\ Len(file) = Len(before)
        /\ \E order \in Orders(size) :
             /\ \A p \in 1 .. size : file[p] = before[order[p]]
             /\ \A p, q \in 1 .. size : p < q => Precedes(order[p], order[q])
        /\ \A p \in size + 1 .. Len(before) : file[p] = before[p]

\* The first n records of the input, and what was behind them in the output.
Copied(n, old) ==
  SubSeq(original["a"], 1, n) \o SubSeq(old, n + 1, Len(old))

\* A copy that is under way or was killed is a part of the input in front of what
\* the output had; one that has ended is complete, and with "sys" the rest of a
\* longer output stays behind it.  The input changes only if it is the output
\* and stdio has emptied it, and then the program does not claim success.
CopyFaithful ==
  command = "copy" =>
    LET ended == place \in {"done", "error"}
        size  == IF records < Len(original["a"]) THEN records ELSE Len(original["a"])
        sizes == IF ended THEN {size} ELSE 0 .. size
        olds  == IF method = "sys" THEN {original["b"]}
                 ELSE IF ended \/ place = "copy" THEN {<<>>}
                 ELSE {<<>>, original["b"]}
    IN  IF output = "b"
        THEN /\ files["a"] = original["a"]
             /\ \E n \in sizes, old \in olds : files["b"] = Copied(n, old)
        ELSE \/ files["a"] = original["a"]
             \/ method = "lib" /\ files["a"] = <<>> /\ (place = "done" => records = 0)
=============================================================================

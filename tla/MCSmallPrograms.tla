-------------------------- MODULE MCSmallPrograms ---------------------------
(***************************************************************************)
(* Five programs that have nothing to do with each other, for TLC: each    *)
(* behaviour is one of them, from any of its initial states; the variables *)
(* of the others keep the values of one.                                   *)
(***************************************************************************)
EXTENDS RecordFiles, ImageFilter, StopResume, Pipeline, NamedPipe

VARIABLE program

OneFile ==
  /\ command = "copy" /\ method = "sys" /\ records = 0 /\ output = "b"
  /\ original = [a |-> <<>>, b |-> <<>>]

OneImage == W = 1 /\ H = 1 /\ C = 0 /\ threads_number = 1

OneLine == cmdc = 1

NoLines == slave_N = [s \in Slaves |-> 0]

MCInit ==
  /\ program \in {"files", "filter", "stop", "pipeline", "fifo"}
  /\ IF program = "files" THEN TRUE ELSE OneFile
  /\ IF program = "filter" THEN TRUE ELSE OneImage
  /\ IF program = "pipeline" THEN TRUE ELSE OneLine
  /\ IF program = "fifo" THEN TRUE ELSE NoLines
  /\ FilesInit /\ FilterInit /\ StopInit /\ PipeInit /\ FifoInit

MCNext ==
  /\ UNCHANGED program
  /\ \/ program = "files" /\ FilesNext
        /\ UNCHANGED <<filterVars, stopVars, pipeVars, fifoVars>>
     \/ program = "filter" /\ FilterNext
        /\ UNCHANGED <<fileVars, stopVars, pipeVars, fifoVars>>
     \/ program = "stop" /\ StopNext
        /\ UNCHANGED <<fileVars, filterVars, pipeVars, fifoVars>>
     \/ program = "pipeline" /\ PipeNext
        /\ UNCHANGED <<fileVars, filterVars, stopVars, fifoVars>>
     \/ program = "fifo" /\ FifoNext
        /\ UNCHANGED <<fileVars, filterVars, stopVars, pipeVars>>

MCSpec ==
  MCInit /\ [][MCNext]_<<fileVars, filterVars, stopVars, pipeVars, fifoVars, program>>
=============================================================================

----------------------------- MODULE StopResume ------------------------------
(***************************************************************************)
(* src/lab04-Signals/zad1/main2.c: a program that runs a script in a       *)
(* child; Control-Z kills the script, the next Control-Z starts it again,  *)
(* Control-C ends both.  From the keyboard the signals go to parent and    *)
(* child; kill(1) sends them to the parent alone.                          *)
(*                                                                         *)
(* SIGTSTP is blocked in its handler up to sigsuspend and from there to    *)
(* the end, so the handler up to sigsuspend is one step.  Children are     *)
(* never waited for: a pid that is killed again is that of a zombie.       *)
(***************************************************************************)
EXTENDS Integers, FiniteSets

CONSTANT MaxForks   \* bound on the scripts that are started

ASSUME MaxForksAssumption == MaxForks \in Nat

VARIABLES
  stop_main,          \* where the parent is, outside of the handler
  waiting,            \* is it in the handler, in sigsuspend?
  child_process_id,   \* 0 for -1
  stop_child,         \* what each child is doing; they are numbered as forked
  forks,              \* children so far
  missed,             \* history: was a signal handled just before pause()?
  escaped             \* history: did Control-C come before the child was stored?

stopVars == <<stop_main, waiting, child_process_id, stop_child, forks, missed, escaped>>

Forked == 1 .. forks

\* A "fresh" child still has its parent's handlers, a "half" one that for SIGINT;
\* a "stopped" one is in the handler for SIGTSTP; a "done" one has ended by itself.
Alive == {c \in Forked : stop_child[c] \in {"fresh", "half", "script", "stopped"}}

StopInit ==
  /\ stop_main = "fork"
  /\ waiting = FALSE
  /\ child_process_id = 0
  /\ stop_child = [c \in 1 .. MaxForks |-> "none"]
  /\ forks = 0
  /\ missed = FALSE
  /\ escaped = FALSE

ParentRuns == stop_main \notin {"ended", "massacre"}

-----------------------------------------------------------------------------
(* main and run_script; they stand still while a handler waits.            *)

Continues(from, to) == ~waiting /\ stop_main = from /\ stop_main' = to

ForkScript ==
  /\ Continues("fork", "store")
  /\ forks < MaxForks /\ forks' = forks + 1
  /\ stop_child' = [stop_child EXCEPT ![forks'] = "fresh"]
  /\ missed' = FALSE
  /\ UNCHANGED <<waiting, child_process_id, escaped>>

\* Mutant of StoreChild: it keeps the first child it knows.
StoreFirstChild ==
  /\ Continues("store", "loop")
  /\ child_process_id' = IF child_process_id = 0 THEN forks ELSE child_process_id
  /\ UNCHANGED <<waiting, stop_child, forks, missed, escaped>>

StoreChild ==
  /\ Continues("store", "loop")
  /\ child_process_id' = forks
  /\ UNCHANGED <<waiting, stop_child, forks, missed, escaped>>

CallPause ==
  /\ Continues("loop", "pause")
  /\ UNCHANGED <<waiting, child_process_id, stop_child, forks, missed, escaped>>

\* The child ignores first SIGTSTP, then SIGINT, and executes the script, which
\* may end.
ChildGoesOn ==
  /\ \E c \in Forked :
       \/ stop_child[c] = "fresh"  /\ stop_child' = [stop_child EXCEPT ![c] = "half"]
       \/ stop_child[c] = "half"   /\ stop_child' = [stop_child EXCEPT ![c] = "script"]
       \/ stop_child[c] = "script" /\ stop_child' = [stop_child EXCEPT ![c] = "done"]
  /\ UNCHANGED <<stop_main, waiting, child_process_id, forks, missed, escaped>>

-----------------------------------------------------------------------------
(* The handlers, in the parent and in children that still have them.  Only *)
(* one child at a time has not executed its script, the last.  What it     *)
(* knows as child_process_id is the child before it, or -1.                *)

\* Whom a process group holds besides the parent that would handle the signal.
Handling(places, toGroup) == {c \in Forked : toGroup /\ stop_child[c] \in places}

\* kill(-1, SIGKILL) kills every process of the user.
KillsAll(victims) == 0 \in victims

\* The child c kills what it knows.
KnownTo(children) == {c - 1 : c \in children}

AfterKill(victims, c, otherwise) == IF c \in victims /\ c \in Alive THEN "dead" ELSE otherwise

\* Everybody has the signal: those that are stopped go on, the others stop.
handle_SIGTSTP ==
  /\ ParentRuns
  /\ \E toGroup \in BOOLEAN :
       LET stopping == Handling({"fresh"}, toGroup)
           resuming == Handling({"stopped"}, toGroup)
           victims  == KnownTo(stopping) \cup (IF waiting THEN {} ELSE {child_process_id})
       IN  /\ stop_child' = [c \in DOMAIN stop_child |->
                          AfterKill(victims, c,
                            IF c \in stopping THEN "stopped"
                            ELSE IF c \in resuming THEN "fresh" ELSE stop_child[c])]
           /\ waiting' = ~waiting
           /\ stop_main' = IF KillsAll(victims) THEN "massacre"
                      ELSE IF waiting /\ stop_main = "pause" THEN "fork" ELSE stop_main
           /\ missed' = (missed \/ (~waiting /\ stop_main = "loop"))
  /\ UNCHANGED <<child_process_id, forks, escaped>>

\* A child in its handler for SIGTSTP kills nobody.
stop_handle_SIGINT ==
  /\ ParentRuns
  /\ \E toGroup \in BOOLEAN :
       LET leaving == Handling({"fresh", "half", "stopped"}, toGroup)
           victims == KnownTo({c \in leaving : stop_child[c] # "stopped"})
                      \cup (IF waiting THEN {} ELSE {child_process_id})
       IN  /\ stop_child' = [c \in DOMAIN stop_child |->
                          AfterKill(victims, c, IF c \in leaving THEN "dead" ELSE stop_child[c])]
           /\ stop_main' = IF KillsAll(victims) THEN "massacre" ELSE "ended"
           /\ escaped' = (stop_main = "store")
  /\ UNCHANGED <<waiting, child_process_id, forks, missed>>

StopNext ==
  \/ ForkScript \/ StoreChild \/ CallPause \/ ChildGoesOn
  \/ handle_SIGTSTP \/ stop_handle_SIGINT

StopSpec == StopInit /\ [][StopNext]_stopVars

-----------------------------------------------------------------------------
\* No two scripts run at once, however the signals come, and the terminal is obeyed
\* except in two windows.  While the program is stopped no script runs, unless it
\* has been forked and not yet stored; after the program has ended none runs, with
\* the same exception.  While it is not stopped it has a script that was not
\* killed, unless a signal came between storing it and pause(): then "continue"
\* starts nothing, and it takes two signals more.
TerminalObeyed ==
  /\ Cardinality(Alive) <= 1
  /\ waiting /\ ParentRuns => stop_main = "store" \/ \A c \in Alive : stop_child[c] = "stopped"
  /\ stop_main = "ended" => escaped \/ Alive = {}
  /\ stop_main = "pause" /\ ~waiting => missed \/ stop_child[child_process_id] # "dead"
=============================================================================

---------------------------- MODULE MCNetServer -----------------------------
\* The instance of NetServer that TLC checks.
EXTENDS NetServer

CONSTANT first

\* Two clients want one name.
MCName == [c \in Clients |-> IF c # first THEN "bob" ELSE "alice"]

\* The behaviours in which timeouts tell the truth, the only ones that the
\* liveness property is about.
TimelyInit == Init /\ timely

TimelySpec == TimelyInit /\ [][Next]_vars /\ Fairness
=============================================================================

---------------------------- MODULE MCSemBuffer -----------------------------
\* The instance of SemBuffer that TLC checks.
EXTENDS SemBuffer

\* Four lines: twice the queue, so that it wraps.
MCInput == <<3, 1, 3, 2>>
=============================================================================

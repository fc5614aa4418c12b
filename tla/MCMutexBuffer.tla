--------------------------- MODULE MCMutexBuffer ----------------------------
\* The instance of MutexBuffer that TLC checks.
EXTENDS MutexBuffer

\* Five lines: more than twice the queue, so that it wraps; the filter
\* (length = 2) selects the first, the third and the fourth.
MCInput == <<3, 1, 3, 3, 2>>
=============================================================================

------------------------------- MODULE Threads -------------------------------
(* Worker threads by their numbers, as the callbacks of a loop get them.    *)
EXTENDS Integers

CONSTANTS MaxThreads   \* the largest number of threads considered

Tid == 0 .. MaxThreads - 1

\* std::min
Minimum(a, b) == IF a < b THEN a ELSE b
==============================================================================

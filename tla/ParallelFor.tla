----------------------------- MODULE ParallelFor -----------------------------
(***************************************************************************)
(* What a parallel loop of common.hpp promises to the code that calls it:  *)
(* every index of [from, to) is passed to the body exactly once, a thread  *)
(* runs one body at a time and sees its indices in increasing order, no    *)
(* body runs before the setup of every thread and no teardown runs before  *)
(* the last body has ended.  Indices are handed out in order, in pieces of *)
(* any length, to any idle thread: block sizes, the shared counter and the *)
(* creation of threads are left to ParForRange, which implements this      *)
(* module.  The modules of the loops' bodies are composed with this one.   *)
(***************************************************************************)
EXTENDS Integers

CONSTANTS MaxThreads,   \* largest num_threads considered
          MaxIndex      \* largest bound of a range considered

VARIABLES numThreads, from, to,   \* the arguments of the call
          workers,                \* the number of threads used, which it returns
          prepared,               \* number of setup calls that have returned
          unclaimed,              \* the first index not yet handed out
          pending,                \* indices handed to each thread, not yet begun
          running,                \* pairs <<k, i>>: thread k is inside body(k, i)
          completed,              \* indices whose body has returned
          released                \* number of teardown calls that have returned

args == <<numThreads, from, to, workers>>
vars == <<numThreads, from, to, workers,
          prepared, unclaimed, pending, running, completed, released>>

Tid == 0 .. MaxThreads - 1
Index == 0 .. MaxIndex - 1
Idle(k) == pending[k] = {} /\ \A r \in running : r[1] # k

Init ==
  /\ numThreads \in 1 .. MaxThreads
  /\ from \in 0 .. MaxIndex
  /\ to \in from .. MaxIndex
  /\ workers \in 1 .. numThreads
  /\ prepared = 0
  /\ unclaimed = from
  /\ pending = [k \in Tid |-> {}]
  /\ running = {}
  /\ completed = {}
  /\ released = 0

\* The caller returns from setup(prepared).
SetUp ==
  /\ prepared < numThreads
  /\ prepared' = prepared + 1
  /\ UNCHANGED <<args, unclaimed, pending, running, completed, released>>

\* Thread k is handed the indices from the first unclaimed one up to i.
Take(k, i) ==
  /\ prepared = numThreads
  /\ k < workers
  /\ Idle(k)
  /\ i \in unclaimed .. to - 1
  /\ pending' = [pending EXCEPT ![k] = unclaimed .. i]
  /\ unclaimed' = i + 1
  /\ UNCHANGED <<args, prepared, running, completed, released>>

\* Thread k enters body(k, i), i being the least of its indices.
Begin(k, i) ==
  /\ i \in pending[k]
  /\ \A h \in pending[k] : i <= h
  /\ \A r \in running : r[1] # k
  /\ pending' = [pending EXCEPT ![k] = @ \ {i}]
  /\ running' = running \cup {<<k, i>>}
  /\ UNCHANGED <<args, prepared, unclaimed, completed, released>>

\* Thread k returns from body(k, i).
End(k, i) ==
  /\ <<k, i>> \in running
  /\ running' = running \ {<<k, i>>}
  /\ completed' = completed \cup {i}
  /\ UNCHANGED <<args, prepared, unclaimed, pending, released>>

\* The caller returns from tear_down(released).
TearDown ==
  /\ prepared = numThreads
  /\ completed = from .. to - 1
  /\ released < numThreads
  /\ released' = released + 1
  /\ UNCHANGED <<args, prepared, unclaimed, pending, running, completed>>

Next ==
  \/ SetUp
  \/ \E k \in Tid, i \in Index : Take(k, i) \/ Begin(k, i) \/ End(k, i)
  \/ TearDown

SafeSpec == Init /\ [][Next]_vars

\* The loop runs to its end.
Spec == SafeSpec /\ WF_vars(Next)
==============================================================================

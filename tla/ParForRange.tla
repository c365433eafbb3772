----------------------------- MODULE ParForRange -----------------------------
(***************************************************************************)
(* common::par_for_range: a loop over [from, to) executed by threads that  *)
(* claim blocks of blockSize offsets from one shared counter with an       *)
(* atomic fetch_add.  The calling thread runs setup(k) for every thread,   *)
(* spawns the workers, joins them in order and runs tear_down(k) for every *)
(* thread; with a single worker it runs the loop itself.                   *)
(*                                                                         *)
(* The arguments of the call are chosen in Init and never change.          *)
(***************************************************************************)
EXTENDS Threads

CONSTANTS MaxIndex, MaxBlock   \* bounds on the arguments, as MaxThreads

ASSUME ParBounds ==
  /\ MaxThreads \in Nat \ {0}
  /\ MaxIndex \in Nat
  /\ MaxBlock \in Nat \ {0}

VARIABLES
  numThreads, from, to, blockSize,  \* arguments
  phase,       \* where the calling thread is
  cursor,      \* its loop variable (setup, spawn, join and teardown loops)
  next_work,   \* the shared atomic counter
  pc,          \* where each worker is
  j, work_end, \* each worker's loop variable and the end of its block
  begun, ended,\* history: calls of body entered and left, per index
  last,        \* history: last index given to each thread
  torn         \* history: number of tear_down calls that returned

args == <<numThreads, from, to, blockSize>>
main == <<phase, cursor, torn>>
worker == <<pc, j, work_end, begun, ended, last>>
vars == <<numThreads, from, to, blockSize, phase, cursor, next_work,
          pc, j, work_end, begun, ended, last, torn>>

Index == 0 .. MaxIndex - 1

range_len == to - from
real_num_threads == Minimum((range_len \div blockSize) + 1, numThreads)

-----------------------------------------------------------------------------
Init ==
  /\ numThreads \in 1 .. MaxThreads
  /\ from \in 0 .. MaxIndex
  /\ to \in from .. MaxIndex
  /\ blockSize \in 1 .. MaxBlock
  /\ phase = "setup"
  /\ cursor = 0
  /\ next_work = 0
  /\ pc = [k \in Tid |-> "unborn"]
  /\ j = [k \in Tid |-> 0]
  /\ work_end = [k \in Tid |-> 0]
  /\ begun = [i \in Index |-> 0]
  /\ ended = [i \in Index |-> 0]
  /\ last = [k \in Tid |-> -1]
  /\ torn = 0

-----------------------------------------------------------------------------
(* The calling thread.                                                     *)

SetUp ==
  /\ phase = "setup"
  /\ cursor < numThreads
  /\ cursor' = cursor + 1
  /\ UNCHANGED <<args, phase, torn, next_work, worker>>

\* One worker is enough: the caller runs body(0, i) for every i itself.
RunSequentially ==
  /\ phase = "setup"
  /\ cursor = numThreads
  /\ real_num_threads = 1
  /\ phase' = "sequential"
  /\ cursor' = 0
  /\ pc' = [pc EXCEPT ![0] = "iterate"]
  /\ j' = [j EXCEPT ![0] = 0]
  /\ work_end' = [work_end EXCEPT ![0] = range_len]
  /\ UNCHANGED <<args, torn, next_work, begun, ended, last>>

SequentialDone ==
  /\ phase = "sequential"
  /\ pc[0] = "iterate"
  /\ j[0] >= work_end[0]
  /\ phase' = "teardown"
  /\ pc' = [pc EXCEPT ![0] = "exited"]
  /\ UNCHANGED <<args, cursor, torn, next_work, j, work_end, begun, ended, last>>

StartSpawning ==
  /\ phase = "setup"
  /\ cursor = numThreads
  /\ real_num_threads # 1
  /\ phase' = "spawn"
  /\ cursor' = 0
  /\ next_work' = 0
  /\ UNCHANGED <<args, torn, worker>>

Spawn ==
  /\ phase = "spawn"
  /\ cursor < real_num_threads
  /\ pc' = [pc EXCEPT ![cursor] = "claim"]
  /\ cursor' = cursor + 1
  /\ UNCHANGED <<args, phase, torn, next_work, j, work_end, begun, ended, last>>

StartJoining ==
  /\ phase = "spawn"
  /\ cursor = real_num_threads
  /\ phase' = "join"
  /\ cursor' = 0
  /\ UNCHANGED <<args, torn, next_work, worker>>

\* Fault of Join: the workers are detached.
Join_Detached ==
  /\ phase = "join"
  /\ cursor < real_num_threads
  /\ cursor' = cursor + 1
  /\ UNCHANGED <<args, phase, torn, next_work, worker>>

Join ==
  /\ phase = "join"
  /\ cursor < real_num_threads
  /\ pc[cursor] = "exited"
  /\ cursor' = cursor + 1
  /\ UNCHANGED <<args, phase, torn, next_work, worker>>

\* Fault of AllJoined: the join loop is left one worker too early.
AllJoined_Early ==
  /\ phase = "join"
  /\ cursor = real_num_threads - 1
  /\ phase' = "teardown"
  /\ cursor' = 0
  /\ UNCHANGED <<args, torn, next_work, worker>>

AllJoined ==
  /\ phase = "join"
  /\ cursor = real_num_threads
  /\ phase' = "teardown"
  /\ cursor' = 0
  /\ UNCHANGED <<args, torn, next_work, worker>>

\* Fault of TearDown: it runs for the workers that were spawned only.
TearDown_Workers ==
  /\ phase = "teardown"
  /\ torn < numThreads
  /\ torn' = torn + real_num_threads
  /\ UNCHANGED <<args, phase, cursor, next_work, worker>>

TearDown ==
  /\ phase = "teardown"
  /\ torn < numThreads
  /\ torn' = torn + 1
  /\ UNCHANGED <<args, phase, cursor, next_work, worker>>

Return ==
  /\ phase = "teardown"
  /\ torn = numThreads
  /\ phase' = "returned"
  /\ UNCHANGED <<args, cursor, torn, next_work, worker>>

-----------------------------------------------------------------------------
(* A worker.                                                               *)

\* Faults of Claim: the counter is read and written back in two steps, so that
\* another worker's claim is lost ...
Claim_LostUpdate(k) ==
  /\ pc[k] = "claim"
  /\ next_work <= range_len
  /\ next_work' \in {next_work, next_work + blockSize}
  /\ pc' = [pc EXCEPT ![k] = "iterate"]
  /\ j' = [j EXCEPT ![k] = next_work]
  /\ work_end' =
       [work_end EXCEPT ![k] = Minimum(next_work + blockSize, range_len)]
  /\ UNCHANGED <<args, main, begun, ended, last>>

\* ... a worker stops one block too late ...
Claim_LateStop(k) ==
  /\ pc[k] = "claim"
  /\ next_work' = next_work + blockSize
  /\ IF next_work > range_len + blockSize
       THEN /\ pc' = [pc EXCEPT ![k] = "exited"]
            /\ UNCHANGED <<j, work_end>>
       ELSE /\ pc' = [pc EXCEPT ![k] = "iterate"]
            /\ j' = [j EXCEPT ![k] = next_work]
            /\ work_end' =
                 [work_end EXCEPT ![k] = Minimum(next_work + blockSize, range_len)]
  /\ UNCHANGED <<args, main, begun, ended, last>>

\* ... or the counter wraps around at the end of the range.
Claim_Wraps(k) ==
  /\ pc[k] = "claim"
  /\ next_work' = (next_work + blockSize) % (range_len + 1)
  /\ pc' = [pc EXCEPT ![k] = "iterate"]
  /\ j' = [j EXCEPT ![k] = next_work]
  /\ work_end' =
       [work_end EXCEPT ![k] = Minimum(next_work + blockSize, range_len)]
  /\ UNCHANGED <<args, main, begun, ended, last>>

\* fetch_add on the counter, and the test of the claimed offset against the
\* length of the range.  An offset equal to range_len gives an empty block.
Claim(k) ==
  /\ pc[k] = "claim"
  /\ next_work' = next_work + blockSize
  /\ \/ /\ next_work > range_len
        /\ pc' = [pc EXCEPT ![k] = "exited"]
        /\ UNCHANGED <<j, work_end>>
     \/ /\ next_work <= range_len
        /\ pc' = [pc EXCEPT ![k] = "iterate"]
        /\ j' = [j EXCEPT ![k] = next_work]
        /\ work_end' =
             [work_end EXCEPT ![k] = Minimum(next_work + blockSize, range_len)]
  /\ UNCHANGED <<args, main, begun, ended, last>>

BeginBody(k) ==
  /\ pc[k] = "iterate"
  /\ j[k] < work_end[k]
  /\ pc' = [pc EXCEPT ![k] = "body"]
  /\ begun' = [begun EXCEPT ![from + j[k]] = @ + 1]
  /\ last' = [last EXCEPT ![k] = from + j[k]]
  /\ UNCHANGED <<args, main, next_work, j, work_end, ended>>

EndBody(k) ==
  /\ pc[k] = "body"
  /\ pc' = [pc EXCEPT ![k] = "iterate"]
  /\ ended' = [ended EXCEPT ![from + j[k]] = @ + 1]
  /\ j' = [j EXCEPT ![k] = @ + 1]
  /\ UNCHANGED <<args, main, next_work, work_end, begun, last>>

BlockDone(k) ==
  /\ phase # "sequential"
  /\ pc[k] = "iterate"
  /\ j[k] >= work_end[k]
  /\ pc' = [pc EXCEPT ![k] = "claim"]
  /\ UNCHANGED <<args, main, next_work, j, work_end, begun, ended, last>>

Worker(k) == Claim(k) \/ BeginBody(k) \/ EndBody(k) \/ BlockDone(k)

Caller ==
  \/ SetUp \/ RunSequentially \/ SequentialDone
  \/ StartSpawning \/ Spawn \/ StartJoining
  \/ Join \/ AllJoined \/ TearDown \/ Return

Terminated == phase = "returned" /\ UNCHANGED vars

Next == Caller \/ (\E k \in Tid : Worker(k)) \/ Terminated

SafeSpec == Init /\ [][Next]_vars

\* The operating system schedules every thread, and every body returns.
Fairness == WF_vars(Caller) /\ \A k \in Tid : WF_vars(Worker(k))

Spec == SafeSpec /\ Fairness
-----------------------------------------------------------------------------
TypeOK ==
  /\ numThreads \in 1 .. MaxThreads
  /\ from \in 0 .. MaxIndex
  /\ to \in from .. MaxIndex
  /\ blockSize \in 1 .. MaxBlock
  /\ phase \in {"setup", "sequential", "spawn", "join", "teardown", "returned"}
  /\ cursor \in 0 .. MaxThreads
  /\ next_work \in Nat
  /\ pc \in [Tid -> {"unborn", "claim", "iterate", "body", "exited"}]
  /\ j \in [Tid -> 0 .. MaxIndex]
  /\ work_end \in [Tid -> 0 .. MaxIndex]
  /\ begun \in [Index -> 0 .. 1]
  /\ ended \in [Index -> 0 .. 1]
  /\ last \in [Tid -> -1 .. MaxIndex - 1]
  /\ torn \in 0 .. MaxThreads

\* The body is entered at most once for an index, whatever the interleaving of
\* the claims, and once the caller has left the join loop it has been entered
\* and left exactly once for every index of the range and for no other.
ExactlyOnce ==
  /\ \A i \in Index : ended[i] <= begun[i] /\ begun[i] <= 1
  /\ phase \in {"teardown", "returned"} =>
       \A i \in Index : ended[i] = (IF i \in from .. to - 1 THEN 1 ELSE 0)

\* No worker is alive when the teardown callbacks run or after the call has
\* returned: block_size, next_work and the callbacks' buffers are on the
\* caller's stack and every worker holds references to them.
NoWorkerOutlivesCall ==
  phase \in {"teardown", "returned"} =>
    \A k \in Tid : pc[k] \in {"unborn", "exited"}

\* Every worker overshoots the end of the range by one claim only, so the size_t
\* counter stays within one block per worker of the end of the range.
CounterBound ==
  next_work <= blockSize * ((range_len \div blockSize) + 1 + real_num_threads)

\* The indices one thread is given increase.  The layouts' parallel iterators
\* rely on it: a decoder kept per thread only ever moves forward.
PerThreadOrder == [][\A k \in Tid : last'[k] >= last[k]]_vars

\* How many offsets of the range have been claimed.
Handed ==
  IF phase = "setup" THEN 0
  ELSE IF real_num_threads = 1 THEN range_len
  ELSE Minimum(next_work, range_len)

\* The claimed indices whose body thread k has not entered yet.
Remaining(k) ==
  LET first == IF pc[k] = "body" THEN j[k] + 1 ELSE j[k]
  IN  IF pc[k] \in {"iterate", "body"}
      THEN from + first .. from + work_end[k] - 1
      ELSE {}

\* The loop keeps the promises of ParallelFor.
Loop == INSTANCE ParallelFor WITH
  workers <- real_num_threads,
  prepared <- IF phase = "setup" THEN cursor ELSE numThreads,
  unclaimed <- from + Handed,
  pending <- [k \in Tid |-> Remaining(k)],
  running <- {<<k, from + j[k]>> : k \in {t \in Tid : pc[t] = "body"}},
  completed <- {i \in Index : ended[i] > 0},
  released <- torn

ImplementsParallelFor == Loop!Spec
==============================================================================

--------------------------- MODULE Parallel_proofs ---------------------------
(***************************************************************************)
(* Theorems about common::par_for_range, for any number of threads, range  *)
(* and block size, and about the breadth-first search of n_path that runs  *)
(* on it, for any finite set of nodes, any graphs over it, any number of   *)
(* threads and any depth.                                                  *)
(***************************************************************************)
EXTENDS ParForRange, NPath, FiniteFacts

Active(k) == pc[k] \in {"iterate", "body"}

\* Index i lies in what is left of the block of thread k.
Owns(k, i) == Active(k) /\ from + j[k] <= i /\ i < from + work_end[k]

\* What the phases of the calling thread say about the workers.
Phases ==
  /\ cursor <= numThreads
  /\ phase \in {"spawn", "join"} => real_num_threads # 1 /\ cursor <= real_num_threads
  /\ phase = "setup" => next_work = 0 /\ \A k \in Tid : pc[k] = "unborn"
  /\ phase = "sequential" =>
       /\ real_num_threads = 1
       /\ \A k \in Tid : IF k = 0 THEN Active(k) ELSE pc[k] = "unborn"
       /\ work_end[0] = range_len
  /\ phase = "spawn" => \A k \in Tid : k >= cursor => pc[k] = "unborn"
  /\ phase = "join" =>
       /\ \A k \in Tid : k < cursor => pc[k] = "exited"
       /\ \A k \in Tid : k >= real_num_threads => pc[k] = "unborn"
  /\ phase \in {"teardown", "returned"} =>
       /\ \A k \in Tid : pc[k] \in {"unborn", "exited"}
       /\ pc[0] = "exited"
  /\ torn <= numThreads
  /\ torn > 0 => phase \in {"teardown", "returned"}
  /\ phase = "returned" => torn = numThreads

\* The blocks being worked on lie in the part of the range handed out, apart
\* from each other; a worker leaves only when everything has been handed out.
Blocks ==
  /\ \A k \in Tid :
       /\ Active(k) => j[k] <= work_end[k] /\ work_end[k] <= Handed
       /\ pc[k] = "body" => j[k] < work_end[k]
       /\ pc[k] = "exited" => Handed = range_len
  /\ \A k, h \in Tid : Active(k) /\ Active(h) /\ k # h =>
       work_end[k] <= j[h] \/ work_end[h] <= j[k]

\* What has been done with an index follows from who owns it.
Counts ==
  /\ \A i \in Index : ~(from <= i /\ i < from + Handed) => begun[i] = 0 /\ ended[i] = 0
  /\ \A i \in Index :
       from <= i /\ i < from + Handed /\ (\A k \in Tid : ~Owns(k, i)) =>
         begun[i] = 1 /\ ended[i] = 1
  /\ \A k \in Tid, i \in Index : Owns(k, i) =>
       /\ ended[i] = 0
       /\ begun[i] = IF pc[k] = "body" /\ i = from + j[k] THEN 1 ELSE 0

\* No thread has been given an index behind the ones it will be given.
Order ==
  /\ \A k \in Tid : last[k] < from + Handed
  /\ \A k \in Tid : pc[k] = "iterate" => last[k] < from + j[k]
  /\ \A k \in Tid : pc[k] = "body" => last[k] = from + j[k]

IInv == TypeOK /\ Phases /\ Blocks /\ Counts /\ Order
-----------------------------------------------------------------------------
\* At least one worker is used, and no more than were asked for.
LEMMA RealThreads ==
  ASSUME TypeOK
  PROVE  /\ range_len \in Nat
         /\ real_num_threads \in 1 .. numThreads
         /\ Handed \in 0 .. range_len
         /\ numThreads \in Nat /\ numThreads <= MaxThreads /\ 0 \in Tid
<1>1. range_len \in Nat /\ blockSize \in Nat /\ blockSize > 0
  BY ParBounds DEF TypeOK, range_len
<1>2. range_len \div blockSize \in Nat
  BY <1>1
<1>3. real_num_threads \in 1 .. numThreads
  BY <1>2, ParBounds DEF TypeOK, real_num_threads, Minimum
<1> QED
  BY <1>1, <1>3, ParBounds DEF TypeOK, Handed, Minimum, Tid

\* The arguments, and what is computed from them, never change.
LEMMA ArgumentsFixed ==
  ASSUME UNCHANGED args
  PROVE  range_len' = range_len /\ real_num_threads' = real_num_threads
BY DEF args, range_len, real_num_threads

\* A step of the calling thread that does not touch the workers, nor what has
\* been handed out, keeps what is known of the workers.
LEMMA CallerFrame ==
  ASSUME Blocks, Counts, Order, UNCHANGED args, UNCHANGED worker, Handed' = Handed
  PROVE  Blocks' /\ Counts' /\ Order'
BY ArgumentsFixed DEF Blocks, Counts, Order, Active, Owns, args, worker

-----------------------------------------------------------------------------
LEMMA InitIInv == Init => IInv
<1> SUFFICES ASSUME Init PROVE IInv
  OBVIOUS
<1>1. TypeOK
  BY ParBounds DEF Init, TypeOK, Tid, Index
<1>2. Handed = 0
  BY DEF Init, Handed
<1>3. Phases
  BY <1>1, RealThreads DEF Init, Phases, TypeOK
<1>4. Blocks /\ Counts
  BY <1>2 DEF Init, Blocks, Counts, Active, Owns, Index
<1>5. Order
  BY <1>1, <1>2 DEF Init, Order, TypeOK
<1> QED
  BY <1>1, <1>3, <1>4, <1>5 DEF IInv

\* The steps of the calling thread.
LEMMA CallerStep == IInv /\ Caller => IInv'
<1> SUFFICES ASSUME IInv, Caller PROVE IInv'
  OBVIOUS
<1> USE DEF IInv
<1>0. UNCHANGED args
  BY DEF Caller, SetUp, RunSequentially, SequentialDone, StartSpawning, Spawn,
         StartJoining, Join, AllJoined, TearDown, Return
<1>a. range_len' = range_len /\ real_num_threads' = real_num_threads
  BY <1>0, ArgumentsFixed
<1>b. /\ range_len \in Nat
      /\ real_num_threads \in 1 .. numThreads
      /\ Handed \in 0 .. range_len
      /\ numThreads \in Nat /\ numThreads <= MaxThreads /\ 0 \in Tid
  BY RealThreads
<1>1. CASE SetUp
  <2>1. TypeOK' /\ Phases'
    BY <1>1, <1>a, <1>b, ParBounds DEF SetUp, TypeOK, Phases, Active, args, worker
  <2>2. Handed' = Handed
    BY <1>1, <1>a DEF SetUp, Handed
  <2> QED
    BY <1>0, <1>1, <2>1, <2>2, CallerFrame DEF SetUp
<1>2. CASE RunSequentially
  <2>1. TypeOK'
    BY <1>2, <1>b, ParBounds DEF RunSequentially, TypeOK, range_len, args
  <2>2. Phases'
    BY <1>2, <1>a, <1>b DEF RunSequentially, TypeOK, Phases, Active, args
  <2>3. Handed = 0 /\ Handed' = range_len
    BY <1>2, <1>a DEF RunSequentially, Handed
  <2>4. \A k \in Tid : Active(k)' <=> k = 0
    BY <1>2, <1>b DEF RunSequentially, TypeOK, Phases, Active
  <2>5. j'[0] = 0 /\ work_end'[0] = range_len /\ pc'[0] = "iterate"
    BY <1>2, <1>b DEF RunSequentially, TypeOK
  <2>6. Blocks'
    BY <1>2, <1>a, <1>b, <2>3, <2>4, <2>5 DEF RunSequentially, TypeOK, Phases, Blocks, Active
  <2>7. Counts'
    BY <1>2, <1>b, <2>3, <2>4, <2>5
    DEF RunSequentially, TypeOK, Counts, Owns, Index, Tid, args
  <2>8. Order'
    <3>1. \A k \in Tid : last'[k] = last[k] /\ last[k] \in Int /\ last[k] < from
      BY <1>2, <2>3 DEF RunSequentially, TypeOK, Order
    <3>2. from' = from /\ from \in Nat
      BY <1>2 DEF RunSequentially, TypeOK, args
    <3> QED
      BY <1>a, <1>b, <2>3, <2>4, <2>5, <3>1, <3>2 DEF Order, Active
  <2> QED
    BY <2>1, <2>2, <2>6, <2>7, <2>8
<1>3. CASE SequentialDone
  <2>1. TypeOK'
    BY <1>3 DEF SequentialDone, TypeOK, args
  <2>2. Phases'
    BY <1>3, <1>a, <1>b DEF SequentialDone, TypeOK, Phases, Active, args
  <2>3. Handed' = Handed /\ Handed = range_len
    BY <1>3, <1>a DEF SequentialDone, Handed, Phases
  <2>4. Blocks' /\ Order'
    BY <1>3, <1>a, <1>b, <2>3 DEF SequentialDone, TypeOK, Blocks, Order, Active, args
  <2>5. \A k \in Tid, i \in Index : ~Owns(k, i) /\ ~Owns(k, i)'
    BY <1>3, <1>b DEF SequentialDone, TypeOK, Phases, Owns, Active, Tid, Index, args
  <2>6. Counts'
    BY <1>3, <2>3, <2>5 DEF SequentialDone, Counts, args
  <2> QED
    BY <2>1, <2>2, <2>4, <2>6
<1>4. CASE StartSpawning
  <2>1. TypeOK' /\ Phases'
    BY <1>4, <1>a, <1>b, ParBounds, SMTT(30) DEF StartSpawning, TypeOK, Phases, Active, args, worker, Tid
  <2>2. Handed' = Handed
    BY <1>4, <1>a, <1>b DEF StartSpawning, Handed, Minimum
  <2> QED
    BY <1>0, <1>4, <2>1, <2>2, CallerFrame DEF StartSpawning
<1>5. CASE Spawn
  <2>1. TypeOK'
    <3>1. cursor' \in 0 .. MaxThreads
      BY <1>5, <1>b, ParBounds DEF Spawn, TypeOK
    <3> QED
      BY <1>5, <3>1 DEF Spawn, TypeOK, args
  <2>2. Phases'
    BY <1>5, <1>a, <1>b DEF Spawn, TypeOK, Phases, Active, args, Tid
  <2>3. Handed' = Handed
    BY <1>5, <1>a DEF Spawn, Handed
  <2>4. \A k \in Tid : Active(k)' <=> Active(k)
    BY <1>5, <1>b DEF Spawn, TypeOK, Phases, Active, Tid
  <2>5. \A k \in Tid : Active(k) => pc'[k] = pc[k]
    BY <1>5, <1>b DEF Spawn, TypeOK, Phases, Active, Tid
  <2>6. Blocks' /\ Order'
    BY <1>5, <1>a, <2>3, <2>4, <2>5 DEF Spawn, TypeOK, Blocks, Order, Active, args
  <2>7. Counts'
    BY <1>5, <2>3, <2>4, <2>5 DEF Spawn, Counts, Owns, args
  <2> QED
    BY <2>1, <2>2, <2>6, <2>7
<1>6. CASE StartJoining
  <2>1. TypeOK' /\ Phases'
    BY <1>6, <1>a, <1>b DEF StartJoining, TypeOK, Phases, Active, args, worker, Tid
  <2>2. Handed' = Handed
    BY <1>6, <1>a DEF StartJoining, Handed
  <2> QED
    BY <1>0, <1>6, <2>1, <2>2, CallerFrame DEF StartJoining
<1>7. CASE Join
  <2>1. TypeOK'
    <3>1. cursor' \in 0 .. MaxThreads
      BY <1>7, <1>b, ParBounds DEF Join, TypeOK
    <3> QED
      BY <1>7, <3>1 DEF Join, TypeOK, args, worker
  <2>a. Phases'
    BY <1>7, <1>a, <1>b DEF Join, TypeOK, Phases, Active, args, worker, Tid
  <2>2. Handed' = Handed
    BY <1>7, <1>a DEF Join, Handed
  <2> QED
    BY <1>0, <1>7, <2>1, <2>a, <2>2, CallerFrame DEF Join
<1>8. CASE AllJoined
  <2>1. TypeOK' /\ Phases'
    BY <1>8, <1>a, <1>b DEF AllJoined, TypeOK, Phases, Active, args, worker, Tid
  <2>2. Handed' = Handed
    BY <1>8, <1>a DEF AllJoined, Handed
  <2> QED
    BY <1>0, <1>8, <2>1, <2>2, CallerFrame DEF AllJoined
<1>9. CASE TearDown
  <2>1. TypeOK'
    <3>1. torn' \in 0 .. MaxThreads
      BY <1>9, <1>b, ParBounds DEF TearDown, TypeOK
    <3> QED
      BY <1>9, <3>1 DEF TearDown, TypeOK, args, worker
  <2>a. Phases'
    BY <1>9, <1>a, <1>b DEF TearDown, TypeOK, Phases, Active, args, worker
  <2>2. Handed' = Handed
    BY <1>9, <1>a DEF TearDown, Handed
  <2> QED
    BY <1>0, <1>9, <2>1, <2>a, <2>2, CallerFrame DEF TearDown
<1>10. CASE Return
  <2>1. TypeOK' /\ Phases'
    BY <1>10, <1>a, <1>b DEF Return, TypeOK, Phases, Active, args, worker
  <2>2. Handed' = Handed
    BY <1>10, <1>a DEF Return, Handed
  <2> QED
    BY <1>0, <1>10, <2>1, <2>2, CallerFrame DEF Return
<1> QED
  BY <1>1, <1>2, <1>3, <1>4, <1>5, <1>6, <1>7, <1>8, <1>9, <1>10 DEF Caller

\* A claim hands out the next block, or sends the worker home.
LEMMA ClaimStep == ASSUME IInv, NEW k \in Tid, Claim(k) PROVE IInv'
<1> USE DEF IInv
<1>0. UNCHANGED args /\ UNCHANGED main /\ pc[k] = "claim"
  BY DEF Claim
<1>1. range_len' = range_len /\ real_num_threads' = real_num_threads
  BY <1>0, ArgumentsFixed
<1>2. /\ range_len \in Nat
      /\ real_num_threads \in 1 .. numThreads
      /\ Handed \in 0 .. range_len
      /\ numThreads \in Nat /\ numThreads <= MaxThreads /\ 0 \in Tid
      /\ next_work \in Nat /\ blockSize \in Nat \ {0}
      /\ from \in Nat /\ to \in Nat /\ to <= MaxIndex
  BY RealThreads, ParBounds DEF TypeOK
<1>3. phase \in {"spawn", "join"} /\ real_num_threads # 1
  BY <1>0, <1>2 DEF Phases, TypeOK, Active
<1>4. Handed = Minimum(next_work, range_len)
      /\ Handed' = Minimum(next_work + blockSize, range_len)
  BY <1>0, <1>1, <1>3 DEF Handed, Claim, main
<1>5. Phases'
  BY <1>0, <1>1, <1>2, <1>3 DEF Claim, Phases, TypeOK, args, main, Active
<1>6. CASE next_work > range_len
  <2>1. Handed' = Handed /\ Handed = range_len
    BY <1>2, <1>4, <1>6 DEF Minimum
  <2>2. pc' = [pc EXCEPT ![k] = "exited"] /\ UNCHANGED <<j, work_end, begun, ended, last>>
    BY <1>2, <1>6 DEF Claim
  <2>3. TypeOK'
    BY <1>0, <1>2, <2>2 DEF Claim, TypeOK, args, main
  <2>4. \A h \in Tid : ~Active(k) /\ (Active(h)' <=> Active(h)) /\ (Active(h) => pc'[h] = pc[h])
    BY <1>0, <2>2 DEF TypeOK, Active
  <2>5. Blocks' /\ Order'
    BY <1>0, <1>1, <2>1, <2>2, <2>4 DEF TypeOK, Blocks, Order, Active, args
  <2>6. Counts'
    BY <1>0, <2>1, <2>2, <2>4 DEF Counts, Owns, args
  <2> QED
    BY <1>5, <2>3, <2>5, <2>6
<1>7. CASE next_work <= range_len
  <2>1. /\ pc' = [pc EXCEPT ![k] = "iterate"]
        /\ j' = [j EXCEPT ![k] = next_work]
        /\ work_end' = [work_end EXCEPT ![k] = Minimum(next_work + blockSize, range_len)]
        /\ UNCHANGED <<begun, ended, last>>
    BY <1>2, <1>7 DEF Claim
  <2>2. Handed = next_work /\ Handed' \in next_work .. range_len
    BY <1>2, <1>4, <1>7 DEF Minimum
  <2>3. /\ j'[k] = Handed /\ work_end'[k] = Handed' /\ pc'[k] = "iterate"
        /\ \A h \in Tid : h # k => /\ pc'[h] = pc[h] /\ j'[h] = j[h]
                                   /\ work_end'[h] = work_end[h]
    BY <1>4, <2>1, <2>2 DEF TypeOK
  <2>4. range_len <= MaxIndex
    BY <1>2, ParBounds DEF range_len
  <2>5. TypeOK'
    <3>1. next_work' \in Nat
      BY <1>2 DEF Claim
    <3>2. j' \in [Tid -> 0 .. MaxIndex] /\ work_end' \in [Tid -> 0 .. MaxIndex]
      BY <1>2, <1>4, <2>1, <2>2, <2>4, ParBounds DEF TypeOK
    <3> QED
      BY <1>0, <2>1, <3>1, <3>2 DEF TypeOK, args, main
  <2>6. Blocks'
    BY <1>0, <1>1, <1>2, <2>2, <2>3 DEF TypeOK, Blocks, Active
  <2>7. \A i \in Index : /\ ~Owns(k, i)
                         /\ Owns(k, i)' <=> from + Handed <= i /\ i < from + Handed'
                         /\ \A h \in Tid : h # k => (Owns(h, i)' <=> Owns(h, i))
    BY <1>0, <2>3 DEF Owns, Active, args
  <2>8. Counts'
    <3>0. PICK H \in Nat : Handed' = H /\ Handed <= H
      BY <1>2, <2>2
    <3>a. Handed \in Nat /\ from \in Nat /\ Index \subseteq Nat
      BY <1>2, ParBounds DEF Index
    <3>b. \A i \in Index : i < from + Handed => i < from + H
      BY <3>0, <3>a
    <3>1. \A i \in Index : ~(from <= i /\ i < from + H) => begun[i] = 0 /\ ended[i] = 0
      BY <3>b DEF Counts
    <3>2. ASSUME NEW i \in Index, from <= i, i < from + H, \A h \in Tid : ~Owns(h, i)'
          PROVE  begun[i] = 1 /\ ended[i] = 1
      <4>1. \A h \in Tid : ~Owns(h, i)
        BY <2>7, <3>2
      <4>2. i < from + Handed
        BY <2>7, <3>0, <3>a, <3>2
      <4> QED
        BY <3>2, <4>1, <4>2 DEF Counts
    <3>3. ASSUME NEW h \in Tid, NEW i \in Index, Owns(h, i)'
          PROVE  /\ ended[i] = 0
                 /\ begun[i] = IF pc'[h] = "body" /\ i = from + j'[h] THEN 1 ELSE 0
      <4>1. CASE h = k
        <5>1. ~(i < from + Handed)
          BY <2>7, <3>a, <3>3, <4>1
        <5> QED
          BY <2>3, <3>a, <4>1, <5>1 DEF Counts
      <4>2. CASE h # k
        BY <2>3, <2>7, <3>3, <4>2 DEF Counts
      <4> QED
        BY <4>1, <4>2
    <3> QED
      BY <1>0, <2>1, <3>0, <3>1, <3>2, <3>3 DEF Counts, args
  <2>9. Order'
    BY <1>0, <1>2, <2>1, <2>2, <2>3 DEF TypeOK, Order, args
  <2> QED
    BY <1>5, <2>5, <2>6, <2>8, <2>9
<1> QED
  BY <1>2, <1>6, <1>7

\* A worker inside its block is where the phases allow one.
LEMMA ActiveWorker ==
  ASSUME IInv, NEW k \in Tid, Active(k)
  PROVE  /\ phase \in {"sequential", "spawn", "join"}
         /\ from \in Nat /\ j[k] \in Nat /\ work_end[k] \in Nat /\ Handed \in Nat
         /\ j[k] <= work_end[k] /\ work_end[k] <= Handed
         /\ j[k] < work_end[k] => from + j[k] \in Index /\ Owns(k, from + j[k])
<1> USE DEF IInv
<1>1. /\ from \in Nat /\ j[k] \in Nat /\ work_end[k] \in Nat /\ Handed \in Nat
      /\ range_len \in Nat /\ Handed <= range_len /\ from + range_len <= MaxIndex
  BY RealThreads, ParBounds DEF TypeOK, range_len
<1>2. phase \in {"sequential", "spawn", "join"}
  BY DEF TypeOK, Phases, Active
<1>3. j[k] <= work_end[k] /\ work_end[k] <= Handed
  BY DEF Blocks
<1> QED
  BY <1>1, <1>2, <1>3, ParBounds DEF Index, Owns

LEMMA BeginBodyStep == ASSUME IInv, NEW k \in Tid, BeginBody(k) PROVE IInv'
<1> USE DEF IInv
<1> DEFINE x == from + j[k]
<1>0. UNCHANGED args /\ UNCHANGED main /\ UNCHANGED <<next_work, j, work_end, ended>>
      /\ pc[k] = "iterate" /\ j[k] < work_end[k]
      /\ pc' = [pc EXCEPT ![k] = "body"]
      /\ begun' = [begun EXCEPT ![x] = @ + 1]
      /\ last' = [last EXCEPT ![k] = x]
  BY DEF BeginBody
<1>1. range_len' = range_len /\ Handed' = Handed
  BY <1>0, ArgumentsFixed DEF Handed, main
<1>2. /\ phase \in {"sequential", "spawn", "join"}
      /\ from \in Nat /\ j[k] \in Nat /\ work_end[k] \in Nat /\ Handed \in Nat
      /\ j[k] <= work_end[k] /\ work_end[k] <= Handed
      /\ x \in Index /\ Owns(k, x)
  BY <1>0, ActiveWorker DEF Active
<1>3. begun[x] = 0
  BY <1>0, <1>2 DEF Counts
<1>4. TypeOK'
  BY <1>0, <1>2, <1>3, ParBounds DEF TypeOK, args, main, Index
<1>5. pc'[k] = "body" /\ \A h \in Tid : h # k => pc'[h] = pc[h]
  BY <1>0 DEF TypeOK
<1>6. \A h \in Tid : Active(h)' <=> Active(h)
  BY <1>0, <1>5 DEF Active
<1>7. Phases'
  <2>1. real_num_threads' = real_num_threads
    BY <1>0, ArgumentsFixed
  <2> QED
    BY <1>0, <1>1, <1>2, <1>5, <1>6, <2>1 DEF Phases, args, main, Active
<1>8. Blocks'
  BY <1>0, <1>1, <1>5, <1>6 DEF Blocks
<1>9. Counts'
  <2>1. \A h \in Tid, i \in Index : Owns(h, i)' <=> Owns(h, i)
    BY <1>0, <1>6 DEF Owns, args
  <2>2. begun'[x] = 1 /\ \A i \in Index : i # x => begun'[i] = begun[i]
    BY <1>0, <1>2, <1>3 DEF TypeOK
  <2>3. \A h \in Tid : h # k => ~Owns(h, x)
    BY <1>2 DEF Owns, Blocks, TypeOK
  <2>4. \A i \in Index : Owns(k, i) /\ i # x => begun[i] = 0
    BY <1>0 DEF Counts
  <2>5. ended' = ended /\ from' = from /\ j' = j
    BY <1>0 DEF args
  <2>6. from <= x /\ x < from + Handed
    BY <1>0, <1>2
  <2> QED
    BY <1>1, <1>2, <1>5, <2>1, <2>2, <2>3, <2>4, <2>5, <2>6 DEF Counts
<1>10. Order'
  BY <1>0, <1>1, <1>2, <1>5 DEF TypeOK, Order, args
<1> QED
  BY <1>4, <1>7, <1>8, <1>9, <1>10

LEMMA EndBodyStep == ASSUME IInv, NEW k \in Tid, EndBody(k) PROVE IInv'
<1> USE DEF IInv
<1> DEFINE x == from + j[k]
<1>0. UNCHANGED args /\ UNCHANGED main /\ UNCHANGED <<next_work, work_end, begun, last>>
      /\ pc[k] = "body"
      /\ pc' = [pc EXCEPT ![k] = "iterate"]
      /\ ended' = [ended EXCEPT ![x] = @ + 1]
      /\ j' = [j EXCEPT ![k] = @ + 1]
  BY DEF EndBody
<1>1. range_len' = range_len /\ real_num_threads' = real_num_threads /\ Handed' = Handed
  BY <1>0, ArgumentsFixed DEF Handed, main
<1>2. /\ phase \in {"sequential", "spawn", "join"}
      /\ from \in Nat /\ j[k] \in Nat /\ work_end[k] \in Nat /\ Handed \in Nat
      /\ j[k] < work_end[k] /\ work_end[k] <= Handed
      /\ x \in Index /\ Owns(k, x)
  BY <1>0, ActiveWorker DEF Active, Blocks
<1>3. ended[x] = 0 /\ begun[x] = 1
  BY <1>0, <1>2 DEF Counts
<1>4. /\ pc'[k] = "iterate" /\ j'[k] = j[k] + 1
      /\ \A h \in Tid : h # k => pc'[h] = pc[h] /\ j'[h] = j[h]
  BY <1>0 DEF TypeOK
<1>5. TypeOK'
  <2>1. ended' \in [Index -> 0 .. 1]
    BY <1>0, <1>2, <1>3 DEF TypeOK
  <2>2. j' \in [Tid -> 0 .. MaxIndex]
    BY <1>0, <1>2, ParBounds DEF TypeOK
  <2> QED
    BY <1>0, <2>1, <2>2 DEF TypeOK, args, main
<1>6. \A h \in Tid : Active(h)' <=> Active(h)
  BY <1>0, <1>4 DEF Active
<1>7. Phases'
  BY <1>0, <1>1, <1>2, <1>4, <1>6 DEF Phases, args, main, Active
<1>8. Blocks'
  BY <1>0, <1>1, <1>2, <1>4, <1>6 DEF TypeOK, Blocks
<1>9. Counts'
  <2>1. \A h \in Tid : h # k => ~Owns(h, x)
    BY <1>2 DEF Owns, Blocks, TypeOK
  <2>2. \A h \in Tid, i \in Index : Owns(h, i)' <=> Owns(h, i) /\ i # x
    <3>1. \A i \in Index : Owns(k, i)' <=> Owns(k, i) /\ i # x
      BY <1>0, <1>2, <1>4, <1>6, ParBounds DEF Owns, args, Index
    <3>2. \A h \in Tid, i \in Index : h # k => (Owns(h, i)' <=> Owns(h, i))
      BY <1>0, <1>4, <1>6 DEF Owns, args
    <3> QED
      BY <2>1, <3>1, <3>2
  <2>3. ended'[x] = 1 /\ \A i \in Index : i # x => ended'[i] = ended[i]
    BY <1>0, <1>2, <1>3 DEF TypeOK
  <2>4. \A i \in Index : Owns(k, i) /\ i # x => begun[i] = 0
    BY <1>0 DEF Counts
  <2>5. begun' = begun /\ from' = from
    BY <1>0 DEF args
  <2>6. from <= x /\ x < from + Handed
    BY <1>2
  <2> QED
    BY <1>1, <1>2, <1>3, <1>4, <2>1, <2>2, <2>3, <2>4, <2>5, <2>6 DEF Counts
<1>10. Order'
  BY <1>0, <1>1, <1>2, <1>4 DEF TypeOK, Order, args
<1> QED
  BY <1>5, <1>7, <1>8, <1>9, <1>10

LEMMA BlockDoneStep == ASSUME IInv, NEW k \in Tid, BlockDone(k) PROVE IInv'
<1> USE DEF IInv
<1>0. UNCHANGED args /\ UNCHANGED main
      /\ UNCHANGED <<next_work, j, work_end, begun, ended, last>>
      /\ pc[k] = "iterate" /\ j[k] >= work_end[k] /\ phase # "sequential"
      /\ pc' = [pc EXCEPT ![k] = "claim"]
  BY DEF BlockDone
<1>1. range_len' = range_len /\ real_num_threads' = real_num_threads /\ Handed' = Handed
  BY <1>0, ArgumentsFixed DEF Handed, main
<1>2. /\ phase \in {"spawn", "join"}
      /\ from \in Nat /\ j[k] \in Nat /\ work_end[k] \in Nat
  BY <1>0, ActiveWorker DEF Active
<1>3. TypeOK'
  BY <1>0 DEF TypeOK, args, main
<1>4. pc'[k] = "claim" /\ \A h \in Tid : h # k => pc'[h] = pc[h]
  BY <1>0 DEF TypeOK
<1>5. Phases'
  BY <1>0, <1>1, <1>2, <1>4 DEF Phases, args, main, Active
<1>6. Blocks' /\ Order'
  BY <1>0, <1>1, <1>4 DEF Blocks, Order, Active, args
<1>7. \A h \in Tid, i \in Index : Owns(h, i)' <=> Owns(h, i)
  <2>1. \A i \in Index : ~Owns(k, i)
    BY <1>0, <1>2, ParBounds DEF Owns, Index
  <2>2. ~Active(k)'
    BY <1>4 DEF Active
  <2> QED
    BY <1>0, <1>4, <2>1, <2>2 DEF Owns, Active, args
<1>8. Counts'
  <2>1. \A h \in Tid, i \in Index : Owns(h, i) => pc'[h] = pc[h]
    BY <1>0, <1>2, <1>4, ParBounds DEF Owns, Index
  <2> QED
    BY <1>0, <1>1, <1>7, <2>1 DEF Counts, args
<1> QED
  BY <1>3, <1>5, <1>6, <1>8

LEMMA NextIInv == IInv /\ [Next]_vars => IInv'
<1> SUFFICES ASSUME IInv, [Next]_vars PROVE IInv'
  OBVIOUS
<1>1. CASE UNCHANGED vars
  <2>1. UNCHANGED args /\ UNCHANGED worker /\ Handed' = Handed
    BY <1>1 DEF vars, args, worker, Handed, real_num_threads, range_len
  <2>2. TypeOK' /\ Phases'
    BY <1>1 DEF IInv, vars, TypeOK, Phases, Active, real_num_threads, range_len
  <2> QED
    BY <2>1, <2>2, CallerFrame DEF IInv
<1> QED
  BY <1>1, CallerStep, ClaimStep, BeginBodyStep, EndBodyStep, BlockDoneStep
  DEF Next, Worker, Terminated
-----------------------------------------------------------------------------
(* What the invariant is for.                                              *)

\* The inductive invariant holds in every reachable state.
THEOREM Invariance == SafeSpec => []IInv
<1>1. Init => IInv
  BY InitIInv
<1>2. IInv /\ [Next]_vars => IInv'
  BY NextIInv
<1> QED
  BY <1>1, <1>2, PTL DEF SafeSpec

\* Every variable keeps to its type: for instance begun and ended to 0 and 1.
THEOREM TypeCorrect == SafeSpec => []TypeOK
BY Invariance, PTL DEF IInv

LEMMA IInvExactlyOnce == IInv => ExactlyOnce
<1> SUFFICES ASSUME IInv PROVE ExactlyOnce
  OBVIOUS
<1> USE DEF IInv
<1>0. /\ from \in Nat /\ to \in Nat /\ range_len = to - from /\ range_len \in Nat
      /\ Handed \in Nat /\ MaxIndex \in Nat
  BY RealThreads, ParBounds DEF TypeOK, range_len
<1>1. ASSUME NEW i \in Index PROVE ended[i] <= begun[i] /\ begun[i] <= 1
  <2>1. CASE ~(from <= i /\ i < from + Handed)
    BY <2>1 DEF Counts
  <2>2. CASE \E k \in Tid : Owns(k, i)
    BY <2>2 DEF Counts
  <2>3. CASE from <= i /\ i < from + Handed /\ \A k \in Tid : ~Owns(k, i)
    BY <2>3 DEF Counts
  <2> QED
    BY <2>1, <2>2, <2>3
<1>2. ASSUME phase \in {"teardown", "returned"}, NEW i \in Index
      PROVE  ended[i] = IF i \in from .. to - 1 THEN 1 ELSE 0
  <2>1. \A k \in Tid : ~Owns(k, i)
    BY <1>2 DEF Phases, Owns, Active
  <2>2. Handed = range_len
    BY <1>2, RealThreads DEF Phases, Blocks
  <2>3. i \in from .. to - 1 <=> from <= i /\ i < from + Handed
    BY <1>0, <2>2 DEF Index
  <2> QED
    BY <2>1, <2>3 DEF Counts
<1> QED
  BY <1>1, <1>2 DEF ExactlyOnce

\* The loop body runs exactly once for every index of the range, however the
\* workers' claims interleave: before the teardown callbacks run, each index has
\* been worked on and finished once.
THEOREM ExactlyOnceHolds == SafeSpec => []ExactlyOnce
BY Invariance, IInvExactlyOnce, PTL

\* No worker is alive once the caller has left the join loop.
THEOREM NoWorkerOutlivesCallHolds == SafeSpec => []NoWorkerOutlivesCall
<1>1. IInv => NoWorkerOutlivesCall
  BY DEF IInv, Phases, NoWorkerOutlivesCall
<1> QED
  BY <1>1, Invariance, PTL

\* The indices a thread is given increase.
THEOREM PerThreadOrderHolds == SafeSpec => PerThreadOrder
<1>1. IInv /\ [Next]_vars => [\A k \in Tid : last'[k] >= last[k]]_vars
  <2> SUFFICES ASSUME IInv, Next PROVE \A k \in Tid : last'[k] >= last[k]
    OBVIOUS
  <2>0. last \in [Tid -> Int]
    BY ParBounds DEF IInv, TypeOK
  <2>1. CASE UNCHANGED last
    BY <2>0, <2>1
  <2>2. ASSUME NEW k \in Tid, BeginBody(k) PROVE \A h \in Tid : last'[h] >= last[h]
    BY <2>0, <2>2, ParBounds DEF BeginBody, IInv, TypeOK, Order
  <2> QED
    BY <2>1, <2>2
    DEF Next, Caller, SetUp, RunSequentially, SequentialDone, StartSpawning, Spawn,
        StartJoining, Join, AllJoined, TearDown, Return, Worker, Claim, EndBody,
        BlockDone, Terminated, worker, vars
<1> QED
  BY <1>1, Invariance, PTL DEF SafeSpec, PerThreadOrder
-----------------------------------------------------------------------------
(* The bound on the shared counter.  Each claim beyond the end of the range *)
(* sends a worker home, so that the workers that have left pay for the      *)
(* overshoot.                                                               *)

Exited == {k \in Tid : pc[k] = "exited"}

Counter ==
  /\ \A k \in Tid : k >= real_num_threads => pc[k] = "unborn"
  /\ \E c \in Nat : next_work = blockSize * c
  /\ next_work <= blockSize * ((range_len \div blockSize) + 1 + Cardinality(Exited))

LEMMA MulMonotone ==
  ASSUME NEW b \in Nat, NEW c \in Int, NEW d \in Int, c <= d
  PROVE  b * c <= b * d
<1>1. b * (d - c) >= 0
  BY d - c \in Nat
<1>2. b * (d - c) = b * d - b * c
  OBVIOUS
<1> QED
  BY <1>1, <1>2

LEMMA DivBound ==
  ASSUME NEW b \in Nat \ {0}, NEW c \in Nat, NEW L \in Nat, b * c <= L
  PROVE  c <= L \div b
<1>1. L = b * (L \div b) + (L % b) /\ L % b \in 0 .. b - 1 /\ L \div b \in Nat
  OBVIOUS
<1>2. ASSUME c >= (L \div b) + 1 PROVE FALSE
  <2>1. b * ((L \div b) + 1) <= b * c
    BY <1>1, <1>2, MulMonotone
  <2>2. b * ((L \div b) + 1) = b * (L \div b) + b
    BY <1>1
  <2> QED
    BY <1>1, <2>1, <2>2
<1> QED
  BY <1>1, <1>2

LEMMA TidFinite ==
  \A S \in SUBSET Tid :
    /\ IsFiniteSet(S) /\ Cardinality(S) \in Nat
    /\ \A T \in SUBSET S : Cardinality(T) <= Cardinality(S)
<1>1. IsFiniteSet(Tid)
  BY ParBounds, FS_Interval DEF Tid
<1> QED
  BY <1>1, FS_Subset, FS_CardinalityType

\* No more workers have left than were spawned.
LEMMA ExitedBound ==
  ASSUME TypeOK, Counter
  PROVE  Cardinality(Exited) <= real_num_threads
<1>1. real_num_threads \in Nat
  BY RealThreads
<1>2. Exited \subseteq 0 .. real_num_threads - 1
  BY <1>1 DEF Counter, Exited, Tid
<1>3. /\ IsFiniteSet(0 .. real_num_threads - 1)
      /\ Cardinality(0 .. real_num_threads - 1) = real_num_threads
  BY <1>1, FS_Interval
<1> QED
  BY <1>2, <1>3, FS_Subset

\* The quantities the bound is made of, as numbers.
LEMMA CounterTypes ==
  ASSUME TypeOK
  PROVE  /\ blockSize \in Nat \ {0} /\ range_len \in Nat /\ next_work \in Nat
         /\ range_len \div blockSize \in Nat /\ Cardinality(Exited) \in Nat
         /\ real_num_threads \in Nat
<1>1. blockSize \in Nat \ {0} /\ range_len \in Nat /\ next_work \in Nat
  BY RealThreads, ParBounds DEF TypeOK
<1>2. Cardinality(Exited) \in Nat
  BY TidFinite DEF Exited
<1> QED
  BY <1>1, <1>2, RealThreads

LEMMA InitCounter == Init => Counter
<1> SUFFICES ASSUME Init PROVE Counter
  OBVIOUS
<1>1. TypeOK
  BY InitIInv DEF IInv
<1>2. /\ blockSize \in Nat /\ (range_len \div blockSize) + 1 + Cardinality(Exited) \in Nat
      /\ next_work = 0
  BY <1>1, CounterTypes DEF Init
<1>3. blockSize * 0 = 0
      /\ 0 <= blockSize * ((range_len \div blockSize) + 1 + Cardinality(Exited))
  BY <1>2
<1> QED
  BY <1>2, <1>3 DEF Counter, Init

\* Steps other than claims: no worker comes back, the counter stays or is reset.
LEMMA CounterFrame ==
  ASSUME IInv, IInv', Counter, UNCHANGED args,
         next_work' = next_work \/ next_work' = 0,
         \A k \in Tid : pc[k] = "exited" => pc'[k] = "exited",
         \A k \in Tid : k >= real_num_threads => pc'[k] = pc[k]
  PROVE  Counter'
<1>1. range_len' = range_len /\ real_num_threads' = real_num_threads /\ blockSize' = blockSize
  BY ArgumentsFixed DEF args
<1>2. PICK b \in Nat, q \in Nat, w \in Nat, n \in Nat, m \in Nat :
        /\ b = blockSize /\ q = (range_len \div blockSize) + 1 /\ w = next_work'
        /\ n = Cardinality(Exited) /\ m = Cardinality(Exited')
  <2>1. next_work' \in Nat /\ Cardinality(Exited') \in Nat
    BY TidFinite DEF IInv, TypeOK, Exited
  <2> QED
    BY <2>1, CounterTypes DEF IInv
<1>3. n <= m
  <2>1. Exited \subseteq Exited' /\ Exited' \subseteq Tid
    BY DEF Exited
  <2> QED
    BY <1>2, <2>1, TidFinite
<1>4. w <= b * (q + m)
  <2>1. b * (q + n) <= b * (q + m)
    BY <1>3, MulMonotone
  <2>2. w <= b * (q + n)
    <3>1. next_work <= b * (q + n) /\ 0 <= b * (q + n)
      BY <1>2 DEF Counter
    <3> QED
      BY <1>2, <3>1
  <2>3. b * (q + n) \in Nat /\ b * (q + m) \in Nat
    OBVIOUS
  <2> QED
    BY <2>1, <2>2, <2>3
<1>5. \E c \in Nat : w = b * c
  <2>1. b * 0 = 0
    OBVIOUS
  <2> QED
    BY <1>2, <2>1 DEF Counter
<1>6. \A k \in Tid : k >= real_num_threads => pc'[k] = "unborn"
  BY DEF Counter
<1> QED
  BY <1>1, <1>2, <1>4, <1>5, <1>6 DEF Counter

LEMMA ClaimCounter ==
  ASSUME IInv, Counter, NEW k \in Tid, Claim(k)
  PROVE  Counter'
<1>0. /\ UNCHANGED args /\ pc[k] = "claim" /\ k < real_num_threads
      /\ next_work' = next_work + blockSize
  BY RealThreads DEF Claim, Counter, IInv, Tid
<1>1. range_len' = range_len /\ real_num_threads' = real_num_threads /\ blockSize' = blockSize
  BY <1>0, ArgumentsFixed DEF args
<1>2. PICK b \in Nat \ {0}, L \in Nat, w \in Nat, n \in Nat :
        /\ b = blockSize /\ L = range_len /\ w = next_work /\ n = Cardinality(Exited)
  BY CounterTypes DEF IInv
<1>3. PICK c \in Nat : w = b * c
  BY <1>2 DEF Counter
<1>4. /\ L \div b \in Nat /\ w <= b * ((L \div b) + 1 + n)
  BY <1>2 DEF Counter
<1>5. PICK m \in Nat :
        m = Cardinality(Exited') /\ w + b <= b * ((L \div b) + 1 + m)
  <2>1. CASE w > L
    <3>1. pc' = [pc EXCEPT ![k] = "exited"]
      BY <1>2, <2>1 DEF Claim
    <3>2. k \notin Exited /\ Exited' = Exited \cup {k} /\ IsFiniteSet(Exited)
      BY <1>0, <3>1, TidFinite DEF Exited, IInv, TypeOK
    <3>3. Cardinality(Exited') = n + 1
      BY <1>2, <3>2, FS_AddElement
    <3>4. b * ((L \div b) + 1 + (n + 1)) = b * ((L \div b) + 1 + n) + b
      BY <1>4
    <3>5. b * ((L \div b) + 1 + n) \in Nat
      BY <1>4
    <3> QED
      BY <1>4, <3>3, <3>4, <3>5
  <2>2. CASE w <= L
    <3>1. pc' = [pc EXCEPT ![k] = "iterate"]
      BY <1>2, <2>2 DEF Claim
    <3>2. Exited' = Exited
      BY <1>0, <3>1 DEF Exited, IInv, TypeOK
    <3>3. c <= L \div b
      BY <1>3, <2>2, DivBound
    <3>4. b * (c + 1) <= b * ((L \div b) + 1 + n)
      BY <1>4, <3>3, MulMonotone
    <3>5. b * (c + 1) = w + b
      BY <1>3
    <3> QED
      BY <1>2, <3>2, <3>4, <3>5
  <2> QED
    BY <2>1, <2>2
<1>6. b * (c + 1) = w + b
  BY <1>3
<1>7. \A h \in Tid : h >= real_num_threads => pc'[h] = "unborn"
  <2>1. \A h \in Tid : h # k => pc'[h] = pc[h]
    BY DEF Claim, IInv, TypeOK
  <2> QED
    BY <1>0, <2>1, RealThreads DEF Counter, IInv, Tid
<1>8. PICK x \in Nat, q \in Nat :
        /\ x = next_work' /\ x = w + b /\ q = (range_len \div blockSize) + 1
  <2>1. next_work' = w + b /\ w + b \in Nat
    BY <1>0, <1>2
  <2>2. (range_len \div blockSize) + 1 \in Nat
    BY <1>2, <1>4
  <2> QED
    BY <2>1, <2>2
<1>9. x <= b * (q + m) /\ \E d \in Nat : x = b * d
  <2>1. q = (L \div b) + 1
    BY <1>2, <1>8
  <2>2. x <= b * (q + m)
    BY <1>5, <1>8, <2>1
  <2>3. x = b * (c + 1)
    BY <1>6, <1>8
  <2> QED
    BY <2>2, <2>3
<1> QED
  BY <1>1, <1>2, <1>5, <1>7, <1>8, <1>9 DEF Counter

\* The other steps of a worker, and those of the calling thread.
LEMMA OtherCounter ==
  ASSUME IInv, IInv', Counter,
         Caller \/ (\E k \in Tid : BeginBody(k) \/ EndBody(k) \/ BlockDone(k))
                \/ UNCHANGED vars
  PROVE  Counter'
<1>0. 0 \in Tid /\ real_num_threads \in 1 .. numThreads /\ numThreads \in Nat
  BY RealThreads DEF IInv
<1>1. UNCHANGED args /\ (next_work' = next_work \/ next_work' = 0)
  BY DEF Caller, SetUp, RunSequentially, SequentialDone, StartSpawning, Spawn,
         StartJoining, Join, AllJoined, TearDown, Return, BeginBody, EndBody,
         BlockDone, vars, args
<1> DEFINE Kept(k) == /\ pc[k] = "exited" => pc'[k] = "exited"
                      /\ k >= real_num_threads => pc'[k] = pc[k]
<1>2. \A k \in Tid : Kept(k)
  <2>1. CASE UNCHANGED pc
    BY <2>1
  <2>2. CASE RunSequentially
    BY <1>0, <2>2 DEF RunSequentially, IInv, Phases, TypeOK
  <2>3. CASE SequentialDone
    BY <1>0, <2>3 DEF SequentialDone, IInv, TypeOK
  <2>4. CASE Spawn
    BY <1>0, <2>4 DEF Spawn, IInv, Phases, TypeOK, Tid
  <2>5. ASSUME NEW h \in Tid, BeginBody(h) \/ EndBody(h) \/ BlockDone(h)
        PROVE  \A k \in Tid : Kept(k)
    BY <1>0, <2>5 DEF BeginBody, EndBody, BlockDone, Counter, Tid, IInv, TypeOK
  <2> QED
    BY <2>1, <2>2, <2>3, <2>4, <2>5
    DEF Caller, SetUp, StartSpawning, StartJoining, Join, AllJoined, TearDown,
        Return, worker, vars
<1> QED
  BY <1>1, <1>2, CounterFrame

LEMMA CounterImpliesBound == IInv /\ Counter => CounterBound
<1> SUFFICES ASSUME IInv, Counter PROVE CounterBound
  OBVIOUS
<1>1. PICK b \in Nat, q \in Nat, n \in Nat, r \in Nat :
        /\ b = blockSize /\ q = (range_len \div blockSize) + 1
        /\ n = Cardinality(Exited) /\ r = real_num_threads /\ n <= r
  BY CounterTypes, ExitedBound DEF IInv
<1>2. b * (q + n) <= b * (q + r)
  BY <1>1, MulMonotone
<1>3. b * (q + n) \in Nat /\ b * (q + r) \in Nat
  OBVIOUS
<1>4. next_work \in Nat /\ next_work <= b * (q + n)
  BY <1>1 DEF Counter, IInv, TypeOK
<1> QED
  BY <1>1, <1>2, <1>3, <1>4 DEF CounterBound

\* The shared counter stays within one block per worker of the end of the range.
THEOREM CounterBoundHolds == SafeSpec => []CounterBound
<1>1. Init => Counter
  BY InitCounter
<1>2. IInv /\ IInv' /\ Counter /\ [Next]_vars => Counter'
  BY ClaimCounter, OtherCounter DEF Next, Worker, Terminated
<1>3. IInv /\ Counter => CounterBound
  BY CounterImpliesBound
<1> QED
  BY <1>1, <1>2, <1>3, Invariance, PTL DEF SafeSpec
-----------------------------------------------------------------------------
(* The loop implements ParallelFor: each step is a step of the abstract    *)
(* loop or leaves it where it is.                                          *)

\* The variables of the abstract loop, as Loop!... computes them.
Prepared == IF phase = "setup" THEN cursor ELSE numThreads
Pending == [k \in Tid |-> Remaining(k)]
Running == {<<k, from + j[k]>> : k \in {t \in Tid : pc[t] = "body"}}
Completed == {i \in Index : ended[i] > 0}

abstract == <<Prepared, from + Handed, Pending, Running, Completed, torn>>

\* A step that leaves these alone leaves the abstract loop where it is.
LEMMA AbstractFrame ==
  ASSUME UNCHANGED args, UNCHANGED abstract
  PROVE  UNCHANGED Loop!vars
BY ArgumentsFixed
DEF args, abstract, Loop!vars, Prepared, Pending, Running, Completed

\* In particular a step of the calling thread, if it hands nothing out.
LEMMA CallerStutter ==
  ASSUME UNCHANGED args, UNCHANGED worker, Handed' = Handed, Prepared' = Prepared,
         UNCHANGED torn
  PROVE  UNCHANGED Loop!vars
BY AbstractFrame
DEF args, worker, abstract, Pending, Running, Completed, Remaining

\* What the types of the variables say about the quantities computed from them.
LEMMA Quantities ==
  ASSUME IInv
  PROVE  /\ from \in Nat /\ to \in Nat /\ range_len \in Nat /\ to = from + range_len
         /\ to <= MaxIndex /\ MaxIndex \in Nat
         /\ Handed \in Nat /\ Handed <= range_len
         /\ numThreads \in Nat /\ cursor \in Nat /\ torn \in Nat
         /\ real_num_threads \in 1 .. numThreads /\ 0 \in Tid
BY RealThreads, ParBounds DEF IInv, TypeOK, range_len

\* Before anything has been handed out nothing is pending or running.
LEMMA InitAbstract == Init => Loop!Init
<1> SUFFICES ASSUME Init PROVE Loop!Init
  OBVIOUS
<1>1. IInv
  BY InitIInv
<1>2. Prepared = 0 /\ Handed = 0 /\ Running = {} /\ Completed = {}
  BY ParBounds DEF Init, Prepared, Handed, Running, Completed
<1>3. Pending = [k \in Tid |-> {}]
  BY DEF Init, Pending, Remaining
<1> QED
  BY <1>1, <1>2, <1>3, Quantities
  DEF Init, Loop!Init, Loop!Tid, Tid, Prepared, Pending, Running, Completed

\* SetUp and TearDown are steps of the abstract loop.
LEMMA SetUpRefines == IInv /\ SetUp => Loop!SetUp
<1> SUFFICES ASSUME IInv, SetUp PROVE Loop!SetUp
  OBVIOUS
<1>1. /\ UNCHANGED <<args, worker, torn>> /\ phase = "setup" /\ phase' = "setup"
      /\ cursor < numThreads /\ cursor' = cursor + 1
  BY DEF SetUp
<1>2. Handed' = Handed /\ real_num_threads' = real_num_threads
  BY <1>1, ArgumentsFixed DEF Handed
<1> QED
  BY <1>1, <1>2 DEF Loop!SetUp, Loop!args, args, worker, Remaining

LEMMA TearDownRefines == IInv /\ TearDown => Loop!TearDown
<1> SUFFICES ASSUME IInv, TearDown PROVE Loop!TearDown
  OBVIOUS
<1>1. /\ UNCHANGED <<args, worker, phase, cursor, next_work>>
      /\ phase = "teardown" /\ torn < numThreads /\ torn' = torn + 1
  BY DEF TearDown
<1>2. Handed' = Handed /\ real_num_threads' = real_num_threads
  BY <1>1, ArgumentsFixed DEF Handed
<1>3. ExactlyOnce
  BY IInvExactlyOnce
<1>4. Completed = from .. to - 1
  BY <1>1, <1>3, Quantities DEF ExactlyOnce, Completed, Index
<1> QED
  BY <1>1, <1>2, <1>4 DEF Loop!TearDown, Loop!args, args, worker, Remaining, Completed

\* The other steps of the calling thread, but for the sequential loop, hand
\* nothing out.
LEMMA CallerRefines ==
  ASSUME IInv,
         SequentialDone \/ StartSpawning \/ Spawn \/ StartJoining \/ Join
           \/ AllJoined \/ Return
  PROVE  UNCHANGED Loop!vars
<1>1. UNCHANGED args /\ UNCHANGED <<torn, j, work_end, begun, ended, last>>
  BY DEF SequentialDone, StartSpawning, Spawn, StartJoining, Join, AllJoined, Return, worker
<1>2. Prepared' = Prepared
  BY <1>1
  DEF SequentialDone, StartSpawning, Spawn, StartJoining, Join, AllJoined, Return,
      Prepared, args
<1>3. Handed' = Handed
  <2>1. range_len' = range_len /\ real_num_threads' = real_num_threads
    BY <1>1, ArgumentsFixed
  <2>2. CASE StartSpawning
    BY <2>1, <2>2, Quantities DEF StartSpawning, IInv, Phases, Handed, Minimum
  <2> QED
    BY <2>1, <2>2 DEF SequentialDone, Spawn, StartJoining, Join, AllJoined, Return, Handed
<1>4. \A k \in Tid : Remaining(k)' = Remaining(k)
  <2>1. ASSUME UNCHANGED pc PROVE \A k \in Tid : Remaining(k)' = Remaining(k)
    BY <1>1, <2>1 DEF Remaining, args
  <2>2. ASSUME Spawn PROVE \A k \in Tid : Remaining(k)' = Remaining(k)
    <3>1. \A k \in Tid : pc[k] \in {"iterate", "body"} \/ pc'[k] \in {"iterate", "body"} =>
                           pc'[k] = pc[k]
      BY <2>2, Quantities DEF Spawn, IInv, TypeOK, Phases, Tid
    <3> QED
      BY <1>1, <3>1 DEF Remaining, args
  <2>3. ASSUME SequentialDone PROVE \A k \in Tid : Remaining(k)' = Remaining(k)
    <3>1. Remaining(0) = {} /\ Remaining(0)' = {}
      BY <2>3, Quantities, ParBounds DEF SequentialDone, Remaining, IInv, TypeOK
    <3>2. \A k \in Tid : k # 0 => pc'[k] = pc[k]
      BY <2>3 DEF SequentialDone, IInv, TypeOK
    <3> QED
      BY <1>1, <3>1, <3>2 DEF Remaining, args
  <2> QED
    BY <2>1, <2>2, <2>3 DEF StartSpawning, StartJoining, Join, AllJoined, Return, worker
<1>5. \A k \in Tid : pc'[k] = "body" <=> pc[k] = "body"
  <2>1. ASSUME Spawn PROVE \A k \in Tid : pc'[k] = "body" <=> pc[k] = "body"
    BY <2>1, Quantities DEF Spawn, IInv, TypeOK, Phases, Tid
  <2>2. ASSUME SequentialDone PROVE \A k \in Tid : pc'[k] = "body" <=> pc[k] = "body"
    BY <2>2 DEF SequentialDone, IInv, TypeOK
  <2> QED
    BY <2>1, <2>2 DEF StartSpawning, StartJoining, Join, AllJoined, Return, worker
<1>6. Pending' = Pending
  BY <1>4 DEF Pending
<1>7. Running' = Running
  BY <1>1, <1>5 DEF Running, args
<1>8. Completed' = Completed /\ (from + Handed)' = from + Handed
  BY <1>1, <1>3 DEF Completed, args
<1> QED
  BY <1>1, <1>2, <1>6, <1>7, <1>8, AbstractFrame DEF abstract

\* Thread 0 takes the whole range at once when it is the only one.
LEMMA RunSequentiallyRefines ==
  ASSUME IInv, RunSequentially
  PROVE  (\E i \in Index : Loop!Take(0, i)) \/ UNCHANGED Loop!vars
<1>1. /\ UNCHANGED args /\ UNCHANGED <<torn, ended>>
      /\ phase = "setup" /\ cursor = numThreads /\ real_num_threads = 1
      /\ phase' = "sequential"
      /\ pc' = [pc EXCEPT ![0] = "iterate"]
      /\ j' = [j EXCEPT ![0] = 0]
      /\ work_end' = [work_end EXCEPT ![0] = range_len]
  BY DEF RunSequentially
<1>2. real_num_threads' = 1 /\ Handed = 0 /\ Handed' = range_len
  BY <1>1, ArgumentsFixed DEF Handed
<1>3. Prepared' = numThreads /\ Prepared = numThreads
  BY <1>1 DEF Prepared, args
<1>4. \A k \in Tid : pc[k] = "unborn"
  BY <1>1 DEF IInv, Phases
<1>5. Running = {} /\ Running' = {} /\ Completed' = Completed
  BY <1>1, <1>4 DEF Running, Completed, IInv, TypeOK
<1>6. Pending = [k \in Tid |-> {}]
  BY <1>4 DEF Pending, Remaining
<1>7. Pending' = [k \in Tid |-> IF k = 0 THEN from .. to - 1 ELSE {}]
  <2>1. Remaining(0)' = from .. to - 1
    <3>1. j'[0] = 0 /\ work_end'[0] = range_len /\ pc'[0] = "iterate" /\ from' = from
      BY <1>1, Quantities DEF IInv, TypeOK, args
    <3>2. Remaining(0)' = from + 0 .. from + range_len - 1
      BY <3>1 DEF Remaining
    <3> QED
      BY <3>2, Quantities
  <2>2. \A k \in Tid : k # 0 => Remaining(k)' = {}
    BY <1>1, <1>4 DEF Remaining, IInv, TypeOK
  <2> QED
    BY <2>1, <2>2 DEF Pending
<1>8. CASE range_len = 0
  <2>1. from .. to - 1 = {}
    BY <1>8, Quantities
  <2> QED
    BY <1>1, <1>2, <1>3, <1>5, <1>6, <1>7, <1>8, <2>1, AbstractFrame DEF abstract, args
<1>9. CASE range_len # 0
  <2>1. to - 1 \in Index /\ to - 1 \in from + Handed .. to - 1 /\ from + Handed = from
    BY <1>2, <1>9, Quantities DEF Index
  <2>2. (from + Handed)' = (to - 1) + 1
    BY <1>1, <1>2, Quantities DEF args
  <2>3. Pending' = [Pending EXCEPT ![0] = from + Handed .. to - 1]
    BY <1>6, <1>7, <2>1, Quantities
  <2>4. Loop!Take(0, to - 1)
    BY <1>1, <1>2, <1>3, <1>5, <1>6, <2>1, <2>2, <2>3, Quantities
    DEF Loop!Take, Loop!Idle, Loop!args, args, Prepared, Pending, Running, Completed
  <2> QED
    BY <2>1, <2>4
<1> QED
  BY <1>8, <1>9

\* A claim takes the next block, or nothing.
LEMMA ClaimRefines ==
  ASSUME IInv, NEW k \in Tid, Claim(k)
  PROVE  (\E i \in Index : Loop!Take(k, i)) \/ UNCHANGED Loop!vars
<1>0. /\ UNCHANGED args /\ UNCHANGED <<phase, cursor, torn, begun, ended, last>>
      /\ pc[k] = "claim" /\ Remaining(k) = {}
  BY DEF Claim, main, Remaining
<1>1. range_len' = range_len /\ real_num_threads' = real_num_threads /\ Prepared' = Prepared
  BY <1>0, ArgumentsFixed DEF Prepared, args
<1>2. /\ from \in Nat /\ to \in Nat /\ range_len \in Nat /\ to = from + range_len
      /\ to <= MaxIndex /\ MaxIndex \in Nat
      /\ real_num_threads \in 1 .. numThreads /\ 0 \in Tid
      /\ next_work \in Nat /\ blockSize \in Nat
  BY Quantities, ParBounds DEF IInv, TypeOK
<1>3. phase \in {"spawn", "join"} /\ real_num_threads # 1
  BY <1>0, <1>2 DEF IInv, Phases, TypeOK, Active
<1>4. Handed = Minimum(next_work, range_len)
      /\ Handed' = Minimum(next_work + blockSize, range_len)
  BY <1>0, <1>1, <1>3 DEF Handed, Claim
<1>5. PICK H \in Nat : H = Handed' /\ Handed \in Nat /\ Handed <= H /\ H <= range_len
  BY <1>2, <1>4 DEF Minimum
<1>6. \A h \in Tid : h # k => Remaining(h)' = Remaining(h)
  BY <1>0 DEF Claim, Remaining, IInv, TypeOK, args
<1>7. Remaining(k)' = from + Handed .. from + H - 1
  <2>1. CASE next_work > range_len
    <3>1. Handed = range_len /\ H = range_len /\ pc'[k] = "exited"
      BY <1>2, <1>4, <1>5, <2>1 DEF Minimum, Claim, IInv, TypeOK
    <3>2. from + Handed .. from + H - 1 = {}
      BY <1>2, <3>1
    <3> QED
      BY <3>1, <3>2 DEF Remaining
  <2>2. CASE next_work <= range_len
    <3>1. Handed = next_work /\ H = Minimum(next_work + blockSize, range_len)
      BY <1>2, <1>4, <1>5, <2>2 DEF Minimum
    <3>2. pc'[k] = "iterate" /\ j'[k] = Handed /\ work_end'[k] = H /\ from' = from
      BY <1>0, <1>2, <2>2, <3>1 DEF Claim, IInv, TypeOK, args
    <3> QED
      BY <3>2 DEF Remaining
  <2> QED
    BY <1>2, <2>1, <2>2
<1>8. Running' = Running /\ Completed' = Completed
  <2>1. \A h \in Tid : pc'[h] = "body" <=> pc[h] = "body"
    BY <1>0 DEF Claim, IInv, TypeOK
  <2>2. \A h \in Tid : pc[h] = "body" => j'[h] = j[h]
    BY <1>0 DEF Claim, IInv, TypeOK
  <2> QED
    BY <1>0, <2>1, <2>2 DEF Running, Completed, args
<1>9. CASE H = Handed
  <2>1. Remaining(k)' = Remaining(k)
    BY <1>0, <1>2, <1>5, <1>7, <1>9
  <2>2. Pending' = Pending /\ (from + Handed)' = from + Handed
    BY <1>0, <1>5, <1>6, <1>9, <2>1 DEF Pending, args
  <2> QED
    BY <1>0, <1>1, <1>8, <2>2, AbstractFrame DEF abstract
<1>10. CASE H # Handed
  <2> DEFINE i == from + H - 1
  <2>1. i \in Index /\ i \in from + Handed .. to - 1 /\ i + 1 = from + H
    <3>1. H \in Nat /\ Handed \in Nat /\ Handed < H /\ H <= range_len
      BY <1>5, <1>10
    <3> QED
      BY <1>2, <3>1 DEF Index
  <2>2. (from + Handed)' = i + 1
    BY <1>0, <1>5, <2>1 DEF args
  <2>3. Pending' = [Pending EXCEPT ![k] = from + Handed .. i]
    BY <1>6, <1>7 DEF Pending
  <2>4. k < real_num_threads
    BY <1>0, <1>2, <1>3 DEF IInv, Phases, Tid, TypeOK
  <2>5. \A r \in Running : r[1] # k
    BY <1>0 DEF Running
  <2>6. Prepared = numThreads
    BY <1>3 DEF Prepared
  <2>7. Pending[k] = {}
    BY <1>0 DEF Pending
  <2>8. Loop!Take(k, i)
    BY <1>0, <1>1, <1>8, <2>1, <2>2, <2>3, <2>4, <2>5, <2>6, <2>7
    DEF Loop!Take, Loop!Idle, Loop!args, args, Prepared, Pending, Running, Completed
  <2> QED
    BY <2>1, <2>8
<1> QED
  BY <1>9, <1>10

\* A worker enters the body with the least index it has left.
LEMMA BeginBodyRefines ==
  ASSUME IInv, NEW k \in Tid, BeginBody(k)
  PROVE  \E i \in Index : Loop!Begin(k, i)
<1> DEFINE x == from + j[k]
<1>0. /\ UNCHANGED args
      /\ UNCHANGED <<phase, cursor, torn, next_work, j, work_end, ended>>
      /\ pc[k] = "iterate" /\ j[k] < work_end[k]
      /\ pc' = [pc EXCEPT ![k] = "body"]
  BY DEF BeginBody, main
<1>1. real_num_threads' = real_num_threads /\ Prepared' = Prepared /\ Handed' = Handed
  BY <1>0, ArgumentsFixed DEF Prepared, Handed, args
<1>2. x \in Index /\ from \in Nat /\ j[k] \in Nat /\ work_end[k] \in Nat
  BY <1>0, ActiveWorker DEF Active
<1>3. pc'[k] = "body" /\ \A h \in Tid : h # k => pc'[h] = pc[h]
  BY <1>0 DEF IInv, TypeOK
<1>4. Remaining(k) = x .. from + work_end[k] - 1
  BY <1>0 DEF Remaining
<1>5. Remaining(k)' = from + (j[k] + 1) .. from + work_end[k] - 1
  BY <1>0, <1>3 DEF Remaining, args
<1>6. /\ x \in Remaining(k)
      /\ \A h \in Remaining(k) : x <= h
      /\ Remaining(k)' = Remaining(k) \ {x}
  BY <1>0, <1>2, <1>4, <1>5, SMTT(30)
<1>7. Pending' = [Pending EXCEPT ![k] = @ \ {x}]
  <2>1. \A h \in Tid : h # k => Remaining(h)' = Remaining(h)
    BY <1>0, <1>3 DEF Remaining, args
  <2> QED
    BY <1>6, <2>1 DEF Pending
<1>8. Running' = Running \cup {<<k, x>>} /\ Completed' = Completed
  BY <1>0, <1>3 DEF Running, Completed, args
<1>9. \A r \in Running : r[1] # k
  BY <1>0 DEF Running
<1>10. PICK i \in Index : i = x
  BY <1>2
<1>11. Loop!Begin(k, i)
  BY <1>0, <1>1, <1>6, <1>7, <1>8, <1>9, <1>10
  DEF Loop!Begin, Loop!args, args, Prepared, Pending, Running, Completed
<1> QED
  BY <1>10, <1>11

LEMMA EndBodyRefines ==
  ASSUME IInv, NEW k \in Tid, EndBody(k)
  PROVE  \E i \in Index : Loop!End(k, i)
<1> DEFINE x == from + j[k]
<1>0. /\ UNCHANGED args
      /\ UNCHANGED <<phase, cursor, torn, next_work, work_end>>
      /\ pc[k] = "body"
      /\ pc' = [pc EXCEPT ![k] = "iterate"]
      /\ ended' = [ended EXCEPT ![x] = @ + 1]
      /\ j' = [j EXCEPT ![k] = @ + 1]
  BY DEF EndBody, main
<1>1. real_num_threads' = real_num_threads /\ Prepared' = Prepared /\ Handed' = Handed
  BY <1>0, ArgumentsFixed DEF Prepared, Handed, args
<1>2. x \in Index /\ ended[x] = 0
  BY <1>0, ActiveWorker DEF Active, IInv, Blocks, Counts
<1>3. /\ pc'[k] = "iterate" /\ j'[k] = j[k] + 1
      /\ \A h \in Tid : h # k => pc'[h] = pc[h] /\ j'[h] = j[h]
  BY <1>0 DEF IInv, TypeOK
<1>4. Pending' = Pending
  BY <1>0, <1>3 DEF Pending, Remaining, args
<1>5. <<k, x>> \in Running
  BY <1>0 DEF Running
<1>6. Running' = Running \ {<<k, x>>}
  BY <1>0, <1>3 DEF Running, args
<1>7. Completed' = Completed \cup {x}
  BY <1>0, <1>2 DEF Completed, IInv, TypeOK
<1>8. PICK i \in Index : i = x
  BY <1>2
<1>9. Loop!End(k, i)
  BY <1>0, <1>1, <1>4, <1>5, <1>6, <1>7, <1>8
  DEF Loop!End, Loop!args, args, Prepared, Pending, Running, Completed
<1> QED
  BY <1>8, <1>9

\* The end of a block is not visible to the callbacks.
LEMMA BlockDoneRefines ==
  ASSUME IInv, NEW k \in Tid, BlockDone(k)
  PROVE  UNCHANGED Loop!vars
<1>0. /\ UNCHANGED args
      /\ UNCHANGED <<phase, cursor, torn, next_work, j, work_end, ended>>
      /\ pc[k] = "iterate" /\ j[k] >= work_end[k]
      /\ pc' = [pc EXCEPT ![k] = "claim"]
  BY DEF BlockDone, main
<1>1. Prepared' = Prepared /\ Handed' = Handed
  BY <1>0, ArgumentsFixed DEF Prepared, Handed, args
<1>2. pc'[k] = "claim" /\ \A h \in Tid : h # k => pc'[h] = pc[h]
  BY <1>0 DEF IInv, TypeOK
<1>3. Remaining(k) = {} /\ Remaining(k)' = {}
  BY <1>0, <1>2, ActiveWorker DEF Remaining, Active
<1>4. Pending' = Pending
  BY <1>0, <1>2, <1>3 DEF Pending, Remaining, args
<1>5. Running' = Running /\ Completed' = Completed /\ (from + Handed)' = from + Handed
  BY <1>0, <1>1, <1>2 DEF Running, Completed, args
<1> QED
  BY <1>0, <1>1, <1>4, <1>5, AbstractFrame DEF abstract

LEMMA StepRefines == IInv /\ [Next]_vars => [Loop!Next]_(Loop!vars)
<1> SUFFICES ASSUME IInv, [Next]_vars PROVE [Loop!Next]_(Loop!vars)
  OBVIOUS
<1>1. CASE UNCHANGED vars
  BY <1>1, CallerStutter
  DEF vars, args, worker, Handed, Prepared, range_len, real_num_threads
<1>2. CASE Caller
  BY <1>2, SetUpRefines, TearDownRefines, CallerRefines, RunSequentiallyRefines, Quantities
  DEF Caller, Loop!Next, Loop!Tid, Tid, Loop!Index, Index
<1>3. ASSUME NEW k \in Tid, Worker(k) PROVE [Loop!Next]_(Loop!vars)
  BY <1>3, ClaimRefines, BeginBodyRefines, EndBodyRefines, BlockDoneRefines
  DEF Worker, Loop!Next, Loop!Tid, Tid, Loop!Index, Index
<1> QED
  BY <1>1, <1>2, <1>3 DEF Next, Terminated

\* par_for_range keeps the promises of ParallelFor, for any number of threads,
\* range and block size.
THEOREM Refinement == SafeSpec => Loop!SafeSpec
<1>1. Init => Loop!Init
  BY InitAbstract
<1>2. IInv /\ [Next]_vars => [Loop!Next]_(Loop!vars)
  BY StepRefines
<1> QED
  BY <1>1, <1>2, Invariance, PTL DEF SafeSpec, Loop!SafeSpec
-----------------------------------------------------------------------------
(* The breadth-first search.                                               *)

\* What visited and old_visited are in the stages of a round.
Rounds ==
  /\ stage = "copy" => expanded = {} /\ frontier \subseteq visited
  /\ stage \in {"expand", "merge"} => old_visited = visited
  /\ stage = "expand" => frontier \subseteq visited
  /\ stage = "merge" => expanded = {} /\ merge_i <= left_to_merge \div 2
  /\ stage = "difference" =>
       expanded = {} /\ visited = old_visited \cup Neighbors(frontier)

PathInv == PathTypeOK /\ Rounds /\ NothingLost /\ OnlyNeighborsFound
-----------------------------------------------------------------------------
\* At least one worker is used, and no more than there are.
LEMMA WorkersBound ==
  ASSUME num_threads \in 1 .. MaxThreads, NEW size \in Nat
  PROVE  Workers(size) \in 1 .. num_threads
<1>1. num_threads \in Nat /\ num_threads > 0
  BY NPathAssumption
<1>2. PICK b \in Nat \ {0} : b = (size \div num_threads) + 1
  BY <1>1
<1>3. size \div b \in Nat
  BY <1>2
<1> QED
  BY <1>1, <1>2, <1>3 DEF Workers, Minimum

\* Half of a number, in the terms the merge uses.
LEMMA Halves ==
  ASSUME NEW n \in Nat
  PROVE  /\ n \div 2 \in Nat /\ n % 2 \in 0 .. 1
         /\ n = 2 * (n \div 2) + (n % 2)
OBVIOUS

LEMMA InitPathInv == PathInit => PathInv
<1> SUFFICES ASSUME PathInit PROVE PathInv
  OBVIOUS
<1>1. PathTypeOK
  BY NPathAssumption DEF PathInit, PathTypeOK, Tid
<1>2. Rounds /\ NothingLost /\ OnlyNeighborsFound
  BY DEF PathInit, Rounds, NothingLost, OnlyNeighborsFound, Tid
<1> QED
  BY <1>1, <1>2 DEF PathInv

\* Copying visited opens the round.
LEMMA CopyVisitedStep == PathInv /\ CopyVisited => PathInv'
<1> SUFFICES ASSUME PathInv, CopyVisited PROVE PathInv'
  OBVIOUS
<1> USE DEF PathInv, CopyVisited, inputs
<1>1. Cardinality(frontier) \in Nat
  BY NPathAssumption, FS_Subset, FS_CardinalityType DEF PathTypeOK
<1>2. Workers(Cardinality(frontier)) \in 1 .. num_threads
  BY <1>1, WorkersBound DEF PathTypeOK
<1>3. PathTypeOK'
  BY <1>2 DEF PathTypeOK
<1>4. Rounds'
  BY DEF Rounds
<1>5. NothingLost' /\ OnlyNeighborsFound'
  BY DEF Rounds, NothingLost, OnlyNeighborsFound, Neighbors
<1> QED
  BY <1>3, <1>4, <1>5

\* A worker adds a row to its bitset.
LEMMA VisitStep == ASSUME PathInv, NEW k \in Tid, NEW n \in Node, Visit(k, n) PROVE PathInv'
<1> USE DEF PathInv, Visit, inputs
<1>1. /\ vis_bufs'[k] = vis_bufs[k] \cup get_row(n)
      /\ \A h \in Tid : h # k => vis_bufs'[h] = vis_bufs[h]
  BY DEF PathTypeOK
<1>2. Neighbors(expanded)' = Neighbors(expanded) \cup get_row(n)
  BY DEF Neighbors, get_row
<1>3. PathTypeOK'
  BY DEF PathTypeOK, get_row
<1>4. Rounds'
  BY DEF Rounds
<1>5. NothingLost'
  <2>1. k \in 0 .. workers_used - 1 /\ workers_used \in Nat /\ num_threads <= MaxThreads
        /\ workers_used <= MaxThreads
    BY NPathAssumption DEF PathTypeOK, Tid
  <2>2. \A m \in Neighbors(expanded)' : \E h \in 0 .. workers_used - 1 : m \in vis_bufs'[h]
    BY <1>1, <1>2, <2>1 DEF NothingLost, Tid
  <2> QED
    BY <2>2 DEF NothingLost
<1>6. OnlyNeighborsFound'
  BY <1>1, <1>2 DEF OnlyNeighborsFound
<1> QED
  BY <1>3, <1>4, <1>5, <1>6

LEMMA LoopDoneStep == PathInv /\ LoopDone => PathInv'
<1> SUFFICES ASSUME PathInv, LoopDone PROVE PathInv'
  OBVIOUS
<1> USE DEF PathInv, LoopDone, inputs
<1>1. PathTypeOK'
  BY NPathAssumption DEF PathTypeOK
<1>2. Rounds'
  BY Halves, NPathAssumption DEF Rounds, PathTypeOK
<1>3. Neighbors(frontier)' = Neighbors(expanded)
  BY DEF Neighbors
<1>4. NothingLost'
  <2>1. workers_used - 0 - 1 = workers_used - 1
    BY NPathAssumption DEF PathTypeOK
  <2> QED
    BY <1>3, <2>1 DEF NothingLost
<1>5. OnlyNeighborsFound'
  BY <1>3 DEF OnlyNeighborsFound
<1> QED
  BY <1>1, <1>2, <1>4, <1>5

\* Merging a pair: what the last bitset holds is now in the i-th one, which is
\* another one and is still to be merged.
LEMMA MergePairStep == PathInv /\ MergePair => PathInv'
<1> SUFFICES ASSUME PathInv, MergePair PROVE PathInv'
  OBVIOUS
<1> USE DEF PathInv, MergePair, inputs
<1>1. PICK half \in Nat, left \in Nat :
        /\ left = left_to_merge /\ half = left_to_merge \div 2
        /\ 2 * half <= left /\ merge_i < half /\ merge_i \in Nat
        /\ left <= num_threads /\ num_threads \in Nat /\ num_threads <= MaxThreads
  BY Halves, NPathAssumption DEF PathTypeOK
<1>2. /\ merge_i \in Tid /\ left - merge_i - 1 \in Tid
      /\ 0 <= merge_i /\ merge_i <= left - (merge_i + 1) - 1
      /\ merge_i + 1 <= half /\ merge_i + 1 <= num_threads
  BY <1>1, NPathAssumption DEF Tid
<1>3. /\ vis_bufs'[merge_i] = vis_bufs[merge_i] \cup vis_bufs[left - merge_i - 1]
      /\ \A h \in Tid : h # merge_i => vis_bufs'[h] = vis_bufs[h]
  BY <1>1, <1>2 DEF PathTypeOK
<1>4. PathTypeOK'
  <2>1. vis_bufs' \in [Tid -> SUBSET Node]
    BY <1>1, <1>2 DEF PathTypeOK
  <2>2. merge_i' \in 0 .. num_threads
    BY <1>1, <1>2
  <2> QED
    BY <2>1, <2>2 DEF PathTypeOK
<1>5. Rounds'
  BY <1>1, <1>2 DEF Rounds, Neighbors
<1>6. NothingLost'
  <2>1. ASSUME NEW m \in Neighbors(frontier)
        PROVE  \E h \in 0 .. left - (merge_i + 1) - 1 : m \in vis_bufs'[h]
    <3>1. PICK h \in 0 .. left - merge_i - 1 : m \in vis_bufs[h]
      BY <1>1, <2>1 DEF NothingLost
    <3>2. h \in Tid
      BY <1>1, <3>1, NPathAssumption DEF Tid
    <3>3. m \in vis_bufs'[h] \/ m \in vis_bufs'[merge_i]
      BY <1>3, <3>1, <3>2
    <3>4. CASE h = left - merge_i - 1
      BY <1>1, <1>2, <1>3, <3>1, <3>4
    <3>5. CASE h # left - merge_i - 1
      BY <1>1, <1>2, <1>3, <3>1, <3>2, <3>5
    <3> QED
      BY <3>4, <3>5
  <2>2. left_to_merge' - merge_i' - 1 = left - (merge_i + 1) - 1
    BY <1>1
  <2>3. Neighbors(frontier)' = Neighbors(frontier) /\ stage' = "merge"
    BY DEF Neighbors
  <2> QED
    BY <2>1, <2>2, <2>3 DEF NothingLost
<1>7. OnlyNeighborsFound'
  <2>1. Neighbors(frontier)' = Neighbors(frontier)
    BY DEF Neighbors
  <2> QED
    BY <1>2, <1>3, <2>1 DEF OnlyNeighborsFound
<1> QED
  BY <1>4, <1>5, <1>6, <1>7

\* The next round of merging: the bitsets kept are the lower half, rounded up.
LEMMA MergeRoundStep == PathInv /\ MergeRound => PathInv'
<1> SUFFICES ASSUME PathInv, MergeRound PROVE PathInv'
  OBVIOUS
<1> USE DEF PathInv, MergeRound, inputs
<1>1. PICK half \in Nat, odd \in 0 .. 1, left \in Nat :
        /\ left = left_to_merge /\ half = left_to_merge \div 2 /\ odd = left_to_merge % 2
        /\ left = 2 * half + odd /\ merge_i \in Nat /\ merge_i <= half /\ merge_i >= half /\ left > 1
        /\ left <= num_threads /\ num_threads \in Nat
  BY Halves, NPathAssumption DEF PathTypeOK, Rounds
<1>2. /\ left_to_merge' = half + odd /\ merge_i' = 0
      /\ half + odd \in 1 .. num_threads
      /\ left - merge_i - 1 = (half + odd) - 0 - 1
  BY <1>1
<1>3. PathTypeOK'
  BY <1>1, <1>2 DEF PathTypeOK
<1>4. Neighbors(frontier)' = Neighbors(frontier) /\ UNCHANGED vis_bufs /\ stage' = "merge"
  BY DEF Neighbors
<1>5. Rounds'
  <2>1. PICK l \in Nat : l = left_to_merge' /\ 0 <= l \div 2
    BY <1>2, Halves
  <2> QED
    BY <1>2, <1>4, <2>1 DEF Rounds
<1>6. NothingLost'
  BY <1>1, <1>2, <1>4 DEF NothingLost
<1>7. OnlyNeighborsFound'
  BY <1>4 DEF OnlyNeighborsFound
<1> QED
  BY <1>3, <1>5, <1>6, <1>7

\* With one bitset left, it holds the neighbours and nothing unexpected.
LEMMA MergeVisitedStep == PathInv /\ MergeVisited => PathInv'
<1> SUFFICES ASSUME PathInv, MergeVisited PROVE PathInv'
  OBVIOUS
<1> USE DEF PathInv, MergeVisited, inputs
<1>1. left_to_merge = 1 /\ merge_i = 0 /\ 0 \in Tid
  <2>1. left_to_merge = 1 /\ 0 \in Tid
    BY NPathAssumption DEF PathTypeOK, Tid
  <2>2. 1 \div 2 = 0
    OBVIOUS
  <2> QED
    BY <2>1, <2>2 DEF Rounds, PathTypeOK
<1>2. Neighbors(frontier) \subseteq vis_bufs[0]
  BY <1>1 DEF NothingLost
<1>3. \A k \in Tid : vis_bufs[k] \subseteq visited \cup Neighbors(frontier)
  BY DEF OnlyNeighborsFound
<1>4. visited' = visited \cup Neighbors(frontier) /\ Neighbors(frontier)' = Neighbors(frontier)
  BY <1>1, <1>2, <1>3 DEF Neighbors
<1>5. PathTypeOK'
  BY <1>1 DEF PathTypeOK
<1>6. Rounds'
  BY <1>4 DEF Rounds
<1>7. NothingLost'
  BY <1>4 DEF NothingLost
<1>8. OnlyNeighborsFound'
  BY <1>3, <1>4 DEF OnlyNeighborsFound
<1> QED
  BY <1>5, <1>6, <1>7, <1>8

LEMMA NextFrontierStep == PathInv /\ NextFrontier => PathInv'
<1> SUFFICES ASSUME PathInv, NextFrontier PROVE PathInv'
  OBVIOUS
<1> USE DEF PathInv, NextFrontier, inputs
<1>1. stage' \in {"copy", "stop"} /\ expanded = {} /\ frontier' = visited \ old_visited
  BY DEF Rounds
<1>2. path_length' \in 0 .. query_depth
  BY NPathAssumption DEF PathTypeOK
<1>3. PathTypeOK'
  BY <1>1, <1>2 DEF PathTypeOK
<1>4. Rounds'
  BY <1>1 DEF Rounds
<1>5. NothingLost' /\ OnlyNeighborsFound'
  BY <1>1 DEF NothingLost, OnlyNeighborsFound
<1> QED
  BY <1>3, <1>4, <1>5

LEMMA NextPathInv == PathInv /\ [PathNext]_pathVars => PathInv'
<1> SUFFICES ASSUME PathInv, [PathNext]_pathVars PROVE PathInv'
  OBVIOUS
<1>1. CASE UNCHANGED pathVars
  BY <1>1 DEF pathVars, PathInv, PathTypeOK, Rounds, NothingLost, OnlyNeighborsFound, Neighbors
<1> QED
  BY <1>1, CopyVisitedStep, VisitStep, LoopDoneStep, MergePairStep, MergeRoundStep,
     MergeVisitedStep, NextFrontierStep
  DEF PathNext, Main, PathTerminated
-----------------------------------------------------------------------------
\* The inductive invariant holds in every reachable state.
THEOREM PathInvariance == SafePathSpec => []PathInv
BY InitPathInv, NextPathInv, PTL DEF SafePathSpec

\* Type correctness: the workers used are between one and num_threads, the path
\* is no longer than the depth asked for.
THEOREM PathTypeCorrect == SafePathSpec => []PathTypeOK
BY PathInvariance, PTL DEF PathInv

\* The merge loses nothing, for every number of workers.
THEOREM NothingLostHolds == SafePathSpec => []NothingLost
BY PathInvariance, PTL DEF PathInv

\* What earlier rounds left in the bitsets does no harm.
THEOREM OnlyNeighborsFoundHolds == SafePathSpec => []OnlyNeighborsFound
BY PathInvariance, PTL DEF PathInv

\* Every round of the parallel search is a step of the sequential one, everything
\* else leaves the sequential search where it is.
THEOREM PathRefinement == SafePathSpec => Sequential!SafeSpec
<1>1. PathInit => Sequential!Init
  BY NPathAssumption DEF PathInit, Sequential!Init
<1>2. PathInv /\ [PathNext]_pathVars => [Sequential!Step]_(Sequential!vars)
  <2> SUFFICES ASSUME PathInv, [PathNext]_pathVars PROVE [Sequential!Step]_(Sequential!vars)
    OBVIOUS
  <2>1. CASE NextFrontier
    <3>1. /\ stage = "difference" /\ stage' \in {"copy", "stop"}
          /\ visited = old_visited \cup Neighbors(frontier)
          /\ Neighbors(frontier) = Sequential!Neighbors(frontier)
      BY <2>1 DEF NextFrontier, PathInv, Rounds, Neighbors, Sequential!Neighbors
    <3>2. visited \ old_visited = Sequential!Neighbors(frontier) \ old_visited
      BY <3>1
    <3>3. Sequential!Step
      BY <2>1, <3>1, <3>2 DEF NextFrontier, Sequential!Step, inputs
    <3> QED
      BY <3>3
  <2>2. CASE UNCHANGED <<graph, query_depth, frontier, path_length>>
             /\ (stage = "stop" <=> stage' = "stop")
             /\ (IF stage' = "difference" THEN old_visited' ELSE visited')
                  = (IF stage = "difference" THEN old_visited ELSE visited)
    BY <2>2 DEF Sequential!vars
  <2> QED
    BY <2>1, <2>2
    DEF PathNext, Main, CopyVisited, Visit, LoopDone, MergePair, MergeRound, MergeVisited,
        PathTerminated, pathVars, inputs, PathInv, Rounds
<1> QED
  BY <1>1, <1>2, PathInvariance, PTL DEF SafePathSpec, Sequential!SafeSpec
-----------------------------------------------------------------------------
\* The nodes within distance d are what its recursion says: it has a solution.
LEMMA BallRecursion ==
  ASSUME internal_start \in Node
  PROVE  /\ Ball[0] = {internal_start}
         /\ \A d \in Nat : Ball[d + 1] = Ball[d] \cup Neighbors(Ball[d])
<1> DEFINE Layer(g, d) == IF d = 0 THEN {internal_start} ELSE g[d - 1] \cup Neighbors(g[d - 1])
           grow == [S \in SUBSET Node |-> S \cup Neighbors(S)]
<1>1. PICK g \in [Nat -> SUBSET Node] : Iterates(g, grow, {internal_start})
  <2>1. {internal_start} \in SUBSET Node /\ \A S \in SUBSET Node : grow[S] \in SUBSET Node
    BY DEF Neighbors
  <2> HIDE DEF grow
  <2> QED
    BY <2>1, Iteration
<1>2. g[0] = {internal_start} /\ \A d \in Nat : g[d + 1] = g[d] \cup Neighbors(g[d])
  BY <1>1 DEF Iterates
<1>3. g = [d \in Nat |-> Layer(g, d)]
  <2>1. ASSUME NEW d \in Nat PROVE g[d] = Layer(g, d)
    <3>1. CASE d = 0
      BY <1>2, <3>1
    <3>2. CASE d # 0
      <4>1. d - 1 \in Nat /\ (d - 1) + 1 = d
        BY <3>2
      <4> QED
        BY <1>2, <3>2, <4>1
    <3> QED
      BY <3>1, <3>2
  <2> HIDE DEF Layer
  <2> QED
    BY <1>1, <2>1
<1>4. Ball = [d \in Nat |-> Layer(Ball, d)]
  <2>1. Ball = CHOOSE b : b = [d \in Nat |-> Layer(b, d)]
    BY DEF Ball
  <2> HIDE DEF Layer
  <2> QED
    BY <1>3, <2>1
<1>5. Ball[0] = {internal_start}
  BY <1>4
<1>6. ASSUME NEW d \in Nat PROVE Ball[d + 1] = Ball[d] \cup Neighbors(Ball[d])
  <2>1. Ball[d + 1] = Layer(Ball, d + 1)
    <3> HIDE DEF Layer
    <3>1. d + 1 \in Nat
      OBVIOUS
    <3> QED
      BY <1>4, <3>1
  <2>2. d + 1 # 0 /\ (d + 1) - 1 = d
    OBVIOUS
  <2> QED
    BY <2>1, <2>2
<1> QED
  BY <1>5, <1>6

\* Where the search is: what has been visited before the round is everything up to
\* distance path_length, the frontier is what is no nearer, and every level so far had
\* nodes of its own.
Nearer(d) == IF d = 0 THEN {} ELSE Ball[d - 1]

Levels ==
  /\ stage \in {"copy", "expand", "merge"} => visited = Ball[path_length]
  /\ stage = "difference" => old_visited = Ball[path_length]
  /\ stage # "stop" => frontier = Ball[path_length] \ Nearer(path_length)
  /\ \A d \in 0 .. path_length - 1 : Ball[d + 1] # Ball[d]
  /\ stage = "stop" => path_length = query_depth \/ Ball[path_length + 1] = Ball[path_length]

\* The neighbours of a level complete the next one: those of nearer nodes are in it.
LEMMA NextLevel ==
  ASSUME internal_start \in Node, NEW d \in Nat
  PROVE  /\ Ball[d] \cup Neighbors(Ball[d] \ Nearer(d)) = Ball[d + 1]
         /\ Ball[d] \subseteq Ball[d + 1]
<1>1. Ball[d + 1] = Ball[d] \cup Neighbors(Ball[d])
  BY BallRecursion
<1>2. Neighbors(Nearer(d)) \subseteq Ball[d]
  <2>1. CASE d = 0
    BY <2>1 DEF Nearer, Neighbors
  <2>2. CASE d # 0
    <3>1. d - 1 \in Nat /\ (d - 1) + 1 = d /\ Nearer(d) = Ball[d - 1]
      BY <2>2 DEF Nearer
    <3>2. Ball[d] = Ball[d - 1] \cup Neighbors(Ball[d - 1])
      BY <3>1, BallRecursion
    <3> QED
      BY <3>1, <3>2
  <2> QED
    BY <2>1, <2>2
<1>3. Neighbors(Ball[d]) \subseteq Neighbors(Ball[d] \ Nearer(d)) \cup Neighbors(Nearer(d))
      /\ Neighbors(Ball[d] \ Nearer(d)) \subseteq Neighbors(Ball[d])
  BY DEF Neighbors
<1> QED
  BY <1>1, <1>2, <1>3

LEMMA BallFixed ==
  ASSUME UNCHANGED <<graph, internal_start>>
  PROVE  Ball' = Ball /\ \A d : Nearer(d)' = Nearer(d)
<1>1. Ball' = Ball
  BY DEF Ball, Neighbors
<1> QED
  BY <1>1 DEF Nearer

LEMMA InitLevels == PathInit => Levels
<1> SUFFICES ASSUME PathInit PROVE Levels
  OBVIOUS
<1>1. Ball[0] = {internal_start}
  BY BallRecursion DEF PathInit
<1> QED
  BY <1>1 DEF PathInit, Levels, Nearer

\* Only the end of a round changes the level.
LEMMA NextLevels == PathInv /\ Levels /\ [PathNext]_pathVars => Levels'
<1> SUFFICES ASSUME PathInv, Levels, [PathNext]_pathVars PROVE Levels'
  OBVIOUS
<1>1. CASE NextFrontier
  <2> USE <1>1 DEF NextFrontier, inputs
  <2>1. /\ UNCHANGED <<graph, internal_start, query_depth, visited, old_visited>>
        /\ frontier' = visited \ old_visited
        /\ stage = "difference" /\ path_length \in Nat /\ internal_start \in Node
        /\ query_depth \in Nat /\ path_length <= query_depth
        /\ visited = old_visited \cup Neighbors(frontier)
    BY NPathAssumption DEF PathInv, PathTypeOK, Rounds
  <2>2. old_visited = Ball[path_length] /\ visited = Ball[path_length + 1]
    BY <2>1, NextLevel DEF Levels
  <2>3. Ball' = Ball /\ \A d : Nearer(d)' = Nearer(d)
    BY <2>1, BallFixed
  <2>4. CASE frontier' = {} \/ path_length >= query_depth
    <3>1. stage' = "stop" /\ path_length' = path_length
      BY <2>1, <2>4
    <3>2. path_length = query_depth \/ Ball[path_length + 1] = Ball[path_length]
      <4>1. Ball[path_length] \subseteq Ball[path_length + 1]
        BY <2>1, NextLevel
      <4>2. frontier' = Ball[path_length + 1] \ Ball[path_length]
        BY <2>1, <2>2
      <4> QED
        BY <2>1, <2>4, <4>1, <4>2
    <3> QED
      BY <2>1, <2>3, <3>1, <3>2 DEF Levels
  <2>5. CASE ~(frontier' = {} \/ path_length >= query_depth)
    <3>1. stage' = "copy" /\ path_length' = path_length + 1
      BY <2>1, <2>5
    <3>2. Ball[path_length + 1] # Ball[path_length]
      BY <2>1, <2>2, <2>5
    <3>3. \A d \in 0 .. (path_length + 1) - 1 : Ball[d + 1] # Ball[d]
      BY <2>1, <3>2 DEF Levels
    <3>4. path_length' # 0 /\ path_length' - 1 = path_length
      BY <2>1, <3>1
    <3>5. visited' = Ball'[path_length'] /\ frontier' = Ball'[path_length'] \ Ball'[path_length' - 1]
      BY <2>1, <2>2, <2>3, <3>1, <3>4
    <3>6. \A d \in 0 .. path_length' - 1 : Ball'[d + 1] # Ball'[d]
      BY <2>3, <3>1, <3>3
    <3> QED
      BY <3>1, <3>4, <3>5, <3>6 DEF Levels, Nearer
  <2> QED
    BY <2>4, <2>5
<1>2. CASE UNCHANGED <<graph, internal_start, query_depth, frontier, path_length>>
           /\ (stage = "stop" <=> stage' = "stop")
           /\ (stage' \in {"copy", "expand", "merge"} =>
                 visited' = visited /\ stage \in {"copy", "expand", "merge"})
           /\ (stage' = "difference" => old_visited' =
                IF stage = "difference" THEN old_visited ELSE visited)
  <2>1. Ball' = Ball /\ Nearer(path_length)' = Nearer(path_length)
    BY <1>2, BallFixed DEF Nearer
  <2>2. stage \in {"copy", "expand", "merge", "difference", "stop"}
    BY DEF PathInv, PathTypeOK
  <2> QED
    BY <1>2, <2>1, <2>2 DEF Levels
<1> QED
  BY <1>1, <1>2
  DEF PathNext, Main, CopyVisited, Visit, LoopDone, MergePair, MergeRound, MergeVisited,
      PathTerminated, pathVars, inputs, PathInv, Rounds

THEOREM LevelInvariance == SafePathSpec => []Levels
BY InitLevels, NextLevels, PathInvariance, PTL DEF SafePathSpec

\* Every round starts from a level of the graph.
THEOREM FrontierIsLevelHolds == SafePathSpec => []FrontierIsLevel
<1>1. Levels => FrontierIsLevel
  BY DEF Levels, FrontierIsLevel, Nearer
<1> QED
  BY <1>1, LevelInvariance, PTL

\* The answer is the distance of the farthest node that can be reached, or the depth
\* asked for.
THEOREM PathLengthIsDistanceHolds == SafePathSpec => []PathLengthIsDistance
<1>1. Levels => PathLengthIsDistance
  BY DEF Levels, PathLengthIsDistance
<1> QED
  BY <1>1, LevelInvariance, PTL
===============================================================================

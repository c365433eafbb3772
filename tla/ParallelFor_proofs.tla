-------------------------- MODULE ParallelFor_proofs --------------------------
(***************************************************************************)
(* Lemmas about the parallel loop, for any number of threads and indices.  *)
(* The proofs about the modules that are composed with the loop cite them. *)
(***************************************************************************)
EXTENDS ParallelFor, TLAPS

Bounds == MaxThreads \in Nat /\ MaxIndex \in Nat

\* The indices that have been handed to threads.
Claimed == from .. unclaimed - 1

LoopTypes ==
  /\ numThreads \in 1 .. MaxThreads
  /\ from \in 0 .. MaxIndex /\ to \in from .. MaxIndex
  /\ workers \in 1 .. numThreads
  /\ prepared \in 0 .. numThreads /\ released \in 0 .. numThreads
  /\ unclaimed \in from .. to
  /\ pending \in [Tid -> SUBSET Claimed]
  /\ running \subseteq Tid \X Claimed
  /\ completed \subseteq Claimed

\* An index is with one thread at most, to be begun or being run, or completed.
OnePlace ==
  /\ \A k \in Tid : pending[k] \cap completed = {}
  /\ \A k, h \in Tid : k # h => pending[k] \cap pending[h] = {}
  /\ \A r \in running : r[2] \notin completed /\ \A k \in Tid : r[2] \notin pending[k]
  /\ \A r, q \in running : r[1] = q[1] \/ r[2] = q[2] => r = q

\* Indices are handed to the workers only.  Every thread is set up before the first
\* one is handed out, every index is completed before a thread is torn down.
Brackets ==
  /\ \A k \in Tid : pending[k] # {} => k < workers
  /\ \A r \in running : r[1] < workers
  /\ prepared < numThreads => unclaimed = from
  /\ released > 0 => prepared = numThreads /\ completed = from .. to - 1

LoopInv == LoopTypes /\ OnePlace /\ Brackets
-----------------------------------------------------------------------------
LEMMA LoopInit == Bounds /\ Init => LoopInv
<1> SUFFICES ASSUME Bounds, Init PROVE LoopInv
  OBVIOUS
<1>1. from .. unclaimed - 1 = {}
  BY DEF Init, Bounds
<1>2. LoopTypes
  BY <1>1 DEF Init, Bounds, LoopTypes, Claimed, Tid
<1>3. OnePlace
  BY DEF Init, OnePlace, Tid
<1>4. Brackets
  BY DEF Init, Bounds, Brackets
<1> QED
  BY <1>2, <1>3, <1>4 DEF LoopInv

LEMMA SetUpKeeps == Bounds /\ LoopInv /\ SetUp => LoopInv'
<1> SUFFICES ASSUME Bounds, LoopInv, SetUp PROVE LoopInv'
  OBVIOUS
<1> USE DEF Bounds, LoopInv, SetUp, args
<1>1. LoopTypes'
  BY DEF LoopTypes, Claimed, Tid
<1>2. OnePlace'
  BY DEF OnePlace, Tid
<1>3. Brackets'
  BY DEF LoopTypes, Brackets
<1> QED
  BY <1>1, <1>2, <1>3

\* The indices taken lie behind all that were handed out before.
LEMMA TakeKeeps ==
  ASSUME Bounds, LoopInv, NEW k \in Tid, NEW i \in Index, Take(k, i) PROVE LoopInv'
<1> USE DEF Bounds, LoopInv, Take, args
<1>1. /\ from \in Int /\ unclaimed \in Int /\ to \in Int /\ i \in Int
      /\ from <= unclaimed /\ unclaimed <= i /\ i <= to - 1
  BY DEF LoopTypes, Index
<1>2. Claimed' = Claimed \cup (unclaimed .. i) /\ Claimed \cap (unclaimed .. i) = {}
  BY <1>1 DEF Claimed
<1>3. /\ pending'[k] = unclaimed .. i
      /\ \A h \in Tid : h # k => pending'[h] = pending[h]
      /\ pending' \in [Tid -> SUBSET Claimed']
  BY <1>2 DEF LoopTypes
<1>4. LoopTypes'
  <2>1. unclaimed' \in from .. to
    BY <1>1
  <2>2. running' \subseteq Tid \X Claimed' /\ completed' \subseteq Claimed'
    BY <1>2 DEF LoopTypes
  <2> QED
    BY <1>3, <2>1, <2>2 DEF LoopTypes, Tid
<1>5. OnePlace'
  <2>1. \A h \in Tid : pending[h] \cap (unclaimed .. i) = {}
    BY <1>2 DEF LoopTypes
  <2>2. \A r \in running : r[2] \notin unclaimed .. i
    BY <1>2 DEF LoopTypes
  <2>3. completed \cap (unclaimed .. i) = {}
    BY <1>2 DEF LoopTypes
  <2> QED
    BY <1>3, <2>1, <2>2, <2>3 DEF OnePlace, Tid
<1>6. Brackets'
  BY <1>1, <1>2 DEF LoopTypes, Brackets, Claimed
<1> QED
  BY <1>4, <1>5, <1>6

LEMMA BeginKeeps ==
  ASSUME Bounds, LoopInv, NEW k \in Tid, NEW i \in Index, Begin(k, i) PROVE LoopInv'
<1> USE DEF Bounds, LoopInv, Begin, args
<1>1. /\ pending'[k] = pending[k] \ {i} /\ i \in pending[k] /\ i \in Claimed
      /\ \A h \in Tid : h # k => pending'[h] = pending[h]
      /\ pending' \in [Tid -> SUBSET Claimed]
  BY DEF LoopTypes
<1>2. Claimed' = Claimed
  BY DEF Claimed
<1>3. LoopTypes'
  BY <1>1, <1>2 DEF LoopTypes, Tid
<1>4. OnePlace'
  <2>1. \A h \in Tid : pending'[h] \subseteq pending[h] /\ i \notin pending'[h]
    BY <1>1 DEF OnePlace
  <2>2. \A r \in running' : r[2] \notin completed' /\ \A h \in Tid : r[2] \notin pending'[h]
    BY <1>1, <2>1 DEF OnePlace
  <2>3. \A r \in running : r[1] # k /\ r[2] # i
    BY <1>1 DEF OnePlace
  <2>4. \A r, q \in running' : r[1] = q[1] \/ r[2] = q[2] => r = q
    BY <2>3 DEF OnePlace
  <2> QED
    BY <2>1, <2>2, <2>4 DEF OnePlace, Tid
<1>5. Brackets'
  BY DEF Brackets
<1> QED
  BY <1>3, <1>4, <1>5

LEMMA EndKeeps ==
  ASSUME Bounds, LoopInv, NEW k \in Tid, NEW i \in Index, End(k, i) PROVE LoopInv'
<1> USE DEF Bounds, LoopInv, End, args
<1>1. Claimed' = Claimed /\ i \in Claimed
  BY DEF Claimed, LoopTypes
<1>2. LoopTypes'
  BY <1>1 DEF LoopTypes, Tid
<1>3. OnePlace'
  <2>1. \A r \in running' : r \in running /\ r[2] # i
    BY DEF OnePlace, LoopTypes
  <2>2. \A h \in Tid : i \notin pending[h]
    BY DEF OnePlace
  <2> QED
    BY <2>1, <2>2 DEF OnePlace, Tid
<1>4. Brackets'
  <2>1. released = 0
    BY <1>1 DEF Brackets, OnePlace, LoopTypes, Claimed
  <2> QED
    BY <2>1 DEF Brackets
<1> QED
  BY <1>2, <1>3, <1>4

LEMMA TearDownKeeps == Bounds /\ LoopInv /\ TearDown => LoopInv'
<1> SUFFICES ASSUME Bounds, LoopInv, TearDown PROVE LoopInv'
  OBVIOUS
<1> USE DEF Bounds, LoopInv, TearDown, args
<1>1. LoopTypes'
  BY DEF LoopTypes, Claimed, Tid
<1>2. OnePlace' /\ Brackets'
  BY DEF OnePlace, Brackets, Tid, LoopTypes
<1> QED
  BY <1>1, <1>2

\* What a step of the loop preserves, whatever its bodies do meanwhile.
LEMMA LoopStep == Bounds /\ LoopInv /\ [Next]_vars => LoopInv'
<1> SUFFICES ASSUME Bounds, LoopInv, [Next]_vars PROVE LoopInv'
  OBVIOUS
<1>1. CASE UNCHANGED vars
  BY <1>1 DEF vars, LoopInv, LoopTypes, OnePlace, Brackets, Claimed
<1> QED
  BY <1>1, SetUpKeeps, TakeKeeps, BeginKeeps, EndKeeps, TearDownKeeps DEF Next

\* No index is handed out or run after the first teardown.
LEMMA NothingAfterTearDown ==
  ASSUME Bounds, LoopInv, released > 0
  PROVE  running = {} /\ \A k \in Tid : pending[k] = {}
<1>1. completed = from .. to - 1 /\ Claimed \subseteq completed
  BY DEF Bounds, LoopInv, LoopTypes, Brackets, Claimed
<1>2. /\ running \subseteq Tid \X Claimed /\ pending \in [Tid -> SUBSET Claimed]
      /\ \A r \in running : r[2] \notin completed
      /\ \A k \in Tid : pending[k] \cap completed = {}
  BY DEF LoopInv, LoopTypes, OnePlace
<1>3. running = {}
  <2> SUFFICES ASSUME NEW r \in running PROVE FALSE
    OBVIOUS
  <2>1. r[2] \in Claimed
    BY <1>2
  <2> QED
    BY <1>1, <1>2, <2>1
<1>4. ASSUME NEW k \in Tid PROVE pending[k] = {}
  BY <1>1, <1>2
<1> QED
  BY <1>3, <1>4
-----------------------------------------------------------------------------
\* In every run of the loop the body is begun once at most for every index: an index
\* that is running or completed is not handed out again.
THEOREM LoopInvariance ==
  ASSUME Bounds
  PROVE  SafeSpec => []LoopInv
<1>1. Init => LoopInv
  BY LoopInit
<1>2. LoopInv /\ [Next]_vars => LoopInv'
  BY LoopStep
<1> QED
  BY <1>1, <1>2, PTL DEF SafeSpec
===============================================================================

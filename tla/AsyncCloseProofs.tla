-------------------------- MODULE AsyncCloseProofs --------------------------
(***************************************************************************)
(* The pool of closing threads keeps PoolInv, for every number of FILEs    *)
(* and every size of the pool.                                             *)
(***************************************************************************)
EXTENDS AsyncClose, FiniteSetTheorems, TLAPS

\* The threads are finitely many, and none when there are 0.
LEMMA ThreadsAreFinite ==
    /\ IsFiniteSet(Threads)
    /\ Cardinality(Threads) \in Nat
    /\ Cardinality(Threads) = 0 <=> Threads = {}
<1>1. IsFiniteSet(Threads)
  BY PoolAssumption, FS_Subset DEF Threads
<1>. QED
  BY <1>1, FS_CardinalityType, FS_EmptySet

\* The pool starts empty.
LEMMA PoolStarts == PoolInit => PoolInv
<1>. SUFFICES ASSUME PoolInit PROVE PoolInv
  OBVIOUS
<1>1. Threads = {}
  BY DEF PoolInit, Threads
<1>2. Cardinality(Threads) = 0
  BY <1>1, FS_EmptySet
<1>. QED
  BY <1>1, <1>2, PoolAssumption
     DEF PoolInit, PoolInv, PoolTypeOK, SlotsAreOwn, CountIsThreads

\* A new thread gets a slot above those of all others.
LEMMA StartThreadKeeps ==
    ASSUME PoolInv, NEW f \in Files, StartThread(f)
    PROVE  PoolInv'
<1>. USE DEF StartThread
<1>1. Threads' = Threads \cup {f} /\ f \notin Threads
  BY DEF Threads, PoolInv, PoolTypeOK
<1>2. Cardinality(Threads') = Cardinality(Threads) + 1
  BY <1>1, ThreadsAreFinite, FS_AddElement
<1>3. PoolTypeOK'
  <2>1. closing_thread_count' \in 0 .. MAX_THREAD
    BY PoolAssumption DEF PoolInv, PoolTypeOK, HasRoom
  <2>2. thread_index' \in 0 .. THREAD_SIZE /\ thread_index \in Nat
    BY PoolAssumption DEF PoolInv, PoolTypeOK, HasRoom
  <2>. QED
    BY <2>1, <2>2 DEF PoolInv, PoolTypeOK
<1>4. SlotsAreOwn'
  <2>1. thread_index \in Nat /\ thread_index' = thread_index + 1
    BY PoolAssumption DEF PoolInv, PoolTypeOK
  <2>2. \A g \in Threads : close_slot'[g] = close_slot[g] /\ close_slot[g] \in Nat
    BY <1>1 DEF PoolInv, PoolTypeOK, Threads
  <2>3. close_slot'[f] = thread_index
    BY DEF PoolInv, PoolTypeOK
  <2>4. \A g \in Threads : close_slot[g] < thread_index
    BY DEF PoolInv, SlotsAreOwn
  <2>. QED
    BY <1>1, <2>1, <2>2, <2>3, <2>4 DEF PoolInv, SlotsAreOwn
<1>5. CountIsThreads'
  BY <1>2, ThreadsAreFinite DEF PoolInv, CountIsThreads
<1>. QED
  BY <1>3, <1>4, <1>5 DEF PoolInv

\* A thread that leaves was counted; when it was the last one nobody has a
\* slot any more.
LEMMA CloseItKeeps ==
    ASSUME PoolInv, NEW f \in Files, close_it(f)
    PROVE  PoolInv'
<1>. USE DEF close_it
<1>1. Threads' = Threads \ {f} /\ f \in Threads
  BY DEF Threads, PoolInv, PoolTypeOK
<1>2. Cardinality(Threads') = Cardinality(Threads) - 1
  BY <1>1, ThreadsAreFinite, FS_RemoveElement
<1>3. closing_thread_count \in 1 .. MAX_THREAD
  BY <1>1, ThreadsAreFinite, PoolAssumption DEF PoolInv, PoolTypeOK, CountIsThreads
<1>4. thread_index' = IF closing_thread_count' = 0 THEN 0 ELSE thread_index
  BY <1>3 DEF IndexAfter
<1>5. PoolTypeOK'
  BY <1>3, <1>4, PoolAssumption DEF PoolInv, PoolTypeOK
<1>6. CountIsThreads'
  BY <1>2, <1>3, <1>4 DEF PoolInv, CountIsThreads
<1>7. SlotsAreOwn'
  <2>1. CASE closing_thread_count' = 0
    <3>1. Cardinality(Threads') = 0
      BY <1>6, <2>1 DEF CountIsThreads
    <3>2. Threads' = {}
      BY <3>1, <1>1, ThreadsAreFinite, FS_Subset, FS_EmptySet
    <3>. QED
      BY <3>2 DEF SlotsAreOwn
  <2>2. CASE closing_thread_count' # 0
    BY <1>1, <1>4, <2>2 DEF PoolInv, SlotsAreOwn
  <2>. QED
    BY <2>1, <2>2
<1>. QED
  BY <1>5, <1>6, <1>7 DEF PoolInv

\* What is not done by a thread leaves the pool alone.
LEMMA OthersKeep ==
    ASSUME PoolInv, NEW f \in Files,
           StartNoThread(f) \/ CallerCloses(f) \/ Reopen(f)
    PROVE  PoolInv'
<1>1. UNCHANGED <<closing_thread_count, thread_index, close_slot>>
  BY DEF StartNoThread, CallerCloses, Reopen
<1>2. Threads' = Threads
  BY DEF Threads, PoolInv, PoolTypeOK, StartNoThread, CallerCloses, Reopen
<1>3. closer' \in [Files -> {"nobody", "thread", "caller", "closed"}]
  BY DEF PoolInv, PoolTypeOK, StartNoThread, CallerCloses, Reopen
<1>. QED
  BY <1>1, <1>2, <1>3 DEF PoolInv, PoolTypeOK, SlotsAreOwn, CountIsThreads

\* Every step of the pool keeps the invariant.
LEMMA PoolKeeps == PoolInv /\ [PoolNext]_poolVars => PoolInv'
<1>. SUFFICES ASSUME PoolInv, [PoolNext]_poolVars PROVE PoolInv'
  OBVIOUS
<1>1. CASE UNCHANGED poolVars
  BY <1>1 DEF poolVars, PoolInv, PoolTypeOK, SlotsAreOwn, CountIsThreads, Threads
<1>2. ASSUME NEW f \in Files, StartThread(f) PROVE PoolInv'
  BY <1>2, StartThreadKeeps
<1>3. ASSUME NEW f \in Files, close_it(f) PROVE PoolInv'
  BY <1>3, CloseItKeeps
<1>4. ASSUME NEW f \in Files, StartNoThread(f) \/ CallerCloses(f) \/ Reopen(f)
      PROVE  PoolInv'
  BY <1>4, OthersKeep
<1>. QED
  BY <1>1, <1>2, <1>3, <1>4 DEF PoolNext, async_pclose

(***************************************************************************)
(* async_pclose never gives the slot of a running thread to another one,   *)
(* nor one beyond close_thread, and its counter counts the threads.        *)
(***************************************************************************)
THEOREM PoolIsSafe == PoolSpec => []PoolInv
<1>. QED
  BY PoolStarts, PoolKeeps, PTL DEF PoolSpec
=============================================================================

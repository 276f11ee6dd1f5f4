----------------------------- MODULE AsyncClose -----------------------------
(***************************************************************************)
(* The pool of closing threads (async_pclose.cpp): pclose() waits for a    *)
(* child process, so a thread of its own calls it, unless too many such    *)
(* threads are running or the table of their ids is used up; then the      *)
(* caller waits itself.                                                    *)
(***************************************************************************)
EXTENDS Integers, FiniteSets

CONSTANTS
    Files,         \* the FILEs that popen returned
    MAX_THREAD,    \* 128
    THREAD_SIZE    \* 256, the slots of close_thread

ASSUME PoolAssumption ==
    /\ IsFiniteSet(Files)
    /\ MAX_THREAD \in Nat
    /\ THREAD_SIZE \in Nat

VARIABLES
    closing_thread_count,
    thread_index,    \* the slot of close_thread for the next thread
    closer,          \* who closes the file: nobody yet, a thread, the caller
    close_slot       \* the slot that the thread of a file was created in

poolVars == <<closing_thread_count, thread_index, closer, close_slot>>

PoolInit ==
    /\ closing_thread_count = 0
    /\ thread_index = 0
    /\ closer = [f \in Files |-> "nobody"]
    /\ close_slot = [f \in Files |-> 0]

HasRoom ==
    /\ closing_thread_count < MAX_THREAD
    /\ thread_index < THREAD_SIZE

\* async_pclose, with the mutex held; pthread_create may fail at any time.
StartThread(f) ==
    /\ closer[f] = "nobody" /\ HasRoom
    /\ closer' = [closer EXCEPT ![f] = "thread"]
    /\ close_slot' = [close_slot EXCEPT ![f] = thread_index]
    /\ thread_index' = thread_index + 1
    /\ closing_thread_count' = closing_thread_count + 1
StartNoThread(f) ==
    /\ closer[f] = "nobody"
    /\ closer' = [closer EXCEPT ![f] = "caller"]
    /\ UNCHANGED <<closing_thread_count, thread_index, close_slot>>
async_pclose(f) == StartThread(f) \/ StartNoThread(f)

\* Mutant of IndexAfter: the table starts again when one thread is left.
IndexAfterLast(count) == IF count <= 1 THEN 0 ELSE thread_index
IndexAfter(count) == IF count <= 0 THEN 0 ELSE thread_index

\* The thread of f returns from pclose and, with the mutex, leaves the pool.
close_it(f) ==
    /\ closer[f] = "thread"
    /\ closer' = [closer EXCEPT ![f] = "closed"]
    /\ closing_thread_count' = closing_thread_count - 1
    /\ thread_index' = IndexAfter(closing_thread_count - 1)
    /\ UNCHANGED close_slot

\* The caller returns from its own pclose.
CallerCloses(f) ==
    /\ closer[f] = "caller"
    /\ closer' = [closer EXCEPT ![f] = "closed"]
    /\ UNCHANGED <<closing_thread_count, thread_index, close_slot>>

\* popen returns a FILE that was closed before.
Reopen(f) ==
    /\ closer[f] = "closed"
    /\ closer' = [closer EXCEPT ![f] = "nobody"]
    /\ UNCHANGED <<closing_thread_count, thread_index, close_slot>>

PoolNext == \E f \in Files :
    async_pclose(f) \/ close_it(f) \/ CallerCloses(f) \/ Reopen(f)

PoolSpec == PoolInit /\ [][PoolNext]_poolVars

-----------------------------------------------------------------------------
(***************************************************************************)
(* Properties.                                                             *)
(***************************************************************************)
PoolTypeOK ==
    /\ closing_thread_count \in 0 .. MAX_THREAD
    /\ thread_index \in 0 .. THREAD_SIZE
    /\ closer \in [Files -> {"nobody", "thread", "caller", "closed"}]
    /\ close_slot \in [Files -> Nat]

Threads == {f \in Files : closer[f] = "thread"}

(***************************************************************************)
(* pthread_create never writes the id of a thread over that of another     *)
(* that is still running, nor past the end of close_thread: the index only *)
(* goes back to 0 when the last thread has left.                           *)
(***************************************************************************)
SlotsAreOwn == \A f \in Threads :
    /\ close_slot[f] < thread_index
    /\ \A g \in Threads : close_slot[f] = close_slot[g] => f = g

(***************************************************************************)
(* closing_thread_count counts the threads of the pool, so that the limit  *)
(* on it limits them and the index cannot stay up when they are gone.      *)
(***************************************************************************)
CountIsThreads ==
    /\ closing_thread_count = Cardinality(Threads)
    /\ closing_thread_count = 0 => thread_index = 0

PoolInv == PoolTypeOK /\ SlotsAreOwn /\ CountIsThreads
=============================================================================

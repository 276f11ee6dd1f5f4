------------------------------- MODULE Upload -------------------------------
(***************************************************************************)
(* upload() (upload.cpp): it starts a curl process for each storage,       *)
(* writes the magic to each of the pipes, then feeds each with its split   *)
(* file as the pipes take it, and hands each pipe to the closing pool at   *)
(* the end of its file.  The curl processes, the pool and the other users  *)
(* of the pool run meanwhile.                                              *)
(*                                                                         *)
(* A share is the bytes 1 .. L; byte 0 stands for the magic.               *)
(***************************************************************************)
EXTENDS AsyncClose, Sequences

CONSTANTS
    N, K,       \* storages, and how many of them a download needs
    L,          \* length of a split file
    B,          \* buffer_size of upload()
    P,          \* capacity of a pipe
    Refusing,   \* storages whose curl may end before the magic is written
    Mortal,     \* storages whose curl may end at any later time
    MaxLoss     \* bound: failed writes counted by a storage

Storages == 1 .. N
Others == Files \ Storages    \* FILEs of other uploads and downloads

ASSUME UploadAssumption ==
    /\ K \in Nat \ {0} /\ N \in Nat /\ K <= N
    /\ L \in Nat /\ B \in Nat \ {0} /\ P \in Nat \ {0} /\ MaxLoss \in Nat
    /\ Storages \subseteq Files
    /\ Refusing \subseteq Storages /\ Mortal \subseteq Storages

VARIABLES
    pc,              \* "open", "select", "visit", "returned", "thrown"
    at,              \* the index i of the loops
    storage,         \* the i with storage[i] # NULL
    fds,             \* those that select() found writable
    error_count, complete_count, write_count,
    position,        \* of split_file
    handed,          \* what each pipe has been given
    curl,            \* "none", "running", "done", "dead"
    taken            \* how many bytes of the pipe curl has read

engine == <<pc, at, storage, fds, error_count, complete_count, write_count, position>>
vars == <<engine, handed, curl, taken, poolVars>>

Smaller(a, b) == IF a < b THEN a ELSE b
Room(s) == P - (Len(handed[s]) - taken[s])
Share == [b \in 1 .. L |-> b]

Init ==
    /\ pc = "open" /\ at = 1
    /\ storage = {} /\ fds = {}
    /\ error_count = 0 /\ complete_count = 0
    /\ write_count = [s \in Storages |-> 0]
    /\ position = [s \in Storages |-> 0]
    /\ handed = [s \in Storages |-> <<>>]
    /\ curl = [s \in Storages |-> "none"]
    /\ taken = [s \in Storages |-> 0]
    /\ PoolInit

-----------------------------------------------------------------------------
TooManyErrors(errors) == errors > N - K

Opened(errors) ==
    /\ error_count' = errors
    /\ at' = at + 1
    /\ pc' = IF at < N THEN "open" ELSE IF TooManyErrors(errors) THEN "thrown" ELSE "select"
    /\ UNCHANGED <<fds, complete_count, write_count, position, taken, poolVars>>

\* popen, and the magic, written while the pipe still blocks.
Open ==
    /\ pc = "open"
    /\ \/ /\ storage' = storage \cup {at}
          /\ handed' = [handed EXCEPT ![at] = <<0>>]
          /\ curl' = [curl EXCEPT ![at] = "running"]
          /\ Opened(error_count)
       \/ /\ at \in Refusing
          /\ curl' = [curl EXCEPT ![at] = "dead"]
          /\ UNCHANGED <<storage, handed>>
          /\ Opened(error_count + 1)

\* A pipe without a reader is writable too.  While none is, select() waits,
\* and it waits for ever when no pipe is left.
Writable(s) == Room(s) > 0 \/ curl[s] = "dead"
Select ==
    /\ pc = "select"
    /\ \/ /\ complete_count < N - error_count
          /\ fds' = {s \in storage : Writable(s)} /\ fds' # {}
          /\ pc' = "visit" /\ at' = 1
       \/ /\ complete_count >= N - error_count
          /\ pc' = "returned" /\ UNCHANGED <<fds, at>>
    /\ UNCHANGED <<storage, error_count, complete_count, write_count, position,
                   handed, curl, taken, poolVars>>

\* select() fails, and an exception leaves the pipes open.
SelectFails ==
    /\ pc = "select" /\ complete_count < N - error_count
    /\ pc' = "thrown"
    /\ UNCHANGED <<at, storage, fds, error_count, complete_count, write_count, position,
                   handed, curl, taken, poolVars>>

Visited == /\ at' = at + 1
           /\ pc' = IF at < N THEN "visit" ELSE "select"
           /\ UNCHANGED <<fds, error_count>>
ToWrite == Smaller(B, L - position[at])

\* fread moved the position by r; fseek moves it back by what write did not
\* take, and fails when that is before the start of the file.
\* Mutant of PositionAfter: the position is not moved back.
PositionUnmoved(p, r, w) == p + r
\* Mutant of PositionAfter: fseek may go before the start of the file.
PositionAnywhere(p, r, w) == p + w
PositionAfter(p, r, w) == IF p + w < 0 THEN p + r ELSE p + w

\* write: the pipe was writable, so it takes at least one byte; with SIGPIPE
\* ignored (by libfuse) it answers -1 when curl is gone.
Wrote(w) ==
    /\ write_count' = [write_count EXCEPT ![at] = @ + w]
    /\ position' = [position EXCEPT ![at] = PositionAfter(@, ToWrite, w)]
    /\ Visited
    /\ UNCHANGED <<storage, complete_count, curl, taken, poolVars>>
Feed ==
    /\ ToWrite > 0
    /\ \/ /\ curl[at] # "dead"
          /\ \E w \in 1 .. Smaller(ToWrite, Room(at)) :
               /\ handed' = [handed EXCEPT ![at] =
                    @ \o [b \in 1 .. w |-> position[at] + b]]
               /\ Wrote(w)
       \/ /\ curl[at] = "dead" /\ write_count[at] > - MaxLoss
          /\ Wrote(-1) /\ UNCHANGED handed

\* Mutant of IsComplete: every storage that reached the end of its file.
IsCompleteAlways(s) == TRUE
\* Mutant of IsComplete: a storage has to be ahead of the others.
IsCompleteAhead(s) == \A t \in Storages \ {s} : write_count[s] > write_count[t]
IsComplete(s) == \A t \in Storages : write_count[s] >= write_count[t] /\ write_count[s] >= 0

\* The end of the split file.
CloseStorage ==
    /\ ToWrite = 0
    /\ storage' = storage \ {at}
    /\ complete_count' = complete_count + IF IsComplete(at) THEN 1 ELSE 0
    /\ async_pclose(at)
    /\ Visited
    /\ UNCHANGED <<write_count, position, handed, curl, taken>>

\* One round of the loop over the storages, not before a pclose that upload()
\* does itself has returned.
Visit ==
    /\ pc = "visit"
    /\ \A s \in Storages : closer[s] # "caller"
    /\ \/ at \in storage \cap fds /\ (Feed \/ CloseStorage)
       \/ /\ at \notin storage \cap fds
          /\ Visited
          /\ UNCHANGED <<storage, complete_count, write_count, position,
                         handed, curl, taken, poolVars>>

-----------------------------------------------------------------------------
\* curl, which reads to the end of its pipe and then ends, or ends at once.
Reads(s) ==
    /\ curl[s] = "running" /\ taken[s] < Len(handed[s])
    /\ taken' = [taken EXCEPT ![s] = @ + 1]
    /\ UNCHANGED <<engine, handed, curl, poolVars>>
Finishes(s) ==
    /\ curl[s] = "running" /\ taken[s] = Len(handed[s])
    /\ closer[s] \in {"thread", "caller"}
    /\ curl' = [curl EXCEPT ![s] = "done"]
    /\ UNCHANGED <<engine, handed, taken, poolVars>>
Dies(s) ==
    /\ s \in Mortal /\ curl[s] = "running"
    /\ curl' = [curl EXCEPT ![s] = "dead"]
    /\ UNCHANGED <<engine, handed, taken, poolVars>>

\* pclose of a storage's pipe returns when its curl has ended.
Closes(s) ==
    /\ curl[s] \in {"done", "dead"}
    /\ close_it(s) \/ CallerCloses(s)
    /\ UNCHANGED <<engine, handed, curl, taken>>

\* Other operations use the pool at the same time.
OtherUse == \E f \in Others :
    /\ async_pclose(f) \/ close_it(f) \/ CallerCloses(f) \/ Reopen(f)
    /\ UNCHANGED <<engine, handed, curl, taken>>

Next ==
    \/ Open \/ Select \/ SelectFails \/ Visit
    \/ \E s \in Storages : Reads(s) \/ Finishes(s) \/ Dies(s) \/ Closes(s)
    \/ OtherUse

Spec == Init /\ [][Next]_vars

\* The thread of upload(), the curl processes and the closing threads all run;
\* nothing makes another operation go on, or a curl die.
Fairness ==
    /\ WF_vars(Open \/ Select \/ Visit)
    /\ \A s \in Storages : WF_vars(Reads(s) \/ Finishes(s)) /\ WF_vars(Closes(s))
FairSpec == Spec /\ Fairness

-----------------------------------------------------------------------------
(***************************************************************************)
(* Properties.                                                             *)
(***************************************************************************)
TypeOK ==
    /\ pc \in {"open", "select", "visit", "returned", "thrown"}
    /\ at \in 1 .. N + 1
    /\ storage \subseteq Storages /\ fds \subseteq Storages
    /\ error_count \in 0 .. N /\ complete_count \in 0 .. N
    /\ write_count \in [Storages -> - MaxLoss .. L]
    /\ position \in [Storages -> 0 .. L]
    /\ \A s \in Storages : handed[s] \in Seq(0 .. L) /\ taken[s] \in 0 .. Len(handed[s])
    /\ curl \in [Storages -> {"none", "running", "done", "dead"}]

(***************************************************************************)
(* However the pipes take the bytes and whenever curls die, each pipe is   *)
(* given the magic and then a beginning of its share, byte after byte, and *)
(* while its curl lives write_count and the position agree with it.        *)
(***************************************************************************)
InOrder == \A s \in storage :
    /\ handed[s] = <<0>> \o SubSeq(Share, 1, Len(handed[s]) - 1)
    /\ curl[s] = "running" => /\ write_count[s] = Len(handed[s]) - 1
                              /\ position[s] = write_count[s]

(***************************************************************************)
(* upload() returns only when at least K pipes, and all that took the      *)
(* magic, have been given the whole share: a storage that died on the way  *)
(* is never taken for complete.                                            *)
(***************************************************************************)
ReturnMeansHanded == pc = "returned" =>
    /\ \A s \in Storages : handed[s] # <<>> => handed[s] = <<0>> \o Share
    /\ Cardinality({s \in Storages : handed[s] # <<>>}) >= K

\* A storage took the magic and then failed before its share was handed over.
DiedLate == \E s \in Storages : curl[s] = "dead" /\ handed[s] # <<>>

(***************************************************************************)
(* Unless a storage dies after the magic, upload() ends, however slow the  *)
(* other users of the pool are, and every storage's pipe gets closed.      *)
(***************************************************************************)
Terminates == [] ~ DiedLate =>
    /\ <>(pc \in {"returned", "thrown"})
    /\ \A s \in Storages : <>(closer[s] = "closed" \/ pc = "thrown" \/ curl[s] = "dead")

(***************************************************************************)
(* upload() ends although one storage of the N - K that may fail dies:     *)
(* "too many storage failures" (upload.cpp:109) is the only failure that   *)
(* it knows of.                                                            *)
(***************************************************************************)
AlwaysEnds == <>(pc \in {"returned", "thrown"})
=============================================================================

----------------------------- MODULE DfsThreads -----------------------------
(***************************************************************************)
(* The handlers of DfsFile and DfsBlock (dfs_file.cpp) as the threads of   *)
(* libfuse run them, cut where another thread may come in between: the     *)
(* mutex that only read() takes, blocks on the heap, the FILE of a cached  *)
(* block, the buffer that get_cache_path() returns to everybody, and the   *)
(* openssl processes, for which download_file() does not wait.             *)
(*                                                                         *)
(* A file has one block, which the storages hold; what is in a block is    *)
(* the number of the write that put it there, or a part of its bytes.      *)
(***************************************************************************)
EXTENDS Integers, FiniteSets

CONSTANTS
    NULL,
    Files, Threads,
    MaxWrites,      \* bound: writes of a file
    Pids,           \* bound: openssl processes at a time
    Together        \* sets of the operations that may run at the same time

Ops == {"read", "write", "sync", "clear", "release"}
Ids == 1 .. Cardinality(Files) + Cardinality(Threads) + 1
NONE == -1          \* no write
Versions == NONE .. MaxWrites
Blocks == [status : {"NOTDOWNLOADED", "SYNCED", "MODIFIED"}, fp : BOOLEAN]

\* What a cache file or the storages can hold: the bytes of a write, a part of
\* them, or none.
Contents == [of : Versions, is : {"absent", "empty", "part", "whole"}]
ABSENT == [of |-> NONE, is |-> "absent"]
EMPTY == [of |-> NONE, is |-> "empty"]
Whole(v) == [of |-> v, is |-> "whole"]
Part(c) == IF c.of = NONE THEN EMPTY ELSE [of |-> c.of, is |-> "part"]

ASSUME ThreadsAssumption ==
    /\ IsFiniteSet(Files) /\ IsFiniteSet(Threads) /\ MaxWrites \in Nat
    /\ Together \subseteq SUBSET Ops
    /\ NULL \notin Files \cup Threads /\ NULL \notin Ids /\ NULL \notin Ops \cup Blocks

\* An openssl process: it has not yet opened its file, or has it open.
Processes == [path : Files, bytes : Contents, state : {"starts", "writes"}]
ASSUME ProcessAssumption == NULL \notin Processes

VARIABLES
    alive,          \* FALSE: the process followed a NULL FILE and died
    status,         \* DfsFile::status
    cache_block,    \* DfsFile::cache_block[0]
    lock,           \* DfsFile::lock, the thread that has it
    heap,           \* the DfsBlocks that exist: their status and cache_fp
    tmp_buf,        \* the buffer of get_cache_path, the file that it names
    cache,          \* what is in the cache files
    remote,         \* what the storages hold
    latest,         \* the last write of each file
    openssl,        \* the openssl processes
    threads,        \* what each thread is doing
    overrun         \* history: files written while an openssl wrote them too

vars == <<alive, status, cache_block, lock, heap, tmp_buf, cache, remote, latest,
          openssl, threads, overrun>>

Idle == [op |-> NULL, pc |-> "idle", file |-> NULL, id |-> NULL, path |-> NULL, got |-> EMPTY]

Init ==
    /\ alive = TRUE
    /\ status = [f \in Files |-> "SYNCED"]
    /\ cache_block = [f \in Files |-> NULL]
    /\ lock = [f \in Files |-> NULL]
    /\ heap = [i \in Ids |-> NULL]
    /\ tmp_buf = NULL
    /\ cache = [f \in Files |-> ABSENT]
    /\ remote = [f \in Files |-> Whole(0)]
    /\ latest = [f \in Files |-> 0]
    /\ openssl = [p \in Pids |-> NULL]
    /\ threads = [t \in Threads |-> Idle]
    /\ overrun = {}

-----------------------------------------------------------------------------
File(t) == threads[t].file
Id(t) == threads[t].id
At(t, pc) == threads[t].pc = pc
Is(t, op) == threads[t].op = op
Goes(t, pc) == threads' = [threads EXCEPT ![t].pc = pc]
Returns(t) == threads' = [threads EXCEPT ![t] = Idle]

\* What a step may leave alone; every step says which of the rest it changes.
files == <<alive, status, lock, latest, overrun>>
data == <<cache, remote, openssl>>

\* A handler starts, unless an operation runs that must not run with it; dfs_write marks the file before anything else.
FirstStep(op) == CASE op = "read" -> "lock" [] op = "write" -> "find"
                   [] op = "sync" -> "check" [] op = "clear" -> "delete"
                   [] op = "release" -> "release"
Start(t, op, f) ==
    /\ alive /\ At(t, "idle")
    /\ \A u \in Threads \ {t} : threads[u].op # NULL => {op, threads[u].op} \in Together
    /\ op = "write" => latest[f] < MaxWrites
    /\ op = "clear" => status[f] = "SYNCED"
    /\ op = "sync" => status[f] = "MODIFIED"
    /\ status' = [status EXCEPT ![f] = IF op = "write" THEN "MODIFIED" ELSE @]
    /\ threads' = [threads EXCEPT ![t] = [Idle EXCEPT !.op = op, !.pc = FirstStep(op), !.file = f]]
    /\ UNCHANGED <<alive, cache_block, lock, heap, tmp_buf, latest, data, overrun>>

\* Mutant of Lock: read() does not take the mutex.
NoLock(t) ==
    /\ At(t, "lock") /\ Goes(t, "find")
    /\ UNCHANGED <<files, cache_block, heap, tmp_buf, data>>
Lock(t) ==
    /\ At(t, "lock") /\ lock[File(t)] = NULL
    /\ lock' = [lock EXCEPT ![File(t)] = t]
    /\ Goes(t, "find")
    /\ UNCHANGED <<alive, status, cache_block, heap, tmp_buf, latest, data, overrun>>

\* The test for a block of the file, and the new block when there was none; the
\* addresses of blocks that nobody points to are used again.
Test(t) ==
    /\ At(t, "find")
    /\ Goes(t, IF cache_block[File(t)] = NULL THEN "make" ELSE "use")
    /\ UNCHANGED <<files, cache_block, heap, tmp_buf, data>>
Pointed == {cache_block[f] : f \in Files} \cup {Id(t) : t \in Threads}
Make(t) ==
    /\ At(t, "make")
    /\ LET id == CHOOSE i \in Ids : i \notin Pointed
       IN  /\ heap' = [heap EXCEPT ![id] = [status |-> "NOTDOWNLOADED", fp |-> FALSE]]
           /\ cache_block' = [cache_block EXCEPT ![File(t)] = id]
    /\ Goes(t, "use")
    /\ UNCHANGED <<files, tmp_buf, data>>

\* DfsBlock::read and write, of the block that the file points to now: one that
\* was not downloaded is downloaded first.
Exists(t) == Id(t) # NULL /\ heap[Id(t)] # NULL
Use(t) ==
    /\ At(t, "use")
    /\ LET id == cache_block[File(t)]
       IN  /\ id # NULL /\ heap[id] # NULL
           /\ \/ /\ heap[id].status = "NOTDOWNLOADED"
                 /\ heap' = [heap EXCEPT ![id].fp = FALSE]
                 /\ tmp_buf' = File(t)
                 /\ threads' = [threads EXCEPT ![t].pc = "download", ![t].id = id]
              \/ /\ heap[id].status # "NOTDOWNLOADED"
                 /\ threads' = [threads EXCEPT ![t].pc = "open", ![t].id = id]
                 /\ UNCHANGED <<heap, tmp_buf>>
    /\ UNCHANGED <<files, cache_block, data>>

\* download_file: the commands are made of the path that is in the buffer now;
\* an openssl is started that will write what download() gives it.
Download(t) ==
    /\ At(t, "download")
    /\ \E p \in Pids :
         /\ openssl[p] = NULL
         /\ openssl' = [openssl EXCEPT
                ![p] = [path |-> tmp_buf, bytes |-> remote[tmp_buf], state |-> "starts"]]
    /\ Goes(t, "measure")
    /\ UNCHANGED <<files, cache_block, heap, tmp_buf, cache, remote>>

\* The process empties the file when it opens it, writes it bit by bit, and ends
\* with all of the bytes written or, if download() did not get them, not.
OpensslOpens(p) ==
    /\ openssl[p] # NULL /\ openssl[p].state = "starts"
    /\ openssl' = [openssl EXCEPT ![p].state = "writes"]
    /\ cache' = [cache EXCEPT ![openssl[p].path] = EMPTY]
    /\ UNCHANGED <<files, cache_block, heap, tmp_buf, remote, threads>>
OpensslWrites(p) ==
    /\ openssl[p] # NULL /\ openssl[p].state = "writes"
    /\ cache' = [cache EXCEPT ![openssl[p].path] = Part(openssl[p].bytes)]
    /\ UNCHANGED <<files, cache_block, heap, tmp_buf, remote, threads, openssl>>
OpensslEnds(p) ==
    /\ openssl[p] # NULL /\ openssl[p].state = "writes"
    /\ openssl' = [openssl EXCEPT ![p] = NULL]
    /\ cache' \in {cache, [cache EXCEPT ![openssl[p].path] = openssl[p].bytes]}
    /\ UNCHANGED <<files, cache_block, heap, tmp_buf, remote, threads>>

\* Without waiting for it, the length of the file whose name the buffer has then
\* decides.  If nobody has made that file yet, fopen() returns NULL.
Measure(t) ==
    /\ At(t, "measure") /\ Exists(t) /\ cache[tmp_buf] # ABSENT
    /\ heap' = [heap EXCEPT ![Id(t)].status = IF cache[tmp_buf] # EMPTY THEN "SYNCED" ELSE @]
    /\ Goes(t, "open")
    /\ UNCHANGED <<files, cache_block, tmp_buf, data>>
Dies(t) ==
    /\ At(t, "measure") /\ cache[tmp_buf] = ABSENT
    /\ alive' = FALSE
    /\ UNCHANGED <<status, lock, latest, overrun, cache_block, heap, tmp_buf, data, threads>>

\* read() leaves with the mutex unlocked, whatever it returns.
\* Mutant of Unlocked: only a read that succeeds unlocks.
UnlockedAtEnd(t) == [lock EXCEPT ![File(t)] = IF At(t, "unlock") THEN NULL ELSE @]
Unlocked(t) == [lock EXCEPT ![File(t)] = IF @ = t THEN NULL ELSE @]

\* DfsBlock::open, if the block has no FILE, makes a cache file that is missing;
\* it may fail.
Open(t) ==
    /\ At(t, "open") /\ Exists(t)
    /\ \/ /\ heap[Id(t)].fp
          /\ Goes(t, "io")
          /\ UNCHANGED <<lock, heap, cache, tmp_buf>>
       \/ /\ ~ heap[Id(t)].fp
          /\ tmp_buf' = File(t)
          /\ \/ /\ heap' = [heap EXCEPT ![Id(t)].fp = TRUE]
                /\ cache' = [cache EXCEPT ![File(t)] = IF @ = ABSENT THEN EMPTY ELSE @]
                /\ Goes(t, "io") /\ UNCHANGED lock
             \/ lock' = Unlocked(t) /\ Returns(t) /\ UNCHANGED <<heap, cache>>
    /\ UNCHANGED <<alive, status, cache_block, latest, remote, openssl, overrun>>

HasFp(t) == Exists(t) /\ heap[Id(t)].fp
ReadBytes(t) ==
    /\ At(t, "io") /\ Is(t, "read") /\ HasFp(t)
    /\ threads' = [threads EXCEPT ![t].pc = "unlock", ![t].got = cache[File(t)]]
    /\ UNCHANGED <<files, cache_block, heap, tmp_buf, data>>
Unlock(t) ==
    /\ At(t, "unlock")
    /\ lock' = Unlocked(t) /\ Returns(t)
    /\ UNCHANGED <<alive, status, cache_block, heap, tmp_buf, latest, data, overrun>>

\* DfsFile::write, which looks the block up again to mark it.
IsWritten(f) == \E p \in Pids : openssl[p] # NULL /\ openssl[p].path = f
WriteBytes(t) ==
    /\ At(t, "io") /\ Is(t, "write") /\ HasFp(t)
    /\ latest' = [latest EXCEPT ![File(t)] = @ + 1]
    /\ cache' = [cache EXCEPT ![File(t)] = Whole(latest[File(t)] + 1)]
    /\ overrun' = IF IsWritten(File(t)) THEN overrun \cup {File(t)} ELSE overrun
    /\ Goes(t, "mark")
    /\ UNCHANGED <<alive, status, lock, cache_block, heap, tmp_buf, remote, openssl>>
\* Mutant of Mark: only a block that was in step with the storages is marked.
MarkSynced(t) ==
    /\ At(t, "mark") /\ Exists(t)
    /\ heap' = [heap EXCEPT ![cache_block[File(t)]].status =
                    IF @ = "SYNCED" THEN "MODIFIED" ELSE @]
    /\ Returns(t)
    /\ UNCHANGED <<files, cache_block, tmp_buf, data>>
Mark(t) ==
    /\ At(t, "mark") /\ cache_block[File(t)] # NULL /\ heap[cache_block[File(t)]] # NULL
    /\ heap' = [heap EXCEPT ![cache_block[File(t)]].status = "MODIFIED"]
    /\ Returns(t)
    /\ UNCHANGED <<files, cache_block, tmp_buf, data>>

-----------------------------------------------------------------------------
\* DfsFile::upload, DfsBlock::upload
Check(t) ==
    /\ At(t, "check")
    /\ LET id == cache_block[File(t)]
       IN  \/ id = NULL /\ Returns(t) /\ UNCHANGED <<heap, tmp_buf>>
           \/ /\ id # NULL /\ heap[id] # NULL /\ heap[id].status # "MODIFIED"
              /\ Goes(t, "commit") /\ UNCHANGED <<heap, tmp_buf>>
           \/ /\ id # NULL /\ heap[id] # NULL /\ heap[id].status = "MODIFIED"
              /\ heap' = [heap EXCEPT ![id].fp = FALSE]
              /\ tmp_buf' = File(t)
              /\ threads' = [threads EXCEPT ![t].pc = "upload", ![t].id = id]
    /\ UNCHANGED <<files, cache_block, data>>

\* upload_file: the path is taken from the buffer, the bytes are read later.
Upload(t) ==
    /\ At(t, "upload")
    /\ threads' = [threads EXCEPT ![t].pc = "uploading", ![t].path = tmp_buf]
    /\ UNCHANGED <<files, cache_block, heap, tmp_buf, data>>
Send(t) ==
    /\ At(t, "uploading")
    /\ LET bytes == cache[threads[t].path]
       IN  /\ remote' = [remote EXCEPT
                 ![threads[t].path] = IF bytes = ABSENT THEN EMPTY ELSE bytes]
           /\ threads' = [threads EXCEPT ![t].pc = "sent", ![t].got = bytes]
    /\ UNCHANGED <<files, cache_block, heap, tmp_buf, cache, openssl>>
\* No bytes come from openssl if there was no file.
Sent(t) ==
    /\ At(t, "sent") /\ Exists(t)
    /\ heap' = [heap EXCEPT ![Id(t)].status = IF threads[t].got # ABSENT THEN "SYNCED" ELSE @]
    /\ Goes(t, "commit")
    /\ UNCHANGED <<files, cache_block, tmp_buf, data>>
Commit(t) ==
    /\ At(t, "commit")
    /\ status' = [status EXCEPT ![File(t)] = "SYNCED"]
    /\ Returns(t)
    /\ UNCHANGED <<alive, lock, latest, overrun, cache_block, heap, tmp_buf, data>>

\* clear_cache: delete, which removes the cache file, and then NULL.  An openssl
\* that has the file open writes on where nobody sees it.
Unlinked(f) ==
    [p \in Pids |-> IF openssl[p] # NULL /\ openssl[p].path = f /\ openssl[p].state = "writes"
                   THEN NULL ELSE openssl[p]]
Delete(t) ==
    /\ At(t, "delete")
    /\ LET id == cache_block[File(t)]
       IN  \/ id = NULL /\ Returns(t) /\ UNCHANGED <<heap, cache, openssl, tmp_buf>>
           \/ /\ id # NULL /\ heap[id] # NULL
              /\ heap' = [heap EXCEPT ![id] = NULL]
              /\ cache' = [cache EXCEPT ![File(t)] = ABSENT]
              /\ openssl' = Unlinked(File(t))
              /\ tmp_buf' = File(t)
              /\ Goes(t, "reset")
    /\ UNCHANGED <<files, cache_block, remote>>
Reset(t) ==
    /\ At(t, "reset")
    /\ cache_block' = [cache_block EXCEPT ![File(t)] = NULL]
    /\ Returns(t)
    /\ UNCHANGED <<files, heap, tmp_buf, data>>

\* dfs_release closes the FILE of the block.
Release(t) ==
    /\ At(t, "release")
    /\ LET id == cache_block[File(t)]
       IN  \/ id = NULL /\ UNCHANGED heap
           \/ /\ id # NULL /\ heap[id] # NULL
              /\ heap' = [heap EXCEPT ![id].fp = FALSE]
    /\ Returns(t)
    /\ UNCHANGED <<files, cache_block, tmp_buf, data>>

Step(t) ==
    /\ alive
    /\ \/ Lock(t) \/ Test(t) \/ Make(t) \/ Use(t) \/ Download(t) \/ Measure(t) \/ Dies(t)
       \/ Open(t) \/ ReadBytes(t) \/ Unlock(t) \/ WriteBytes(t) \/ Mark(t)
       \/ Check(t) \/ Upload(t) \/ Send(t) \/ Sent(t) \/ Commit(t)
       \/ Delete(t) \/ Reset(t) \/ Release(t)
Openssl == \E p \in Pids : OpensslOpens(p) \/ OpensslEnds(p)
Next ==
    \/ \E t \in Threads : Step(t) \/ \E op \in Ops, f \in Files : Start(t, op, f)
    \/ Openssl \/ \E p \in Pids : OpensslWrites(p)

Spec == Init /\ [][Next]_vars

\* Threads and processes run; nobody has to call a handler.
FairSpec == Spec /\ WF_vars(Openssl) /\ \A t \in Threads : WF_vars(Step(t))

-----------------------------------------------------------------------------
(***************************************************************************)
(* Properties.                                                             *)
(***************************************************************************)
TypeOK ==
    /\ alive \in BOOLEAN
    /\ status \in [Files -> {"SYNCED", "MODIFIED"}]
    /\ cache_block \in [Files -> Ids \cup {NULL}]
    /\ lock \in [Files -> Threads \cup {NULL}]
    /\ heap \in [Ids -> Blocks \cup {NULL}]
    /\ tmp_buf \in Files \cup {NULL}
    /\ cache \in [Files -> Contents] /\ remote \in [Files -> Contents]
    /\ latest \in [Files -> 0 .. MaxWrites]
    /\ openssl \in [Pids -> Processes \cup {NULL}]
    /\ overrun \in SUBSET Files
    /\ \A t \in Threads : /\ threads[t].op \in Ops \cup {NULL}
                          /\ threads[t].file \in Files \cup {NULL}
                          /\ threads[t].id \in Ids \cup {NULL}
    /\ \A f \in Files : lock[f] # NULL => Is(lock[f], "read") /\ File(lock[f]) = f

(***************************************************************************)
(* "handling of concurrency of cache blocks" (dfs_file.cpp:422): the block *)
(* that the next step of a thread goes through, which it found earlier or  *)
(* finds again, is never one that another thread has deleted meanwhile, nor *)
(* is its FILE closed between open() and the bytes.                        *)
(***************************************************************************)
Touched(t) ==
    IF threads[t].pc \in {"download", "measure", "open", "io", "sent"} THEN Id(t)
    ELSE IF threads[t].pc \in {"use", "check", "mark", "delete", "release"}
    THEN cache_block[File(t)] ELSE NULL
NoDangling == \A t \in Threads :
    /\ Touched(t) # NULL => heap[Touched(t)] # NULL
    /\ threads[t].pc \in {"use", "mark"} => Touched(t) # NULL
    /\ At(t, "io") => HasFp(t)

(***************************************************************************)
(* A read returns bytes of the last write, or none: an openssl that is     *)
(* late, or runs twice for one file, also after a clear and another        *)
(* download, never brings back those of an earlier write, unless the user  *)
(* wrote the file while it ran.                                            *)
(***************************************************************************)
ReadersSeeLatest == \A t \in Threads :
    At(t, "unlock") /\ File(t) \notin overrun
        => threads[t].got.of \in {NONE, latest[File(t)]}

(***************************************************************************)
(* The bytes of the last write of a file are in the cache or in the        *)
(* storages, and in the storages when the file is SYNCED, whichever        *)
(* openssl is still to empty and to fill the cache file: what an upload    *)
(* sends is never what a late openssl has left there.  A write that lands  *)
(* while one runs is the exception, and the only one.                      *)
(***************************************************************************)
WritesKept == \A f \in Files \ overrun :
    /\ Whole(latest[f]) \in {cache[f], remote[f]}
    /\ status[f] = "SYNCED" => remote[f] = Whole(latest[f])

(***************************************************************************)
(* Every read that has the mutex of its file gives it back, on each of its *)
(* ways out, so that no reader waits for ever behind it, as long as the    *)
(* process lives.                                                          *)
(***************************************************************************)
LockIsReleased == \A f \in Files, t \in Threads : lock[f] = t ~> lock[f] # t \/ ~ alive
=============================================================================

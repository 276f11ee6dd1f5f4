--------------------------- MODULE DfsThreadsProofs ---------------------------
(***************************************************************************)
(* For every number of threads, openssl processes and writes: as long as   *)
(* only readers run together, the handlers of dfs_file.cpp keep their      *)
(* blocks, locks, cache files and the storages in step, however late an    *)
(* openssl writes, unless the user has written the file while it did.      *)
(***************************************************************************)
EXTENDS DfsThreads, FiniteSetTheorems, TLAPS

(***************************************************************************)
(* What the program would have to ensure, and what dfs_file.cpp does not:  *)
(* any operation but read() runs alone, and so do reads of different files *)
(* since get_cache_path() has one buffer for all of them.                  *)
(***************************************************************************)
ReadersOnly ==
    /\ Together \subseteq {{"read"}}
    /\ Together = {} \/ \A f, g \in Files : f = g

-----------------------------------------------------------------------------
(***************************************************************************)
(* The invariant.                                                          *)
(***************************************************************************)
Pcs == {"idle", "lock", "find", "make", "use", "download", "measure", "open", "io", "unlock", "mark",
        "check", "upload", "uploading", "sent", "commit", "delete", "reset", "release"}
Handlers == [op : Ops \cup {NULL},
             pc : Pcs,
             file : Files \cup {NULL}, id : Ids \cup {NULL}, path : Files \cup {NULL},
             got : Contents]

\* Where a thread may be in each of the operations.
Placed(t) ==
    /\ Is(t, NULL) <=> At(t, "idle")
    /\ ~ Is(t, NULL) => File(t) \in Files
    /\ threads[t].pc \in {"lock", "unlock"} => Is(t, "read")
    /\ threads[t].pc \in {"find", "make", "use", "download", "measure", "open", "io"} =>
         Is(t, "read") \/ Is(t, "write")
    /\ At(t, "mark") => Is(t, "write")
    /\ threads[t].pc \in {"check", "upload", "uploading", "sent", "commit"} => Is(t, "sync")
    /\ threads[t].pc \in {"delete", "reset"} => Is(t, "clear")
    /\ At(t, "release") => Is(t, "release")

Types == TypeOK /\ threads \in [Threads -> Handlers] /\ \A t \in Threads : Placed(t)

\* A thread that has started and does not wait for the mutex is alone.
Inside(t) == ~ (At(t, "idle") \/ At(t, "lock"))
Alone ==
    /\ \A t, u \in Threads : t # u /\ ~ Is(t, NULL) /\ ~ Is(u, NULL) =>
         Is(t, "read") /\ Is(u, "read") /\ {"read"} \in Together
    /\ \A t \in Threads : Is(t, "read") /\ Inside(t) => lock[File(t)] = t
    /\ \A f \in Files : lock[f] # NULL => Inside(lock[f])

\* The storages have the last write of a file; the cache file has it, a part of
\* it or nothing; it has it for good.
InStep(f) == remote[f] = Whole(latest[f])
Fresh(f) == cache[f] \in {ABSENT, EMPTY, Part(Whole(latest[f])), Whole(latest[f])}
Owned(f) == cache[f] = Whole(latest[f]) /\ ~ IsWritten(f)

\* What the thread inside knows of its file.
HasBlock(t) ==
    /\ Id(t) = cache_block[File(t)] /\ Id(t) # NULL /\ heap[Id(t)] # NULL
Knows(t) ==
    /\ At(t, "make") => cache_block[File(t)] = NULL
    /\ At(t, "use") => cache_block[File(t)] # NULL /\ heap[cache_block[File(t)]] # NULL
    /\ threads[t].pc \in {"download", "measure", "open", "io", "upload", "uploading", "sent"} =>
         HasBlock(t)
    /\ threads[t].pc \in {"download", "measure"} =>
         tmp_buf = File(t) /\ heap[Id(t)].status = "NOTDOWNLOADED"
    /\ At(t, "io") => heap[Id(t)].fp
    /\ threads[t].pc \in {"upload", "uploading"} => heap[Id(t)].status = "MODIFIED"
    /\ At(t, "upload") => tmp_buf = File(t)
    /\ At(t, "uploading") => threads[t].path = File(t)
    /\ threads[t].pc \in {"sent", "commit"} => File(t) \in overrun \/ InStep(File(t))
    /\ At(t, "mark") => /\ cache_block[File(t)] # NULL /\ heap[cache_block[File(t)]] # NULL
                        /\ File(t) \in overrun \/ Owned(File(t))
    /\ At(t, "unlock") => File(t) \in overrun \/ threads[t].got.of \in {NONE, latest[File(t)]}
    /\ Is(t, "write") => /\ status[File(t)] = "MODIFIED"
                         /\ At(t, "mark") \/ latest[File(t)] < MaxWrites
    /\ Is(t, "clear") => status[File(t)] = "SYNCED"
    /\ At(t, "reset") => cache_block[File(t)] # NULL /\ heap[cache_block[File(t)]] = NULL

\* The block, the cache file and the storages of a file agree.
Marking(f) == \E t \in Threads : At(t, "mark") /\ File(t) = f
Resetting(f) == \E t \in Threads : At(t, "reset") /\ File(t) = f
BlockStatus(f) ==
    IF cache_block[f] = NULL \/ heap[cache_block[f]] = NULL THEN "NOTDOWNLOADED"
    ELSE heap[cache_block[f]].status
Agrees(f) ==
    /\ cache_block[f] # NULL => heap[cache_block[f]] # NULL \/ Resetting(f)
    /\ f \in overrun \/ Fresh(f)
    /\ BlockStatus(f) = "MODIFIED" => f \in overrun \/ Owned(f)
    /\ BlockStatus(f) # "MODIFIED" => f \in overrun \/ InStep(f) \/ Marking(f)
    /\ status[f] = "SYNCED" => f \in overrun \/ InStep(f)

\* No two files share a block.
OwnBlocks == \A f, g \in Files : f # g /\ cache_block[f] # NULL => cache_block[f] # cache_block[g]

\* An openssl that runs, for whichever thread, was given the last write.
Pipes == \A p \in Pids : openssl[p] # NULL =>
    openssl[p].path \in overrun \/ openssl[p].bytes = Whole(latest[openssl[p].path])

ThreadsInv ==
    /\ Types /\ Alone /\ OwnBlocks /\ Pipes
    /\ \A t \in Threads : Knows(t)
    /\ \A f \in Files : Agrees(f)

-----------------------------------------------------------------------------
(***************************************************************************)
(* Threads.                                                                *)
(***************************************************************************)
\* The constants are apart from each other.
LEMMA Apart ==
    /\ NULL \notin Files /\ NULL \notin Threads /\ NULL \notin Ids /\ NULL \notin Ops
    /\ Idle \in Handlers /\ Idle.op = NULL /\ Idle.pc = "idle"
    /\ NULL \notin Blocks
    /\ MaxWrites \in Nat /\ 0 \in Versions /\ NONE \in Versions
    /\ EMPTY \in Contents /\ ABSENT \in Contents
<1>1. MaxWrites \in Nat /\ 0 \in Versions /\ NONE \in Versions
  BY ThreadsAssumption DEF Versions, NONE
<1>2. EMPTY \in Contents /\ ABSENT \in Contents
  BY <1>1 DEF EMPTY, ABSENT, Contents
<1> QED BY <1>1, <1>2, ThreadsAssumption DEF Idle, Handlers, Pcs, Blocks

\* What there is of a write.
LEMMA BytesOfWrite ==
    ASSUME NEW v \in 0 .. MaxWrites
    PROVE  /\ Whole(v) \in Contents /\ Whole(v).of = v /\ Part(Whole(v)).of = v
           /\ EMPTY.of = NONE /\ ABSENT.of = NONE
           /\ Whole(v) # ABSENT
<1>1. v \in Versions /\ v # NONE
  BY Apart DEF Versions, NONE
<1> QED BY <1>1 DEF Whole, Part, Contents, EMPTY, ABSENT, NONE

\* Goes changes the program counter of one thread, and nothing else.
LEMMA GoesTo ==
    ASSUME threads \in [Threads -> Handlers], NEW t \in Threads, NEW p \in Pcs, Goes(t, p)
    PROVE  /\ threads' \in [Threads -> Handlers]
           /\ \A u \in Threads : u # t => threads'[u] = threads[u]
           /\ threads'[t] = [threads[t] EXCEPT !.pc = p]
           /\ threads'[t].pc = p /\ threads'[t].op = threads[t].op
           /\ threads'[t].file = threads[t].file /\ threads'[t].id = threads[t].id
           /\ threads'[t].path = threads[t].path /\ threads'[t].got = threads[t].got
BY DEF Goes, Handlers

LEMMA ReturnsTo ==
    ASSUME threads \in [Threads -> Handlers], NEW t \in Threads, Returns(t)
    PROVE  /\ threads' \in [Threads -> Handlers]
           /\ \A u \in Threads : u # t => threads'[u] = threads[u]
           /\ threads'[t] = Idle
BY Apart DEF Returns

\* Two threads are never inside: both would be reads of one file, and have
\* its mutex.
LEMMA OneInside ==
    ASSUME ReadersOnly, Types, Alone,
           NEW t \in Threads, NEW u \in Threads, t # u, Inside(t)
    PROVE  ~ Inside(u)
<1> SUFFICES ASSUME Inside(u) PROVE FALSE
  OBVIOUS
<1>1. ~ Is(t, NULL) /\ ~ Is(u, NULL) /\ File(t) \in Files /\ File(u) \in Files
  BY DEF Types, Placed, Inside
<1>2. Is(t, "read") /\ Is(u, "read") /\ Together # {}
  BY <1>1 DEF Alone
<1>3. File(t) = File(u)
  BY <1>1, <1>2 DEF ReadersOnly
<1>4. lock[File(t)] = t /\ lock[File(u)] = u
  BY <1>2 DEF Alone
<1> QED BY <1>3, <1>4

\* A thread that is not inside knows nothing.
LEMMA OutsideKnows ==
    ASSUME NEW u \in Threads, Placed(u), ~ Inside(u)
    PROVE  Knows(u)
BY ThreadsAssumption DEF Placed, Inside, Knows, Is, At, Ops

LEMMA OutsideKnowsNext ==
    ASSUME NEW u \in Threads, Placed(u)', ~ Inside(u)'
    PROVE  Knows(u)'
BY ThreadsAssumption DEF Placed, Inside, Knows, Is, At, Ops

\* Nobody else marks or resets a block while a thread is inside.
LEMMA NobodyElse ==
    ASSUME ReadersOnly, ThreadsInv, NEW t \in Threads, Inside(t), NEW f \in Files
    PROVE  /\ Marking(f) => At(t, "mark") /\ File(t) = f
           /\ Resetting(f) => At(t, "reset") /\ File(t) = f
<1>1. \A u \in Threads : u # t => ~ Inside(u)
  BY OneInside DEF ThreadsInv
<1>2. \A u \in Threads : At(u, "mark") \/ At(u, "reset") => Inside(u)
  BY DEF At, Inside
<1> QED BY <1>1, <1>2 DEF Marking, Resetting

-----------------------------------------------------------------------------
(***************************************************************************)
(* A step of the thread inside.                                            *)
(***************************************************************************)
\* The types of everything but the threads and their locks.
DataOK ==
    /\ alive \in BOOLEAN
    /\ status \in [Files -> {"SYNCED", "MODIFIED"}]
    /\ cache_block \in [Files -> Ids \cup {NULL}]
    /\ lock \in [Files -> Threads \cup {NULL}]
    /\ heap \in [Ids -> Blocks \cup {NULL}]
    /\ tmp_buf \in Files \cup {NULL}
    /\ cache \in [Files -> Contents] /\ remote \in [Files -> Contents]
    /\ latest \in [Files -> 0 .. MaxWrites]
    /\ openssl \in [Pids -> Processes \cup {NULL}]
    /\ overrun \in SUBSET Files

LEMMA DataTypes == ThreadsInv => DataOK
BY DEF ThreadsInv, Types, TypeOK, DataOK, Blocks

\* It stays inside in the same operation, or returns without the mutex.
Stays(t) ==
    /\ threads'[t].op = threads[t].op /\ threads'[t].file = threads[t].file
    /\ threads'[t].pc \notin {"idle", "lock"}
    /\ lock' = lock
Leaves(t) ==
    /\ threads'[t] = Idle
    /\ lock' = Unlocked(t) \/ (lock' = lock /\ ~ Is(t, "read"))
OnlyIn(t) ==
    /\ threads' \in [Threads -> Handlers]
    /\ \A u \in Threads : u # t => threads'[u] = threads[u]

\* What it leaves alone of the other files.
Untouched(f) ==
    /\ cache_block'[f] = cache_block[f]
    /\ cache_block[f] # NULL => heap'[cache_block[f]] = heap[cache_block[f]]
    /\ cache'[f] = cache[f] /\ remote'[f] = remote[f]
    /\ latest'[f] = latest[f] /\ status'[f] = status[f]
    /\ f \in overrun' <=> f \in overrun
    /\ IsWritten(f)' => IsWritten(f)

LEMMA LocksKept ==
    ASSUME ReadersOnly, ThreadsInv, NEW t \in Threads, Inside(t), OnlyIn(t),
           Stays(t) \/ Leaves(t), NEW f \in Files, lock'[f] # NULL
    PROVE  /\ lock'[f] = lock[f] /\ Inside(lock[f])'
           /\ Is(lock[f], "read")' /\ File(lock[f])' = f
<1>1. lock \in [Files -> Threads \cup {NULL}] /\ File(t) \in Files /\ ~ Is(t, NULL)
  BY DEF ThreadsInv, Types, TypeOK, Placed, Inside
<1>2. /\ lock[f] # NULL => /\ Is(lock[f], "read") /\ File(lock[f]) = f
                           /\ lock[f] \in Threads /\ Inside(lock[f])
  BY <1>1 DEF ThreadsInv, Types, TypeOK, Alone
<1>3. lock'[f] = lock[f] /\ (lock[f] = t => Stays(t))
  <2>1. CASE Stays(t)
    BY <2>1 DEF Stays
  <2>2. CASE Leaves(t)
    <3>1. CASE lock' = Unlocked(t)
      BY <1>1, <1>2, <3>1, Apart DEF Unlocked
    <3>2. CASE lock' = lock /\ ~ Is(t, "read")
      BY <1>2, <3>2
    <3> QED BY <2>2, <3>1, <3>2 DEF Leaves
  <2> QED BY <2>1, <2>2
<1>4. CASE lock[f] = t
  BY <1>2, <1>3, <1>4 DEF Stays, Inside, At, Is, File
<1>5. CASE lock[f] # t
  <2>1. threads'[lock[f]] = threads[lock[f]]
    BY <1>2, <1>3, <1>5 DEF OnlyIn
  <2> QED BY <1>2, <1>3, <2>1 DEF Inside, At, Is, File
<1> QED BY <1>4, <1>5

LEMMA StepInside ==
    ASSUME ReadersOnly, ThreadsInv, NEW t \in Threads, Inside(t), OnlyIn(t),
           Stays(t) \/ Leaves(t), DataOK', Placed(t)', Knows(t)',
           \A f \in Files : IF f = File(t) THEN Agrees(f)' ELSE Untouched(f),
           OwnBlocks', Pipes'
    PROVE  ThreadsInv'
<1>1. \A u \in Threads : u # t => threads'[u] = threads[u] /\ ~ Inside(u) /\ Placed(u)
  BY OneInside DEF ThreadsInv, OnlyIn, Types
<1>2. \A u \in Threads : u # t => ~ Inside(u)' /\ Placed(u)'
  BY <1>1 DEF Inside, At, Is, File, Placed
<1>3. Types'
  <2>1. threads' \in [Threads -> Handlers]
    BY DEF OnlyIn
  <2>2. \A u \in Threads : /\ threads'[u].op \in Ops \cup {NULL}
                           /\ threads'[u].file \in Files \cup {NULL}
                           /\ threads'[u].id \in Ids \cup {NULL}
    BY <2>1 DEF Handlers
  <2>3. \A f \in Files : lock'[f] # NULL => Is(lock[f], "read")' /\ File(lock[f])' = f
                                            /\ lock'[f] = lock[f]
    BY LocksKept
  <2>4. TypeOK'
    BY <2>2, <2>3 DEF TypeOK, DataOK, Blocks, Is, File
  <2> QED BY <1>2, <2>1, <2>4 DEF Types
<1>4. Alone'
  <2>1. ~ Is(t, NULL) /\ File(t) \in Files
    BY DEF ThreadsInv, Types, Placed, Inside
  <2>2. ASSUME NEW u \in Threads, NEW v \in Threads, u # v, ~ Is(u, NULL)', ~ Is(v, NULL)'
        PROVE  Is(u, "read")' /\ Is(v, "read")' /\ {"read"} \in Together
    <3>1. \A w \in {u, v} : ~ Is(w, NULL) /\ Is(w, "read")' = Is(w, "read")
      BY <1>1, <2>1, <2>2, Apart DEF Is, Stays, Leaves
    <3> QED BY <2>2, <3>1 DEF ThreadsInv, Alone
  <2>3. ASSUME NEW u \in Threads, Is(u, "read")', Inside(u)' PROVE lock'[File(u)'] = u
    <3>1. u = t
      BY <1>2, <2>3
    <3>2. Stays(t)
      BY <2>3, <3>1, Apart DEF Leaves, Inside, At
    <3> QED BY <2>3, <3>1, <3>2 DEF Stays, Is, File, ThreadsInv, Alone
  <2>4. \A f \in Files : lock'[f] # NULL => Inside(lock[f])' /\ lock'[f] = lock[f]
    BY LocksKept
  <2> QED BY <2>2, <2>3, <2>4 DEF Alone, Is, Inside, At, File
<1>5. \A u \in Threads : Knows(u)'
  BY <1>2, OutsideKnowsNext
<1>6. ASSUME NEW f \in Files, f # File(t) PROVE Agrees(f)'
  <2>1. Agrees(f) /\ Untouched(f)
    BY <1>6 DEF ThreadsInv
  <2>2. (Marking(f) => Marking(f)') /\ (Resetting(f) => Resetting(f)')
    BY <1>6, NobodyElse
  <2>3. BlockStatus(f)' = BlockStatus(f)
    BY <2>1 DEF Untouched, BlockStatus
  <2>4. (InStep(f) => InStep(f)') /\ (Fresh(f) => Fresh(f)') /\ (Owned(f) => Owned(f)')
    BY <2>1 DEF Untouched, InStep, Fresh, Owned
  <2> HIDE DEF ThreadsInv
  <2> QED BY <2>1, <2>2, <2>3, <2>4 DEF Agrees, Untouched
<1> QED BY <1>3, <1>4, <1>5, <1>6 DEF ThreadsInv

-----------------------------------------------------------------------------
(***************************************************************************)
(* What a step of the thread inside finds.                                 *)
(***************************************************************************)
LEMMA Here ==
    ASSUME ThreadsInv, NEW t \in Threads, Inside(t)
    PROVE  /\ File(t) \in Files /\ ~ Is(t, NULL) /\ Placed(t) /\ Knows(t)
           /\ threads \in [Threads -> Handlers] /\ threads[t] \in Handlers
           /\ DataOK /\ OwnBlocks /\ Agrees(File(t))
<1>1. File(t) \in Files /\ ~ Is(t, NULL)
  BY DEF ThreadsInv, Types, Placed, Inside
<1> QED BY <1>1, DataTypes DEF ThreadsInv, Types

\* A file of which no block is being marked or deleted.
Settled(f) ==
    /\ cache_block[f] # NULL => heap[cache_block[f]] # NULL
    /\ f \in overrun \/ Fresh(f)
    /\ BlockStatus(f) = "MODIFIED" => f \in overrun \/ Owned(f)
    /\ BlockStatus(f) # "MODIFIED" => f \in overrun \/ InStep(f)
    /\ status[f] = "SYNCED" => f \in overrun \/ InStep(f)

LEMMA AllSettled ==
    ASSUME ReadersOnly, ThreadsInv, NEW t \in Threads, Inside(t),
           ~ At(t, "mark"), ~ At(t, "reset"), NEW f \in Files
    PROVE  Settled(f)
BY NobodyElse DEF ThreadsInv, Agrees, Settled

LEMMA SettledAgrees == ASSUME NEW f \in Files, Settled(f)' PROVE Agrees(f)'
BY DEF Agrees, Settled

\* A step that changes no more than the block of its file, to one that is in
\* step with the cache file and the storages.
BlockStays == UNCHANGED <<alive, status, cache_block, cache, remote, latest, openssl, overrun>>
BlockBecomes(f, b) ==
    /\ cache_block[f] # NULL /\ b \in Blocks
    /\ heap' = [heap EXCEPT ![cache_block[f]] = b]
    /\ b.status = "MODIFIED" => f \in overrun \/ Owned(f)
    /\ b.status # "MODIFIED" => f \in overrun \/ InStep(f)

\* What is said of the cache file and the storages does not look at the blocks.
LEMMA DataStay ==
    ASSUME UNCHANGED <<cache, remote, latest, openssl>>, NEW f \in Files
    PROVE  /\ InStep(f)' <=> InStep(f)
           /\ Fresh(f)' <=> Fresh(f)
           /\ Owned(f)' <=> Owned(f)
           /\ IsWritten(f)' <=> IsWritten(f)
<1>1. IsWritten(f)' <=> IsWritten(f)
  BY DEF IsWritten
<1> QED BY <1>1 DEF InStep, Fresh, Owned

LEMMA PipesStay ==
    ASSUME ThreadsInv, UNCHANGED <<latest, openssl, overrun>> PROVE Pipes'
BY DEF ThreadsInv, Pipes

LEMMA BlockStep ==
    ASSUME ReadersOnly, ThreadsInv, NEW t \in Threads, Inside(t),
           ~ At(t, "mark"), ~ At(t, "reset"), BlockStays,
           heap' = heap \/ \E b \in Blocks : BlockBecomes(File(t), b)
    PROVE  /\ \A f \in Files : IF f = File(t) THEN Agrees(f)' ELSE Untouched(f)
           /\ OwnBlocks' /\ heap' \in [Ids -> Blocks \cup {NULL}]
<1>0. /\ DataOK /\ File(t) \in Files /\ OwnBlocks
      /\ cache_block \in [Files -> Ids \cup {NULL}] /\ heap \in [Ids -> Blocks \cup {NULL}]
  BY Here DEF DataOK
<1>1. ASSUME NEW f \in Files, f # File(t) PROVE Untouched(f)
  <2>1. cache_block[f] # NULL => heap'[cache_block[f]] = heap[cache_block[f]]
    BY <1>0, <1>1 DEF BlockBecomes, OwnBlocks
  <2> QED BY <2>1, DataStay DEF Untouched, BlockStays
<1>2. ASSUME NEW f \in Files, f = File(t) PROVE Agrees(f)'
  <2>0. Settled(f) /\ f \in Files
    BY AllSettled
  <2>1. CASE heap' = heap
    <3>1. Settled(f)'
      BY <2>0, <2>1, DataStay DEF Settled, BlockStatus, BlockStays
    <3> QED BY <3>1, SettledAgrees
  <2>2. ASSUME NEW b \in Blocks, BlockBecomes(f, b) PROVE Agrees(f)'
    <3>1. cache_block[f] \in Ids /\ cache_block[f] # NULL /\ b # NULL
          /\ heap'[cache_block[f]] = b
      BY <1>0, <2>2, Apart DEF BlockBecomes
    <3>2. BlockStatus(f)' = b.status
      BY <3>1 DEF BlockStatus, BlockStays
    <3>3. Settled(f)'
      BY <2>0, <2>2, <3>1, <3>2, DataStay DEF Settled, BlockStays, BlockBecomes
    <3> QED BY <3>3, SettledAgrees
  <2> QED BY <1>2, <2>1, <2>2
<1>3. heap' \in [Ids -> Blocks \cup {NULL}]
  BY <1>0 DEF BlockBecomes
<1> QED BY <1>0, <1>1, <1>2, <1>3 DEF OwnBlocks, BlockStays

\* A thread that has returned knows nothing.
LEMMA IdleKnows ==
    ASSUME NEW t \in Threads, threads'[t] = Idle PROVE Placed(t)' /\ Knows(t)'
<1>1. Placed(t)'
  BY DEF Placed, Is, At, Idle
<1>2. ~ Inside(t)'
  BY DEF Inside, At, Idle
<1> QED BY <1>1, <1>2, OutsideKnowsNext

LEMMA LockType ==
    ASSUME ThreadsInv, NEW t \in Threads, Stays(t) \/ Leaves(t)
    PROVE  lock' \in [Files -> Threads \cup {NULL}]
BY DEF ThreadsInv, Types, TypeOK, Stays, Leaves, Unlocked

\* The steps that change no more than threads, the mutex, the block and the
\* buffer keep the invariant if the thread knows afterwards what it should.
LEMMA BlockKeeps ==
    ASSUME ReadersOnly, ThreadsInv, NEW t \in Threads, Inside(t),
           ~ At(t, "mark"), ~ At(t, "reset"), BlockStays,
           heap' = heap \/ (\E b \in Blocks : BlockBecomes(File(t), b)),
           tmp_buf' \in {tmp_buf, File(t)},
           OnlyIn(t), Stays(t) \/ Leaves(t), Placed(t)', Knows(t)'
    PROVE  ThreadsInv'
<1>1. /\ \A f \in Files : IF f = File(t) THEN Agrees(f)' ELSE Untouched(f)
      /\ OwnBlocks' /\ heap' \in [Ids -> Blocks \cup {NULL}]
  BY BlockStep
<1>2. Pipes'
  BY PipesStay DEF BlockStays
<1>3. DataOK'
  BY <1>1, Here, LockType DEF DataOK, BlockStays
<1> QED BY <1>1, <1>2, <1>3, StepInside

-----------------------------------------------------------------------------
(***************************************************************************)
(* The steps, one by one.                                                  *)
(***************************************************************************)
LEMMA UseKeeps ==
    ASSUME ReadersOnly, ThreadsInv, NEW t \in Threads, Use(t)
    PROVE  ThreadsInv'
<1> DEFINE id == cache_block[File(t)]
<1>1. /\ At(t, "use") /\ Inside(t) /\ BlockStays /\ lock' = lock
      /\ id # NULL /\ heap[id] # NULL
  BY DEF Use, At, Inside, BlockStays, files, data
<1>2. /\ File(t) \in Files /\ ~ Is(t, NULL) /\ Placed(t) /\ Knows(t)
      /\ threads \in [Threads -> Handlers] /\ threads[t] \in Handlers /\ DataOK
  BY <1>1, Here
<1>3. id \in Ids /\ heap[id] \in Blocks /\ Settled(File(t))
  BY <1>1, <1>2, AllSettled DEF DataOK, At
<1>4. ASSUME NEW p \in Pcs, threads' = [threads EXCEPT ![t].pc = p, ![t].id = id],
             p \in {"download", "open"}
      PROVE  /\ OnlyIn(t) /\ Stays(t) /\ Placed(t)'
             /\ threads'[t].id = id /\ threads'[t].pc = p
             /\ threads'[t].op = threads[t].op /\ threads'[t].file = threads[t].file
  <2>1. threads'[t] = [threads[t] EXCEPT !.pc = p, !.id = id]
    BY <1>2, <1>4
  <2>2. /\ threads'[t].id = id /\ threads'[t].pc = p
        /\ threads'[t].op = threads[t].op /\ threads'[t].file = threads[t].file
        /\ threads'[t] \in Handlers
    BY <1>2, <1>3, <2>1 DEF Handlers
  <2>3. OnlyIn(t)
    BY <1>2, <1>4, <2>2 DEF OnlyIn
  <2>4. Placed(t)'
    BY <1>1, <1>2, <1>4, <2>2 DEF Placed, Is, At, File
  <2> QED BY <1>1, <1>4, <2>2, <2>3, <2>4 DEF Stays
<1>5. CASE /\ heap[id].status = "NOTDOWNLOADED"
           /\ heap' = [heap EXCEPT ![id].fp = FALSE]
           /\ tmp_buf' = File(t)
           /\ threads' = [threads EXCEPT ![t].pc = "download", ![t].id = id]
  <2>1. /\ OnlyIn(t) /\ Stays(t) /\ Placed(t)'
        /\ threads'[t].id = id /\ threads'[t].pc = "download"
        /\ threads'[t].op = threads[t].op /\ threads'[t].file = threads[t].file
    BY <1>4, <1>5 DEF Pcs
  <2> DEFINE b == [heap[id] EXCEPT !.fp = FALSE]
  <2>2. b \in Blocks /\ b.status = "NOTDOWNLOADED"
    BY <1>3, <1>5 DEF Blocks
  <2>3. heap' = [heap EXCEPT ![id] = b] /\ heap'[id] = b
    BY <1>2, <1>3, <1>5 DEF DataOK
  <2>4. BlockBecomes(File(t), b)
    BY <1>1, <1>3, <1>5, <2>2, <2>3 DEF BlockBecomes, Settled, BlockStatus
  <2> HIDE DEF b
  <2>5. HasBlock(t)'
    BY <1>1, <2>1, <2>2, <2>3, Apart DEF HasBlock, Id, File, BlockStays
  <2>6. Knows(t)'
    BY <1>1, <1>2, <1>3, <1>5, <2>1, <2>2, <2>3, <2>5, Apart
    DEF Knows, Placed, Is, At, File, Id, BlockStays
  <2> QED BY <1>1, <1>5, <2>1, <2>2, <2>4, <2>6, BlockKeeps DEF At
<1>6. CASE /\ threads' = [threads EXCEPT ![t].pc = "open", ![t].id = id]
           /\ UNCHANGED <<heap, tmp_buf>>
  <2>1. /\ OnlyIn(t) /\ Stays(t) /\ Placed(t)'
        /\ threads'[t].id = id /\ threads'[t].pc = "open"
        /\ threads'[t].op = threads[t].op /\ threads'[t].file = threads[t].file
    BY <1>4, <1>6 DEF Pcs
  <2>2. HasBlock(t)'
    BY <1>1, <1>6, <2>1 DEF HasBlock, Id, File, BlockStays
  <2>3. Knows(t)'
    BY <1>1, <1>2, <1>3, <1>6, <2>1, <2>2, Apart
    DEF Knows, Placed, Is, At, File, Id, BlockStays
  <2> QED BY <1>1, <1>6, <2>1, <2>3, BlockKeeps DEF At
<1> QED BY <1>5, <1>6 DEF Use

\* There are more addresses than pointers.
LEMMA FreshBlock ==
    ASSUME Types
    PROVE  \E i \in Ids : i \notin Pointed
<1> DEFINE A == {cache_block[f] : f \in Files}
           B == {Id(t) : t \in Threads}
<1>1. /\ IsFiniteSet(Files) /\ IsFiniteSet(Threads)
      /\ Cardinality(Files) \in Nat /\ Cardinality(Threads) \in Nat
  BY ThreadsAssumption, FS_CardinalityType
<1>2. IsFiniteSet(A) /\ Cardinality(A) <= Cardinality(Files)
  <2> DEFINE h == [f \in Files |-> cache_block[f]]
  <2>1. h \in Surjection(Files, A)
    BY DEF Surjection
  <2> HIDE DEF h, A
  <2> QED BY <1>1, <2>1, FS_Surjection
<1>3. IsFiniteSet(B) /\ Cardinality(B) <= Cardinality(Threads)
  <2> DEFINE h == [t \in Threads |-> Id(t)]
  <2>1. h \in Surjection(Threads, B)
    BY DEF Surjection
  <2> HIDE DEF h, B
  <2> QED BY <1>1, <2>1, FS_Surjection
<1> HIDE DEF A, B
<1>4. /\ IsFiniteSet(A \cup B) /\ Cardinality(A \cup B) \in Nat
      /\ Cardinality(A \cup B) <= Cardinality(Files) + Cardinality(Threads)
  <2>1. IsFiniteSet(A \cap B) /\ Cardinality(A \cap B) \in Nat
        /\ Cardinality(A) \in Nat /\ Cardinality(B) \in Nat
    BY <1>2, <1>3, FS_Intersection, FS_CardinalityType
  <2>2. IsFiniteSet(A \cup B) /\ Cardinality(A \cup B)
                                   = Cardinality(A) + Cardinality(B) - Cardinality(A \cap B)
    BY <1>2, <1>3, FS_Union
  <2> QED BY <1>1, <1>2, <1>3, <2>1, <2>2, FS_CardinalityType
<1>5. Cardinality(Ids) = Cardinality(Files) + Cardinality(Threads) + 1
  BY <1>1, FS_Interval DEF Ids
<1>6. ~ (Ids \subseteq A \cup B)
  BY <1>1, <1>4, <1>5, FS_Subset
<1>7. Pointed = A \cup B
  BY DEF Pointed, A, B
<1> QED BY <1>6, <1>7

LEMMA TestKeeps ==
    ASSUME ReadersOnly, ThreadsInv, NEW t \in Threads, Test(t)
    PROVE  ThreadsInv'
<1> DEFINE p == IF cache_block[File(t)] = NULL THEN "make" ELSE "use"
<1>1. /\ At(t, "find") /\ Inside(t) /\ BlockStays /\ Goes(t, p)
      /\ UNCHANGED <<lock, heap, tmp_buf>>
  BY DEF Test, At, Inside, BlockStays, files, data
<1>2. /\ File(t) \in Files /\ ~ Is(t, NULL) /\ Placed(t) /\ Knows(t)
      /\ threads \in [Threads -> Handlers] /\ threads[t] \in Handlers /\ DataOK
      /\ Settled(File(t))
  BY <1>1, Here, AllSettled DEF At
<1>3. /\ p \in Pcs /\ p \in {"make", "use"}
      /\ p = "make" <=> cache_block[File(t)] = NULL
  BY DEF Pcs
<1> HIDE DEF p
<1>4. /\ OnlyIn(t) /\ Stays(t) /\ threads'[t].pc = p
      /\ threads'[t].op = threads[t].op /\ threads'[t].file = threads[t].file
  BY <1>1, <1>2, <1>3, GoesTo DEF OnlyIn, Stays
<1>5. Placed(t)'
  BY <1>1, <1>2, <1>3, <1>4, Apart DEF Placed, Is, At, File
<1>6. Knows(t)'
  BY <1>1, <1>2, <1>3, <1>4, Apart DEF Knows, Placed, Settled, Is, At, File, BlockStays
<1> QED BY <1>1, <1>4, <1>5, <1>6, BlockKeeps DEF At

LEMMA MakeKeeps ==
    ASSUME ReadersOnly, ThreadsInv, NEW t \in Threads, Make(t)
    PROVE  ThreadsInv'
<1>1. /\ At(t, "make") /\ Inside(t) /\ Goes(t, "use")
      /\ UNCHANGED <<alive, status, lock, latest, tmp_buf, cache, remote, openssl, overrun>>
  BY DEF Make, At, Inside, files, data
<1>2. /\ File(t) \in Files /\ ~ Is(t, NULL) /\ Placed(t) /\ Knows(t)
      /\ threads \in [Threads -> Handlers] /\ threads[t] \in Handlers /\ DataOK
      /\ OwnBlocks
  BY <1>1, Here
<1>3. /\ OnlyIn(t) /\ Stays(t) /\ threads'[t].pc = "use"
      /\ threads'[t].op = threads[t].op /\ threads'[t].file = threads[t].file
  BY <1>1, <1>2, GoesTo DEF OnlyIn, Stays, Pcs
<1>4. Placed(t)'
  BY <1>1, <1>2, <1>3, Apart DEF Placed, Is, At, File
<1>5. cache_block[File(t)] = NULL
  BY <1>1, <1>2 DEF Knows
<1>6. PICK id \in Ids :
        /\ id \notin Pointed
        /\ heap' = [heap EXCEPT ![id] = [status |-> "NOTDOWNLOADED", fp |-> FALSE]]
        /\ cache_block' = [cache_block EXCEPT ![File(t)] = id]
  BY FreshBlock DEF ThreadsInv, Make
<1> DEFINE b == [status |-> "NOTDOWNLOADED", fp |-> FALSE]
<1>7. /\ b # NULL /\ heap'[id] = b /\ cache_block'[File(t)] = id /\ id # NULL
      /\ \A f \in Files : f # File(t) => cache_block'[f] = cache_block[f] /\ cache_block[f] # id
      /\ \A i \in Ids : i # id => heap'[i] = heap[i]
      /\ cache_block' \in [Files -> Ids \cup {NULL}] /\ heap' \in [Ids -> Blocks \cup {NULL}]
      /\ b.status = "NOTDOWNLOADED"
  <2>1. b \in Blocks /\ b # NULL /\ b.status = "NOTDOWNLOADED"
    <3>1. b \in Blocks /\ b.status = "NOTDOWNLOADED"
      BY DEF Blocks
    <3> HIDE DEF b
    <3> QED BY <3>1, Apart
  <2>2. heap' = [heap EXCEPT ![id] = b]
    BY <1>6
  <2> HIDE DEF b
  <2>3. \A f \in Files : cache_block[f] # id
    BY <1>6 DEF Pointed
  <2>4. /\ heap'[id] = b /\ heap' \in [Ids -> Blocks \cup {NULL}]
        /\ \A i \in Ids : i # id => heap'[i] = heap[i]
    BY <1>2, <2>1, <2>2 DEF DataOK
  <2>5. /\ cache_block'[File(t)] = id
        /\ \A f \in Files : f # File(t) => cache_block'[f] = cache_block[f]
        /\ cache_block' \in [Files -> Ids \cup {NULL}]
    BY <1>2, <1>6 DEF DataOK
  <2> QED BY <2>1, <2>3, <2>4, <2>5, Apart
<1> HIDE DEF b
<1>8. ASSUME NEW f \in Files, f # File(t) PROVE Untouched(f)
  <2>1. cache_block[f] # NULL => heap'[cache_block[f]] = heap[cache_block[f]]
    BY <1>2, <1>7, <1>8 DEF DataOK
  <2> QED BY <1>1, <1>7, <1>8, <2>1, DataStay DEF Untouched
<1>9. ASSUME NEW f \in Files, f = File(t) PROVE Agrees(f)'
  <2>1. Settled(f) /\ BlockStatus(f) = "NOTDOWNLOADED"
    BY <1>1, <1>5, <1>9, AllSettled DEF At, BlockStatus
  <2>2. BlockStatus(f)' = "NOTDOWNLOADED" /\ cache_block'[f] = id /\ heap'[id] # NULL
    BY <1>7, <1>9 DEF BlockStatus
  <2>3. Settled(f)'
    BY <1>1, <2>1, <2>2, DataStay DEF Settled
  <2> QED BY <2>3, SettledAgrees
<1>10. OwnBlocks'
  BY <1>2, <1>7 DEF OwnBlocks
<1>11. Pipes' /\ DataOK'
  BY <1>1, <1>2, <1>7, PipesStay DEF DataOK
<1>12. Knows(t)'
  BY <1>1, <1>2, <1>3, <1>7, Apart DEF Knows, Placed, Is, At, File
<1> QED BY <1>1, <1>3, <1>4, <1>8, <1>9, <1>10, <1>11, <1>12, StepInside

\* A block that is not downloaded has nothing that the storages have not.
LEMMA DownloadKeeps ==
    ASSUME ReadersOnly, ThreadsInv, NEW t \in Threads, Download(t)
    PROVE  ThreadsInv'
<1>1. /\ At(t, "download") /\ Inside(t) /\ Goes(t, "measure")
      /\ UNCHANGED <<alive, status, lock, latest, cache_block, heap, tmp_buf, cache, remote, overrun>>
  BY DEF Download, At, Inside, files
<1>2. /\ File(t) \in Files /\ ~ Is(t, NULL) /\ Placed(t) /\ Knows(t)
      /\ threads \in [Threads -> Handlers] /\ threads[t] \in Handlers /\ DataOK
      /\ OwnBlocks
  BY <1>1, Here
<1>3. /\ OnlyIn(t) /\ Stays(t) /\ threads'[t].pc = "measure"
      /\ threads'[t].op = threads[t].op /\ threads'[t].file = threads[t].file
      /\ threads'[t].id = threads[t].id
  BY <1>1, <1>2, GoesTo DEF OnlyIn, Stays, Pcs
<1>4. tmp_buf = File(t) /\ HasBlock(t) /\ heap[Id(t)].status = "NOTDOWNLOADED"
  BY <1>1, <1>2 DEF Knows, At
<1> DEFINE o == [path |-> File(t), bytes |-> remote[File(t)], state |-> "starts"]
<1>5. PICK p \in Pids : openssl[p] = NULL /\ openssl' = [openssl EXCEPT ![p] = o]
  BY <1>4 DEF Download
<1>6. o \in Processes /\ o # NULL /\ o.path = File(t) /\ o.bytes = remote[File(t)]
  <2>1. o \in Processes /\ o.path = File(t) /\ o.bytes = remote[File(t)]
    BY <1>2 DEF DataOK, Processes
  <2> HIDE DEF o
  <2> QED BY <2>1, ProcessAssumption
<1> HIDE DEF o
<1>7. /\ openssl'[p] = o /\ openssl' \in [Pids -> Processes \cup {NULL}]
      /\ \A q \in Pids : q # p => openssl'[q] = openssl[q]
  BY <1>2, <1>5, <1>6 DEF DataOK
<1>8. ASSUME NEW f \in Files, f # File(t) PROVE Untouched(f)
  <2>1. IsWritten(f)' => IsWritten(f)
    BY <1>6, <1>7, <1>8 DEF IsWritten
  <2> QED BY <1>1, <2>1 DEF Untouched
<1>9. Settled(File(t)) /\ BlockStatus(File(t)) = "NOTDOWNLOADED"
  BY <1>1, <1>2, <1>4, AllSettled DEF At, BlockStatus, HasBlock
<1>10. ASSUME NEW f \in Files, f = File(t) PROVE Agrees(f)'
  <2>1. BlockStatus(f)' = "NOTDOWNLOADED"
    BY <1>1, <1>9, <1>10 DEF BlockStatus
  <2>2. (Fresh(f)' <=> Fresh(f)) /\ (InStep(f)' <=> InStep(f))
    BY <1>1 DEF Fresh, InStep
  <2>3. Settled(f)'
    BY <1>1, <1>9, <1>10, <2>1, <2>2 DEF Settled
  <2> QED BY <2>3, SettledAgrees
<1>11. Pipes'
  <2>1. File(t) \in overrun \/ o.bytes = Whole(latest[File(t)])
    BY <1>6, <1>9 DEF Settled, InStep
  <2> QED BY <1>1, <1>6, <1>7, <2>1 DEF ThreadsInv, Pipes
<1>12. DataOK'
  BY <1>1, <1>2, <1>7 DEF DataOK
<1>13. Placed(t)'
  BY <1>1, <1>2, <1>3 DEF Placed, Is, At, File
<1>14. Knows(t)'
  BY <1>1, <1>2, <1>3, <1>4, Apart DEF Knows, HasBlock, Placed, Is, At, File, Id
<1> QED BY <1>1, <1>2, <1>3, <1>8, <1>10, <1>11, <1>12, <1>13, <1>14, StepInside DEF OwnBlocks

LEMMA MeasureKeeps ==
    ASSUME ReadersOnly, ThreadsInv, NEW t \in Threads, Measure(t)
    PROVE  ThreadsInv'
<1> DEFINE s == IF cache[tmp_buf] # EMPTY THEN "SYNCED" ELSE heap[Id(t)].status
           b == [heap[Id(t)] EXCEPT !.status = s]
<1>1. /\ At(t, "measure") /\ Inside(t) /\ Goes(t, "open") /\ BlockStays
      /\ UNCHANGED <<lock, tmp_buf>>
      /\ heap' = [heap EXCEPT ![Id(t)].status = IF cache[tmp_buf] # EMPTY THEN "SYNCED" ELSE @]
  BY DEF Measure, At, Inside, files, data, BlockStays
<1>2. /\ File(t) \in Files /\ ~ Is(t, NULL) /\ Placed(t) /\ Knows(t)
      /\ threads \in [Threads -> Handlers] /\ threads[t] \in Handlers /\ DataOK
  BY <1>1, Here
<1>3. /\ OnlyIn(t) /\ Stays(t) /\ threads'[t].pc = "open"
      /\ threads'[t].op = threads[t].op /\ threads'[t].file = threads[t].file
      /\ threads'[t].id = threads[t].id
  BY <1>1, <1>2, GoesTo DEF OnlyIn, Stays, Pcs
<1>4. /\ tmp_buf = File(t) /\ Id(t) = cache_block[File(t)] /\ Id(t) \in Ids
      /\ cache_block[File(t)] # NULL
      /\ heap[Id(t)] \in Blocks /\ heap[Id(t)].status = "NOTDOWNLOADED"
  BY <1>1, <1>2 DEF Knows, HasBlock, DataOK, At
<1>5. b \in Blocks /\ b.status = s /\ s # "MODIFIED"
  BY <1>4 DEF Blocks
<1>6. heap' = [heap EXCEPT ![Id(t)] = b] /\ heap'[Id(t)] = b
  BY <1>1, <1>2, <1>4 DEF DataOK
<1>7. Settled(File(t))
  BY <1>1, <1>2, AllSettled DEF At
<1>8. BlockBecomes(File(t), b)
  BY <1>4, <1>5, <1>6, <1>7 DEF BlockBecomes, Settled, BlockStatus
<1> HIDE DEF b, s
<1>9. Placed(t)'
  BY <1>1, <1>2, <1>3 DEF Placed, Is, At, File
<1>10. Knows(t)'
  <2>1. HasBlock(t)'
    BY <1>1, <1>3, <1>4, <1>5, <1>6, Apart DEF HasBlock, Id, File, BlockStays
  <2> QED BY <1>1, <1>2, <1>3, <2>1, Apart DEF Knows, Placed, Is, At, File, BlockStays
<1> QED BY <1>1, <1>3, <1>5, <1>8, <1>9, <1>10, BlockKeeps DEF At

\* An openssl process opens, writes or leaves its file: one that a write has
\* filled is not such a file.
LEMMA OpensslKeeps ==
    ASSUME ThreadsInv, NEW p \in Pids,
           OpensslOpens(p) \/ OpensslWrites(p) \/ OpensslEnds(p)
    PROVE  ThreadsInv'
<1> DEFINE f == openssl[p].path
           c == cache'[f]
<1>1. /\ openssl[p] # NULL
      /\ UNCHANGED <<files, cache_block, heap, tmp_buf, remote, threads>>
  BY DEF OpensslOpens, OpensslWrites, OpensslEnds
<1>2. DataOK /\ Types /\ Pipes /\ openssl[p] \in Processes
  BY <1>1, DataTypes DEF ThreadsInv, DataOK
<1>3. f \in Files /\ openssl[p].bytes \in Contents
  BY <1>2 DEF Processes
<1>4. /\ openssl' = [openssl EXCEPT ![p].state = "writes"] \/ openssl' = openssl
         \/ openssl' = [openssl EXCEPT ![p] = NULL]
      /\ \/ cache' = cache
         \/ cache' = [cache EXCEPT ![f] = EMPTY]
         \/ cache' = [cache EXCEPT ![f] = Part(openssl[p].bytes)]
         \/ cache' = [cache EXCEPT ![f] = openssl[p].bytes]
  BY DEF OpensslOpens, OpensslWrites, OpensslEnds
<1>5. /\ \A q \in Pids : openssl'[q] # NULL =>
             /\ openssl[q] # NULL
             /\ openssl'[q].path = openssl[q].path /\ openssl'[q].bytes = openssl[q].bytes
      /\ openssl' \in [Pids -> Processes \cup {NULL}]
  <2>1. [openssl[p] EXCEPT !.state = "writes"] \in Processes
    BY <1>2 DEF Processes
  <2>2. CASE openssl' = [openssl EXCEPT ![p].state = "writes"]
    <3>1. openssl' = [openssl EXCEPT ![p] = [openssl[p] EXCEPT !.state = "writes"]]
      BY <2>2
    <3> DEFINE o == [openssl[p] EXCEPT !.state = "writes"]
    <3>2. o \in Processes /\ o.path = openssl[p].path /\ o.bytes = openssl[p].bytes
      BY <1>2, <2>1 DEF Processes
    <3> HIDE DEF o
    <3> QED BY <1>1, <1>2, <3>1, <3>2 DEF DataOK, o
  <2>3. CASE openssl' = [openssl EXCEPT ![p] = NULL] \/ openssl' = openssl
    BY <1>2, <2>3 DEF DataOK
  <2> QED BY <1>4, <2>2, <2>3
<1>6. /\ cache' \in [Files -> Contents]
      /\ \A g \in Files : g # f => cache'[g] = cache[g]
      /\ f \in overrun \/ c \in {cache[f], EMPTY, Part(Whole(latest[f])), Whole(latest[f])}
  <2>1. EMPTY \in Contents /\ Part(openssl[p].bytes) \in Contents
    BY <1>3, Apart DEF EMPTY, Part, Contents
  <2>2. f \in overrun \/ openssl[p].bytes = Whole(latest[f])
    BY <1>1, <1>2 DEF Pipes
  <2> QED BY <1>2, <1>3, <1>4, <2>1, <2>2 DEF DataOK
<1>7. IsWritten(f)
  BY <1>1 DEF IsWritten
<1> HIDE DEF f, c
<1>8. ASSUME NEW g \in Files
      PROVE  /\ InStep(g)' <=> InStep(g)
             /\ Owned(g) => Owned(g)'
             /\ g \in overrun \/ (Fresh(g) => Fresh(g)')
  <2>1. InStep(g)' <=> InStep(g)
    BY <1>1 DEF InStep, files
  <2>2. IsWritten(g)' => IsWritten(g)
    BY <1>5 DEF IsWritten
  <2>3. Owned(g) => Owned(g)'
    BY <1>1, <1>6, <1>7, <2>2 DEF Owned, files
  <2>4. g \in overrun \/ (Fresh(g) => Fresh(g)')
    BY <1>1, <1>6 DEF Fresh, files, c
  <2> QED BY <2>1, <2>3, <2>4
<1>9. Pipes'
  BY <1>1, <1>2, <1>5 DEF Pipes, files
<1>10. Types'
  <2>1. TypeOK'
    BY <1>1, <1>2, <1>5, <1>6 DEF Types, TypeOK, files, Is, File
  <2> QED BY <1>1, <1>2, <2>1 DEF Types, Placed, Is, At, File
<1>11. Alone' /\ OwnBlocks'
  BY <1>1 DEF ThreadsInv, Alone, OwnBlocks, Inside, Is, At, File, files
<1>12. ASSUME NEW u \in Threads PROVE Knows(u)'
  <2>1. Knows(u) /\ Placed(u)
    BY <1>2 DEF ThreadsInv, Types
  <2>2. At(u, "mark") \/ At(u, "sent") \/ At(u, "commit") => File(u) \in Files
    BY <2>1, Apart DEF Placed, Is, At, Ops
  <2>3. File(u)' = File(u) /\ (HasBlock(u)' <=> HasBlock(u))
    BY <1>1 DEF File, HasBlock, Id
  <2> QED BY <1>1, <1>8, <2>1, <2>2, <2>3 DEF Knows, Is, At, File, Id, files
<1>13. ASSUME NEW g \in Files PROVE Agrees(g)'
  <2>1. Agrees(g)
    BY DEF ThreadsInv
  <2>2. /\ BlockStatus(g)' = BlockStatus(g)
        /\ (Marking(g)' <=> Marking(g)) /\ (Resetting(g)' <=> Resetting(g))
    BY <1>1 DEF BlockStatus, Marking, Resetting, At, File
  <2> QED BY <1>1, <1>8, <2>1, <2>2 DEF Agrees, files
<1> QED BY <1>9, <1>10, <1>11, <1>12, <1>13 DEF ThreadsInv

LEMMA OpenKeeps ==
    ASSUME ReadersOnly, ThreadsInv, NEW t \in Threads, Open(t)
    PROVE  ThreadsInv'
<1>1. /\ At(t, "open") /\ Inside(t)
      /\ UNCHANGED <<alive, status, cache_block, latest, remote, openssl, overrun>>
  BY DEF Open, At, Inside
<1>2. /\ File(t) \in Files /\ ~ Is(t, NULL) /\ Placed(t) /\ Knows(t)
      /\ threads \in [Threads -> Handlers] /\ threads[t] \in Handlers /\ DataOK
      /\ OwnBlocks
  BY <1>1, Here
<1>3. /\ Id(t) = cache_block[File(t)] /\ Id(t) \in Ids /\ cache_block[File(t)] # NULL
      /\ heap[Id(t)] \in Blocks /\ Settled(File(t))
  BY <1>1, <1>2, AllSettled DEF Knows, HasBlock, DataOK, At
<1>4. ASSUME Goes(t, "io")
      PROVE  /\ OnlyIn(t) /\ threads'[t].pc = "io"
             /\ threads'[t].op = threads[t].op /\ threads'[t].file = threads[t].file
             /\ threads'[t].id = threads[t].id /\ Placed(t)'
             /\ lock' = lock => Stays(t)
  <2>1. /\ OnlyIn(t) /\ threads'[t].pc = "io"
        /\ threads'[t].op = threads[t].op /\ threads'[t].file = threads[t].file
        /\ threads'[t].id = threads[t].id
    BY <1>2, <1>4, GoesTo DEF OnlyIn, Pcs
  <2> QED BY <1>1, <1>2, <2>1 DEF Placed, Is, At, File, Stays
<1>5. CASE heap[Id(t)].fp /\ Goes(t, "io") /\ UNCHANGED <<lock, heap, cache, tmp_buf>>
  <2>1. HasBlock(t)' /\ heap'[Id(t)'].fp
    BY <1>1, <1>3, <1>4, <1>5, Apart DEF HasBlock, Id, File
  <2>2. Knows(t)'
    BY <1>1, <1>2, <1>4, <1>5, <2>1, Apart DEF Knows, Placed, Is, At, File, Id
  <2> QED BY <1>1, <1>4, <1>5, <2>2, BlockKeeps DEF At, BlockStays
<1>6. CASE lock' = Unlocked(t) /\ Returns(t) /\ tmp_buf' = File(t) /\ UNCHANGED <<heap, cache>>
  <2>1. OnlyIn(t) /\ Leaves(t)
    BY <1>2, <1>6, ReturnsTo DEF OnlyIn, Leaves
  <2>2. Placed(t)' /\ Knows(t)'
    BY <2>1, IdleKnows DEF Leaves
  <2> QED BY <1>1, <1>6, <2>1, <2>2, BlockKeeps DEF At, BlockStays
<1>7. CASE /\ tmp_buf' = File(t)
           /\ heap' = [heap EXCEPT ![Id(t)].fp = TRUE]
           /\ cache' = [cache EXCEPT ![File(t)] = IF @ = ABSENT THEN EMPTY ELSE @]
           /\ Goes(t, "io") /\ UNCHANGED lock
  <2> DEFINE b == [heap[Id(t)] EXCEPT !.fp = TRUE]
  <2>1. b \in Blocks /\ b.status = heap[Id(t)].status /\ b.fp /\ b # NULL
    <3>1. b \in Blocks /\ b.status = heap[Id(t)].status /\ b.fp
      BY <1>3 DEF Blocks
    <3> HIDE DEF b
    <3> QED BY <3>1, Apart
  <2>2. heap' = [heap EXCEPT ![Id(t)] = b]
    BY <1>2, <1>3, <1>7 DEF DataOK
  <2> HIDE DEF b
  <2>3. /\ heap'[Id(t)] = b /\ heap' \in [Ids -> Blocks \cup {NULL}]
        /\ \A i \in Ids : i # Id(t) => heap'[i] = heap[i]
    BY <1>2, <1>3, <2>1, <2>2 DEF DataOK
  <2>4. /\ cache'[File(t)] \in {cache[File(t)], EMPTY}
        /\ cache[File(t)] # ABSENT => cache'[File(t)] = cache[File(t)]
        /\ \A f \in Files : f # File(t) => cache'[f] = cache[f]
        /\ cache' \in [Files -> Contents]
    <3>1. EMPTY \in Contents
      BY Apart
    <3> QED BY <1>2, <1>7, <3>1 DEF DataOK
  <2>5. ASSUME NEW f \in Files, f # File(t) PROVE Untouched(f)
    <3>1. cache_block[f] # NULL => heap'[cache_block[f]] = heap[cache_block[f]]
      BY <1>2, <1>3, <2>3, <2>5 DEF OwnBlocks, DataOK
    <3> QED BY <1>1, <2>4, <2>5, <3>1 DEF Untouched, IsWritten
  <2>6. ASSUME NEW f \in Files, f = File(t) PROVE Agrees(f)'
    <3>1. BlockStatus(f)' = BlockStatus(f) /\ heap'[cache_block[f]] # NULL
      BY <1>1, <1>3, <2>1, <2>3, <2>6, Apart DEF BlockStatus
    <3>2. Whole(latest[f]) # ABSENT
      BY DEF Whole, ABSENT
    <3>3. /\ Fresh(f) => Fresh(f)'
          /\ Owned(f) => Owned(f)'
          /\ InStep(f)' <=> InStep(f)
      BY <1>1, <2>4, <2>6, <3>2 DEF Fresh, Owned, InStep, IsWritten
    <3>4. Settled(f)'
      BY <1>1, <1>3, <2>6, <3>1, <3>3 DEF Settled
    <3> QED BY <3>4, SettledAgrees
  <2>7. Pipes' /\ DataOK'
    BY <1>1, <1>2, <1>7, <2>3, <2>4, PipesStay DEF DataOK
  <2>8. HasBlock(t)' /\ heap'[Id(t)'].fp
    BY <1>1, <1>3, <1>4, <1>7, <2>1, <2>3 DEF HasBlock, Id, File
  <2>9. Knows(t)'
    BY <1>1, <1>2, <1>4, <1>7, <2>8, Apart DEF Knows, Placed, Is, At, File, Id
  <2> QED BY <1>1, <1>2, <1>4, <1>7, <2>5, <2>6, <2>7, <2>9, StepInside DEF OwnBlocks
<1> QED BY <1>5, <1>6, <1>7 DEF Open

\* The steps of a thread that change only the thread itself.
LEMMA PlainStep ==
    ASSUME ReadersOnly, ThreadsInv, NEW t \in Threads, Inside(t),
           ~ At(t, "mark"), ~ At(t, "reset"), BlockStays,
           UNCHANGED <<heap, tmp_buf>>,
           OnlyIn(t), Stays(t) \/ Leaves(t), Placed(t)', Knows(t)'
    PROVE  ThreadsInv'
BY BlockKeeps

LEMMA ReadBytesKeeps ==
    ASSUME ReadersOnly, ThreadsInv, NEW t \in Threads, ReadBytes(t)
    PROVE  ThreadsInv'
<1>1. /\ At(t, "io") /\ Is(t, "read") /\ Inside(t) /\ BlockStays
      /\ UNCHANGED <<lock, heap, tmp_buf>>
      /\ threads' = [threads EXCEPT ![t].pc = "unlock", ![t].got = cache[File(t)]]
  BY DEF ReadBytes, At, Inside, files, data, BlockStays
<1>2. /\ File(t) \in Files /\ ~ Is(t, NULL) /\ Placed(t) /\ Knows(t)
      /\ threads \in [Threads -> Handlers] /\ threads[t] \in Handlers /\ DataOK
  BY <1>1, Here
<1>3. Settled(File(t))
  BY <1>1, <1>2, AllSettled DEF At
<1>4. cache[File(t)] \in Contents /\ latest[File(t)] \in 0 .. MaxWrites
  BY <1>2 DEF DataOK
<1>5. File(t) \in overrun \/ cache[File(t)].of \in {NONE, latest[File(t)]}
  BY <1>3, <1>4, BytesOfWrite DEF Settled, Fresh
<1>6. threads'[t] = [threads[t] EXCEPT !.pc = "unlock", !.got = cache[File(t)]]
  BY <1>1, <1>2
<1>7. /\ threads'[t].pc = "unlock" /\ threads'[t].got = cache[File(t)]
      /\ threads'[t].op = threads[t].op /\ threads'[t].file = threads[t].file
      /\ threads'[t] \in Handlers
  BY <1>2, <1>4, <1>6 DEF Handlers, Pcs
<1>8. OnlyIn(t) /\ Stays(t)
  BY <1>1, <1>2, <1>7 DEF OnlyIn, Stays
<1>9. Placed(t)'
  BY <1>1, <1>2, <1>7 DEF Placed, Is, At, File
<1>10. Knows(t)'
  BY <1>1, <1>2, <1>5, <1>7, Apart DEF Knows, Placed, Is, At, File, BlockStays
<1> QED BY <1>1, <1>8, <1>9, <1>10, PlainStep DEF At

LEMMA UnlockKeeps ==
    ASSUME ReadersOnly, ThreadsInv, NEW t \in Threads, Unlock(t)
    PROVE  ThreadsInv'
<1>1. /\ At(t, "unlock") /\ Inside(t) /\ BlockStays /\ UNCHANGED <<heap, tmp_buf>>
      /\ lock' = Unlocked(t) /\ Returns(t)
  BY DEF Unlock, At, Inside, data, BlockStays
<1>2. threads \in [Threads -> Handlers]
  BY <1>1, Here
<1>3. OnlyIn(t) /\ Leaves(t)
  BY <1>1, <1>2, ReturnsTo DEF OnlyIn, Leaves
<1>4. Placed(t)' /\ Knows(t)'
  BY <1>3, IdleKnows DEF Leaves
<1> QED BY <1>1, <1>3, <1>4, PlainStep DEF At

\* The write is in the cache file before the block is marked.
LEMMA WriteBytesKeeps ==
    ASSUME ReadersOnly, ThreadsInv, NEW t \in Threads, WriteBytes(t)
    PROVE  ThreadsInv'
<1>1. /\ At(t, "io") /\ Is(t, "write") /\ Inside(t) /\ Goes(t, "mark")
      /\ UNCHANGED <<alive, status, lock, cache_block, heap, tmp_buf, remote, openssl>>
      /\ latest' = [latest EXCEPT ![File(t)] = @ + 1]
      /\ cache' = [cache EXCEPT ![File(t)] = Whole(latest[File(t)] + 1)]
      /\ overrun' = IF IsWritten(File(t)) THEN overrun \cup {File(t)} ELSE overrun
  BY DEF WriteBytes, At, Inside
<1>2. /\ File(t) \in Files /\ ~ Is(t, NULL) /\ Placed(t) /\ Knows(t)
      /\ threads \in [Threads -> Handlers] /\ threads[t] \in Handlers /\ DataOK
      /\ OwnBlocks
  BY <1>1, Here
<1>3. /\ OnlyIn(t) /\ Stays(t) /\ threads'[t].pc = "mark"
      /\ threads'[t].op = threads[t].op /\ threads'[t].file = threads[t].file
  BY <1>1, <1>2, GoesTo DEF OnlyIn, Stays, Pcs
<1>4. /\ Id(t) = cache_block[File(t)] /\ Id(t) # NULL /\ heap[Id(t)] # NULL
      /\ latest[File(t)] \in 0 .. MaxWrites /\ latest[File(t)] < MaxWrites
      /\ status[File(t)] = "MODIFIED"
  BY <1>1, <1>2 DEF Knows, HasBlock, DataOK, At
<1>5. latest[File(t)] + 1 \in 0 .. MaxWrites /\ Whole(latest[File(t)] + 1) \in Contents
  <2>1. latest[File(t)] + 1 \in 0 .. MaxWrites
    BY <1>4, Apart
  <2> QED BY <2>1, BytesOfWrite
<1>6. /\ latest'[File(t)] = latest[File(t)] + 1
      /\ cache'[File(t)] = Whole(latest[File(t)] + 1)
      /\ cache' \in [Files -> Contents] /\ latest' \in [Files -> 0 .. MaxWrites]
      /\ \A f \in Files : f # File(t) => cache'[f] = cache[f] /\ latest'[f] = latest[f]
      /\ overrun' \in SUBSET Files
      /\ \A f \in Files : f \in overrun => f \in overrun'
      /\ \A f \in Files : f # File(t) => (f \in overrun' <=> f \in overrun)
      /\ IsWritten(File(t)) => File(t) \in overrun'
  BY <1>1, <1>2, <1>5 DEF DataOK
<1>7. \A f \in Files : IsWritten(f)' <=> IsWritten(f)
  BY <1>1 DEF IsWritten
<1>8. ASSUME NEW f \in Files, f # File(t) PROVE Untouched(f)
  BY <1>1, <1>6, <1>7, <1>8 DEF Untouched
<1>9. ASSUME NEW f \in Files, f = File(t) PROVE f \in overrun' \/ Owned(f)'
  BY <1>2, <1>6, <1>7, <1>9 DEF Owned
<1>10. ASSUME NEW f \in Files, f = File(t) PROVE Agrees(f)'
  <2>1. Marking(f)'
    BY <1>3, <1>10 DEF Marking, At, File
  <2>2. Settled(f)
    BY <1>1, AllSettled DEF At
  <2>3. f \in overrun' \/ (Owned(f)' /\ Fresh(f)')
    <3>1. f \in overrun' \/ Owned(f)'
      BY <1>9, <1>10
    <3> QED BY <3>1 DEF Owned, Fresh
  <2> QED BY <1>1, <1>4, <1>6, <1>10, <2>1, <2>2, <2>3 DEF Agrees, Settled
<1>11. Pipes'
  <2>1. \A p \in Pids : openssl[p] # NULL => openssl[p].path \in Files
    BY <1>2 DEF DataOK, Processes
  <2>2. \A p \in Pids : openssl[p] # NULL /\ openssl[p].path = File(t) => File(t) \in overrun'
    BY <1>6 DEF IsWritten
  <2> QED BY <1>1, <1>6, <2>1, <2>2 DEF ThreadsInv, Pipes
<1>12. DataOK'
  BY <1>1, <1>2, <1>6 DEF DataOK
<1>13. Placed(t)'
  BY <1>1, <1>2, <1>3 DEF Placed, Is, At, File
<1>14. Knows(t)'
  <2>1. File(t)' = File(t)
    BY <1>3 DEF File
  <2> QED BY <1>1, <1>2, <1>3, <1>4, <1>9, <2>1, Apart DEF Knows, Placed, Is, At, File
<1> QED BY <1>1, <1>2, <1>3, <1>8, <1>10, <1>11, <1>12, <1>13, <1>14, StepInside DEF OwnBlocks

LEMMA MarkKeeps ==
    ASSUME ReadersOnly, ThreadsInv, NEW t \in Threads, Mark(t)
    PROVE  ThreadsInv'
<1>1. /\ At(t, "mark") /\ Inside(t) /\ Returns(t) /\ BlockStays
      /\ UNCHANGED <<lock, tmp_buf>>
      /\ cache_block[File(t)] # NULL /\ heap[cache_block[File(t)]] # NULL
      /\ heap' = [heap EXCEPT ![cache_block[File(t)]].status = "MODIFIED"]
  BY DEF Mark, At, Inside, files, data, BlockStays
<1>2. /\ File(t) \in Files /\ ~ Is(t, NULL) /\ Placed(t) /\ Knows(t)
      /\ threads \in [Threads -> Handlers] /\ threads[t] \in Handlers /\ DataOK
      /\ OwnBlocks /\ Agrees(File(t))
  BY <1>1, Here
<1>3. OnlyIn(t) /\ Leaves(t) /\ Placed(t)' /\ Knows(t)'
  <2>1. OnlyIn(t) /\ threads'[t] = Idle
    BY <1>1, <1>2, ReturnsTo DEF OnlyIn
  <2>2. ~ Is(t, "read")
    BY <1>1, <1>2 DEF Placed, Is
  <2> QED BY <1>1, <2>1, <2>2, IdleKnows DEF Leaves
<1> DEFINE i == cache_block[File(t)]
           b == [heap[i] EXCEPT !.status = "MODIFIED"]
<1>4. i \in Ids /\ heap[i] \in Blocks
  BY <1>1, <1>2 DEF DataOK
<1>5. /\ b \in Blocks /\ b.status = "MODIFIED"
  BY <1>4 DEF Blocks
<1>6. /\ heap'[i] = b /\ b # NULL /\ heap' \in [Ids -> Blocks \cup {NULL}]
      /\ \A j \in Ids : j # i => heap'[j] = heap[j]
  <2> HIDE DEF b
  <2>1. heap' = [heap EXCEPT ![i] = b]
    BY <1>1, <1>2, <1>4 DEF DataOK, b
  <2> QED BY <1>2, <1>4, <1>5, <2>1, Apart DEF DataOK
<1> HIDE DEF b
<1>7. ASSUME NEW f \in Files, f # File(t) PROVE Untouched(f)
  <2>1. cache_block[f] # NULL => cache_block[f] # i /\ cache_block[f] \in Ids
    BY <1>2, <1>7 DEF OwnBlocks, DataOK
  <2> QED BY <1>1, <1>6, <2>1 DEF Untouched, BlockStays, IsWritten
<1>8. ASSUME NEW f \in Files, f = File(t) PROVE Agrees(f)'
  <2>1. BlockStatus(f)' = "MODIFIED" /\ cache_block'[f] = i /\ heap'[i] # NULL
    BY <1>1, <1>4, <1>5, <1>6, <1>8, Apart DEF BlockStatus, BlockStays
  <2>2. f \in overrun \/ Owned(f)
    BY <1>1, <1>2, <1>8 DEF Knows
  <2>3. (Owned(f)' <=> Owned(f)) /\ (Fresh(f)' <=> Fresh(f)) /\ (InStep(f)' <=> InStep(f))
    BY <1>1, DataStay DEF BlockStays
  <2> QED BY <1>1, <1>2, <1>8, <2>1, <2>2, <2>3 DEF Agrees, BlockStays
<1>9. Pipes' /\ DataOK'
  BY <1>1, <1>2, <1>6, PipesStay DEF DataOK, BlockStays
<1> QED BY <1>1, <1>2, <1>3, <1>7, <1>8, <1>9, StepInside DEF OwnBlocks, BlockStays

LEMMA CheckKeeps ==
    ASSUME ReadersOnly, ThreadsInv, NEW t \in Threads, Check(t)
    PROVE  ThreadsInv'
<1>1. /\ At(t, "check") /\ Inside(t) /\ BlockStays /\ lock' = lock
  BY DEF Check, At, Inside, files, data, BlockStays
<1>2. /\ File(t) \in Files /\ ~ Is(t, NULL) /\ Placed(t) /\ Knows(t)
      /\ threads \in [Threads -> Handlers] /\ threads[t] \in Handlers /\ DataOK
      /\ Is(t, "sync") /\ ~ Is(t, "read")
  <2>1. Is(t, "sync")
    BY <1>1, Here DEF Placed, At
  <2> QED BY <1>1, <2>1, Here DEF Is
<1> DEFINE id == cache_block[File(t)]
<1>3. Settled(File(t))
  BY <1>1, <1>2, AllSettled DEF At
<1>4. CASE Returns(t) /\ UNCHANGED <<heap, tmp_buf>>
  <2>1. OnlyIn(t) /\ Leaves(t)
    BY <1>1, <1>2, <1>4, ReturnsTo DEF OnlyIn, Leaves
  <2>2. Placed(t)' /\ Knows(t)'
    BY <2>1, IdleKnows DEF Leaves
  <2> QED BY <1>1, <1>4, <2>1, <2>2, PlainStep DEF At
<1>5. CASE /\ id # NULL /\ heap[id] # NULL /\ heap[id].status # "MODIFIED"
           /\ Goes(t, "commit") /\ UNCHANGED <<heap, tmp_buf>>
  <2>1. /\ OnlyIn(t) /\ Stays(t) /\ threads'[t].pc = "commit"
        /\ threads'[t].op = threads[t].op /\ threads'[t].file = threads[t].file
    BY <1>1, <1>2, <1>5, GoesTo DEF OnlyIn, Stays, Pcs
  <2>2. Placed(t)'
    BY <1>1, <1>2, <2>1 DEF Placed, Is, At, File
  <2>3. File(t) \in overrun \/ InStep(File(t))
    BY <1>3, <1>5 DEF Settled, BlockStatus
  <2>4. Knows(t)'
    BY <1>1, <1>2, <2>1, <2>3, Apart DEF Knows, Placed, InStep, Is, At, File, BlockStays
  <2> QED BY <1>1, <1>5, <2>1, <2>2, <2>4, PlainStep DEF At
<1>6. CASE /\ id # NULL /\ heap[id] # NULL /\ heap[id].status = "MODIFIED"
           /\ heap' = [heap EXCEPT ![id].fp = FALSE]
           /\ tmp_buf' = File(t)
           /\ threads' = [threads EXCEPT ![t].pc = "upload", ![t].id = id]
  <2> DEFINE b == [heap[id] EXCEPT !.fp = FALSE]
  <2>1. id \in Ids /\ heap[id] \in Blocks
    BY <1>2, <1>6 DEF DataOK
  <2>2. b \in Blocks /\ b.status = "MODIFIED"
    BY <1>6, <2>1 DEF Blocks
  <2>3. heap' = [heap EXCEPT ![id] = b] /\ heap'[id] = b
    BY <1>2, <1>6, <2>1 DEF DataOK
  <2>4. BlockBecomes(File(t), b)
    BY <1>3, <1>6, <2>2, <2>3 DEF BlockBecomes, Settled, BlockStatus
  <2> HIDE DEF b
  <2>5. threads'[t] = [threads[t] EXCEPT !.pc = "upload", !.id = id]
    BY <1>2, <1>6
  <2>6. /\ threads'[t].pc = "upload" /\ threads'[t].id = id
        /\ threads'[t].op = threads[t].op /\ threads'[t].file = threads[t].file
        /\ threads'[t] \in Handlers
    BY <1>2, <2>1, <2>5 DEF Handlers, Pcs
  <2>7. OnlyIn(t) /\ Stays(t)
    BY <1>1, <1>2, <1>6, <2>6 DEF OnlyIn, Stays
  <2>8. Placed(t)'
    BY <1>1, <1>2, <2>6 DEF Placed, Is, At, File
  <2>9. Knows(t)'
    <3>1. HasBlock(t)' /\ heap'[id].status = "MODIFIED"
      BY <1>1, <1>6, <2>1, <2>2, <2>3, <2>6, Apart DEF HasBlock, Id, File, BlockStays
    <3> QED BY <1>1, <1>2, <1>6, <2>6, <3>1, Apart DEF Knows, Placed, Is, At, File, Id, BlockStays
  <2> QED BY <1>1, <1>6, <2>2, <2>4, <2>7, <2>8, <2>9, BlockKeeps DEF At
<1> QED BY <1>4, <1>5, <1>6 DEF Check

LEMMA UploadKeeps ==
    ASSUME ReadersOnly, ThreadsInv, NEW t \in Threads, Upload(t)
    PROVE  ThreadsInv'
<1>1. /\ At(t, "upload") /\ Inside(t) /\ BlockStays
      /\ UNCHANGED <<lock, heap, tmp_buf>>
      /\ threads' = [threads EXCEPT ![t].pc = "uploading", ![t].path = tmp_buf]
  BY DEF Upload, At, Inside, files, data, BlockStays
<1>2. /\ File(t) \in Files /\ ~ Is(t, NULL) /\ Placed(t) /\ Knows(t)
      /\ threads \in [Threads -> Handlers] /\ threads[t] \in Handlers /\ DataOK
  BY <1>1, Here
<1>3. tmp_buf = File(t) /\ HasBlock(t) /\ heap[Id(t)].status = "MODIFIED"
  BY <1>1, <1>2 DEF Knows, At
<1>4. threads'[t] = [threads[t] EXCEPT !.pc = "uploading", !.path = tmp_buf]
  BY <1>1, <1>2
<1>5. /\ threads'[t].pc = "uploading" /\ threads'[t].path = tmp_buf
      /\ threads'[t].op = threads[t].op /\ threads'[t].file = threads[t].file
      /\ threads'[t].id = threads[t].id /\ threads'[t] \in Handlers
  BY <1>2, <1>3, <1>4 DEF Handlers, Pcs
<1>6. OnlyIn(t) /\ Stays(t)
  BY <1>1, <1>2, <1>5 DEF OnlyIn, Stays
<1>7. Placed(t)'
  BY <1>1, <1>2, <1>5 DEF Placed, Is, At, File
<1>8. Knows(t)'
  BY <1>1, <1>2, <1>3, <1>5, Apart
  DEF Knows, HasBlock, Placed, Is, At, File, Id, BlockStays
<1> QED BY <1>1, <1>6, <1>7, <1>8, PlainStep DEF At

\* What is sent is what was written last.
LEMMA SendKeeps ==
    ASSUME ReadersOnly, ThreadsInv, NEW t \in Threads, Send(t)
    PROVE  ThreadsInv'
<1> DEFINE f == threads[t].path
           sent == IF cache[f] = ABSENT THEN EMPTY ELSE cache[f]
<1>1. /\ At(t, "uploading") /\ Inside(t)
      /\ UNCHANGED <<alive, status, lock, latest, cache_block, heap, tmp_buf, cache, openssl, overrun>>
      /\ remote' = [remote EXCEPT ![f] = sent]
      /\ threads' = [threads EXCEPT ![t].pc = "sent", ![t].got = cache[f]]
  BY DEF Send, At, Inside, files
<1>2. /\ File(t) \in Files /\ ~ Is(t, NULL) /\ Placed(t) /\ Knows(t)
      /\ threads \in [Threads -> Handlers] /\ threads[t] \in Handlers /\ DataOK
      /\ OwnBlocks
  BY <1>1, Here
<1>3. /\ f = File(t) /\ HasBlock(t) /\ heap[Id(t)].status = "MODIFIED"
      /\ Settled(f) /\ f \in Files
  BY <1>1, <1>2, AllSettled DEF Knows, At
<1>4. /\ cache[f] \in Contents /\ sent \in Contents
      /\ f \in overrun \/ sent = Whole(latest[f])
  <2>1. cache[f] \in Contents /\ latest[f] \in 0 .. MaxWrites
    BY <1>2, <1>3 DEF DataOK
  <2>2. f \in overrun \/ cache[f] = Whole(latest[f])
    BY <1>3 DEF Settled, BlockStatus, HasBlock, Owned
  <2> QED BY <2>1, <2>2, BytesOfWrite, Apart
<1> HIDE DEF sent
<1>5. /\ remote'[f] = sent /\ remote' \in [Files -> Contents]
      /\ \A g \in Files : g # f => remote'[g] = remote[g]
  BY <1>1, <1>2, <1>3, <1>4 DEF DataOK
<1> HIDE DEF f
<1>6. /\ OnlyIn(t) /\ Stays(t) /\ threads'[t].pc = "sent"
      /\ threads'[t].op = threads[t].op /\ threads'[t].file = threads[t].file
      /\ threads'[t].id = threads[t].id
  <2>1. threads'[t] = [threads[t] EXCEPT !.pc = "sent", !.got = cache[f]]
    BY <1>1, <1>2
  <2>2. /\ threads'[t].pc = "sent" /\ threads'[t] \in Handlers
        /\ threads'[t].op = threads[t].op /\ threads'[t].file = threads[t].file
        /\ threads'[t].id = threads[t].id
    BY <1>2, <1>4, <2>1 DEF Handlers, Pcs
  <2> QED BY <1>1, <1>2, <2>2 DEF OnlyIn, Stays
<1>7. ASSUME NEW g \in Files, g # File(t) PROVE Untouched(g)
  BY <1>1, <1>3, <1>5, <1>7 DEF Untouched, IsWritten
<1>8. ASSUME NEW g \in Files, g = f PROVE g \in overrun \/ InStep(g)'
  BY <1>1, <1>4, <1>5, <1>8 DEF InStep
<1>9. ASSUME NEW g \in Files, g = File(t) PROVE Agrees(g)'
  <2>1. (Owned(g)' <=> Owned(g)) /\ (Fresh(g)' <=> Fresh(g)) /\ BlockStatus(g)' = BlockStatus(g)
    BY <1>1 DEF Owned, Fresh, IsWritten, BlockStatus
  <2>2. Settled(g)'
    BY <1>1, <1>3, <1>8, <1>9, <2>1 DEF Settled
  <2> QED BY <2>2, SettledAgrees
<1>10. Pipes' /\ DataOK'
  BY <1>1, <1>2, <1>5, PipesStay DEF DataOK
<1>11. Placed(t)'
  BY <1>1, <1>2, <1>6 DEF Placed, Is, At, File
<1>12. Knows(t)'
  <2>1. HasBlock(t)' /\ File(t)' = File(t)
    BY <1>1, <1>3, <1>6 DEF HasBlock, Id, File
  <2>2. File(t) \in overrun \/ InStep(File(t))'
    BY <1>3, <1>8, <2>1
  <2> QED BY <1>1, <1>2, <1>6, <2>1, <2>2, Apart DEF Knows, Placed, Is, At, File
<1> QED BY <1>1, <1>2, <1>6, <1>7, <1>9, <1>10, <1>11, <1>12, StepInside DEF OwnBlocks

LEMMA SentKeeps ==
    ASSUME ReadersOnly, ThreadsInv, NEW t \in Threads, Sent(t)
    PROVE  ThreadsInv'
<1> DEFINE s == IF threads[t].got # ABSENT THEN "SYNCED" ELSE heap[Id(t)].status
           b == [heap[Id(t)] EXCEPT !.status = s]
<1>1. /\ At(t, "sent") /\ Inside(t) /\ BlockStays /\ Goes(t, "commit")
      /\ UNCHANGED <<lock, tmp_buf>>
      /\ heap' = [heap EXCEPT ![Id(t)].status = IF threads[t].got # ABSENT THEN "SYNCED" ELSE @]
  BY DEF Sent, At, Inside, files, data, BlockStays
<1>2. /\ File(t) \in Files /\ ~ Is(t, NULL) /\ Placed(t) /\ Knows(t)
      /\ threads \in [Threads -> Handlers] /\ threads[t] \in Handlers /\ DataOK
      /\ Settled(File(t))
  BY <1>1, Here, AllSettled DEF At
<1>3. /\ Id(t) = cache_block[File(t)] /\ Id(t) \in Ids /\ cache_block[File(t)] # NULL
      /\ heap[Id(t)] \in Blocks
      /\ File(t) \in overrun \/ InStep(File(t))
  BY <1>1, <1>2 DEF Knows, HasBlock, DataOK, At
<1>4. b \in Blocks /\ b.status = s
  BY <1>3 DEF Blocks
<1>5. heap' = [heap EXCEPT ![Id(t)] = b]
  BY <1>1, <1>2, <1>3 DEF DataOK
<1>6. s = "MODIFIED" => File(t) \in overrun \/ Owned(File(t))
  BY <1>2, <1>3, Apart DEF Settled, BlockStatus
<1>7. BlockBecomes(File(t), b)
  BY <1>3, <1>4, <1>5, <1>6 DEF BlockBecomes
<1> HIDE DEF b, s
<1>8. /\ OnlyIn(t) /\ Stays(t) /\ threads'[t].pc = "commit"
      /\ threads'[t].op = threads[t].op /\ threads'[t].file = threads[t].file
  BY <1>1, <1>2, GoesTo DEF OnlyIn, Stays, Pcs
<1>9. Placed(t)'
  BY <1>1, <1>2, <1>8 DEF Placed, Is, At, File
<1>10. Knows(t)'
  BY <1>1, <1>2, <1>3, <1>8, Apart DEF Knows, Placed, InStep, Is, At, File, BlockStays
<1> QED BY <1>1, <1>4, <1>7, <1>8, <1>9, <1>10, BlockKeeps DEF At

LEMMA CommitKeeps ==
    ASSUME ReadersOnly, ThreadsInv, NEW t \in Threads, Commit(t)
    PROVE  ThreadsInv'
<1>1. /\ At(t, "commit") /\ Inside(t) /\ Returns(t)
      /\ UNCHANGED <<alive, lock, latest, cache_block, heap, tmp_buf, cache, remote, openssl, overrun>>
      /\ status' = [status EXCEPT ![File(t)] = "SYNCED"]
  BY DEF Commit, At, Inside, data
<1>2. /\ File(t) \in Files /\ ~ Is(t, NULL) /\ Placed(t) /\ Knows(t)
      /\ threads \in [Threads -> Handlers] /\ threads[t] \in Handlers /\ DataOK
      /\ OwnBlocks /\ ~ Is(t, "read")
  <2>1. Is(t, "sync")
    BY <1>1, Here DEF Placed, At
  <2> QED BY <1>1, <2>1, Here DEF Is
<1>3. OnlyIn(t) /\ Leaves(t) /\ Placed(t)' /\ Knows(t)'
  <2>1. OnlyIn(t) /\ threads'[t] = Idle
    BY <1>1, <1>2, ReturnsTo DEF OnlyIn
  <2> QED BY <1>1, <1>2, <2>1, IdleKnows DEF Leaves
<1>4. ASSUME NEW f \in Files, f # File(t) PROVE Untouched(f)
  BY <1>1, <1>2, <1>4 DEF Untouched, DataOK, IsWritten
<1>5. ASSUME NEW f \in Files, f = File(t) PROVE Agrees(f)'
  <2>1. Settled(f) /\ (f \in overrun \/ InStep(f))
    BY <1>1, <1>2, <1>5, AllSettled DEF At, Knows
  <2>2. Settled(f)'
    BY <1>1, <2>1, DataStay DEF Settled, BlockStatus
  <2> QED BY <2>2, SettledAgrees
<1>6. Pipes' /\ DataOK'
  BY <1>1, <1>2, PipesStay DEF DataOK
<1> QED BY <1>1, <1>2, <1>3, <1>4, <1>5, <1>6, StepInside DEF OwnBlocks

\* The block is gone before the pointer to it is.
LEMMA DeleteKeeps ==
    ASSUME ReadersOnly, ThreadsInv, NEW t \in Threads, Delete(t)
    PROVE  ThreadsInv'
<1>1. /\ At(t, "delete") /\ Inside(t)
      /\ UNCHANGED <<alive, status, lock, latest, cache_block, remote, overrun>>
  BY DEF Delete, At, Inside, files
<1>2. /\ File(t) \in Files /\ ~ Is(t, NULL) /\ Placed(t) /\ Knows(t)
      /\ threads \in [Threads -> Handlers] /\ threads[t] \in Handlers /\ DataOK
      /\ OwnBlocks /\ Is(t, "clear") /\ ~ Is(t, "read")
  <2>1. Is(t, "clear")
    BY <1>1, Here DEF Placed, At
  <2> QED BY <1>1, <2>1, Here DEF Is
<1> DEFINE id == cache_block[File(t)]
<1>3. CASE Returns(t) /\ UNCHANGED <<heap, cache, openssl, tmp_buf>>
  <2>1. OnlyIn(t) /\ Leaves(t)
    BY <1>1, <1>2, <1>3, ReturnsTo DEF OnlyIn, Leaves
  <2>2. Placed(t)' /\ Knows(t)'
    BY <2>1, IdleKnows DEF Leaves
  <2> QED BY <1>1, <1>3, <2>1, <2>2, PlainStep DEF At, BlockStays
<1>4. CASE /\ id # NULL /\ heap[id] # NULL
           /\ heap' = [heap EXCEPT ![id] = NULL]
           /\ cache' = [cache EXCEPT ![File(t)] = ABSENT]
           /\ openssl' = Unlinked(File(t)) /\ tmp_buf' = File(t)
           /\ Goes(t, "reset")
  <2>1. /\ OnlyIn(t) /\ Stays(t) /\ threads'[t].pc = "reset"
        /\ threads'[t].op = threads[t].op /\ threads'[t].file = threads[t].file
    BY <1>1, <1>2, <1>4, GoesTo DEF OnlyIn, Stays, Pcs
  <2>2. /\ id \in Ids /\ heap'[id] = NULL /\ heap' \in [Ids -> Blocks \cup {NULL}]
        /\ \A i \in Ids : i # id => heap'[i] = heap[i]
        /\ cache'[File(t)] = ABSENT /\ cache' \in [Files -> Contents]
        /\ \A f \in Files : f # File(t) => cache'[f] = cache[f]
    BY <1>2, <1>4, Apart DEF DataOK
  <2>8. /\ openssl' \in [Pids -> Processes \cup {NULL}]
        /\ \A p \in Pids : openssl'[p] \in {NULL, openssl[p]}
    BY <1>2, <1>4 DEF Unlinked, DataOK
  <2>3. ASSUME NEW f \in Files, f # File(t) PROVE Untouched(f)
    <3>1. cache_block[f] # NULL => cache_block[f] # id /\ cache_block[f] \in Ids
      BY <1>2, <2>3 DEF OwnBlocks, DataOK
    <3>2. IsWritten(f)' => IsWritten(f)
      BY <2>8 DEF IsWritten
    <3> QED BY <1>1, <2>2, <2>3, <3>1, <3>2 DEF Untouched
  <2>4. ASSUME NEW f \in Files, f = File(t) PROVE Agrees(f)'
    <3>1. Resetting(f)'
      BY <2>1, <2>4 DEF Resetting, At, File
    <3>2. BlockStatus(f)' = "NOTDOWNLOADED"
      BY <1>1, <2>2, <2>4 DEF BlockStatus
    <3>3. Settled(f) /\ status[f] = "SYNCED"
      BY <1>1, <1>2, <2>4, AllSettled DEF At, Knows
    <3>4. Fresh(f)' /\ (InStep(f)' <=> InStep(f))
      BY <1>1, <2>2, <2>4 DEF Fresh, InStep
    <3> QED BY <1>1, <2>2, <2>4, <3>1, <3>2, <3>3, <3>4 DEF Agrees, Settled
  <2>5. Pipes' /\ DataOK'
    <3>1. Pipes'
      BY <1>1, <2>8 DEF ThreadsInv, Pipes
    <3> QED BY <1>1, <1>2, <1>4, <2>2, <2>8, <3>1 DEF DataOK
  <2>6. Placed(t)'
    BY <1>1, <1>2, <2>1 DEF Placed, Is, At, File
  <2>7. Knows(t)'
    BY <1>1, <1>2, <1>4, <2>1, <2>2, Apart DEF Knows, Placed, Is, At, File
  <2> QED BY <1>1, <1>2, <2>1, <2>3, <2>4, <2>5, <2>6, <2>7, StepInside DEF OwnBlocks
<1> QED BY <1>3, <1>4 DEF Delete

LEMMA ResetKeeps ==
    ASSUME ReadersOnly, ThreadsInv, NEW t \in Threads, Reset(t)
    PROVE  ThreadsInv'
<1>1. /\ At(t, "reset") /\ Inside(t) /\ Returns(t)
      /\ UNCHANGED <<alive, status, lock, latest, heap, tmp_buf, cache, remote, openssl, overrun>>
      /\ cache_block' = [cache_block EXCEPT ![File(t)] = NULL]
  BY DEF Reset, At, Inside, files, data
<1>2. /\ File(t) \in Files /\ ~ Is(t, NULL) /\ Placed(t) /\ Knows(t)
      /\ threads \in [Threads -> Handlers] /\ threads[t] \in Handlers /\ DataOK
      /\ OwnBlocks /\ Agrees(File(t)) /\ ~ Is(t, "read")
  <2>1. Is(t, "clear")
    BY <1>1, Here DEF Placed, At
  <2> QED BY <1>1, <2>1, Here DEF Is
<1>3. OnlyIn(t) /\ Leaves(t) /\ Placed(t)' /\ Knows(t)'
  <2>1. OnlyIn(t) /\ threads'[t] = Idle
    BY <1>1, <1>2, ReturnsTo DEF OnlyIn
  <2> QED BY <1>1, <1>2, <2>1, IdleKnows DEF Leaves
<1>4. /\ cache_block'[File(t)] = NULL /\ cache_block' \in [Files -> Ids \cup {NULL}]
      /\ \A f \in Files : f # File(t) => cache_block'[f] = cache_block[f]
  BY <1>1, <1>2 DEF DataOK
<1>5. ASSUME NEW f \in Files, f # File(t) PROVE Untouched(f)
  BY <1>1, <1>4, <1>5 DEF Untouched, IsWritten
<1>6. ASSUME NEW f \in Files, f = File(t) PROVE Agrees(f)'
  <2>1. BlockStatus(f) = "NOTDOWNLOADED" /\ ~ Marking(f)
    <3>1. BlockStatus(f) = "NOTDOWNLOADED"
      BY <1>1, <1>2, <1>6 DEF Knows, BlockStatus, At
    <3>2. ~ At(t, "mark")
      BY <1>1 DEF At
    <3> QED BY <1>1, <3>1, <3>2, NobodyElse
  <2>2. cache_block'[f] = NULL
    BY <1>4, <1>6
  <2>3. BlockStatus(f)' = "NOTDOWNLOADED"
    BY <2>2 DEF BlockStatus
  <2> QED BY <1>1, <1>2, <1>6, <2>1, <2>2, <2>3, DataStay DEF Agrees
<1>7. OwnBlocks'
  BY <1>2, <1>4 DEF OwnBlocks
<1>8. Pipes' /\ DataOK'
  BY <1>1, <1>2, <1>4, PipesStay DEF DataOK
<1> QED BY <1>1, <1>3, <1>5, <1>6, <1>7, <1>8, StepInside

LEMMA ReleaseKeeps ==
    ASSUME ReadersOnly, ThreadsInv, NEW t \in Threads, Release(t)
    PROVE  ThreadsInv'
<1>1. /\ At(t, "release") /\ Inside(t) /\ BlockStays /\ Returns(t)
      /\ UNCHANGED <<lock, tmp_buf>>
  BY DEF Release, At, Inside, files, data, BlockStays
<1>2. /\ File(t) \in Files /\ ~ Is(t, NULL) /\ Placed(t) /\ Knows(t)
      /\ threads \in [Threads -> Handlers] /\ threads[t] \in Handlers /\ DataOK
      /\ ~ Is(t, "read")
  <2>1. Is(t, "release")
    BY <1>1, Here DEF Placed, At
  <2> QED BY <1>1, <2>1, Here DEF Is
<1>3. OnlyIn(t) /\ Leaves(t) /\ Placed(t)' /\ Knows(t)'
  <2>1. OnlyIn(t) /\ threads'[t] = Idle
    BY <1>1, <1>2, ReturnsTo DEF OnlyIn
  <2> QED BY <1>1, <1>2, <2>1, IdleKnows DEF Leaves
<1> DEFINE id == cache_block[File(t)]
           b == [heap[id] EXCEPT !.fp = FALSE]
<1>4. CASE id = NULL /\ UNCHANGED heap
  BY <1>1, <1>3, <1>4, PlainStep DEF At
<1>5. CASE id # NULL /\ heap[id] # NULL /\ heap' = [heap EXCEPT ![id].fp = FALSE]
  <2>1. id \in Ids /\ heap[id] \in Blocks
    BY <1>2, <1>5 DEF DataOK
  <2>2. b \in Blocks /\ b.status = heap[id].status
    BY <2>1 DEF Blocks
  <2>3. heap' = [heap EXCEPT ![id] = b]
    BY <1>2, <1>5, <2>1 DEF DataOK
  <2>4. Settled(File(t))
    BY <1>1, <1>2, AllSettled DEF At
  <2>5. BlockBecomes(File(t), b)
    BY <1>5, <2>2, <2>3, <2>4 DEF BlockBecomes, Settled, BlockStatus
  <2> HIDE DEF b
  <2> QED BY <1>1, <1>3, <2>2, <2>5, BlockKeeps DEF At
<1> QED BY <1>4, <1>5 DEF Release

\* A step that leaves the blocks and the data of the files alone.
LEMMA FilesAgree ==
    ASSUME ThreadsInv,
           UNCHANGED <<cache_block, heap, cache, remote, latest, openssl, overrun>>,
           \A f \in Files : status'[f] = "SYNCED" => status[f] = "SYNCED",
           \A u \in Threads : At(u, "mark") \/ At(u, "reset") => threads'[u] = threads[u]
    PROVE  \A f \in Files : Agrees(f)'
<1> SUFFICES ASSUME NEW f \in Files PROVE Agrees(f)'
  OBVIOUS
<1>1. Agrees(f)
  BY DEF ThreadsInv
<1>2. (Marking(f) => Marking(f)') /\ (Resetting(f) => Resetting(f)')
  BY DEF Marking, Resetting, At, File
<1>3. BlockStatus(f)' = BlockStatus(f)
  BY DEF BlockStatus
<1> HIDE DEF ThreadsInv
<1> QED BY <1>1, <1>2, <1>3, DataStay DEF Agrees

\* The mutex is taken when no other reader of the file is inside.
LEMMA LockKeeps ==
    ASSUME ReadersOnly, ThreadsInv, NEW t \in Threads, Lock(t)
    PROVE  ThreadsInv'
<1>1. /\ At(t, "lock") /\ lock[File(t)] = NULL /\ Goes(t, "find")
      /\ lock' = [lock EXCEPT ![File(t)] = t]
      /\ UNCHANGED <<alive, status, cache_block, heap, tmp_buf, latest, cache, remote, openssl, overrun>>
  BY DEF Lock, data
<1>2. /\ \A u \in Threads : Placed(u) /\ Knows(u)
      /\ threads \in [Threads -> Handlers] /\ DataOK /\ OwnBlocks /\ Alone /\ Pipes
      /\ \A f \in Files : lock[f] # NULL => Is(lock[f], "read") /\ File(lock[f]) = f
  BY DataTypes DEF ThreadsInv, Types, TypeOK
<1>3. Is(t, "read") /\ File(t) \in Files
  BY <1>1, <1>2, Apart DEF Placed, At, Is, Ops
<1>4. /\ threads' \in [Threads -> Handlers]
      /\ \A u \in Threads : u # t => threads'[u] = threads[u]
      /\ threads'[t].pc = "find"
      /\ threads'[t].op = threads[t].op /\ threads'[t].file = threads[t].file
  BY <1>1, <1>2, GoesTo DEF Pcs
<1>5. /\ lock'[File(t)] = t /\ lock' \in [Files -> Threads \cup {NULL}]
      /\ \A f \in Files : f # File(t) => lock'[f] = lock[f]
  BY <1>1, <1>2, <1>3 DEF DataOK
<1>6. ASSUME NEW f \in Files, lock'[f] # NULL
      PROVE  Is(lock[f], "read")' /\ File(lock[f])' = f /\ Inside(lock[f])'
  <2>1. CASE f = File(t)
    BY <1>3, <1>4, <1>5, <2>1 DEF Is, File, Inside, At
  <2>2. CASE f # File(t)
    <3>1. lock'[f] = lock[f] /\ lock[f] \in Threads /\ Is(lock[f], "read") /\ File(lock[f]) = f
          /\ Inside(lock[f])
      BY <1>2, <1>5, <1>6, <2>2 DEF DataOK, Alone
    <3>2. lock[f] # t
      BY <1>1, <3>1 DEF Inside, At
    <3> QED BY <1>4, <3>1, <3>2 DEF Is, File, Inside, At
  <2> QED BY <2>1, <2>2
<1>7. \A u \in Threads : Placed(u)'
  BY <1>1, <1>2, <1>3, <1>4 DEF Placed, Is, At, File
<1>8. Types'
  <2>1. \A u \in Threads : /\ threads'[u].op \in Ops \cup {NULL}
                           /\ threads'[u].file \in Files \cup {NULL}
                           /\ threads'[u].id \in Ids \cup {NULL}
    BY <1>4 DEF Handlers
  <2>2. DataOK'
    BY <1>1, <1>2, <1>5 DEF DataOK
  <2>3. TypeOK'
    BY <1>6, <2>1, <2>2 DEF TypeOK, DataOK, Is, File
  <2> QED BY <1>4, <1>7, <2>3 DEF Types
<1>9. Alone'
  <2>1. \A u \in Threads : Is(u, NULL)' = Is(u, NULL) /\ Is(u, "read")' = Is(u, "read")
    BY <1>4 DEF Is
  <2>2. ASSUME NEW u \in Threads, Is(u, "read")', Inside(u)' PROVE lock'[File(u)'] = u
    <3>1. CASE u = t
      BY <1>4, <1>5, <3>1 DEF File
    <3>2. CASE u # t
      <4>1. Is(u, "read") /\ Inside(u) /\ File(u)' = File(u)
        BY <1>4, <2>1, <2>2, <3>2 DEF Inside, At, File
      <4>2. lock[File(u)] = u /\ File(u) \in Files
        BY <1>2, <4>1, Apart DEF Alone, Placed, Is, Ops
      <4>3. File(u) # File(t)
        BY <1>1, <4>2, Apart
      <4> QED BY <1>5, <4>1, <4>2, <4>3
    <3> QED BY <3>1, <3>2
  <2> QED BY <1>2, <1>6, <2>1, <2>2 DEF Alone, Is, Inside, At, File
<1>10. Pipes'
  BY <1>1, PipesStay
<1>11. ASSUME NEW u \in Threads PROVE Knows(u)'
  <2>1. CASE u = t
    BY <1>1, <1>3, <1>4, <2>1, Apart DEF Knows, Is, At, File
  <2>2. CASE u # t
    <3>1. Knows(u) /\ threads'[u] = threads[u]
      BY <1>2, <1>4, <2>2
    <3> QED BY <1>1, <3>1
        DEF Knows, HasBlock, InStep, Owned, IsWritten, Is, At, File, Id
  <2> QED BY <2>1, <2>2
<1>12. \A f \in Files : Agrees(f)'
  <2>1. \A u \in Threads : At(u, "mark") \/ At(u, "reset") => threads'[u] = threads[u]
    BY <1>1, <1>4 DEF At
  <2> QED BY <1>1, <2>1, FilesAgree
<1> QED BY <1>1, <1>2, <1>8, <1>9, <1>10, <1>11, <1>12 DEF ThreadsInv, OwnBlocks

\* A handler starts when nothing runs that may not run with it.
LEMMA StartKeeps ==
    ASSUME ReadersOnly, ThreadsInv, NEW t \in Threads, NEW op \in Ops, NEW f \in Files,
           Start(t, op, f)
    PROVE  ThreadsInv'
<1> DEFINE started == [Idle EXCEPT !.op = op, !.pc = FirstStep(op), !.file = f]
<1>1. /\ At(t, "idle")
      /\ \A u \in Threads \ {t} : threads[u].op # NULL => {op, threads[u].op} \in Together
      /\ op = "write" => latest[f] < MaxWrites
      /\ op = "clear" => status[f] = "SYNCED"
      /\ status' = [status EXCEPT ![f] = IF op = "write" THEN "MODIFIED" ELSE @]
      /\ threads' = [threads EXCEPT ![t] = started]
      /\ UNCHANGED <<alive, cache_block, lock, heap, tmp_buf, latest, cache, remote, openssl, overrun>>
  BY DEF Start, data
<1>2. /\ \A u \in Threads : Placed(u) /\ Knows(u)
      /\ threads \in [Threads -> Handlers] /\ DataOK /\ OwnBlocks /\ Alone /\ Pipes
      /\ \A g \in Files : lock[g] # NULL => Is(lock[g], "read") /\ File(lock[g]) = g
  BY DataTypes DEF ThreadsInv, Types, TypeOK
<1>3. /\ FirstStep(op) \in Pcs \ {"idle"}
      /\ op = "read" => FirstStep(op) = "lock"
      /\ op = "write" => FirstStep(op) = "find"
      /\ op = "sync" => FirstStep(op) = "check"
      /\ op = "clear" => FirstStep(op) = "delete"
      /\ op = "release" => FirstStep(op) = "release"
      /\ op \in {"read", "write", "sync", "clear", "release"}
  BY DEF FirstStep, Ops, Pcs
<1>4. /\ started \in Handlers
      /\ started.op = op /\ started.pc = FirstStep(op) /\ started.file = f
  BY <1>3, Apart DEF Idle, Handlers
<1> HIDE DEF started
<1>5. /\ threads'[t].op = op /\ threads'[t].pc = FirstStep(op) /\ threads'[t].file = f
      /\ threads' \in [Threads -> Handlers]
      /\ \A u \in Threads : u # t => threads'[u] = threads[u]
  BY <1>1, <1>2, <1>4
<1>6. ASSUME NEW u \in Threads, u # t, ~ Is(u, NULL)
      PROVE  op = "read" /\ Is(u, "read") /\ {"read"} \in Together
  <2>1. {op, threads[u].op} \in {{"read"}} /\ {op, threads[u].op} \in Together
    BY <1>1, <1>6 DEF Is, ReadersOnly
  <2>2. op = "read" /\ threads[u].op = "read"
    BY <2>1
  <2> QED BY <2>1, <2>2 DEF Is
<1>7. /\ \A u \in Threads : u # t => Is(u, NULL)' = Is(u, NULL) /\ Is(u, "read")' = Is(u, "read")
      /\ ~ Is(t, NULL)'
  BY <1>5, Apart DEF Is
<1>8. op # "write" => status' = status
  BY <1>1, <1>2 DEF DataOK
<1>9. Placed(t)' /\ \A u \in Threads : Placed(u)'
  <2>1. Placed(t)'
    BY <1>3, <1>5, Apart DEF Placed, Is, At, File
  <2> QED BY <1>2, <1>5, <2>1 DEF Placed, Is, At, File
<1>10. ASSUME NEW g \in Files, lock[g] # NULL
       PROVE  lock[g] # t /\ Is(lock[g], "read")' /\ File(lock[g])' = g /\ Inside(lock[g])'
  <2>1. lock[g] \in Threads /\ Is(lock[g], "read") /\ File(lock[g]) = g /\ Inside(lock[g])
    BY <1>2, <1>10 DEF DataOK, Alone
  <2>2. lock[g] # t
    BY <1>1, <2>1 DEF Inside, At
  <2> QED BY <1>1, <1>5, <2>1, <2>2 DEF Is, File, Inside, At
<1>11. Types'
  <2>1. \A u \in Threads : /\ threads'[u].op \in Ops \cup {NULL}
                           /\ threads'[u].file \in Files \cup {NULL}
                           /\ threads'[u].id \in Ids \cup {NULL}
    BY <1>5 DEF Handlers
  <2>2. DataOK'
    BY <1>1, <1>2 DEF DataOK
  <2>3. TypeOK'
    BY <1>1, <1>10, <2>1, <2>2 DEF TypeOK, DataOK, Is, File
  <2> QED BY <1>5, <1>9, <2>3 DEF Types
<1>12. Alone'
  <2>1. ASSUME NEW u \in Threads, NEW v \in Threads, u # v, ~ Is(u, NULL)', ~ Is(v, NULL)'
        PROVE  Is(u, "read")' /\ Is(v, "read")' /\ {"read"} \in Together
    <3>1. CASE u # t /\ v # t
      BY <1>2, <1>7, <2>1, <3>1 DEF Alone
    <3>2. CASE u = t
      BY <1>5, <1>6, <1>7, <2>1, <3>2 DEF Is
    <3>3. CASE v = t
      BY <1>5, <1>6, <1>7, <2>1, <3>3 DEF Is
    <3> QED BY <3>1, <3>2, <3>3
  <2>2. ASSUME NEW u \in Threads, Is(u, "read")', Inside(u)' PROVE lock'[File(u)'] = u
    <3>1. u # t
      BY <1>3, <1>5, <2>2 DEF Is, Inside, At
    <3> QED BY <1>1, <1>2, <1>5, <2>2, <3>1 DEF Alone, Is, Inside, At, File
  <2> QED BY <1>1, <1>10, <2>1, <2>2 DEF Alone, Is, Inside, At, File
<1>13. Pipes'
  BY <1>1, PipesStay
<1>14. ASSUME NEW u \in Threads PROVE Knows(u)'
  <2>1. CASE u = t
    <3>1. op = "write" => status'[f] = "MODIFIED"
      BY <1>1, <1>2 DEF DataOK
    <3> QED BY <1>1, <1>3, <1>5, <1>8, <2>1, <3>1 DEF Knows, Is, At, File
  <2>2. CASE u # t /\ op = "write"
    <3>1. Is(u, NULL)'
      BY <1>6, <1>7, <2>2
    <3>2. ~ Inside(u)'
      BY <1>9, <3>1 DEF Placed, Inside
    <3> QED BY <1>9, <3>2, OutsideKnowsNext
  <2>3. CASE u # t /\ op # "write"
    <3>1. Knows(u) /\ threads'[u] = threads[u] /\ status' = status
      BY <1>2, <1>5, <1>8, <2>3
    <3> QED BY <1>1, <3>1
        DEF Knows, HasBlock, InStep, Owned, IsWritten, Is, At, File, Id
  <2> QED BY <2>1, <2>2, <2>3
<1>15. \A g \in Files : Agrees(g)'
  <2>1. \A u \in Threads : At(u, "mark") \/ At(u, "reset") => threads'[u] = threads[u]
    BY <1>1, <1>5 DEF At
  <2>2. \A g \in Files : status'[g] = "SYNCED" => status[g] = "SYNCED"
    BY <1>1, <1>2 DEF DataOK
  <2> QED BY <1>1, <2>1, <2>2, FilesAgree
<1> QED BY <1>1, <1>2, <1>11, <1>12, <1>13, <1>14, <1>15 DEF ThreadsInv, OwnBlocks

-----------------------------------------------------------------------------
(***************************************************************************)
(* The invariant holds.                                                    *)
(***************************************************************************)
LEMMA ThreadsStart == ASSUME Init PROVE ThreadsInv
<1>1. DataOK /\ threads \in [Threads -> Handlers]
  <2>1. Whole(0) \in Contents /\ 0 \in 0 .. MaxWrites
    BY Apart, BytesOfWrite
  <2> QED BY <2>1, Apart DEF Init, DataOK
<1>2. \A t \in Threads : threads[t] = Idle
  BY DEF Init
<1>3. \A t \in Threads : Placed(t) /\ ~ Inside(t)
  BY <1>2, Apart DEF Placed, Inside, Is, At
<1>4. \A f \in Files : lock[f] = NULL /\ cache_block[f] = NULL
  BY DEF Init
<1>5. Types
  <2>1. \A t \in Threads : /\ threads[t].op \in Ops \cup {NULL}
                           /\ threads[t].file \in Files \cup {NULL}
                           /\ threads[t].id \in Ids \cup {NULL}
    BY <1>1 DEF Handlers
  <2> QED BY <1>1, <1>3, <1>4, <2>1 DEF Types, TypeOK, DataOK
<1>6. Alone
  BY <1>2, <1>3, <1>4, Apart DEF Alone, Is
<1>7. \A t \in Threads : Knows(t)
  BY <1>3, OutsideKnows
<1>8. \A f \in Files : Agrees(f)
  <2>1. \A f \in Files : InStep(f) /\ Fresh(f) /\ BlockStatus(f) = "NOTDOWNLOADED"
    BY <1>4 DEF Init, InStep, Fresh, BlockStatus
  <2> QED BY <1>4, <2>1 DEF Agrees
<1>9. OwnBlocks /\ Pipes
  BY <1>4 DEF OwnBlocks, Pipes, Init
<1> QED BY <1>5, <1>6, <1>7, <1>8, <1>9 DEF ThreadsInv

\* A step that changes nothing but the life of the process.
LEMMA NothingKeeps ==
    ASSUME ThreadsInv, alive' \in BOOLEAN,
           UNCHANGED <<status, cache_block, lock, heap, tmp_buf, cache, remote, latest,
                       openssl, threads, overrun>>
    PROVE  ThreadsInv'
<1>1. \A f \in Files : (Marking(f)' <=> Marking(f)) /\ (Resetting(f)' <=> Resetting(f))
  BY DEF Marking, Resetting, At, File
<1>2. \A f \in Files : Agrees(f)'
  BY <1>1, DataStay DEF ThreadsInv, Agrees, BlockStatus
<1>3. ASSUME NEW t \in Threads PROVE Knows(t)'
  BY DEF ThreadsInv, Knows, HasBlock, InStep, Owned, IsWritten, Is, At, File, Id
<1>4. Types' /\ Alone' /\ OwnBlocks'
  BY DEF ThreadsInv, Types, TypeOK, Placed, Alone, OwnBlocks, Inside, Is, At, File
<1> QED BY <1>2, <1>3, <1>4, PipesStay DEF ThreadsInv

LEMMA DeathKeeps ==
    ASSUME ThreadsInv, NEW t \in Threads, Dies(t)
    PROVE  ThreadsInv'
BY NothingKeeps DEF Dies, data

LEMMA ThreadsKeep == ReadersOnly /\ ThreadsInv /\ [Next]_vars => ThreadsInv'
<1> SUFFICES ASSUME ReadersOnly, ThreadsInv, [Next]_vars PROVE ThreadsInv'
  OBVIOUS
<1>1. ASSUME NEW t \in Threads, Step(t) PROVE ThreadsInv'
  <2>1. CASE Lock(t) \/ Test(t) \/ Make(t) \/ Use(t) \/ Download(t) \/ Measure(t) \/ Open(t)
    BY <2>1, LockKeeps, TestKeeps, MakeKeeps, UseKeeps, DownloadKeeps, MeasureKeeps, OpenKeeps
  <2>2. CASE ReadBytes(t) \/ Unlock(t) \/ WriteBytes(t) \/ Mark(t)
    BY <2>2, ReadBytesKeeps, UnlockKeeps, WriteBytesKeeps, MarkKeeps
  <2>3. CASE Check(t) \/ Upload(t) \/ Send(t) \/ Sent(t) \/ Commit(t)
    BY <2>3, CheckKeeps, UploadKeeps, SendKeeps, SentKeeps, CommitKeeps
  <2>4. CASE Delete(t) \/ Reset(t) \/ Release(t)
    BY <2>4, DeleteKeeps, ResetKeeps, ReleaseKeeps
  <2>5. CASE Dies(t)
    BY <2>5, DeathKeeps
  <2> QED BY <1>1, <2>1, <2>2, <2>3, <2>4, <2>5 DEF Step
<1>2. ASSUME NEW t \in Threads, NEW op \in Ops, NEW f \in Files, Start(t, op, f)
      PROVE  ThreadsInv'
  BY <1>2, StartKeeps
<1>3. ASSUME NEW p \in Pids, OpensslOpens(p) \/ OpensslWrites(p) \/ OpensslEnds(p)
      PROVE  ThreadsInv'
  BY <1>3, OpensslKeeps
<1>4. CASE UNCHANGED vars
  <2>1. alive' \in BOOLEAN
    BY <1>4 DEF ThreadsInv, Types, TypeOK, vars
  <2> QED BY <1>4, <2>1, NothingKeeps DEF vars
<1> QED BY <1>1, <1>2, <1>3, <1>4 DEF Next, Openssl

\* The inductive invariant of the threads.
LEMMA ThreadsInvariant == ReadersOnly => (Spec => []ThreadsInv)
<1> SUFFICES ASSUME ReadersOnly PROVE Spec => []ThreadsInv
  OBVIOUS
<1>1. Init => ThreadsInv
  BY ThreadsStart
<1>2. ThreadsInv /\ [Next]_vars => ThreadsInv'
  BY ThreadsKeep
<1> QED BY <1>1, <1>2, PTL DEF Spec

(***************************************************************************)
(* Types of the shared state, with the owner of each mutex: it is a read() *)
(* of that very file.  The bound on the writes needs that they are alone.  *)
(***************************************************************************)
THEOREM ThreadTypes == ReadersOnly => (Spec => []TypeOK)
<1> SUFFICES ASSUME ReadersOnly PROVE Spec => []TypeOK
  OBVIOUS
<1>1. ThreadsInv => TypeOK
  BY DEF ThreadsInv, Types
<1> QED BY <1>1, ThreadsInvariant, PTL

(***************************************************************************)
(* The "handling of concurrency of cache blocks" that dfs_file.cpp:422     *)
(* asks for is there as long as only reads overlap: no step of a handler   *)
(* goes through a block that clear_cache() has deleted, and its FILE is    *)
(* open between open() and the bytes, however many readers wait.           *)
(***************************************************************************)
THEOREM NoBlockDangles == ReadersOnly => (Spec => []NoDangling)
<1> SUFFICES ASSUME ReadersOnly PROVE Spec => []NoDangling
  OBVIOUS
<1>1. ASSUME ThreadsInv, NEW t \in Threads
      PROVE  /\ Touched(t) # NULL => heap[Touched(t)] # NULL
             /\ threads[t].pc \in {"use", "mark"} => Touched(t) # NULL
             /\ At(t, "io") => HasFp(t)
  <2>1. CASE ~ Inside(t)
    BY <2>1 DEF Inside, Touched, At
  <2>2. CASE Inside(t)
    <3>1. Knows(t) /\ Placed(t) /\ File(t) \in Files
      BY <1>1, <2>2, Here
    <3>2. CASE threads[t].pc \in {"download", "measure", "open", "io", "sent"}
      BY <3>1, <3>2 DEF Knows, HasBlock, Touched, HasFp, Exists, At
    <3>3. CASE threads[t].pc \in {"use", "mark"}
      BY <3>1, <3>3 DEF Knows, Touched, At
    <3>4. CASE threads[t].pc \in {"check", "delete", "release"}
      <4>1. Settled(File(t))
        BY <1>1, <2>2, <3>1, <3>4, AllSettled DEF At
      <4> QED BY <3>4, <4>1 DEF Settled, Touched, At
    <3>5. CASE threads[t].pc \notin {"use", "download", "measure", "open", "io", "sent", "mark",
                                     "check", "delete", "release"}
      BY <3>5 DEF Touched, At
    <3> QED BY <3>2, <3>3, <3>4, <3>5 DEF At
  <2> QED BY <2>1, <2>2
<1>2. ThreadsInv => NoDangling
  BY <1>1 DEF NoDangling
<1> QED BY <1>2, ThreadsInvariant, PTL

(***************************************************************************)
(* A read() returns bytes of the last write or none, at most a part of     *)
(* them while an openssl is at work or when a download failed, and never   *)
(* those of an earlier write: the mutex is enough for that between         *)
(* readers, although nobody waits for openssl.                             *)
(***************************************************************************)
THEOREM ReadersReadLatest == ReadersOnly => (Spec => []ReadersSeeLatest)
<1> SUFFICES ASSUME ReadersOnly PROVE Spec => []ReadersSeeLatest
  OBVIOUS
<1>1. ThreadsInv => ReadersSeeLatest
  BY DEF ThreadsInv, Knows, ReadersSeeLatest, At
<1> QED BY <1>1, ThreadsInvariant, PTL

(***************************************************************************)
(* No write is lost that the user did not make while an openssl wrote the  *)
(* file: until DfsFile::upload() the cache file has all of it, which no    *)
(* openssl will touch, and a file is SYNCED only when the storages do.     *)
(***************************************************************************)
THEOREM NoWriteIsLost == ReadersOnly => (Spec => []WritesKept)
<1> SUFFICES ASSUME ReadersOnly PROVE Spec => []WritesKept
  OBVIOUS
<1>1. ASSUME ThreadsInv, NEW f \in Files, f \notin overrun
      PROVE  /\ Whole(latest[f]) \in {cache[f], remote[f]}
             /\ status[f] = "SYNCED" => remote[f] = Whole(latest[f])
  <2>1. Agrees(f)
    BY <1>1 DEF ThreadsInv
  <2>2. Marking(f) => Owned(f)
    BY <1>1 DEF ThreadsInv, Knows, Marking
  <2> QED BY <1>1, <2>1, <2>2 DEF Agrees, Owned, InStep
<1>2. ThreadsInv => WritesKept
  BY <1>1 DEF WritesKept
<1> QED BY <1>2, ThreadsInvariant, PTL
=============================================================================

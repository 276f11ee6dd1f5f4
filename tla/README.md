# A verification of FUNS, a file system over unreliable network storages

FUNS (`src/fuse/src`) is a FUSE file system whose files live on `n` storages
that are reached with curl. A file is cut into blocks; a block is a local cache
file that openssl encrypts and a Reed-Solomon code splits into `n` shares, of
which any `k` restore it. This directory holds TLA+ models of the program, the
TLC configurations that check them and proofs for TLAPS.

## 1. Inventory

| Component | State it keeps | Operations | Talks to |
|---|---|---|---|
| FUSE handlers, `dfs_fuse.cpp` | the configuration (`my_n`, `my_k`, `my_blocksize`, `my_server`), `dfsDir` | init, destroy, create, open, read, write, truncate, unlink, release, getattr, readdir | `DfsDir`, `DfsFile`, device commands |
| Device commands, `dev_cmd.cpp` | `dev_size` | `sync`, `clear`, `bsize`, the listing | `DfsFile` |
| `DfsDir`, `dfs_file.cpp` | an array of files, some of them REMOVED | find, add, save, load, unlink | `DfsFile`, `root.dir` |
| `DfsFile`, `dfs_file.cpp` | status, size, `last_block_index`, `last_enc_size`, `block_enc_size`, `cache_block`, a mutex | create, load, save, read, write, truncate, upload, unlink | `DfsBlock` |
| `DfsBlock`, `dfs_file.cpp` | status, the open cache file | upload, download, read, write, truncate | `upload_file`, `download_file` |
| Transfer commands, `command.cpp`, `updown_command.cpp` | the command lines | `upload_file`, `download_file` | openssl, the two engines |
| Upload engine, `upload.cpp` | per storage: pipe, share file, `write_count` | `upload` | curl, `split`, asynchronous close |
| Download engine, `download.cpp`, `download_buffer.cpp` | per storage: status, ring, `read_total`; `processed_total` | `download` and the methods of `BufferPool`, `DownloadBuffer` | curl, `merge`, asynchronous close |
| Asynchronous close, `async_pclose.cpp` | a table of threads, two counters, a mutex | `async_pclose`, `close_it` | pclose |
| Shared codec, `merge_split.cpp` | one static `Distribute`, a mutex | `merge`, `split` | `Distribute` |
| `Distribute`, `rs.cpp`, `berlekamp.cpp`, `galois.cpp` | generator polynomial, tables | encode, decode, reset | |
| Configuration, `parse_conf.cpp` | a table of keys | load, get, count | |

`rs_config.cpp` is not used, `debug.cpp` prints.

What is hard, and what correctness means:

* **Cache and header.** A byte that the user wrote must be, until it is
  overwritten or truncated away, either in the local cache of its block or in
  the storages. Four statuses (of the file, of the block), three header fields
  and the cache array are maintained by different handlers; a download, an
  upload or the process may fail between them. `clear` and the unmount delete
  cache files on the word of the file's status.
* **Download.** `n` streams run at different speeds, stall, break off, or hold
  an error page. Rows must be merged from bytes of the same row, from at least
  `k` streams, and the loop must end when `k` storages are good.
* **Upload.** The same loop for writing; it must end, and say whether enough
  storages have the block.
* **Threads.** FUSE calls handlers in several threads. `DfsFile::read` takes a
  mutex, nothing else does; the closing threads and the static coder are shared.
* **Directory.** Names, REMOVED entries and slots through create, unlink,
  unmount and mount.

The hazards, each at its line, are listed in `PROJECT.json`.

## 2. Plan

Ordered by how much of the system's promise rests on the part.

1. `DfsFile`: cache, header and `root.dir` line of one file. *Done, all properties proved.*
2. `Download`: the download engine. *Done, all safety proved.*
3. `DfsDir`: names, slots, REMOVED entries, save and load, and `Namespace`, the
   map from names to files that it implements. *Done, refinement proved.*
4. `DfsThreads`: the handlers of a file cut where other threads can run. *Done,
   all safety proved.*
5. `AsyncClose` and `Upload`: the pool of closing threads, and the writing loop
   that uses it. *Done, all safety proved.*
6. `ReedSolomon` and `Codec`: the coder, and the transfers that share it. *Done,
   all properties proved, the correctness of the coder included.*
7. `DownloadBuffer`: the ring with its pointer, shown to implement the byte
   counts of `Download`. *Not done.*
8. `DfsThreads` shown to implement `DfsFile` when every handler runs alone. *Not
   done: the two represent contents differently (write numbers and freshness bits).*

`Upload` is composed with `AsyncClose` (it EXTENDS it and its steps are steps of
the pool), `Codec` is built on `ReedSolomon`, `DfsDir` refines `Namespace`.
`DfsFile` abstracts the engines by the sets `DownloadResults` and
`UploadResults`; which outcomes belong there is what `Download`, `Upload` and
`Codec` say: a stream that ends early (`partial`), none (`none`), a close whose
result nobody sees (`lost`), an exception (`throw`, `ruin`).

## 3. The modules

### DfsFile

One file, with the handlers as atomic steps (FUSE run with one thread). Its
variables are the fields of `DfsFile`; a block of `cache_block` is its status, the
length of its cache file, and a bit `cur`. `remote` is what `k` storages together
hold of each block, `root_dir` the file's line in `root.dir`, `mounted` whether
the program runs, was unmounted, or died (`"dead"`). `garbage` has the indices of
`cache_block` that `DfsFile(FILE *)` left as the heap had them. A handler that touches
only other indices works as if nothing was wrong, a sync included; one that follows a
garbage pointer ends the process, and so does a destructor, perhaps long after
the storages have taken longer blocks than the old line of `root.dir` says. A sync, which
looks at the status of every block, dies of a garbage index or takes it for a block that
is not MODIFIED and passes it by.

`cur`, `known` and `written` are history that no code reads. `cur` of a copy says that it
has the latest value of *all* bytes of the block that the user wrote and did not
truncate away; `written` is the set of blocks that have such bytes. A write
clears `cur` of the storages' copy and keeps or sets that of the cache; a
truncation forgets blocks that have no bytes of the user left. So
"the latest bytes are somewhere" is a property of single bits, and no contents
need be represented. `known` of a stored copy says who knows its encrypted length:
the process that stored it (`memory`), the line of `root.dir` after the unmount, or nobody,
when the process died first or took the upload for a failure.

| Action | Code |
|---|---|
| `Create` | `dfs_create`, `dfs_open` for writing, `DfsFile(const char *, ...)` |
| `Write`, `Touched` | `dfs_write`, `DfsFile::write`, `DfsBlock::write` with its download |
| `Read` | `dfs_read`, `DfsFile::read`, `DfsBlock::read` with its download |
| `Truncate` | `dfs_truncate`, `DfsFile::truncate`, `DfsBlock::truncate` |
| `Sync` | `write_sync`, `DfsFile::upload`, `DfsBlock::upload`, `upload_file` |
| `Clear` | `clear_cache` |
| `Unmount` | `dfs_destroy`, `DfsDir::save`, `DfsFile::save`, the destructors |
| `Crash` | the process dies between handlers or in one, of a garbage pointer or otherwise, or in `dfs_destroy` after `root.dir` was truncated |
| `Mount` | `dfs_init`, `DfsDir::load`, `DfsFile(FILE *)` |

Encrypted lengths matter because `download()` stops after the recorded one:
`CipherLen` and `CutLen` say what openssl makes of a length and of a cut stream.
A storage failure is an element of `DownloadResults` (`ok`, `none`, `partial`) or
`UploadResults` (`ok`; `lost`: acknowledged and not stored; `empty`: openssl wrote
nothing; `error`: stored, then `pclose` failed; `throw` and `ruin`: more than `n - k`
storages could not be started, the exception ends the process, and those that were started
hold the magic and nothing else; at least `k` others have their old shares with
`throw`, fewer with `ruin`).

Left out: storages of which some have the old shares of a block and some the new;
failures of the local file system; cache files that survive a crash
of the program; junk that openssl writes beyond the user's bytes when the
code's padding is not cut off; the number of bytes a read returns.

### DfsDir and Namespace

All files, of each only what decides about its directory entry: name, status,
whether it is empty and whether it has cached blocks. `files` is the array of
slots; `Find` is `DfsDir::find`, the first entry of a name, REMOVED or not;
`Create` takes the first free slot, or none when the directory is full, which
`dfs_create` does not notice; `Unlink` frees the slot of a file that was never
uploaded and marks any other REMOVED. Nothing keeps a user from creating a name
again that was unlinked: `Create` then takes the first free slot, and if the REMOVED
entry comes before it, lookups do not find the new file, while `dfs_readdir` lists
it, and it may be created once more. Two variables are history: `id` tells the
files that had a name one after the other apart, and `hidden` has the ids of those
created behind a REMOVED entry.

The unmount is not one step. `BeginSave` truncates `root.dir`; `SaveSlot` is one
round of the loop of `save`, with the upload that may succeed, fail or throw; the
lines stay in the buffer of the FILE, which `save` does not close, until `Exit`, after
the destructors, which delete the blocks of an unlinked file for the second time
(`DeletesTwice`). The process may be killed anywhere (`Crash`); while it
saves, `root.dir` is then any beginning of the lines (`Tears`), as many as
full buffers were written.

`Namespace` is what a user can rely on: the files that exist, those that their names
lead to, and a run of the program as a transaction on both (`Create`, `Remove`,
`Commit`, `Abort`). Only a run that dies in its unmount is `torn`: it may lose files,
and brings none back. A file may be hidden, that is, exist without its name leading
to it, only when its name was unlinked in the same run; the commit keeps it all the
same, and each name leads to one of its files afterwards, to the one it leads to
now if there is one. The mapping: `files` and `dir` are the live entries and those
that lookups find, and `root.dir` read as a mount would while the program is down;
`saved_files` and `saved` are the same of `root.dir`, and already of the live
entries once the unmount has begun.

### DfsThreads

The handlers `read`, `write`, `sync`, `clear` and `release` as threads run them,
cut between the test for a block, its making and its use, around the download and the
upload, between `open` and the bytes, and between `delete` and the reset of the
pointer. Blocks live in `heap` and addresses are used again; a block knows
whether its FILE is open; `tmp_buf` is the static buffer in which `get_cache_path` returns
every path. A file has one block, and a cache file is absent, empty, or has a part or
the whole of the bytes of one write, so that a read can be stale and a write lost.

`download_file` starts an openssl process and goes on: `Measure` looks at whatever the
cache file is then (`Dies` when there is none: a NULL FILE is used), and the block is
SYNCED, or stays NOTDOWNLOADED and is downloaded again by the next reader while the first process
still runs. The processes in `openssl` open, and so empty, their file, write it and end
when they like, with all the bytes or without; an unlinked file takes
theirs with it. `overrun` is history: the files that the user wrote while such a process wrote
them. What the code does to these is up to chance, and the properties except
them, and nothing else.

`Together` names the pairs of operations that run at the same time, so that a run
asks for each pair whether the code stands it. With a failing
`Open` or an openssl that brings nothing every way out of `read()` is there. Uploads that
fail are in `DfsFile`.

### Download

`download()` for one block. A storage is a process (`Arrive`, `Exit`) that writes
the magic and its share into a pipe in pieces of any size; the loop is one more
(`Select`, `DropUnread`, `Proceed`, `Merge`, `Leave`). Bytes are counted: byte `p` of a
share belongs to row `p`, so a merge is right when every byte it takes belongs
to row `processed_total` (`FirstRow` is the row that the oldest byte of a ring really
belongs to, computed from what was sent and not from the program's counters).
`Proceed` follows `proceed()` read by read: the magic, the skip of a late stream
(whose result is added even when it is -1), the fill; bytes may arrive between the
last two. A stream loses its place in one of two ways (`Slips`): its skip reads
nothing, or falls short and bytes come before the fill. `slipped` is history, the
streams to which that has happened; nothing is assumed about when and in which
pieces bytes come, and the properties say what these streams can spoil and what they
cannot. `Len` is the length of the longest share; an object that is shorter is `Cut`. An object that is an error page is, for the
program, an absent one: both are dropped at the magic.

Left out: `select()` returning -1, `popen` failing, the ring's pointers.

### AsyncClose and Upload

`AsyncClose` is the pool: `async_pclose` starts a thread that calls `pclose`, or,
when a limit is reached or `pthread_create` fails, the caller waits itself; the
thread then leaves the pool (`close_it`), and the index into the table of
threads falls back to 0 only when nobody is left.

`Upload` is `upload()` with its curl processes and that pool. `Open` starts a
curl and writes the magic, `Select` finds the writable pipes, `Visit` is one
round of the loop over them: `Feed` (a pipe takes a part of the buffer and
the split file is sought back; a pipe whose curl is dead answers -1, which
is counted and sought back as well) or `CloseStorage` at the end of the file. `handed` is
what each pipe has been given, byte by byte. `OtherUse` is other
transfers closing their own FILEs meanwhile.

Left out: the flag `uploaded` of the pool, which only asks for a time stamp; the
split files, which are the share that they hold.

### ReedSolomon and Codec

`ReedSolomon` has the coder as operators on bytes: GF(256) with the tables of
the code, the generator polynomial, the shift register that
computes parity, syndromes, Berlekamp-Massey with erasures, the search for roots and
the correction, with the arrays and degrees of the code. `Codec` is one
transfer that uses it. `SplitChunk` is a round of `split()`, with
`encode_split` and its padding; `MergeSimple` and `Merge` are the two ways of
`merge()`, with any `K` or more storages delivering, any garbage in the code word where
one does not, chosen for each byte that is missing, and a damaged piece where the
coder can still correct it. `Interfere` is another transfer that resets the one
static `Distribute` to its own parameters, between the reset of a `split()` and its
chunks, or between two of these; `Prepared` keeps the generator polynomial when the parity
count is the same, as `Distribute::reset` does. That a `split()`, which takes no mutex,
resets the object in the middle of another transfer's decode is not modelled: `Merge`
is one step.

## 4. The runs

Every constant that bounds a run is in its `.cfg`.

| Run | Shows | Bounds |
|---|---|---|
| `cache_failures` (`DfsFile.cfg`) | `ClearIsSafe`, the inductive invariant `CacheInv`, `OnlyWritesTear` and `UnmountStoresUpToHole` with partial downloads, uploads that fail or end the process and ruin what was stored, deaths at any time, garbage pointers, holes and truncation inside a block (a cut at the end of a block is left to the proof, which covers every size) | two blocks of two bytes, cipher blocks of four: no length cuts a download, which does the same to a block as a stream that breaks off |
| `cache_careful` (`DfsFileCareful.cfg`) | `TypeOK`, `RemountFindsBlocks`, `DownloadIsWhole`, `WritesKeepBlock` for storages that answer and a user who syncs before unmounting, leaves no holes and never truncates; an upload may report an error after storing or throw, and the process may die at any time, of garbage pointers or otherwise | three blocks of two bytes, cipher blocks of two |
| `directory` (`DfsDir.cfg`) | `TypeOK`, `ListingIsLookup`, `ImplementsNamespace`, names that are unlinked and created again included | two names, three slots, four creations |
| `threads` (`DfsThreads.cfg`) | `TypeOK`, `NoDangling`, `ReadersSeeLatest`, `WritesKept`, `LockIsReleased` when reads of a file run together and everything else alone, with openssl processes at any pace | two threads, two openssl processes, one file, two writes |
| `upload` (`Upload.cfg`) | `TypeOK`, `PoolInv`, `InOrder`, `ReturnMeansHanded`, `Terminates` | two storages of which one suffices, shares and buffers of three bytes, pipes of two, one FILE of another transfer, two threads, a table of three |
| `codec` (`Codec.cfg`) | `TypeOK`, `SharesAreCodeWords`, `MergeGivesMessage` with the real arithmetic | four pairs of n and k, messages of one to three rows |
| `download_healthy` (`DownloadHealthy.cfg`) | `Complete`, `PiecesAligned`, `EnoughPieces`, `Terminates` when two storages are good and the third stalls, has a cut object or none, bytes arriving at any time and in any pieces | three storages, rings of two bytes, shares of three, a magic of two |
| `download_hostile` (`DownloadHostile.cfg`) | `PoolInv`, `ReadableFits`, `NoReadFailure` when no storage is good | the same, a magic of one byte |
| `unmount_partial_cache` | `UnmountCommits` **violated** without the sync before the unmount | as `cache_careful` |
| `release_race` | `NoDangling` **violated** when a release and a read run together | two threads, one write |
| `upload_hang` | `AlwaysEnds` **violated** by one storage that dies after the magic | shares of two bytes |
| `coder_shared` | `SharesAreCodeWords` **violated** when another transfer runs during a split | the codes of three and of five storages, of files made under an older and the present configuration |

Why these are enough. Blocks of two bytes are the smallest that can be
written in part, and two or three blocks the fewest that have a first, a middle
and a last one; with cipher blocks of two bytes a full block and one of a
single byte have different encrypted lengths, so that a wrong recorded one shows,
and a cut stream loses bytes that were stored, as with the real cipher; `MaxGap` is how far beyond
its end a file may be written. Two names and three slots let an entry
stay behind REMOVED, a file of its name be made before or behind it, twice even, a
slot be used again and the directory be full. Two
threads are a holder of the mutex and one that waits for it, and two processes write one
cache file at once; a third reader and a second file are left to the proof.
A pipe smaller than buffer and share makes writes partial and the pipe
block; a pool with two threads and a table of three meets both of its limits.
Rings of two bytes and shares of three let a stream be late, level or ahead, a
ring fill and wrap, and the share not fit into it. One row per chunk makes a
message of three rows end exactly at a chunk, inside one, or in a padded unit;
what holds of the coder for other parameters is proved (`CoderProofs`).

**Fairness** is stated where a property is about something that must happen. In
`download_healthy` the thread of `download()` runs (weak fairness of `Engine`), and the
curl of a healthy storage goes on writing and ends. In `upload` the thread of
`upload()`, the curl processes of the storages and the threads that close them run.
Other users of the pool need not go on, and a curl need not die. In `threads` a
thread that is in a handler goes on, and so does openssl; nobody has to call
a handler. Weak fairness is what a scheduler of the operating system gives;
strong fairness is not assumed, and none of it for a storage that stalls.

`CHECK_DEADLOCK FALSE` stands where the system may really stop: a transfer that
is done or waits in `select` for a storage that stalls, a user who does nothing
more, a thread that waits for a deleted block.

### What the violations mean

1. *Unmount with a partly cached file.* `upload` returns -1 at the first block
   that is not in the cache, and `save` ignores it: writes after a `clear` or a
   mount are lost.
2. *Release and read.* `dfs_release` closes the FILE of every block without the
   mutex; a reader that has just opened it reads from a closed FILE.
3. *A storage that dies after the magic.* Its failed writes count down, and its
   end of file is not counted as complete; `error_count` does not change. When all others
   have ended, `select` is called with nothing to wait for.
4. *Split without the mutex.* `split` resets the coder to the code of its file and
   encodes chunk after chunk without the mutex. A transfer of a file that was made
   when the configuration had another number of servers (each line of `root.dir`
   has its own) resets it to another code after that, and the shares stored
   from then on are of that code.

Further weaknesses show when a constant of a passing run is changed, or an
exception in a property is dropped, with the property that then fails:

| Change | Fails | Cause |
|---|---|---|
| `DfsFileCareful`: `TruncateSizes <- ToInsideBlock` | `DownloadIsWhole` | `truncate` changes only `size`; after a mount `last_enc_size` is that of a block which is gone |
| `DfsFileCareful`: `"none"` in `DownloadResults` | `WritesKeepBlock` | a write after a failed download keeps only the bytes written |
| `DfsFileCareful`: `"ruin"` in `UploadResults` | `DownloadIsWhole`, `WritesKeepBlock` | a block whose shares were replaced by the magic is built anew by a partial write, and its shorter length becomes `block_enc_size` of all |
| `DownloadIsWhole` or `WritesKeepBlock` without its exception of copies whose length nobody knows | itself | the process dies after a sync, before the next unmount; `root.dir` has the old lengths, a longer block is downloaded cut, and openssl gives nothing of the last cipher block that it gets |
| `DfsFileCareful`: `"lost"` in `UploadResults`, checked with `ClearIsSafe` | `ClearIsSafe` | SYNCED means "handed to curl" |
| `DfsFile`: `"lost"` in `UploadResults` | `UnmountStoresUpToHole` | the same at the unmount |
| `DfsThreads`: any of `{"read", "write"}`, `{"read", "sync"}`, `{"read", "clear"}`, `{"write"}`, `{"write", "clear"}`, `{"write", "release"}` in `Together` | `NoDangling` | blocks are made, deleted and closed without the mutex |
| `DfsThreads`: `{"write", "sync"}` in `Together` | `WritesKept` | a write during the upload is marked SYNCED with the block |
| `DfsThreads`: two files | `ReadersSeeLatest` | the path buffer is shared by all files |
| `WritesKept` without its exception of `overrun` | `WritesKept` | openssl writes its output after the user's write |
| `PiecesAligned` without its exception of `slipped` | `PiecesAligned` | a late stream whose bytes come in the wrong moment is merged a row off |
| `Complete` or `EnoughPieces` without its exception of `Cut` | itself | a cut object, left by an interrupted upload, ends a download early or starves the decoder |

## 5. The proofs

`DfsFileProofs` (for all sizes, capacities, gaps, truncations and heap contents):

* `TypeCorrect`: `Spec => []TypeOK`, of which the work is that writes, the C division and
  the encrypted lengths stay in range.
* `CacheInvariant`, and from it `CacheMayBeCleared`, `HeaderCoversBlocks` and
  `OthersKeepCopies`: `CacheInv`, `ClearIsSafe`, `RemountFindsBlocks` and
  `OnlyWritesTear`, assuming `HonestUploads` (no `lost`, no `empty` outcome).

`ClearIsSafe` is not inductive: that a clean cached block is stored says nothing of
a block that is *taken* for clean or new when it is touched next. `CacheInv` adds
what decides that: a clean block has its bytes in the storages; a dirty
one is not behind them; a SYNCED file has no dirty block of the user's; a block of the user that is not
cached, or any of a SYNCED file, is not beyond `last_block_index`; and every
written block lies within the file. Each handler is one lemma with a step per conjunct
that it can disturb.

The second part of `DfsFileProofs` (the same generality):

* `UnmountStoresWhatItReaches` (`UnmountStoresUpToHole`), from `CacheInv`, assuming
  only `HonestUploads`: every outcome of the other transfers, holes, truncations, deaths and
  garbage are allowed, and the user need not sync. What lies behind the block at which the upload
  stops is excepted; `unmount_partial_cache` shows that it can be lost.
* `DownloadsAreWhole` (`DownloadIsWhole`) and `WritesKeepTheRest`
  (`WritesKeepBlock`), if `UserIsCareful` (no truncation, no holes, sync before
  the unmount) and `StoragesAnswer` (downloads succeed; uploads succeed, report an
  error after storing, or throw and leave the old shares). The process may die at any
  point, and `cache_block` may be garbage after each mount. The table of section 4
  has a counterexample for a truncation, a failed download and shares that are ruined.

`DownloadIsWhole` speaks of the two lengths in the header, and these are right
only because of everything else: a block that the file fills is whole in the cache
(`AllCacheFits`), and in the storages unless it is MODIFIED (`StoreIsWhole`); the written
blocks are those of the file (`NoHoles`); `last_enc_size` is that of the last block known
unless that one is in the cache and waits for an upload (`LastIsExact`, `LastIsKnown`);
`block_enc_size` is 0 or that of a full block (`BlocksAreExact`); only a process that runs has
lengths in its memory (`MemoryIsAlive`); and the line in `root.dir` has the length of the last
block it knows (`SavedIsUsable`), which carries all this over an unmount, a death and a
mount. `CarefulInv` is the conjunction, with `CacheInv`. The lemma that everything
turns on is `WriteGrows`: a write without a gap leaves each block it touches
with the larger of the bytes it had and the bytes up to the end of the write, and all
others as they were.

`DownloadProofs` (for all `N`, `K`, ring, magic and share sizes, and every behaviour of the
storages):

* `PoolInvariant`, from
  which `RowsFitTheStack` (`ReadableFits`) and `ReadsDoNotFail` (`NoReadFailure`)
  follow. The invariant says that no `read_total` is beyond `processed_total` and that
  `K` buffers have received at least that. The first holds because the skip never asks for
  more than is missing, the second because `processed_total` is set to the K-th
  largest count and a count falls only for a stream that was below it.
* `MergesAreAligned` (`PiecesAligned`), `MergesHaveEnough` (`EnoughPieces`) and
  `DownloadIsComplete` (`Complete`), for every arrival of bytes and every stored
  length. What they except is in the properties, not assumed: streams that have slipped,
  objects that are cut, storages dropped at their magic.
  The inductive `StreamInv` says of every stream which of five states it is in
  (`Delivers`): absent, not read yet, dropped at its magic, followed (its counters
  agree with what came out of its pipe, its ring begins at row `processed_total`, and it
  finishes only at its full length), or strayed (its counters are not beyond what
  came). That a whole stream is never found too short rests on the last bound: no
  counter, of a stray stream neither, is beyond the longest share.

`DfsThreadsProofs` (for any number of threads, openssl processes, addresses and writes):
`ThreadTypes` (`TypeOK`), `NoBlockDangles` (`NoDangling`), `ReadersReadLatest`
(`ReadersSeeLatest`) and `NoWriteIsLost` (`WritesKept`) under `ReadersOnly`: nothing but
reads run together, and they only when there is one file. These are the
limits of what the one mutex can do; each pair left out has a counterexample
in section 4. Nothing is assumed of when an openssl writes. `ThreadsInv` says that at most one thread is beyond `Lock` or
inside a handler that runs alone (`Alone`), that a file points to a block of its own
(`OwnBlocks`), that every openssl still running was given the last write of its file,
unless that is overrun (`Pipes`), what a thread knows at each of its steps
about the block it found, the FILE and the bytes (`Knows`), and how
contents and statuses agree between steps (`Agrees`). The core of it is
`Owned`: a block that is MODIFIED has its bytes in a cache file that no openssl will touch any more, since
a modified block is not downloaded and a write finds the processes ended or makes the
file overrun. The lemma `OneInside` turns the mutex into "nobody else
moves", and `StepInside` is the frame that each step's lemma then fills in. That a
new block gets a free address (`FreshBlock`) is a counting argument over `Ids`.

`DfsDirProofs` (for all names, slots and numbers of files): `TypeCorrect`,
`ListingLeadsToFiles` (`ListingIsLookup`) and `DirectoryIsNamespace`
(`ImplementsNamespace`), with no condition. The invariant `DirInv` says of the slots
(`TableInv`) that identities have been given out (so that a new file is really new to
`Namespace`) and differ, that a live entry is the first of its name or hidden, and
that the entries that follow a CREATED one of their name have a REMOVED one among
or before them (`RemovedFollow`: otherwise the unlink that frees the slot of the
first would lay open a file that `Namespace` does not expect); of `root.dir` the same
(`LinesInv`); and, while `save` runs, that the lines printed are exactly those of the
live slots passed, the first line of a name being that of its first slot
(`SavesInv`). Without the last, the state in which `Exit` replaces an empty
`root.dir` would not show that nothing was lost, nor which of the files of a name
the next mount finds. `StepKinds` sorts the steps into those that change one
entry, create, unlink, mount, save, tear or end, a lemma each says what they do to the
slots, and `StepsImplement` maps each to a step of `Namespace` or a stutter:
`BeginSave` is `Commit`, the end of a run `Abort`, a torn end `Tear`, a mount after
it `Restart`.

`AsyncCloseProofs`: `PoolIsSafe`, for every number of FILEs and both limits. The
conjuncts `SlotsAreOwn` and `CountIsThreads` need each other: slots are distinct
because the index grows, and it falls only when the counter, which equals the number of
threads, is 0.

`UploadProofs` (for every number of storages, buffer, pipe, length and pattern
of failures, with no further condition): `PipesAreInOrder` (`InOrder`), by
`UploadInv`, which adds the types of the engine and, for each open pipe, how
`position`, `write_count` and `handed` agree; `UploadKeepsPool` (`PoolInv`), because
every step of `Upload` is a step of the pool or leaves it alone; and `UploadTypes`
(`TypeOK`) and `ReturnsWhenHanded` (`ReturnMeansHanded`), by `ServiceInv`: a counter
that is not negative agrees with the position in the split file and is no more than what was
handed over, also when a dead pipe has been counted down and set back (`Honest`), and
the counts of pipes opened and served are the cardinalities of the sets of storages
they speak of (`CountInv`), so that the test at the end of `upload()` counts what it means to.

`CoderProofs` proves the Reed-Solomon coder right, for every number of parity
bytes and every length up to 255, from nothing but `TablesAssumption`, what the
two tables of `galois_table.cpp` say of themselves (entry after entry the powers of x
by one shift with `PPOLY`, and their logarithms):

* `CodeWord`: `encode_data` gives the message followed by parity, and the whole, as a
  polynomial, is 0 at the first `npar` powers of x.
* `MergeErasures`: `decode_data` and `correct_errors_erasures`, as `decode_merge`
  calls them, restore a code word from any pieces as long as at most `npar` are
  missing, whatever bytes stand in for these.
* `MergeError`: they also restore it when one piece that was delivered is damaged and
  two parity bytes are left for it. This is as far as `Codec` lets damage go; two damaged
  pieces and more are neither modelled nor proved.

The argument, in the order of the module:

1. *Bytes.* A byte is its eight bits (`SameBits`), and the exclusive or works bit by bit
   (`XorBits`), which makes it commutative and associative, and `TimesX` linear.
2. *The field.* `gexp` is injective on `0 .. 254` because it reaches all 255
   bytes that are not 0 (`ExpInjective`), so `gmult` adds exponents
   modulo 255 (`MultExp`), is associative and has inverses; it distributes by induction on the
   logarithm of one factor (`MultDistributes`).
3. *Polynomials.* `Value` is additive and multiplicative in the ways that are needed.
   The generator polynomial has the first `npar` powers as roots (`GenpolyRoots`), the shift
   register keeps the invariant that message so far and register together are 0 there
   (`RegisterValue`), hence `CodeWord`.
4. *Locators.* `init_gamma` multiplies the factors `1 + x z` of the erasures
   (`GammaLocator`); `LocatorRoots` and `LocatorDeriv` say that its roots are
   simple and are the inverses of the locations, so that `Find_Roots` finds these and no others.
5. *Forney.* The syndromes of a damaged code word are the power sums of its errors
   (`SumsOfPowers`, `DamagedSyndromes`). Omega is built up error by error (`OmegaValue`),
   and `Magnitude` then gives each error its value (`Forney`). So the correction is right
   as soon as the locator polynomial is (`Corrected`).
6. *Berlekamp-Massey.* With erasures only every discrepancy is 0 and the
   polynomial stays that of the erasures (`MasseyErasures`). With one error more, the
   first discrepancy is not 0 and the first two rounds multiply the missing factor in
   (`TwoRounds`); all later rounds are quiet (`MasseyError`).

`CodecProofs` (for any set of codes with `n` up to 255 and at most 128 parity bytes, the
arrays of `decode_merge`, any files, buffer, garbage and damage): `CodecTypes`
(`TypeOK`), `SharesRight` (`SharesAreCodeWords`) and `MergeRight`
(`MergeGivesMessage`), if `SplitsAlone`: no other transfer uses the shared coder while
a file is split. The run `coder_shared` is the counterexample without that. `Inv` says that
the coder object, if there is one, has the generator polynomial of its own parity count, which
`Prepared` relies on when it keeps it (`DfsInv`); that the split files hold the code
words of the rows read so far, `count` being a whole number of rows until the last, possibly
padded, chunk (`SplitInv`); and that `out` is a beginning of the message
(`OutInv`), which `MergeErasures` and `MergeError` carry over a merge.

Inductions, over numbers, rounds and bytes, are instances of `SetInduction`, whose
hypothesis is a set and not an operator. The functions of `ReedSolomon` that are defined by
recursion are the values of `CHOOSE`; `FiniteRecursion` shows that one exists, and
what is proved of any function that satisfies the recursion holds of the one chosen.

The assumptions on the constants are the named `ASSUME`s of the modules; TLC
evaluates them in every run, `TablesAssumption` in those of `Codec`. The invariants
that are not properties of a run (`CarefulInv`, `StreamInv`, `ThreadsInv`,
`ServiceInv`, `Inv` of `CodecProofs` with its quantifiers over `Nat` bounded) were
checked with TLC on the configurations of the runs.

**Only model-checked:** `Terminates` (of `Download` and of `Upload`) and
`LockIsReleased`, since liveness under
fairness is beyond the prover. Every other property of a passing run, the
refinement and the action properties included, is a theorem.

## 6. Not modelled

* The configuration table (`parse_conf.cpp`): read once, never changed.
* `rs_config.cpp` (nothing calls it), `debug.cpp` and the exception type, `galois.cpp`
  (its code is commented out), the Makefile.
* Text: the commands of openssl and curl, the parser of the device file and its
  listing, the fields of a line of `root.dir`, the names of split files. So a
  name with a space and a line longer than its buffer are hazards without a property.
* `bsize`, which changes only files created later.
* `n = k` (one or two servers), where the coder has no parity and reads outside of
  its array, and a block index beyond `MAX_CACHE_BLOCK`: what such an access does
  is not defined by the code, so the models stay within.
* Errors of local files (a full disk, a cache file that was removed).
* The pointers of the ring in `DownloadBuffer` (item 7 of the plan).
* `DfsFile::download`, `check_syndrome`, `compute_next_omega`: nothing calls them.

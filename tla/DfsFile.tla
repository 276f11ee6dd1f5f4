------------------------------ MODULE DfsFile ------------------------------
(***************************************************************************)
(* One file of the file system: the block cache of DfsFile and DfsBlock    *)
(* (dfs_file.cpp), the FUSE and device-file handlers that drive it         *)
(* (dfs_fuse.cpp, dev_cmd.cpp), and the entry of the file in root.dir that *)
(* survives an unmount.  A handler is one step: this is the code when FUSE *)
(* runs one handler at a time.                                             *)
(*                                                                         *)
(* A copy of a block is its length and one bit, cur: the copy holds the    *)
(* latest value of every byte of the block that the user wrote and did not *)
(* truncate away.  One in the storages that does also has known: who knows *)
(* its encrypted length, root.dir, the memory of the process that stored   *)
(* it, or nobody, when that process died before it saved root.dir or took  *)
(* the upload for a failure.  written is the set of blocks with bytes of   *)
(* the user; it, cur and known are history, nothing in the code reads them.*)
(***************************************************************************)
EXTENDS Integers

CONSTANTS
    NULL,
    BlockSize,        \* bytes in a block (my_blocksize)
    MaxCacheBlock,    \* MAX_CACHE_BLOCK
    CipherBlock,      \* bytes in a block of the cipher (16 for aes-128-cbc)
    DownloadResults,  \* outcomes of download_file the storages can cause
    UploadResults,    \* outcomes of upload_file the storages can cause
    TruncateSizes,    \* arguments of dfs_truncate
    MaxGap,           \* how far beyond the end of the file a write may start
    SyncsFirst,       \* TRUE: the user unmounts only when the file is SYNCED
    HeapContents      \* what operator new hands to DfsFile(FILE *)

(***************************************************************************)
(* download_file: everything arrives, nothing, or the stream breaks off.   *)
(* upload_file: stored; acknowledged but not stored, because curl is       *)
(* closed asynchronously; openssl produced nothing; pclose failed after    *)
(* the store; or more than n-k storages could not be started, an exception *)
(* that nobody catches: the storages that were started have replaced what  *)
(* they held by the magic alone, and at least k others still have the old  *)
(* shares ("throw") or not ("ruin").  Mixtures of old and new shares are   *)
(* left out.                                                               *)
(***************************************************************************)
ASSUME SizesAssumption ==
    /\ BlockSize \in Nat \ {0}
    /\ MaxCacheBlock \in Nat \ {0}
    /\ CipherBlock \in Nat \ {0}
    /\ MaxGap \in Nat
    /\ SyncsFirst \in BOOLEAN
    /\ TruncateSizes \subseteq 0 .. (MaxCacheBlock * BlockSize - 1)

ASSUME OutcomesAssumption ==
    /\ DownloadResults \subseteq {"ok", "none", "partial"}
    /\ UploadResults \subseteq {"ok", "lost", "empty", "error", "throw", "ruin"}
    /\ HeapContents \subseteq {"zeroed", "dirty"}
    /\ "dirty" \in HeapContents => UploadResults \cap {"throw", "ruin"} # {}

VARIABLES
    mounted,           \* "down" after an unmount, "up", "dead" after a crash
    status,            \* DfsFile::status, NULL: no such file
    size,              \* DfsFile::size
    last_block_index,  \* DfsFile::last_block_index
    last_enc_size,     \* DfsFile::last_enc_size
    block_enc_size,    \* DfsFile::block_enc_size
    cache_block,       \* DfsFile::cache_block with the local cache files
    garbage,           \* indices of cache_block that nothing ever assigned
    remote,            \* what k storages together hold of every block
    root_dir,          \* the file's line in root.dir, NULL: no line
    written            \* blocks with bytes of the user

header == <<last_block_index, last_enc_size, block_enc_size>>
vars == <<mounted, status, size, header, cache_block, garbage, remote, root_dir,
          written>>

Blocks == 0 .. MaxCacheBlock - 1
Capacity == MaxCacheBlock * BlockSize
BlockStatus == {"NOTDOWNLOADED", "SYNCED", "MODIFIED"}
FileStatus == {"CREATED", "MODIFIED", "SYNCED"}
BlockCopies == [status : BlockStatus, len : Nat, cur : BOOLEAN]
RemoteCopies == [len : Nat, cur : BOOLEAN, known : {"root_dir", "memory", "nobody"}]
DirEntries == [size : 0 .. Capacity, block_enc_size : Nat, last_enc_size : Nat]

\* The sentinel is none of the values it stands beside.
ASSUME NullAssumption ==
    NULL \notin FileStatus \cup BlockCopies \cup RemoteCopies \cup DirEntries

Smaller(a, b) == IF a < b THEN a ELSE b
Larger(a, b) == IF a < b THEN b ELSE a

\* Division of C: it truncates towards zero, so that -1 / BlockSize is 0.
CDiv(a) == IF a < 0 THEN - ((- a) \div BlockSize) ELSE a \div BlockSize

NumCacheBlocks(s) == CDiv(s - 1) + 1

\* Bytes of block i that lie in a file of s bytes.
BytesIn(i, s) == Larger(0, Smaller(s - i * BlockSize, BlockSize))

(***************************************************************************)
(* openssl enc -k: a salt header of one cipher block, then the padded      *)
(* text.  Cut short, it decrypts to all blocks but the last one it got.    *)
(***************************************************************************)
CipherLen(len) == CipherBlock * ((len \div CipherBlock) + 2)
CutLen(enc) == Larger(0, CipherBlock * ((enc \div CipherBlock) - 2))

-----------------------------------------------------------------------------
(***************************************************************************)
(* DfsBlock.                                                               *)
(***************************************************************************)
NewBlock(i) ==
    [status |-> IF last_block_index < i THEN "MODIFIED" ELSE "NOTDOWNLOADED",
     len    |-> 0,
     cur    |-> i \notin written]

Block(i) == IF cache_block[i] = NULL THEN NewBlock(i) ELSE cache_block[i]

EncSize(i) == IF last_block_index = i THEN last_enc_size ELSE block_enc_size

\* The length and the content that the storages deliver of block i when all
\* goes well: download() stops after EncSize(i) bytes, 0 meaning no limit.
IsCut(i) == 0 < EncSize(i) /\ EncSize(i) < CipherLen(remote[i].len)
Delivered(i) ==
    IF IsCut(i)
      THEN [len |-> Smaller(remote[i].len, CutLen(EncSize(i))),
            cur |-> remote[i].cur /\ BytesIn(i, size) <= CutLen(EncSize(i))]
      ELSE [len |-> remote[i].len, cur |-> remote[i].cur]

Arrived(i, r) ==
    CASE remote[i] = NULL \/ r = "none" -> [len |-> 0, cur |-> FALSE]
      [] remote[i] # NULL /\ r = "partial" -> [len |-> remote[i].len \div 2, cur |-> FALSE]
      [] remote[i] # NULL /\ r = "ok" -> Delivered(i)

\* Mutant of Downloaded: what the cache holds is downloaded again.
DownloadedAgain(i, r) ==
    [status |-> IF Arrived(i, r).len > 0 THEN "SYNCED" ELSE "NOTDOWNLOADED",
     len    |-> Arrived(i, r).len,
     cur    |-> Arrived(i, r).cur \/ i \notin written]

\* DfsBlock::download: a block that is not NOTDOWNLOADED is left alone.
Downloaded(i, r) ==
    IF Block(i).status # "NOTDOWNLOADED"
      THEN Block(i)
      ELSE [status |-> IF Arrived(i, r).len > 0 THEN "SYNCED" ELSE "NOTDOWNLOADED",
            len    |-> Arrived(i, r).len,
            cur    |-> Arrived(i, r).cur \/ i \notin written]

\* DfsBlock::write of the bytes lo .. hi - 1 of the block, which ignores how
\* its download ended, and the status DfsFile::write gives the block.
Overwrites(i, lo, hi) == lo = 0 /\ BytesIn(i, size) <= hi

\* Mutant of WrittenBlock: the block is not downloaded first.
WrittenBlockBlind(i, lo, hi, r) ==
    [status |-> "MODIFIED",
     len    |-> Larger(Block(i).len, hi),
     cur    |-> Block(i).cur \/ Overwrites(i, lo, hi)]

WrittenBlock(i, lo, hi, r) ==
    [status |-> "MODIFIED",
     len    |-> Larger(Downloaded(i, r).len, hi),
     cur    |-> Downloaded(i, r).cur \/ Overwrites(i, lo, hi)]

-----------------------------------------------------------------------------
(***************************************************************************)
(* DfsFile::upload: the blocks from 0 up, as far as the first one that is  *)
(* not cached or cannot be uploaded.  It reads the status through every    *)
(* pointer: through garbage, it skips the block as one that is not         *)
(* MODIFIED, or the process dies of it, as it does of an exception.        *)
(***************************************************************************)
LastIndex == NumCacheBlocks(size) - 1
Deaths == {"throw", "ruin"}

IsModified(i) == cache_block[i] # NULL /\ cache_block[i].status = "MODIFIED"
StopsUpload(i, r) ==
    \/ cache_block[i] = NULL /\ i \notin garbage
    \/ IsModified(i) /\ r[i] = "error"
    \/ (IsModified(i) \/ i \in garbage) /\ r[i] \in Deaths
Reached(i, r) == \A j \in 0 .. i - 1 : ~ StopsUpload(j, r)

\* Mutant of Uploaded: the loop ends before the last block.
UploadedButLast(r) == {i \in 0 .. LastIndex - 1 : Reached(i, r) /\ IsModified(i)}

Uploaded(r) == {i \in 0 .. LastIndex : Reached(i, r) /\ IsModified(i)}

\* Mutant of Completes: what stops the upload is ignored.
CompletesAnyway(r) == TRUE

Completes(r) == \A i \in 0 .. LastIndex : ~ StopsUpload(i, r)
Throws(r) == \E i \in 0 .. LastIndex :
    Reached(i, r) /\ (IsModified(i) \/ i \in garbage) /\ r[i] \in Deaths

\* Blocks for which upload_file returned the encrypted length, 0 included.
Answered(r) == {i \in Uploaded(r) : r[i] \in {"ok", "lost", "empty"}}
AnsweredSize(i, r) == IF r[i] = "empty" THEN 0 ELSE CipherLen(cache_block[i].len)

\* What the storages have of a block after its upload ended like this.
Stored(i, result) ==
    CASE result \in {"ok", "error"} ->
           [len |-> cache_block[i].len, cur |-> cache_block[i].cur,
            known |-> IF result = "ok" /\ cache_block[i].cur THEN "memory" ELSE "nobody"]
      [] result \in {"empty", "ruin"} ->
           [len |-> 0, cur |-> FALSE, known |-> "nobody"]
      [] result \in {"lost", "throw"} -> remote[i]

UploadedRemote(r) ==
    [i \in Blocks |-> IF i \in Uploaded(r) THEN Stored(i, r[i]) ELSE remote[i]]

\* Mutant of UploadedCache: the blocks are not marked SYNCED.
UploadedCacheUnmarked(r) == cache_block

UploadedCache(r) ==
    [i \in Blocks |->
        IF i \in Answered(r) /\ AnsweredSize(i, r) > 0
          THEN [cache_block[i] EXCEPT !.status = "SYNCED"]
          ELSE cache_block[i]]

\* Mutant of UploadedLastEncSize: it keeps its first value, as block_enc_size.
UploadedLastEncSizeOnce(r) ==
    IF last_enc_size = 0 /\ LastIndex \in Answered(r)
      THEN AnsweredSize(LastIndex, r) ELSE last_enc_size

UploadedLastEncSize(r) ==
    IF LastIndex \in Answered(r) THEN AnsweredSize(LastIndex, r) ELSE last_enc_size

\* block_enc_size keeps the first length it ever gets.
FullSized(r) == {i \in Answered(r) \ {LastIndex} : AnsweredSize(i, r) > 0}
FirstFullSized(r) == {i \in FullSized(r) : \A j \in FullSized(r) : i <= j}
UploadedBlockEncSize(r) ==
    IF block_enc_size # 0 \/ FirstFullSized(r) = {}
      THEN block_enc_size
      ELSE AnsweredSize(CHOOSE i \in FirstFullSized(r) : TRUE, r)

\* Mutants of UploadedLastBlockIndex: a count instead of an index; forgotten.
UploadedLastBlockCount(r) ==
    IF Completes(r) THEN Larger(last_block_index, LastIndex + 1) ELSE last_block_index
UploadedSameBlockIndex(r) == last_block_index

UploadedLastBlockIndex(r) ==
    IF Completes(r) THEN Larger(last_block_index, LastIndex) ELSE last_block_index

-----------------------------------------------------------------------------
(***************************************************************************)
(* The handlers.  One that follows a garbage pointer ends the process,     *)
(* before it has changed anything but the memory: it is a step of Crash.   *)
(* On other indices the handlers work as if nothing was wrong.             *)
(***************************************************************************)
IsClean(indices) == indices \cap garbage = {}
NoCache == [i \in Blocks |-> NULL]

\* The storages when what they hold of the blocks of bs is no longer the
\* latest of anything.
Outdated(bs) ==
    [i \in Blocks |-> IF i \in bs /\ remote[i] # NULL
                         THEN [len |-> remote[i].len, cur |-> FALSE, known |-> "nobody"]
                         ELSE remote[i]]

Init ==
    /\ mounted = "up" /\ root_dir = NULL
    /\ status = NULL /\ size = 0
    /\ last_block_index = -1 /\ last_enc_size = 0 /\ block_enc_size = 0
    /\ cache_block = NoCache /\ remote = NoCache /\ garbage = {}
    /\ written = {}

\* dfs_create, or dfs_open for writing, of a name that does not exist.
Create ==
    /\ mounted = "up" /\ status = NULL
    /\ status' = "CREATED" /\ size' = 0
    /\ last_block_index' = -1 /\ last_enc_size' = 0 /\ block_enc_size' = 0
    /\ cache_block' = NoCache /\ garbage' = {}
    /\ UNCHANGED <<mounted, remote, root_dir, written>>

\* dfs_write: a SYNCED file becomes MODIFIED before its blocks are written.
Touched == IF status = "SYNCED" THEN "MODIFIED" ELSE status

\* DfsFile::write of n bytes at offset.
Write(offset, n) ==
    LET first == offset \div BlockSize
        last == (offset + n - 1) \div BlockSize
        lo(i) == IF i = first THEN offset % BlockSize ELSE 0
        hi(i) == Smaller(BlockSize, offset + n - i * BlockSize)
    IN  /\ mounted = "up" /\ status # NULL /\ IsClean(first .. last)
        /\ status' = Touched
        /\ \E r \in [first .. last -> DownloadResults] :
             cache_block' = [i \in Blocks |->
                 IF i \in first .. last THEN WrittenBlock(i, lo(i), hi(i), r[i])
                                        ELSE cache_block[i]]
        /\ size' = Larger(size, offset + n)
        /\ written' = written \cup first .. last
        /\ remote' = Outdated(first .. last)
        /\ UNCHANGED <<mounted, header, garbage, root_dir>>

\* dfs_read of n bytes at offset: blocks are made and downloaded up to the
\* first one that is shorter than what is to be read of it.
Read(offset, n) ==
    LET stop == Smaller(offset + n, size)
        first == offset \div BlockSize
        last == (stop - 1) \div BlockSize
        hi(i) == Smaller(BlockSize, stop - i * BlockSize)
        visits(i, r) == /\ i \in first .. last
                        /\ \A j \in first .. i - 1 : Downloaded(j, r[j]).len >= hi(j)
    IN  /\ mounted = "up" /\ status # NULL /\ offset < size
        /\ \E r \in [first .. last -> DownloadResults] :
             /\ IsClean({i \in first .. last : visits(i, r)})
             /\ cache_block' = [i \in Blocks |->
                    IF visits(i, r) THEN Downloaded(i, r[i]) ELSE cache_block[i]]
        /\ UNCHANGED <<mounted, status, size, header, garbage, remote, root_dir, written>>

\* dfs_truncate: the status of the file and of the block stay as they are.
Truncate(offset) ==
    LET last == offset \div BlockSize
        len == offset % BlockSize
        kept == {i \in written : BytesIn(i, Smaller(size, offset)) > 0}
    IN  /\ mounted = "up" /\ status # NULL
        /\ IsClean({last} \cup last + 1 .. NumCacheBlocks(size) - 1)
        /\ size' = Smaller(size, offset)
        /\ written' = kept
        /\ cache_block' = [i \in Blocks |->
               IF i = last
                 THEN [status |-> Block(i).status, len |-> len,
                       cur |-> Block(i).cur \/ i \notin kept]
               ELSE IF last < i /\ i < NumCacheBlocks(size) THEN NULL
               ELSE cache_block[i]]
        /\ remote' = Outdated(Blocks \ kept)
        /\ UNCHANGED <<mounted, status, header, garbage, root_dir>>

\* The process is gone, and with it all that was in memory; heir knows the
\* lengths that the memory knew.
Ended(how, store, heir) ==
    /\ mounted' = how
    /\ status' = NULL /\ size' = 0
    /\ last_block_index' = -1 /\ last_enc_size' = 0 /\ block_enc_size' = 0
    /\ cache_block' = NoCache /\ garbage' = {}
    /\ remote' = [i \in Blocks |->
           IF store[i] # NULL /\ store[i].known = "memory"
             THEN [store[i] EXCEPT !.known = heir] ELSE store[i]]

\* "sync <filename>": an exception of upload_file ends the process.
Sync ==
    /\ mounted = "up" /\ status \in {"CREATED", "MODIFIED"}
    /\ \E r \in [0 .. LastIndex -> UploadResults] :
         \/ /\ Throws(r)
            /\ Ended("dead", UploadedRemote(r), "nobody")
         \/ /\ ~ Throws(r)
            /\ remote' = UploadedRemote(r)
            /\ cache_block' = UploadedCache(r)
            /\ last_enc_size' = UploadedLastEncSize(r)
            /\ block_enc_size' = UploadedBlockEncSize(r)
            /\ last_block_index' = UploadedLastBlockIndex(r)
            /\ status' = IF Completes(r) THEN "SYNCED" ELSE status
            /\ UNCHANGED <<mounted, size, garbage>>
    /\ UNCHANGED <<root_dir, written>>

\* "clear <filename>" deletes through every pointer.
Clear ==
    /\ mounted = "up" /\ status = "SYNCED" /\ IsClean(Blocks)
    /\ cache_block' = NoCache
    /\ UNCHANGED <<mounted, status, size, header, garbage, remote, root_dir, written>>

\* dfs_destroy: DfsDir::save, which truncates root.dir, uploads what is not
\* SYNCED, ignores the answer and writes the line; then the destructors, which
\* die of a garbage pointer when the line may not have been flushed yet.
SavedEntry(enc, last_enc) ==
    [size |-> size, block_enc_size |-> enc, last_enc_size |-> last_enc]

Saved(entry, store) ==
    \/ /\ IsClean(Blocks)
       /\ root_dir' = entry /\ Ended("down", store, "root_dir")
    \/ /\ ~ IsClean(Blocks)
       /\ \/ root_dir' = entry /\ Ended("dead", store, "root_dir")
          \/ root_dir' = NULL /\ Ended("dead", store, "nobody")

\* The uploads of save end like r.
UploadAndSave(r) ==
    \/ /\ Throws(r)
       /\ root_dir' = NULL /\ Ended("dead", UploadedRemote(r), "nobody")
    \/ /\ ~ Throws(r)
       /\ Saved(SavedEntry(UploadedBlockEncSize(r), UploadedLastEncSize(r)),
                UploadedRemote(r))

Unmount ==
    /\ mounted = "up"
    /\ \/ status = NULL /\ Saved(NULL, remote)
       \/ status = "SYNCED" /\ Saved(SavedEntry(block_enc_size, last_enc_size), remote)
       \/ /\ ~ SyncsFirst /\ status \in {"CREATED", "MODIFIED"}
          /\ \E r \in [0 .. LastIndex -> UploadResults] : UploadAndSave(r)
    /\ UNCHANGED written

\* The process dies between two handlers or in one, and in dfs_destroy after
\* it has truncated root.dir.
Crash ==
    /\ mounted = "up"
    /\ root_dir' \in {root_dir, NULL}
    /\ Ended("dead", remote, "nobody")
    /\ UNCHANGED written

\* A later run of the program: dfs_init, DfsDir::load.  DfsFile(FILE *) does
\* not clear cache_block: every pointer is what the heap happened to hold.
Mount ==
    /\ mounted \in {"down", "dead"}
    /\ mounted' = "up" /\ cache_block' = NoCache
    /\ IF root_dir = NULL
         THEN /\ status' = NULL /\ size' = 0 /\ garbage' = {}
              /\ last_block_index' = -1 /\ last_enc_size' = 0 /\ block_enc_size' = 0
              /\ written' = {}
         ELSE /\ \/ "zeroed" \in HeapContents /\ garbage' = {}
                 \/ "dirty" \in HeapContents /\ garbage' \in SUBSET Blocks
              /\ status' = "SYNCED" /\ size' = root_dir.size
              /\ last_block_index' = CDiv(root_dir.size - 1)
              /\ last_enc_size' = root_dir.last_enc_size
              /\ block_enc_size' = root_dir.block_enc_size
              /\ written' = {i \in written : BytesIn(i, root_dir.size) > 0}
    /\ remote' = Outdated(Blocks \ written')
    /\ UNCHANGED root_dir

\* Writes start at most MaxGap bytes beyond the end of the file: with 0 the
\* user leaves no holes.
Next ==
    \/ Create
    \/ \E o \in 0 .. Capacity - 1 : \E n \in 1 .. Capacity - o :
         (o <= size + MaxGap /\ Write(o, n)) \/ Read(o, n)
    \/ \E o \in TruncateSizes : Truncate(o)
    \/ Sync \/ Clear \/ Unmount \/ Crash \/ Mount

Spec == Init /\ [][Next]_vars

-----------------------------------------------------------------------------
(***************************************************************************)
(* Properties.                                                             *)
(***************************************************************************)
\* The file never outgrows cache_block, and last_block_index stays an index
\* of it: DfsFile::write and the division in DfsFile(FILE *) see to it.
TypeOK ==
    /\ mounted \in {"down", "up", "dead"}
    /\ status \in FileStatus \cup {NULL}
    /\ size \in 0 .. Capacity
    /\ last_block_index \in -1 .. MaxCacheBlock - 1
    /\ last_enc_size \in Nat /\ block_enc_size \in Nat
    /\ cache_block \in [Blocks -> BlockCopies \cup {NULL}]
    /\ remote \in [Blocks -> RemoteCopies \cup {NULL}]
    /\ root_dir \in DirEntries \cup {NULL}
    /\ garbage \in SUBSET Blocks /\ written \in SUBSET Blocks

HasGoodCache(i) == cache_block[i] # NULL /\ cache_block[i].cur
HasGoodRemote(i) == remote[i] # NULL /\ remote[i].cur
HasGoodCopy(i) == HasGoodCache(i) \/ HasGoodRemote(i)
HasKnownRemote(i) == HasGoodRemote(i) /\ remote[i].known # "nobody"

(***************************************************************************)
(* clear_cache (dev_cmd.cpp) deletes the cache files of a SYNCED file, and *)
(* dfs_destroy those of every file without uploading a SYNCED one.  So     *)
(* while a file is SYNCED, no block may have its latest bytes in the cache *)
(* alone.  The status is kept by four handlers, and none of reading,       *)
(* truncating or uploading up to the first error may make it lie.          *)
(***************************************************************************)
ClearIsSafe ==
    status = "SYNCED" => \A i \in written : HasGoodCache(i) => HasGoodRemote(i)

(***************************************************************************)
(* As long as the program runs and its uploads are honest, only a write    *)
(* can cost the user a block (DfsBlock::write goes on when its download    *)
(* failed): reading, truncating, syncing and clearing keep a good copy of  *)
(* every block that has one, whatever the storages deliver.                *)
(***************************************************************************)
OnlyWritesTear ==
    [][\A i \in written :
         (/\ mounted = "up" /\ mounted' = "up" /\ i \in written'
          /\ HasGoodCopy(i) /\ ~ (HasGoodCopy(i))')
         => \E o \in 0 .. Capacity - 1 : \E n \in 1 .. Capacity - o : Write(o, n)]_vars

(***************************************************************************)
(* An unmount and the next mount keep what the storages have: the header   *)
(* rebuilt from root.dir lets every block of a file that was SYNCED at the *)
(* unmount be downloaded again rather than taken for a new one.            *)
(***************************************************************************)
RemountFindsBlocks ==
    status = "SYNCED" => \A i \in written : i <= last_block_index

(***************************************************************************)
(* Why ClearIsSafe holds.  A cached block that is not MODIFIED and has the *)
(* latest bytes has them in the storages too; one that is MODIFIED has     *)
(* them if the storages do (an upload that stored and then failed); a      *)
(* SYNCED file has no MODIFIED block.  That rests on the header: a block   *)
(* of the user that is not cached, or any of a SYNCED file, is not beyond  *)
(* last_block_index and so is never taken for a new one.                   *)
(***************************************************************************)
CleanIsStored ==
    \A i \in written :
        HasGoodCache(i) /\ cache_block[i].status # "MODIFIED" => HasGoodRemote(i)
DirtyIsNotBehind ==
    \A i \in written : IsModified(i) /\ HasGoodRemote(i) => HasGoodCache(i)
SyncedIsClean ==
    status = "SYNCED" => \A i \in written : ~ IsModified(i)
UncachedIsKnown ==
    status # NULL => \A i \in written : cache_block[i] = NULL => i <= last_block_index
WrittenInFile ==
    IF status = NULL THEN mounted = "up" => written = {}
                     ELSE \A i \in written : i <= LastIndex

CacheInv ==
    /\ TypeOK
    /\ CleanIsStored /\ DirtyIsNotBehind /\ SyncedIsClean
    /\ UncachedIsKnown /\ RemountFindsBlocks /\ WrittenInFile

(***************************************************************************)
(* DfsDir::save ignores how an upload ended (dfs_file.cpp:627), and the    *)
(* destructors drop the cache.  What an unmount costs the user is bounded  *)
(* all the same: whatever happened to the file before and however the     *)
(* uploads end, a block that had a good copy has one in the storages       *)
(* afterwards unless the upload stopped at an earlier block.               *)
(***************************************************************************)
UnmountStoresUpToHole ==
    [][mounted = "up" /\ mounted' = "down" /\ status \in {"CREATED", "MODIFIED"} =>
         \A r \in [0 .. LastIndex -> UploadResults] : UploadAndSave(r) =>
           \A i \in written :
             HasGoodCopy(i) /\ Reached(i, r) => (HasGoodRemote(i))']_vars

(***************************************************************************)
(* DfsBlock::download "returns decrypted length" (dfs_file.h:36): while a  *)
(* file is SYNCED, the encrypted length that the header has for a block    *)
(* does not make download() stop before the end of what was stored.  That  *)
(* cannot hold of a copy whose length was lost with the process that       *)
(* stored it; it holds of all others, whatever processes died before, of   *)
(* garbage in cache_block or for another reason, at any point of a sync or *)
(* of an unmount.                                                          *)
(***************************************************************************)
DownloadIsWhole ==
    status = "SYNCED" =>
        \A i \in written : HasKnownRemote(i) /\ IsCut(i) =>
            BytesIn(i, size) <= CutLen(EncSize(i))

(***************************************************************************)
(* DfsFile::upload is the "commit" of the file (dfs_file.h:99), and the    *)
(* unmount calls it: a block that had a good copy before the unmount has   *)
(* one in the storages after it.                                           *)
(***************************************************************************)
UnmountCommits ==
    [][mounted = "up" /\ mounted' = "down" =>
         \A i \in written : HasGoodCopy(i) => (HasGoodRemote(i))']_vars

(***************************************************************************)
(* DfsBlock::write first does "download the block" (dfs_file.cpp:168) so   *)
(* that the bytes around the new ones are there: a write leaves every      *)
(* block that had a good copy with a good copy, also after a crash, unless *)
(* its only good copy is one whose length was lost.                        *)
(***************************************************************************)
WritesKeepBlock ==
    [][mounted = "up" /\ mounted' = "up" =>
         \A i \in written \cap written' :
             HasGoodCache(i) \/ HasKnownRemote(i) => (HasGoodCopy(i))']_vars
=============================================================================

--------------------------- MODULE DfsFileProofs ---------------------------
(***************************************************************************)
(* Theorems about DfsFile, for every size of block, cache and cipher block *)
(* and every storage failure except an upload that is acknowledged without *)
(* being stored; in the second part, for a user who appends, overwrites    *)
(* and syncs before unmounting, on storages that answer, whenever the      *)
(* process dies.                                                           *)
(***************************************************************************)
EXTENDS DfsFile, TLAPS

HonestUploads == UploadResults \subseteq {"ok", "error", "throw", "ruin"}

-----------------------------------------------------------------------------
(* C division and the arithmetic of blocks. *)

\* The quotient and the remainder of a division by the block size.
LEMMA DivBounds ==
    ASSUME NEW a \in Nat
    PROVE  /\ a \div BlockSize \in Nat
           /\ BlockSize * (a \div BlockSize) <= a
           /\ a < BlockSize * (a \div BlockSize) + BlockSize
BY SizesAssumption, SMTT(30)

\* A block that begins before byte a ends no later than the block of a - 1.
LEMMA BlockOfByte ==
    ASSUME NEW a \in Nat \ {0}, NEW i \in Nat, i * BlockSize < a
    PROVE  i <= (a - 1) \div BlockSize
<1> DEFINE q == (a - 1) \div BlockSize
<1>1. q \in Nat /\ a - 1 < BlockSize * q + BlockSize
  BY DivBounds, a - 1 \in Nat
<1> SUFFICES ASSUME i >= q + 1 PROVE FALSE
  BY <1>1
<1>2. i * BlockSize >= (q + 1) * BlockSize
  BY <1>1, SizesAssumption, SMTT(30)
<1>3. (q + 1) * BlockSize = BlockSize * q + BlockSize
  BY <1>1, SizesAssumption, SMTT(30)
<1> QED BY <1>1, <1>2, <1>3, SizesAssumption

\* Division is monotone.
LEMMA DivMono ==
    ASSUME NEW a \in Nat, NEW b \in Nat, a <= b
    PROVE  a \div BlockSize <= b \div BlockSize
BY SizesAssumption, SMTT(30)

\* The last block of a file is one of the cache.
LEMMA LastBlockType ==
    ASSUME NEW s \in 0 .. Capacity
    PROVE  CDiv(s - 1) \in -1 .. MaxCacheBlock - 1
<1>1. CASE s = 0
  <2>1. 1 \div BlockSize \in 0 .. 1
    BY SizesAssumption, SMTT(30)
  <2> QED BY <1>1, <2>1, SizesAssumption DEF CDiv
<1>2. CASE s > 0
  <2> DEFINE q == (s - 1) \div BlockSize
  <2>1. s - 1 \in Nat /\ CDiv(s - 1) = q
    BY <1>2, SizesAssumption DEF CDiv
  <2>2. q \in Nat /\ BlockSize * q <= s - 1
    BY <2>1, DivBounds
  <2>3. s \in Int /\ s - 1 < MaxCacheBlock * BlockSize
    BY SizesAssumption DEF Capacity
  <2> SUFFICES ASSUME q >= MaxCacheBlock PROVE FALSE
    BY <2>1, <2>2, SizesAssumption
  <2> HIDE DEF q
  <2>4. BlockSize * q >= MaxCacheBlock * BlockSize
    BY <2>2, SizesAssumption, SMTT(30)
  <2> QED BY <2>1, <2>2, <2>3, <2>4, SizesAssumption, SMTT(30)
<1> QED BY <1>1, <1>2, SizesAssumption DEF Capacity

\* A longer file does not have an earlier last block.
LEMMA LastBlockMono ==
    ASSUME NEW s \in Nat, NEW t \in Nat, s <= t
    PROVE  CDiv(s - 1) <= CDiv(t - 1)
<1>0. CDiv(-1) \in Int /\ CDiv(-1) <= 0
  <2>1. 1 \div BlockSize \in 0 .. 1
    BY SizesAssumption, SMTT(30)
  <2> QED BY <2>1 DEF CDiv
<1>1. CASE s = 0 /\ t = 0
  BY <1>0, <1>1
<1>2. CASE s = 0 /\ t > 0
  <2>1. CDiv(t - 1) = (t - 1) \div BlockSize /\ (t - 1) \div BlockSize \in Nat
    BY <1>2, DivBounds, t - 1 \in Nat DEF CDiv
  <2> QED BY <1>0, <1>2, <2>1
<1>3. CASE s > 0
  BY <1>3, DivMono, s - 1 \in Nat, t - 1 \in Nat DEF CDiv
<1> QED BY <1>1, <1>2, <1>3

\* A block with bytes in the file is not beyond the last block.
LEMMA BytesInsideFile ==
    ASSUME NEW i \in Nat, NEW s \in Nat, BytesIn(i, s) > 0
    PROVE  i <= CDiv(s - 1)
<1> DEFINE b == i * BlockSize
<1>1. b \in Nat
  BY SizesAssumption, SMTT(30)
<1>2. BytesIn(i, s) = Larger(0, Smaller(s - b, BlockSize))
  BY DEF BytesIn
<1> HIDE DEF b
<1>3. b < s /\ s \in Nat \ {0}
  BY <1>1, <1>2, SizesAssumption DEF Larger, Smaller
<1>4. i <= (s - 1) \div BlockSize
  BY <1>3, BlockOfByte DEF b
<1>5. CDiv(s - 1) = (s - 1) \div BlockSize
  BY <1>3 DEF CDiv
<1> QED BY <1>4, <1>5

\* An encrypted length is positive.
LEMMA CipherLenPositive ==
    ASSUME NEW len \in Nat
    PROVE  CipherLen(len) \in Nat \ {0}
<1>1. len \div CipherBlock \in Nat
  BY SizesAssumption, SMTT(30)
<1>2. (len \div CipherBlock) + 2 \in Nat \ {0}
  BY <1>1
<1>3. \A x, y \in Nat \ {0} : x * y \in Nat \ {0}
  BY SMTT(30)
<1> QED BY <1>2, <1>3, SizesAssumption DEF CipherLen

\* What a cut ciphertext decrypts to has a length.
LEMMA CutLenType ==
    ASSUME NEW enc \in Nat
    PROVE  CutLen(enc) \in Nat
<1>1. enc \div CipherBlock \in Nat
  BY SizesAssumption, SMTT(30)
<1>2. CipherBlock * ((enc \div CipherBlock) - 2) \in Int
  BY <1>1, SizesAssumption
<1> QED BY <1>2 DEF CutLen, Larger

\* The block of a byte of the cache is a block of the cache.
LEMMA BlockOfOffset ==
    ASSUME NEW o \in 0 .. Capacity - 1
    PROVE  o \div BlockSize \in Blocks
<1> DEFINE q == o \div BlockSize
<1>1. o \in Nat /\ o < MaxCacheBlock * BlockSize
  BY SizesAssumption DEF Capacity
<1>2. q \in Nat /\ BlockSize * q <= o
  BY <1>1, DivBounds
<1> SUFFICES ASSUME q >= MaxCacheBlock PROVE FALSE
  BY <1>2, SizesAssumption DEF Blocks
<1> HIDE DEF q
<1>3. BlockSize * q >= MaxCacheBlock * BlockSize
  BY <1>2, SizesAssumption, SMTT(30)
<1> QED BY <1>1, <1>2, <1>3, SizesAssumption, SMTT(30)

\* A product of sizes is a size.
LEMMA CapacityType == Capacity \in Nat \ {0}
<1>1. \A x, y \in Nat \ {0} : x * y \in Nat \ {0}
  BY SMTT(30)
<1> QED BY <1>1, SizesAssumption DEF Capacity

\* The blocks that a write of n bytes at o touches, and where in each it ends.
LEMMA WriteSpan ==
    ASSUME NEW o \in 0 .. Capacity - 1, NEW n \in 1 .. Capacity - o
    PROVE  /\ o \in Nat /\ n \in Nat /\ o + n - 1 \in Nat /\ o + n \in 0 .. Capacity
           /\ o \div BlockSize \in Blocks /\ (o + n - 1) \div BlockSize \in Blocks
           /\ o % BlockSize \in Int
           /\ \A i \in (o \div BlockSize) .. ((o + n - 1) \div BlockSize) :
                i \in Blocks /\ Smaller(BlockSize, o + n - i * BlockSize) \in Nat
<1> DEFINE last == (o + n - 1) \div BlockSize
<1>1. /\ o \in Nat /\ n \in Nat /\ o + n - 1 \in Nat /\ o + n \in 0 .. Capacity
      /\ o + n - 1 \in 0 .. Capacity - 1
  BY CapacityType
<1>2. o \div BlockSize \in Blocks /\ last \in Blocks
  BY <1>1, BlockOfOffset
<1>3. o % BlockSize \in Int
  BY <1>1, SizesAssumption, SMTT(30)
<1>4. ASSUME NEW i \in (o \div BlockSize) .. last
      PROVE  i \in Blocks /\ Smaller(BlockSize, o + n - i * BlockSize) \in Nat
  <2>1. last \in Nat /\ BlockSize * last <= o + n - 1
    BY <1>1, DivBounds
  <2>2. i \in Blocks /\ i \in Nat /\ i <= last
    BY <1>2, SizesAssumption DEF Blocks
  <2> HIDE DEF last
  <2>3. i * BlockSize <= BlockSize * last /\ i * BlockSize \in Int
    BY <2>1, <2>2, SizesAssumption, SMTT(30)
  <2>4. BlockSize * last \in Int
    BY <2>1, SizesAssumption
  <2>5. o + n - i * BlockSize \in Nat
    BY <1>1, <2>1, <2>3, <2>4
  <2> QED BY <2>2, <2>5, SizesAssumption DEF Smaller
<1> QED BY <1>1, <1>2, <1>3, <1>4

-----------------------------------------------------------------------------
(* What the operations on a block return. *)

LEMMA BlockType ==
    ASSUME TypeOK, NEW i \in Blocks
    PROVE  Block(i) \in BlockCopies
BY DEF TypeOK, Block, NewBlock, BlockCopies, BlockStatus

LEMMA ArrivedType ==
    ASSUME TypeOK, NEW i \in Blocks, NEW r \in DownloadResults
    PROVE  /\ Arrived(i, r).len \in Nat
           /\ Arrived(i, r).cur \in BOOLEAN
           /\ Arrived(i, r).cur => HasGoodRemote(i)
<1>1. r \in {"ok", "none", "partial"}
  BY OutcomesAssumption
<1>2. CASE remote[i] = NULL \/ r = "none"
  BY <1>1, <1>2 DEF Arrived
<1>3. CASE remote[i] # NULL /\ r # "none"
  <2>1. remote[i].len \in Nat /\ remote[i].cur \in BOOLEAN
    BY <1>3 DEF TypeOK, RemoteCopies
  <2>2. CASE r = "partial"
    <3>1. Arrived(i, r) = [len |-> remote[i].len \div 2, cur |-> FALSE]
      BY <1>3, <2>2 DEF Arrived
    <3> QED BY <2>1, <3>1
  <2>3. CASE r = "ok"
    <3>1. Arrived(i, r) = Delivered(i)
      BY <1>3, <2>3 DEF Arrived
    <3>2. CASE IsCut(i)
      <4>1. EncSize(i) \in Nat
        BY DEF EncSize, TypeOK
      <4>2. CutLen(EncSize(i)) \in Nat
        BY <4>1, CutLenType
      <4>3. Delivered(i) = [len |-> Smaller(remote[i].len, CutLen(EncSize(i))),
                            cur |-> remote[i].cur
                                    /\ BytesIn(i, size) <= CutLen(EncSize(i))]
        BY <3>2 DEF Delivered
      <4> QED BY <1>3, <2>1, <3>1, <4>2, <4>3 DEF Smaller, HasGoodRemote
    <3>3. CASE ~ IsCut(i)
      <4>1. Arrived(i, r) = [len |-> remote[i].len, cur |-> remote[i].cur]
        BY <3>1, <3>3 DEF Delivered
      <4> QED BY <1>3, <2>1, <4>1 DEF HasGoodRemote
    <3> QED BY <3>2, <3>3
  <2> QED BY <1>1, <1>3, <2>2, <2>3
<1> QED BY <1>2, <1>3

LEMMA DownloadedType ==
    ASSUME TypeOK, NEW i \in Blocks, NEW r \in DownloadResults
    PROVE  Downloaded(i, r) \in BlockCopies
BY BlockType, ArrivedType DEF Downloaded, BlockCopies, BlockStatus

\* A download leaves a block alone, or brings what the storages have of it.
LEMMA DownloadedCases ==
    ASSUME TypeOK, NEW i \in Blocks, NEW r \in DownloadResults
    PROVE  \/ Downloaded(i, r) = Block(i) /\ Block(i).status # "NOTDOWNLOADED"
           \/ /\ Block(i).status = "NOTDOWNLOADED"
              /\ Downloaded(i, r).status # "MODIFIED"
              /\ Downloaded(i, r).cur => HasGoodRemote(i) \/ i \notin written
BY ArrivedType DEF Downloaded

LEMMA WrittenBlockType ==
    ASSUME TypeOK, NEW i \in Blocks, NEW r \in DownloadResults,
           NEW lo \in Int, NEW hi \in Nat
    PROVE  WrittenBlock(i, lo, hi, r) \in BlockCopies
<1>1. Downloaded(i, r) \in BlockCopies
  BY DownloadedType
<1>2. Overwrites(i, lo, hi) \in BOOLEAN
  BY DEF Overwrites
<1> QED BY <1>1, <1>2 DEF WrittenBlock, BlockCopies, BlockStatus, Larger

\* An upload answers with the positive length of a block that was MODIFIED.
LEMMA AnsweredFacts ==
    ASSUME TypeOK, NEW r, NEW i \in Answered(r)
    PROVE  /\ i \in 0 .. LastIndex /\ IsModified(i)
           /\ AnsweredSize(i, r) \in Nat
           /\ r[i] # "empty" => AnsweredSize(i, r) > 0
<1>1. i \in 0 .. LastIndex /\ IsModified(i)
  BY DEF Answered, Uploaded
<1>2. i \in Blocks
  BY <1>1, LastBlockType, SizesAssumption DEF LastIndex, NumCacheBlocks, TypeOK, Blocks
<1>3. cache_block[i].len \in Nat
  BY <1>1, <1>2 DEF IsModified, TypeOK, BlockCopies
<1> QED BY <1>1, <1>3, CipherLenPositive DEF AnsweredSize

\* What an upload leaves in the storages is a copy of the block, or nothing.
LEMMA StoredType ==
    ASSUME NEW i \in Blocks, NEW result \in UploadResults,
           cache_block[i] \in BlockCopies, remote[i] \in RemoteCopies \cup {NULL}
    PROVE  Stored(i, result) \in RemoteCopies \cup {NULL}
<1>1. CASE result \in {"ok", "error"}
  <2> DEFINE k == IF result = "ok" /\ cache_block[i].cur THEN "memory" ELSE "nobody"
             u == Stored(i, result)
  <2>1. u = [len |-> cache_block[i].len, cur |-> cache_block[i].cur, known |-> k]
    BY <1>1 DEF Stored
  <2>2. k \in {"memory", "nobody"}
    OBVIOUS
  <2> HIDE DEF k, u
  <2>3. u \in RemoteCopies
    BY <2>1, <2>2 DEF RemoteCopies, BlockCopies
  <2> QED BY <2>3 DEF u
<1>2. CASE result \in {"empty", "ruin"}
  <2>1. Stored(i, result) = [len |-> 0, cur |-> FALSE, known |-> "nobody"]
    BY <1>2 DEF Stored
  <2> QED BY <2>1 DEF RemoteCopies
<1>3. CASE result \in {"lost", "throw"}
  BY <1>3 DEF Stored
<1> QED BY <1>1, <1>2, <1>3, OutcomesAssumption

\* DfsFile::upload keeps every field in its type.
LEMMA UploadType ==
    ASSUME TypeOK, NEW r \in [0 .. LastIndex -> UploadResults]
    PROVE  /\ UploadedRemote(r) \in [Blocks -> RemoteCopies \cup {NULL}]
           /\ UploadedCache(r) \in [Blocks -> BlockCopies \cup {NULL}]
           /\ UploadedLastEncSize(r) \in Nat
           /\ UploadedBlockEncSize(r) \in Nat
           /\ UploadedLastBlockIndex(r) \in -1 .. MaxCacheBlock - 1
<1>1. UploadedRemote(r) \in [Blocks -> RemoteCopies \cup {NULL}]
  <2> SUFFICES ASSUME NEW i \in Blocks
               PROVE  UploadedRemote(r)[i] \in RemoteCopies \cup {NULL}
    BY DEF UploadedRemote
  <2>1. remote[i] \in RemoteCopies \cup {NULL}
    BY DEF TypeOK
  <2>2. CASE i \in Uploaded(r)
    <3>1. cache_block[i] \in BlockCopies /\ r[i] \in UploadResults
      BY <2>2 DEF Uploaded, IsModified, TypeOK
    <3>5. Stored(i, r[i]) \in RemoteCopies \cup {NULL}
      BY <2>1, <3>1, StoredType
    <3> QED BY <2>2, <3>5 DEF UploadedRemote
  <2> QED BY <2>1, <2>2 DEF UploadedRemote
<1>2. UploadedCache(r) \in [Blocks -> BlockCopies \cup {NULL}]
  <2> SUFFICES ASSUME NEW i \in Blocks
               PROVE  UploadedCache(r)[i] \in BlockCopies \cup {NULL}
    BY DEF UploadedCache
  <2>1. i \in Answered(r) => cache_block[i] # NULL
    BY DEF Answered, Uploaded, IsModified
  <2> QED BY <2>1 DEF UploadedCache, TypeOK, BlockCopies, BlockStatus
<1>3. UploadedLastEncSize(r) \in Nat
  BY AnsweredFacts DEF UploadedLastEncSize, TypeOK
<1>4. UploadedBlockEncSize(r) \in Nat
  <2>1. CASE block_enc_size # 0 \/ FirstFullSized(r) = {}
    BY <2>1 DEF UploadedBlockEncSize, TypeOK
  <2>2. CASE ~ (block_enc_size # 0 \/ FirstFullSized(r) = {})
    <3>1. (CHOOSE i \in FirstFullSized(r) : TRUE) \in Answered(r)
      BY <2>2 DEF FirstFullSized, FullSized
    <3> QED BY <2>2, <3>1, AnsweredFacts DEF UploadedBlockEncSize
  <2> QED BY <2>1, <2>2
<1>5. UploadedLastBlockIndex(r) \in -1 .. MaxCacheBlock - 1
  <2>1. LastIndex \in -1 .. MaxCacheBlock - 1
    BY LastBlockType, SizesAssumption DEF LastIndex, NumCacheBlocks, TypeOK
  <2> QED BY <2>1 DEF UploadedLastBlockIndex, TypeOK, Larger
<1> QED BY <1>1, <1>2, <1>3, <1>4, <1>5

-----------------------------------------------------------------------------
(* Every handler keeps TypeOK. *)

LEMMA EndedType ==
    ASSUME TypeOK, NEW how \in {"down", "dead"}, NEW store, NEW heir,
           Ended(how, store, heir),
           store \in [Blocks -> RemoteCopies \cup {NULL}],
           heir \in {"root_dir", "nobody"},
           root_dir' \in DirEntries \cup {NULL},
           written' \in SUBSET Blocks
    PROVE  TypeOK'
<1>1. 0 \in 0 .. Capacity /\ -1 \in -1 .. MaxCacheBlock - 1
  BY CapacityType, SizesAssumption
<1>2. NoCache \in [Blocks -> BlockCopies \cup {NULL}]
  BY DEF NoCache
<1>3. remote' \in [Blocks -> RemoteCopies \cup {NULL}]
  <2> SUFFICES ASSUME NEW i \in Blocks
               PROVE  remote'[i] \in RemoteCopies \cup {NULL}
    BY DEF Ended
  <2>1. store[i] \in RemoteCopies \cup {NULL}
    OBVIOUS
  <2>2. CASE store[i] # NULL /\ store[i].known = "memory"
    <3>1. remote'[i] = [store[i] EXCEPT !.known = heir]
      BY <2>2 DEF Ended
    <3> QED BY <2>1, <2>2, <3>1 DEF RemoteCopies
  <2>3. CASE ~ (store[i] # NULL /\ store[i].known = "memory")
    BY <2>1, <2>3 DEF Ended
  <2> QED BY <2>2, <2>3
<1> QED BY <1>1, <1>2, <1>3 DEF Ended, TypeOK

LEMMA OutdatedType ==
    ASSUME TypeOK, NEW bs
    PROVE  Outdated(bs) \in [Blocks -> RemoteCopies \cup {NULL}]
<1> SUFFICES ASSUME NEW i \in Blocks
             PROVE  Outdated(bs)[i] \in RemoteCopies \cup {NULL}
  BY DEF Outdated
<1>1. remote[i] \in RemoteCopies \cup {NULL}
  BY DEF TypeOK
<1>2. CASE i \in bs /\ remote[i] # NULL
  <2>1. Outdated(bs)[i] = [len |-> remote[i].len, cur |-> FALSE, known |-> "nobody"]
    BY <1>2 DEF Outdated
  <2> QED BY <1>1, <1>2, <2>1 DEF RemoteCopies
<1> QED BY <1>1, <1>2 DEF Outdated

LEMMA InitType == Init => TypeOK
<1> SUFFICES ASSUME Init PROVE TypeOK
  OBVIOUS
<1>1. 0 \in 0 .. Capacity /\ -1 \in -1 .. MaxCacheBlock - 1
  BY CapacityType, SizesAssumption
<1> QED BY <1>1 DEF Init, TypeOK, NoCache

LEMMA CreateType == TypeOK /\ Create => TypeOK'
<1> SUFFICES ASSUME TypeOK, Create PROVE TypeOK'
  OBVIOUS
<1>1. 0 \in 0 .. Capacity /\ -1 \in -1 .. MaxCacheBlock - 1
  BY CapacityType, SizesAssumption
<1> QED BY <1>1 DEF Create, TypeOK, FileStatus, NoCache

LEMMA WriteType ==
    ASSUME TypeOK, NEW o \in 0 .. Capacity - 1, NEW n \in 1 .. Capacity - o, Write(o, n)
    PROVE  TypeOK'
<1> DEFINE first == o \div BlockSize
           last == (o + n - 1) \div BlockSize
           lo(i) == IF i = first THEN o % BlockSize ELSE 0
           hi(i) == Smaller(BlockSize, o + n - i * BlockSize)
<1>1. o \in Nat /\ n \in Nat /\ o + n \in 0 .. Capacity
  BY WriteSpan
<1>2. first \in Blocks /\ last \in Blocks /\ first .. last \subseteq Blocks
  BY WriteSpan
<1>3. PICK r \in [first .. last -> DownloadResults] :
        cache_block' = [i \in Blocks |->
            IF i \in first .. last THEN WrittenBlock(i, lo(i), hi(i), r[i])
                                   ELSE cache_block[i]]
  BY DEF Write
<1>4. \A i \in first .. last : lo(i) \in Int /\ hi(i) \in Nat
  BY WriteSpan
<1> HIDE DEF first, last, lo, hi
<1>5. cache_block' \in [Blocks -> BlockCopies \cup {NULL}]
  <2> SUFFICES ASSUME NEW i \in Blocks
               PROVE  cache_block'[i] \in BlockCopies \cup {NULL}
    BY <1>3
  <2>1. CASE i \in first .. last
    <3>1. r[i] \in DownloadResults
      BY <2>1
    <3>2. WrittenBlock(i, lo(i), hi(i), r[i]) \in BlockCopies
      BY <1>4, <2>1, <3>1, WrittenBlockType
    <3> QED BY <1>3, <2>1, <3>2
  <2>2. CASE i \notin first .. last
    BY <1>3, <2>2 DEF TypeOK
  <2> QED BY <2>1, <2>2
<1>6. remote' \in [Blocks -> RemoteCopies \cup {NULL}]
  BY OutdatedType DEF Write
<1>7. size' \in 0 .. Capacity
  BY <1>1 DEF Write, TypeOK, Larger
<1>8. written' \in SUBSET Blocks
  BY <1>2 DEF Write, TypeOK, first, last
<1>9. status' \in FileStatus \cup {NULL}
  BY DEF Write, Touched, TypeOK, FileStatus
<1> QED BY <1>5, <1>6, <1>7, <1>8, <1>9 DEF Write, TypeOK, header

\* dfs_read changes the cache only: a block is as before or downloaded.
LEMMA ReadEffect ==
    ASSUME TypeOK, NEW o \in 0 .. Capacity - 1, NEW n \in 1 .. Capacity - o, Read(o, n)
    PROVE  /\ UNCHANGED <<mounted, status, size, header, garbage, remote, root_dir, written>>
           /\ cache_block' = [i \in Blocks |-> cache_block'[i]]
           /\ mounted = "up" /\ status # NULL
           /\ \A i \in Blocks :
                \/ cache_block'[i] = cache_block[i]
                \/ \E r \in DownloadResults : cache_block'[i] = Downloaded(i, r)
<1> DEFINE stop == Smaller(o + n, size)
           first == o \div BlockSize
           last == (stop - 1) \div BlockSize
           hi(i) == Smaller(BlockSize, stop - i * BlockSize)
           visits(i, r) == /\ i \in first .. last
                           /\ \A j \in first .. i - 1 : Downloaded(j, r[j]).len >= hi(j)
<1>1. PICK r \in [first .. last -> DownloadResults] :
        cache_block' = [i \in Blocks |->
            IF visits(i, r) THEN Downloaded(i, r[i]) ELSE cache_block[i]]
  BY DEF Read
<1>2. ASSUME NEW i \in Blocks
      PROVE  \/ cache_block'[i] = cache_block[i]
             \/ \E s \in DownloadResults : cache_block'[i] = Downloaded(i, s)
  <2>1. CASE visits(i, r)
    <3>1. r[i] \in DownloadResults
      BY <1>1, <2>1
    <3>2. cache_block'[i] = Downloaded(i, r[i])
      BY <1>1, <2>1
    <3> QED BY <3>1, <3>2
  <2>2. CASE ~ visits(i, r)
    BY <1>1, <2>2
  <2> QED BY <2>1, <2>2
<1>3. cache_block' = [i \in Blocks |-> cache_block'[i]]
  BY <1>1
<1> QED BY <1>2, <1>3 DEF Read

LEMMA ReadType ==
    ASSUME TypeOK, NEW o \in 0 .. Capacity - 1, NEW n \in 1 .. Capacity - o, Read(o, n)
    PROVE  TypeOK'
<1>1. \A i \in Blocks : cache_block'[i] \in BlockCopies \cup {NULL}
  BY ReadEffect, DownloadedType DEF TypeOK
<1>2. cache_block' \in [Blocks -> BlockCopies \cup {NULL}]
  BY <1>1, ReadEffect
<1> QED BY <1>2, ReadEffect DEF TypeOK, header

LEMMA TruncateType ==
    ASSUME TypeOK, NEW o \in TruncateSizes, Truncate(o)
    PROVE  TypeOK'
<1> DEFINE last == o \div BlockSize
           len == o % BlockSize
           kept == {i \in written : BytesIn(i, Smaller(size, o)) > 0}
<1>1. o \in 0 .. Capacity - 1 /\ o \in Nat
  BY SizesAssumption, CapacityType DEF Capacity
<1>2. len \in Nat
  BY <1>1, SizesAssumption, SMTT(30)
<1>3. cache_block' = [i \in Blocks |->
               IF i = last
                 THEN [status |-> Block(i).status, len |-> len,
                       cur |-> Block(i).cur \/ i \notin kept]
               ELSE IF last < i /\ i < NumCacheBlocks(size) THEN NULL
               ELSE cache_block[i]]
  BY DEF Truncate
<1>4. kept \in SUBSET Blocks /\ written' = kept /\ remote' = Outdated(Blocks \ kept)
  BY DEF Truncate, TypeOK
<1> HIDE DEF last, len, kept
<1>5. cache_block' \in [Blocks -> BlockCopies \cup {NULL}]
  <2> SUFFICES ASSUME NEW i \in Blocks
               PROVE  cache_block'[i] \in BlockCopies \cup {NULL}
    BY <1>3
  <2>1. Block(i) \in BlockCopies
    BY BlockType
  <2> QED BY <1>2, <1>3, <2>1 DEF TypeOK, BlockCopies
<1>6. remote' \in [Blocks -> RemoteCopies \cup {NULL}]
  BY <1>4, OutdatedType
<1>7. size' \in 0 .. Capacity
  <2>1. size' = Smaller(size, o)
    BY DEF Truncate
  <2> QED BY <1>1, <2>1, CapacityType DEF TypeOK, Smaller
<1> QED BY <1>4, <1>5, <1>6, <1>7 DEF Truncate, TypeOK, header

LEMMA SyncType == TypeOK /\ Sync => TypeOK'
<1> SUFFICES ASSUME TypeOK, Sync PROVE TypeOK'
  OBVIOUS
<1>1. PICK r \in [0 .. LastIndex -> UploadResults] :
         \/ /\ Throws(r)
            /\ Ended("dead", UploadedRemote(r), "nobody")
         \/ /\ ~ Throws(r)
            /\ remote' = UploadedRemote(r)
            /\ cache_block' = UploadedCache(r)
            /\ last_enc_size' = UploadedLastEncSize(r)
            /\ block_enc_size' = UploadedBlockEncSize(r)
            /\ last_block_index' = UploadedLastBlockIndex(r)
            /\ status' = IF Completes(r) THEN "SYNCED" ELSE status
            /\ UNCHANGED <<mounted, size, garbage>>
  BY DEF Sync
<1>2. root_dir' = root_dir /\ written' = written
  BY DEF Sync
<1>3. CASE Throws(r)
  BY <1>1, <1>2, <1>3, UploadType, EndedType DEF TypeOK
<1>4. CASE ~ Throws(r)
  <2>1. status' \in FileStatus \cup {NULL}
    BY <1>1, <1>4 DEF TypeOK, FileStatus
  <2> QED BY <1>1, <1>2, <1>4, <2>1, UploadType DEF TypeOK
<1> QED BY <1>3, <1>4

LEMMA ClearType == TypeOK /\ Clear => TypeOK'
BY DEF TypeOK, Clear, NoCache, header

LEMMA UnmountType == TypeOK /\ Unmount => TypeOK'
<1> SUFFICES ASSUME TypeOK, Unmount PROVE TypeOK'
  OBVIOUS
<1>0. written' = written
  BY DEF Unmount
<1>1. ASSUME NEW entry, NEW store, Saved(entry, store),
             entry \in DirEntries \cup {NULL},
             store \in [Blocks -> RemoteCopies \cup {NULL}]
      PROVE  TypeOK'
  BY <1>0, <1>1, EndedType DEF Saved, TypeOK
<1>2. CASE status = NULL /\ Saved(NULL, remote)
  BY <1>1, <1>2 DEF TypeOK
<1>3. CASE status = "SYNCED" /\ Saved(SavedEntry(block_enc_size, last_enc_size), remote)
  <2>1. SavedEntry(block_enc_size, last_enc_size) \in DirEntries
    BY DEF SavedEntry, DirEntries, TypeOK
  <2> QED BY <1>1, <1>3, <2>1 DEF TypeOK
<1>4. ASSUME NEW r \in [0 .. LastIndex -> UploadResults], UploadAndSave(r)
      PROVE  TypeOK'
  <2>0. UploadedRemote(r) \in [Blocks -> RemoteCopies \cup {NULL}]
    BY UploadType
  <2>1. CASE Throws(r) /\ root_dir' = NULL /\ Ended("dead", UploadedRemote(r), "nobody")
    BY <1>0, <2>0, <2>1, EndedType DEF TypeOK
  <2>2. CASE Saved(SavedEntry(UploadedBlockEncSize(r), UploadedLastEncSize(r)),
                   UploadedRemote(r))
    <3>1. SavedEntry(UploadedBlockEncSize(r), UploadedLastEncSize(r)) \in DirEntries
      BY UploadType DEF SavedEntry, DirEntries, TypeOK
    <3> QED BY <1>1, <2>0, <2>2, <3>1
  <2>3. \/ Throws(r) /\ root_dir' = NULL /\ Ended("dead", UploadedRemote(r), "nobody")
        \/ Saved(SavedEntry(UploadedBlockEncSize(r), UploadedLastEncSize(r)),
                 UploadedRemote(r))
    BY <1>4 DEF UploadAndSave
  <2> QED BY <2>1, <2>2, <2>3
<1> QED BY <1>2, <1>3, <1>4 DEF Unmount

LEMMA MountType == TypeOK /\ Mount => TypeOK'
<1> SUFFICES ASSUME TypeOK, Mount PROVE TypeOK'
  OBVIOUS
<1>1. remote' \in [Blocks -> RemoteCopies \cup {NULL}]
  BY OutdatedType DEF Mount
<1>2. cache_block' \in [Blocks -> BlockCopies \cup {NULL}] /\ root_dir' = root_dir
  BY DEF Mount, NoCache
<1>3. CASE root_dir = NULL
  <2>1. 0 \in 0 .. Capacity /\ -1 \in -1 .. MaxCacheBlock - 1
    BY CapacityType, SizesAssumption
  <2>2. /\ mounted' = "up" /\ status' = NULL /\ size' = 0 /\ garbage' = {}
        /\ last_block_index' = -1 /\ last_enc_size' = 0 /\ block_enc_size' = 0
        /\ written' = {}
    BY <1>3 DEF Mount
  <2>3. root_dir' \in DirEntries \cup {NULL}
    BY <1>2 DEF TypeOK
  <2> QED BY <1>1, <1>2, <2>1, <2>2, <2>3 DEF TypeOK
<1>4. CASE root_dir # NULL
  <2>1. root_dir \in DirEntries
    BY <1>4 DEF TypeOK
  <2>2. CDiv(root_dir.size - 1) \in -1 .. MaxCacheBlock - 1
    BY <2>1, LastBlockType DEF DirEntries
  <2>3. mounted' = "up" /\ status' = "SYNCED" /\ garbage' \in SUBSET Blocks
    BY <1>4 DEF Mount
  <2>4. written' \in SUBSET Blocks
    BY <1>4 DEF Mount, TypeOK
  <2>5. /\ size' \in 0 .. Capacity
        /\ last_enc_size' \in Nat /\ block_enc_size' \in Nat
        /\ last_block_index' \in -1 .. MaxCacheBlock - 1
    BY <1>4, <2>1, <2>2 DEF Mount, DirEntries
  <2> QED BY <1>1, <1>2, <2>3, <2>4, <2>5 DEF TypeOK, FileStatus
<1> QED BY <1>3, <1>4

LEMMA CrashType == TypeOK /\ Crash => TypeOK'
BY EndedType DEF Crash, TypeOK

(***************************************************************************)
(* The fields of DfsFile, its cache and its line in root.dir always have   *)
(* their types: no handler sets an index outside cache_block or a length   *)
(* below zero.                                                             *)
(***************************************************************************)
THEOREM TypeCorrect == Spec => []TypeOK
<1>1. Init => TypeOK
  BY InitType
<1>2. TypeOK /\ [Next]_vars => TypeOK'
  <2> SUFFICES ASSUME TypeOK, [Next]_vars PROVE TypeOK'
    OBVIOUS
  <2>1. CASE Next
    BY <2>1, CreateType, WriteType, ReadType, TruncateType, SyncType, ClearType,
       UnmountType, MountType, CrashType DEF Next
  <2>2. CASE UNCHANGED vars
    BY <2>2 DEF vars, header, TypeOK
  <2> QED BY <2>1, <2>2
<1> QED BY <1>1, <1>2, PTL DEF Spec

-----------------------------------------------------------------------------
(* The cache invariant. *)

LEMMA InitInv == Init => CacheInv
<1> SUFFICES ASSUME Init PROVE CacheInv
  OBVIOUS
<1>1. TypeOK
  BY InitType
<1>2. status = NULL /\ written = {}
  BY DEF Init
<1> QED BY <1>1, <1>2, NullAssumption
        DEF CacheInv, CleanIsStored, DirtyIsNotBehind, SyncedIsClean, UncachedIsKnown,
            RemountFindsBlocks, WrittenInFile, FileStatus

\* Nothing is cached and nothing is open once the process has ended.
LEMMA EndedInv ==
    ASSUME CacheInv, NEW how \in {"down", "dead"}, NEW store, NEW heir,
           Ended(how, store, heir), TypeOK'
    PROVE  CacheInv'
<1>1. mounted' # "up" /\ status' = NULL /\ \A i \in Blocks : cache_block'[i] = NULL
  BY DEF Ended, NoCache
<1>2. written' \subseteq Blocks
  BY DEF TypeOK
<1> QED BY <1>1, <1>2, NullAssumption
        DEF CacheInv, CleanIsStored, DirtyIsNotBehind, SyncedIsClean, UncachedIsKnown,
            RemountFindsBlocks, WrittenInFile, FileStatus, HasGoodCache, IsModified

LEMMA CreateInv == CacheInv /\ Create => CacheInv'
<1> SUFFICES ASSUME CacheInv, Create PROVE CacheInv'
  OBVIOUS
<1>1. TypeOK'
  BY CreateType DEF CacheInv
<1>2. written' = {} /\ status' = "CREATED"
  BY DEF CacheInv, Create, WrittenInFile
<1> QED BY <1>1, <1>2, NullAssumption
        DEF CacheInv, CleanIsStored, DirtyIsNotBehind, SyncedIsClean, UncachedIsKnown,
            RemountFindsBlocks, WrittenInFile, FileStatus

\* dfs_write in terms of the set of blocks it touches.
LEMMA WriteEffect ==
    ASSUME TypeOK, NEW o \in 0 .. Capacity - 1, NEW n \in 1 .. Capacity - o, Write(o, n)
    PROVE  \E W \in SUBSET Blocks :
             /\ \A i \in W : /\ cache_block'[i] # NULL
                             /\ cache_block'[i].status = "MODIFIED"
                             /\ ~ (HasGoodRemote(i))'
                             /\ i <= LastIndex'
             /\ \A i \in Blocks \ W : /\ cache_block'[i] = cache_block[i]
                                      /\ remote'[i] = remote[i]
             /\ written' = written \cup W
             /\ LastIndex <= LastIndex'
<1> DEFINE first == o \div BlockSize
           last == (o + n - 1) \div BlockSize
           lo(i) == IF i = first THEN o % BlockSize ELSE 0
           hi(i) == Smaller(BlockSize, o + n - i * BlockSize)
           W == first .. last
<1>1. o \in Nat /\ n \in Nat /\ o + n - 1 \in Nat /\ o + n \in Nat
  BY WriteSpan
<1>2. first \in Blocks /\ last \in Blocks /\ W \subseteq Blocks
  BY WriteSpan
<1>3. PICK r \in [first .. last -> DownloadResults] :
        cache_block' = [i \in Blocks |->
            IF i \in first .. last THEN WrittenBlock(i, lo(i), hi(i), r[i])
                                   ELSE cache_block[i]]
  BY DEF Write
<1>4. TypeOK'
  BY WriteType
<1>5. remote' = Outdated(first .. last)
  BY DEF Write
<1>6. written' = written \cup W
  BY DEF Write
<1>7. size' = Larger(size, o + n) /\ size \in Nat
  BY CapacityType DEF Write, TypeOK
<1>8. LastIndex <= LastIndex' /\ last <= LastIndex'
  <2>1. size' \in Nat /\ size <= size' /\ o + n <= size'
    BY <1>1, <1>7 DEF Larger
  <2>2. CDiv(size - 1) <= CDiv(size' - 1) /\ CDiv(o + n - 1) <= CDiv(size' - 1)
    BY <1>1, <1>7, <2>1, LastBlockMono
  <2>3. CDiv(o + n - 1) = last
    BY <1>1 DEF CDiv
  <2>4. CDiv(size - 1) \in Int /\ CDiv(size' - 1) \in Int
    BY <1>4, LastBlockType DEF TypeOK
  <2>5. LastIndex = CDiv(size - 1) /\ LastIndex' = CDiv(size' - 1)
    BY <2>4 DEF LastIndex, NumCacheBlocks
  <2> QED BY <2>2, <2>3, <2>5
<1>9. ASSUME NEW i \in W
      PROVE  /\ cache_block'[i] # NULL /\ cache_block'[i].status = "MODIFIED"
             /\ ~ (HasGoodRemote(i))' /\ i <= LastIndex'
  <2>1. i \in Blocks
    BY <1>2
  <2>2. cache_block'[i] = WrittenBlock(i, lo(i), hi(i), r[i])
    BY <1>3, <2>1
  <2>3. cache_block'[i].status = "MODIFIED"
    BY <2>2 DEF WrittenBlock
  <2>4. cache_block'[i] # NULL
    <3>1. lo(i) \in Int /\ hi(i) \in Nat
      BY WriteSpan
    <3>2. r[i] \in DownloadResults
      OBVIOUS
    <3> QED BY <2>1, <2>2, <3>1, <3>2, WrittenBlockType, NullAssumption
  <2>5. ~ (HasGoodRemote(i))'
    <3>1. remote[i] \in RemoteCopies \cup {NULL}
      BY <2>1 DEF TypeOK
    <3>2. CASE remote[i] # NULL
      <4>1. remote'[i] = [len |-> remote[i].len, cur |-> FALSE, known |-> "nobody"]
        BY <1>5, <2>1, <3>2 DEF Outdated
      <4> QED BY <4>1 DEF HasGoodRemote
    <3>3. CASE remote[i] = NULL
      BY <1>5, <2>1, <3>3 DEF Outdated, HasGoodRemote
    <3> QED BY <3>2, <3>3
  <2>6. i <= LastIndex'
    <3>1. LastIndex' \in Int
      BY <1>4, LastBlockType, SizesAssumption DEF TypeOK, LastIndex, NumCacheBlocks
    <3> QED BY <1>2, <1>8, <2>1, <3>1, SizesAssumption DEF Blocks
  <2> QED BY <2>3, <2>4, <2>5, <2>6
<1>10. \A i \in Blocks \ W : cache_block'[i] = cache_block[i] /\ remote'[i] = remote[i]
  BY <1>3, <1>5 DEF Outdated
<1> HIDE DEF W
<1> QED BY <1>2, <1>6, <1>8, <1>9, <1>10

LEMMA WriteInv ==
    ASSUME CacheInv, NEW o \in 0 .. Capacity - 1, NEW n \in 1 .. Capacity - o, Write(o, n)
    PROVE  CacheInv'
<1>0. TypeOK /\ TypeOK'
  BY WriteType DEF CacheInv
<1>1. status # NULL /\ status' # NULL /\ status' # "SYNCED"
  BY <1>0, NullAssumption DEF Write, Touched, TypeOK, FileStatus
<1>2. last_block_index' = last_block_index
  BY DEF Write, header
<1>3. PICK W \in SUBSET Blocks :
             /\ \A i \in W : /\ cache_block'[i] # NULL
                             /\ cache_block'[i].status = "MODIFIED"
                             /\ ~ (HasGoodRemote(i))'
                             /\ i <= LastIndex'
             /\ \A i \in Blocks \ W : /\ cache_block'[i] = cache_block[i]
                                      /\ remote'[i] = remote[i]
             /\ written' = written \cup W
             /\ LastIndex <= LastIndex'
  BY <1>0, WriteEffect
<1>4. ASSUME NEW i \in written', i \notin W
      PROVE  /\ i \in written /\ i \in Blocks
             /\ cache_block'[i] = cache_block[i] /\ remote'[i] = remote[i]
  BY <1>0, <1>3, <1>4 DEF TypeOK
<1>5. CleanIsStored'
  BY <1>3, <1>4 DEF CacheInv, CleanIsStored, HasGoodCache, HasGoodRemote
<1>6. DirtyIsNotBehind'
  BY <1>3, <1>4 DEF CacheInv, DirtyIsNotBehind, IsModified, HasGoodCache, HasGoodRemote
<1>7. SyncedIsClean' /\ RemountFindsBlocks'
  BY <1>1 DEF SyncedIsClean, RemountFindsBlocks
<1>8. UncachedIsKnown'
  BY <1>1, <1>2, <1>3, <1>4 DEF CacheInv, UncachedIsKnown
<1>9. WrittenInFile'
  <2> SUFFICES ASSUME NEW i \in written' PROVE i <= LastIndex'
    BY <1>1 DEF WrittenInFile
  <2>1. LastIndex \in Int /\ LastIndex' \in Int
    BY <1>0, LastBlockType, SizesAssumption DEF TypeOK, LastIndex, NumCacheBlocks
  <2>2. CASE i \in W
    BY <1>3, <2>2
  <2>3. CASE i \notin W
    <3>1. i \in written /\ i \in Int
      BY <1>4, <2>3, SizesAssumption DEF Blocks
    <3>2. i <= LastIndex
      BY <1>1, <3>1 DEF CacheInv, WrittenInFile
    <3> QED BY <1>3, <2>1, <3>1, <3>2
  <2> QED BY <2>2, <2>3
<1> QED BY <1>0, <1>5, <1>6, <1>7, <1>8, <1>9 DEF CacheInv

LEMMA ReadInv ==
    ASSUME CacheInv, NEW o \in 0 .. Capacity - 1, NEW n \in 1 .. Capacity - o, Read(o, n)
    PROVE  CacheInv'
<1>0. TypeOK /\ TypeOK'
  BY ReadType DEF CacheInv
<1>1. /\ UNCHANGED <<mounted, status, size, last_block_index, remote, written>>
      /\ status # NULL
  BY <1>0, ReadEffect DEF header
<1>2. ASSUME NEW i \in written, cache_block'[i] # cache_block[i]
      PROVE  /\ i \in Blocks /\ cache_block'[i] # NULL
             /\ cache_block'[i].status # "MODIFIED"
             /\ cache_block'[i].cur => HasGoodRemote(i)
  <2>1. i \in Blocks
    BY <1>0 DEF TypeOK
  <2>2. PICK r \in DownloadResults : cache_block'[i] = Downloaded(i, r)
    BY <1>0, <1>2, <2>1, ReadEffect
  <2>3. cache_block'[i] # NULL
    BY <1>0, <2>1, <2>2, DownloadedType, NullAssumption
  <2>4. ~ (Downloaded(i, r) = Block(i) /\ Block(i).status # "NOTDOWNLOADED")
    <3> SUFFICES ASSUME Downloaded(i, r) = Block(i), Block(i).status # "NOTDOWNLOADED"
                 PROVE  FALSE
      OBVIOUS
    <3>1. cache_block[i] = NULL
      BY <1>2, <2>2 DEF Block
    <3>2. i <= last_block_index
      BY <1>1, <3>1 DEF CacheInv, UncachedIsKnown
    <3>3. ~ (last_block_index < i)
      BY <1>0, <2>1, <3>2, SizesAssumption DEF TypeOK, Blocks
    <3> QED BY <3>1, <3>3 DEF Block, NewBlock
  <2> QED BY <1>0, <2>1, <2>2, <2>3, <2>4, DownloadedCases
<1>3. CleanIsStored'
  <2> SUFFICES ASSUME NEW i \in written, (HasGoodCache(i))',
                      cache_block'[i].status # "MODIFIED"
               PROVE  HasGoodRemote(i)
    BY <1>1 DEF CleanIsStored, HasGoodRemote
  <2> QED BY <1>2 DEF CacheInv, CleanIsStored, HasGoodCache
<1>4. DirtyIsNotBehind'
  BY <1>1, <1>2 DEF CacheInv, DirtyIsNotBehind, IsModified, HasGoodCache, HasGoodRemote
<1>5. SyncedIsClean'
  BY <1>1, <1>2 DEF CacheInv, SyncedIsClean, IsModified
<1>6. UncachedIsKnown'
  BY <1>1, <1>2 DEF CacheInv, UncachedIsKnown
<1>7. RemountFindsBlocks'
  BY <1>1 DEF CacheInv, RemountFindsBlocks
<1>8. WrittenInFile'
  BY <1>1 DEF CacheInv, WrittenInFile, LastIndex
<1> QED BY <1>0, <1>3, <1>4, <1>5, <1>6, <1>7, <1>8 DEF CacheInv

LEMMA ClearInv == CacheInv /\ Clear => CacheInv'
<1> SUFFICES ASSUME CacheInv, Clear PROVE CacheInv'
  OBVIOUS
<1>0. TypeOK /\ TypeOK'
  BY ClearType DEF CacheInv
<1>1. /\ UNCHANGED <<mounted, status, size, last_block_index, remote, written>>
      /\ status = "SYNCED" /\ cache_block' = NoCache
  BY DEF Clear, header
<1>2. \A i \in written : cache_block'[i] = NULL
  BY <1>0, <1>1 DEF NoCache, TypeOK
<1>3. CleanIsStored' /\ DirtyIsNotBehind' /\ SyncedIsClean'
  BY <1>1, <1>2 DEF CleanIsStored, DirtyIsNotBehind, SyncedIsClean, IsModified, HasGoodCache
<1>4. UncachedIsKnown' /\ RemountFindsBlocks'
  BY <1>1 DEF CacheInv, RemountFindsBlocks, UncachedIsKnown
<1>5. WrittenInFile'
  BY <1>1 DEF CacheInv, WrittenInFile, LastIndex
<1> QED BY <1>0, <1>3, <1>4, <1>5 DEF CacheInv

LEMMA MountInv == CacheInv /\ Mount => CacheInv'
<1> SUFFICES ASSUME CacheInv, Mount PROVE CacheInv'
  OBVIOUS
<1>0. TypeOK /\ TypeOK'
  BY MountType DEF CacheInv
<1>1. \A i \in written' : cache_block'[i] = NULL
  BY <1>0 DEF Mount, NoCache, TypeOK
<1>2. CleanIsStored' /\ DirtyIsNotBehind' /\ SyncedIsClean'
  BY <1>1 DEF CleanIsStored, DirtyIsNotBehind, SyncedIsClean, IsModified, HasGoodCache
<1>3. CASE root_dir = NULL
  <2>1. status' = NULL /\ written' = {}
    BY <1>3 DEF Mount
  <2> QED BY <1>0, <1>2, <2>1, NullAssumption
          DEF CacheInv, UncachedIsKnown, RemountFindsBlocks, WrittenInFile, FileStatus
<1>4. CASE root_dir # NULL
  <2>1. /\ status' = "SYNCED" /\ size' = root_dir.size
        /\ last_block_index' = CDiv(size' - 1)
        /\ written' = {i \in written : BytesIn(i, size') > 0}
    BY <1>4 DEF Mount
  <2>2. ASSUME NEW i \in written' PROVE i <= CDiv(size' - 1)
    <3>1. i \in Nat /\ size' \in Nat /\ BytesIn(i, size') > 0
      BY <1>0, <2>1, CapacityType, SizesAssumption DEF TypeOK, Blocks
    <3> QED BY <3>1, BytesInsideFile
  <2>3. LastIndex' = CDiv(size' - 1)
    BY <1>0, LastBlockType DEF TypeOK, LastIndex, NumCacheBlocks
  <2> QED BY <1>0, <1>2, <2>1, <2>2, <2>3, NullAssumption
          DEF CacheInv, UncachedIsKnown, RemountFindsBlocks, WrittenInFile, FileStatus
<1> QED BY <1>3, <1>4

\* dfs_truncate in terms of the blocks that keep bytes of the user.
LEMMA TruncateEffect ==
    ASSUME CacheInv, NEW o \in TruncateSizes, Truncate(o)
    PROVE  /\ status # NULL /\ UNCHANGED <<mounted, status, last_block_index>>
           /\ written' \subseteq written
           /\ \A i \in written' :
                /\ i <= LastIndex'
                /\ remote'[i] = remote[i]
                /\ \/ cache_block'[i] = cache_block[i]
                   \/ /\ cache_block'[i] # NULL
                      /\ cache_block'[i].status = Block(i).status
                      /\ cache_block'[i].cur = Block(i).cur
<1> DEFINE last == o \div BlockSize
           len == o % BlockSize
           kept == {i \in written : BytesIn(i, Smaller(size, o)) > 0}
<1>0. TypeOK /\ TypeOK'
  BY TruncateType DEF CacheInv
<1>1. o \in Nat /\ size \in Nat
  BY <1>0, SizesAssumption, CapacityType DEF Capacity, TypeOK
<1>2. size' = Smaller(size, o) /\ size' \in Nat /\ size' <= o + 1
  <2>1. size' = Smaller(size, o)
    BY DEF Truncate
  <2> QED BY <1>1, <2>1 DEF Smaller
<1>3. last = CDiv(o + 1 - 1)
  BY <1>1 DEF CDiv
<1>4. written' = kept /\ remote' = Outdated(Blocks \ kept)
  BY DEF Truncate
<1>5. cache_block' = [i \in Blocks |->
               IF i = last
                 THEN [status |-> Block(i).status, len |-> len,
                       cur |-> Block(i).cur \/ i \notin kept]
               ELSE IF last < i /\ i < NumCacheBlocks(size) THEN NULL
               ELSE cache_block[i]]
  BY DEF Truncate
<1>6. LastIndex' = CDiv(size' - 1) /\ CDiv(size' - 1) \in Int
  BY <1>0, LastBlockType DEF TypeOK, LastIndex, NumCacheBlocks
<1>7. last \in Int /\ CDiv(size' - 1) <= last
  BY <1>1, <1>2, <1>3, LastBlockMono, DivBounds, o + 1 \in Nat
<1>8. len \in Nat
  BY <1>1, SizesAssumption, SMTT(30)
<1> HIDE DEF last, len
<1>9. ASSUME NEW i \in written'
      PROVE  /\ i \in written /\ i <= LastIndex' /\ remote'[i] = remote[i]
             /\ \/ cache_block'[i] = cache_block[i]
                \/ /\ cache_block'[i] # NULL
                   /\ cache_block'[i].status = Block(i).status
                   /\ cache_block'[i].cur = Block(i).cur
  <2>1. i \in Blocks /\ i \in Nat /\ i \in written /\ i \in kept
    BY <1>0, <1>4, SizesAssumption DEF TypeOK, Blocks
  <2>2. i <= CDiv(size' - 1)
    BY <1>2, <1>4, <2>1, BytesInsideFile
  <2>3. i <= last
    BY <1>6, <1>7, <2>1, <2>2
  <2>4. remote'[i] = remote[i]
    BY <1>4, <2>1 DEF Outdated
  <2>5. CASE i = last
    <3>1. cache_block'[i] = [status |-> Block(i).status, len |-> len,
                             cur |-> Block(i).cur \/ i \notin kept]
      BY <1>5, <2>1, <2>5
    <3>2. Block(i) \in BlockCopies
      BY <1>0, <2>1, BlockType
    <3>3. cache_block'[i] \in BlockCopies
      BY <1>8, <3>1, <3>2 DEF BlockCopies
    <3> QED BY <1>6, <2>1, <2>2, <2>4, <3>1, <3>2, <3>3, NullAssumption DEF BlockCopies
  <2>6. CASE i # last
    BY <1>5, <1>6, <1>7, <2>1, <2>2, <2>3, <2>4, <2>6
  <2> QED BY <2>5, <2>6
<1>10. status # NULL /\ UNCHANGED <<mounted, status, last_block_index>>
  BY DEF Truncate, header
<1> QED BY <1>9, <1>10

LEMMA TruncateInv ==
    ASSUME CacheInv, NEW o \in TruncateSizes, Truncate(o)
    PROVE  CacheInv'
<1>0. TypeOK /\ TypeOK'
  BY TruncateType DEF CacheInv
<1>1. status # NULL /\ UNCHANGED <<mounted, status, last_block_index>>
  BY TruncateEffect
<1>2. ASSUME NEW i \in written', cache_block'[i] # cache_block[i]
      PROVE  /\ cache_block'[i] # NULL
             /\ cache_block[i] # NULL =>
                  /\ cache_block'[i].status = cache_block[i].status
                  /\ cache_block'[i].cur = cache_block[i].cur
             /\ cache_block[i] = NULL =>
                  /\ cache_block'[i].status = "NOTDOWNLOADED"
                  /\ ~ cache_block'[i].cur
  <2>1. i \in written /\ i \in Blocks
    BY <1>0, TruncateEffect DEF TypeOK
  <2>2. /\ cache_block'[i] # NULL
        /\ cache_block'[i].status = Block(i).status
        /\ cache_block'[i].cur = Block(i).cur
    BY <1>2, TruncateEffect
  <2>3. CASE cache_block[i] = NULL
    <3>1. i <= last_block_index
      BY <1>1, <2>1, <2>3 DEF CacheInv, UncachedIsKnown
    <3>2. ~ (last_block_index < i)
      BY <1>0, <2>1, <3>1, SizesAssumption DEF TypeOK, Blocks
    <3> QED BY <2>1, <2>2, <2>3, <3>2 DEF Block, NewBlock
  <2>4. CASE cache_block[i] # NULL
    BY <2>2, <2>4 DEF Block
  <2> QED BY <2>2, <2>3, <2>4
<1>3. ASSUME NEW i \in written'
      PROVE  i \in written /\ i <= LastIndex' /\ remote'[i] = remote[i]
  BY TruncateEffect
<1>4. CleanIsStored'
  <2> SUFFICES ASSUME NEW i \in written', (HasGoodCache(i))',
                      cache_block'[i].status # "MODIFIED"
               PROVE  (HasGoodRemote(i))'
    BY DEF CleanIsStored
  <2>1. CASE cache_block'[i] = cache_block[i]
    BY <1>3, <2>1 DEF CacheInv, CleanIsStored, HasGoodCache, HasGoodRemote
  <2>2. CASE cache_block'[i] # cache_block[i]
    BY <1>2, <1>3, <2>2 DEF CacheInv, CleanIsStored, HasGoodCache, HasGoodRemote
  <2> QED BY <2>1, <2>2
<1>5. DirtyIsNotBehind'
  <2> SUFFICES ASSUME NEW i \in written', (IsModified(i))', (HasGoodRemote(i))'
               PROVE  (HasGoodCache(i))'
    BY DEF DirtyIsNotBehind
  <2>1. CASE cache_block'[i] = cache_block[i]
    BY <1>3, <2>1 DEF CacheInv, DirtyIsNotBehind, IsModified, HasGoodCache, HasGoodRemote
  <2>2. CASE cache_block'[i] # cache_block[i]
    BY <1>2, <1>3, <2>2
       DEF CacheInv, DirtyIsNotBehind, IsModified, HasGoodCache, HasGoodRemote
  <2> QED BY <2>1, <2>2
<1>6. SyncedIsClean'
  BY <1>1, <1>2, <1>3 DEF CacheInv, SyncedIsClean, IsModified
<1>7. UncachedIsKnown' /\ RemountFindsBlocks'
  BY <1>1, <1>2, <1>3 DEF CacheInv, UncachedIsKnown, RemountFindsBlocks
<1>8. WrittenInFile'
  BY <1>1, <1>3 DEF WrittenInFile
<1> QED BY <1>0, <1>4, <1>5, <1>6, <1>7, <1>8 DEF CacheInv

\* What an honest upload does to one block.
LEMMA UploadEffect ==
    ASSUME HonestUploads, TypeOK, NEW r \in [0 .. LastIndex -> UploadResults],
           ~ Throws(r), NEW i \in Blocks
    PROVE  \/ /\ i \notin Uploaded(r)
              /\ UploadedCache(r)[i] = cache_block[i]
              /\ UploadedRemote(r)[i] = remote[i]
           \/ /\ i \in Uploaded(r)
              /\ UploadedCache(r)[i] # NULL
              /\ UploadedCache(r)[i].cur = cache_block[i].cur
              /\ UploadedRemote(r)[i] # NULL
              /\ UploadedRemote(r)[i].cur = cache_block[i].cur
              /\ r[i] = "ok" => UploadedCache(r)[i].status = "SYNCED"
              /\ r[i] \in {"ok", "error"}
<1>1. CASE i \notin Uploaded(r)
  <2>1. i \notin Answered(r)
    BY <1>1 DEF Answered
  <2> QED BY <1>1, <2>1 DEF UploadedCache, UploadedRemote
<1>2. CASE i \in Uploaded(r)
  <2>1. i \in 0 .. LastIndex /\ IsModified(i)
    BY <1>2 DEF Uploaded
  <2>2. r[i] \in {"ok", "error"}
    <3>1. r[i] \in UploadResults
      BY <2>1
    <3>2. r[i] \notin Deaths
      BY <1>2 DEF Throws, Uploaded
    <3> QED BY <3>1, <3>2 DEF HonestUploads, Deaths
  <2>3. cache_block[i] \in BlockCopies
    BY <2>1 DEF IsModified, TypeOK
  <2>4. /\ UploadedRemote(r)[i] \in RemoteCopies
        /\ UploadedRemote(r)[i].cur = cache_block[i].cur
    <3> DEFINE k == IF r[i] = "ok" /\ cache_block[i].cur THEN "memory" ELSE "nobody"
               u == UploadedRemote(r)[i]
    <3>1. u = [len |-> cache_block[i].len, cur |-> cache_block[i].cur, known |-> k]
      BY <1>2, <2>2 DEF UploadedRemote, Stored
    <3>2. k \in {"memory", "nobody"}
      OBVIOUS
    <3> HIDE DEF k, u
    <3>3. u \in RemoteCopies /\ u.cur = cache_block[i].cur
      BY <2>3, <3>1, <3>2 DEF RemoteCopies, BlockCopies
    <3> QED BY <3>3 DEF u
  <2>6. CASE r[i] = "ok"
    <3>1. i \in Answered(r)
      BY <1>2, <2>6 DEF Answered
    <3>2. AnsweredSize(i, r) > 0
      BY <2>6, <3>1, AnsweredFacts
    <3>3. UploadedCache(r)[i] = [cache_block[i] EXCEPT !.status = "SYNCED"]
      BY <3>1, <3>2 DEF UploadedCache
    <3>4. UploadedCache(r)[i] \in BlockCopies
      BY <2>3, <3>3 DEF BlockCopies, BlockStatus
    <3> QED BY <1>2, <2>2, <2>3, <2>4, <3>3, <3>4, NullAssumption DEF BlockCopies
  <2>7. CASE r[i] = "error"
    <3>1. i \notin Answered(r)
      BY <2>7 DEF Answered
    <3>2. UploadedCache(r)[i] = cache_block[i]
      BY <3>1 DEF UploadedCache
    <3> QED BY <1>2, <2>1, <2>2, <2>4, <2>7, <3>2, NullAssumption DEF IsModified
  <2> QED BY <2>2, <2>6, <2>7
<1> QED BY <1>1, <1>2

LEMMA SyncInv ==
    ASSUME HonestUploads, CacheInv, Sync
    PROVE  CacheInv'
<1>0. TypeOK /\ TypeOK'
  BY SyncType DEF CacheInv
<1>1. PICK r \in [0 .. LastIndex -> UploadResults] :
         \/ /\ Throws(r)
            /\ Ended("dead", UploadedRemote(r), "nobody")
         \/ /\ ~ Throws(r)
            /\ remote' = UploadedRemote(r)
            /\ cache_block' = UploadedCache(r)
            /\ last_enc_size' = UploadedLastEncSize(r)
            /\ block_enc_size' = UploadedBlockEncSize(r)
            /\ last_block_index' = UploadedLastBlockIndex(r)
            /\ status' = IF Completes(r) THEN "SYNCED" ELSE status
            /\ UNCHANGED <<mounted, size, garbage>>
  BY DEF Sync
<1>2. written' = written /\ status \in {"CREATED", "MODIFIED"}
  BY DEF Sync
<1>3. CASE Throws(r)
  BY <1>0, <1>1, <1>3, EndedInv
<1>4. CASE ~ Throws(r)
  <2>1. /\ cache_block' = UploadedCache(r) /\ remote' = UploadedRemote(r)
        /\ last_block_index' = UploadedLastBlockIndex(r)
        /\ status' = IF Completes(r) THEN "SYNCED" ELSE status
        /\ UNCHANGED <<mounted, size>>
    BY <1>1, <1>4
  <2>2. LastIndex' = LastIndex
    BY <2>1 DEF LastIndex
  <2>3. status # NULL /\ status' # NULL
    BY <1>2, <2>1, NullAssumption DEF FileStatus
  <2>4. ASSUME NEW i \in written
        PROVE  /\ i \in Blocks /\ i <= LastIndex
               /\ \/ /\ i \notin Uploaded(r)
                     /\ cache_block'[i] = cache_block[i]
                     /\ remote'[i] = remote[i]
                  \/ /\ i \in Uploaded(r)
                     /\ cache_block'[i] # NULL
                     /\ cache_block'[i].cur = cache_block[i].cur
                     /\ remote'[i] # NULL
                     /\ remote'[i].cur = cache_block[i].cur
                     /\ r[i] = "ok" => cache_block'[i].status = "SYNCED"
                     /\ r[i] \in {"ok", "error"}
    <3>1. i \in Blocks
      BY <1>0 DEF TypeOK
    <3>2. i <= LastIndex
      BY <2>3 DEF CacheInv, WrittenInFile
    <3>3. \/ /\ i \notin Uploaded(r)
             /\ UploadedCache(r)[i] = cache_block[i]
             /\ UploadedRemote(r)[i] = remote[i]
          \/ /\ i \in Uploaded(r)
             /\ UploadedCache(r)[i] # NULL
             /\ UploadedCache(r)[i].cur = cache_block[i].cur
             /\ UploadedRemote(r)[i] # NULL
             /\ UploadedRemote(r)[i].cur = cache_block[i].cur
             /\ r[i] = "ok" => UploadedCache(r)[i].status = "SYNCED"
             /\ r[i] \in {"ok", "error"}
      BY <1>0, <1>4, <3>1, UploadEffect, Zenon
    <3> QED BY <2>1, <3>1, <3>2, <3>3
  <2>5. CleanIsStored'
    BY <1>2, <2>4 DEF CacheInv, CleanIsStored, HasGoodCache, HasGoodRemote
  <2>6. DirtyIsNotBehind'
    BY <1>2, <2>4 DEF CacheInv, DirtyIsNotBehind, IsModified, HasGoodCache, HasGoodRemote
  <2>7. SyncedIsClean'
    <3> SUFFICES ASSUME Completes(r), NEW i \in written PROVE ~ (IsModified(i))'
      BY <1>2, <2>1 DEF SyncedIsClean
    <3>0. LastIndex \in Int
      BY <1>0, LastBlockType, SizesAssumption DEF TypeOK, LastIndex, NumCacheBlocks
    <3>1. i \in 0 .. LastIndex
      BY <2>4, <3>0, SizesAssumption DEF Blocks
    <3>2. ~ StopsUpload(i, r)
      BY <3>1 DEF Completes
    <3>3. Reached(i, r)
      BY <3>0, <3>1 DEF Completes, Reached
    <3> QED BY <2>4, <3>1, <3>2, <3>3 DEF StopsUpload, Uploaded, IsModified
  <2>8. /\ LastIndex \in Int /\ last_block_index \in Int
        /\ last_block_index' \in Int /\ last_block_index <= last_block_index'
        /\ Completes(r) => LastIndex <= last_block_index'
    BY <1>0, <2>1, LastBlockType, SizesAssumption
       DEF UploadedLastBlockIndex, TypeOK, Larger, LastIndex, NumCacheBlocks
  <2>9. RemountFindsBlocks'
    <3> SUFFICES ASSUME Completes(r), NEW i \in written PROVE i <= last_block_index'
      BY <1>2, <2>1 DEF RemountFindsBlocks
    <3>1. i \in Int /\ i <= LastIndex
      BY <2>4, SizesAssumption DEF Blocks
    <3> QED BY <2>8, <3>1
  <2>10. UncachedIsKnown'
    <3> SUFFICES ASSUME NEW i \in written, cache_block'[i] = NULL
                 PROVE  i <= last_block_index'
      BY <1>2 DEF UncachedIsKnown
    <3>1. i \in Int
      BY <2>4, SizesAssumption DEF Blocks
    <3>2. i <= last_block_index
      BY <2>3, <2>4 DEF CacheInv, UncachedIsKnown
    <3> QED BY <2>8, <3>1, <3>2
  <2>11. WrittenInFile'
    BY <1>2, <2>2, <2>3, <2>4 DEF WrittenInFile
  <2> QED BY <1>0, <2>5, <2>6, <2>7, <2>9, <2>10, <2>11 DEF CacheInv
<1> QED BY <1>3, <1>4

LEMMA UnmountInv == CacheInv /\ Unmount => CacheInv'
<1> SUFFICES ASSUME CacheInv, Unmount PROVE CacheInv'
  OBVIOUS
<1>1. TypeOK'
  BY UnmountType DEF CacheInv
<1>2. \E how \in {"down", "dead"} : \E store : \E heir : Ended(how, store, heir)
  BY DEF Unmount, UploadAndSave, Saved
<1> QED BY <1>1, <1>2, EndedInv

LEMMA StutterInv == CacheInv /\ UNCHANGED vars => CacheInv'
BY DEF vars, header, CacheInv, TypeOK, CleanIsStored, DirtyIsNotBehind, SyncedIsClean,
       UncachedIsKnown, RemountFindsBlocks, WrittenInFile, LastIndex, IsModified,
       HasGoodCache, HasGoodRemote

LEMMA NextInv ==
    ASSUME HonestUploads, CacheInv, [Next]_vars
    PROVE  CacheInv'
<1>1. CASE Crash
  <2>1. TypeOK' /\ Ended("dead", remote, "nobody")
    BY <1>1, CrashType DEF CacheInv, Crash
  <2> QED BY <2>1, EndedInv
<1>2. CASE Next /\ ~ Crash
  BY <1>2, CreateInv, WriteInv, ReadInv, TruncateInv, SyncInv, ClearInv, UnmountInv,
     MountInv DEF Next
<1>3. CASE UNCHANGED vars
  BY <1>3, StutterInv
<1> QED BY <1>1, <1>2, <1>3

\* A clean file is stored, whatever else of the invariant is dropped.
LEMMA InvImpliesClearIsSafe == CacheInv => ClearIsSafe
BY DEF CacheInv, CleanIsStored, SyncedIsClean, ClearIsSafe, HasGoodCache, IsModified

(***************************************************************************)
(* Without such uploads every handler keeps what the statuses of the file  *)
(* and its blocks, last_block_index and the written blocks say together:   *)
(* clean blocks are stored, dirty ones are not behind the storages, and    *)
(* the header tells which blocks exist.                                    *)
(***************************************************************************)
THEOREM CacheInvariant ==
    ASSUME HonestUploads
    PROVE  Spec => []CacheInv
<1>1. Init => CacheInv
  BY InitInv
<1>2. CacheInv /\ [Next]_vars => CacheInv'
  BY NextInv
<1> QED BY <1>1, <1>2, PTL DEF Spec

(***************************************************************************)
(* When no upload is acknowledged without being stored, a file that is     *)
(* SYNCED has its latest bytes in the storages wherever the cache has      *)
(* them, so that clear_cache and dfs_destroy may delete the cache.         *)
(***************************************************************************)
THEOREM CacheMayBeCleared ==
    ASSUME HonestUploads
    PROVE  Spec => []ClearIsSafe
BY CacheInvariant, InvImpliesClearIsSafe, PTL

(***************************************************************************)
(* And the header of a SYNCED file, also one rebuilt from root.dir, covers *)
(* every block of the user: none is taken for a new, empty one.            *)
(***************************************************************************)
THEOREM HeaderCoversBlocks ==
    ASSUME HonestUploads
    PROVE  Spec => []RemountFindsBlocks
<1>1. CacheInv => RemountFindsBlocks
  BY DEF CacheInv
<1> QED BY <1>1, CacheInvariant, PTL

LEMMA ReadKeepsCopies ==
    ASSUME CacheInv, NEW o \in 0 .. Capacity - 1, NEW n \in 1 .. Capacity - o, Read(o, n),
           NEW i \in written, HasGoodCopy(i)
    PROVE  (HasGoodCopy(i))'
<1>0. TypeOK /\ i \in Blocks
  BY DEF CacheInv, TypeOK
<1>1. remote' = remote
  BY <1>0, ReadEffect
<1>2. CASE HasGoodRemote(i)
  BY <1>1, <1>2 DEF HasGoodCopy, HasGoodRemote
<1>3. CASE HasGoodCache(i) /\ ~ HasGoodRemote(i)
  <2>1. cache_block[i] # NULL /\ cache_block[i].status = "MODIFIED"
    BY <1>3 DEF CacheInv, CleanIsStored, HasGoodCache
  <2>2. \A r \in DownloadResults : Downloaded(i, r) = cache_block[i]
    BY <2>1 DEF Downloaded, Block
  <2>3. cache_block'[i] = cache_block[i]
    BY <1>0, <2>2, ReadEffect
  <2> QED BY <1>3, <2>3 DEF HasGoodCopy, HasGoodCache
<1> QED BY <1>2, <1>3 DEF HasGoodCopy

LEMMA TruncateKeepsCopies ==
    ASSUME CacheInv, NEW o \in TruncateSizes, Truncate(o),
           NEW i \in written', HasGoodCopy(i)
    PROVE  (HasGoodCopy(i))'
<1>1. remote'[i] = remote[i]
  BY TruncateEffect
<1>2. CASE HasGoodRemote(i)
  BY <1>1, <1>2 DEF HasGoodCopy, HasGoodRemote
<1>3. CASE HasGoodCache(i)
  <2>1. Block(i) = cache_block[i]
    BY <1>3 DEF HasGoodCache, Block
  <2> QED BY <1>3, <2>1, TruncateEffect DEF HasGoodCopy, HasGoodCache
<1> QED BY <1>2, <1>3 DEF HasGoodCopy

LEMMA SyncKeepsCopies ==
    ASSUME HonestUploads, CacheInv, Sync, mounted' = "up", NEW i \in written, HasGoodCopy(i)
    PROVE  (HasGoodCopy(i))'
<1>0. TypeOK /\ i \in Blocks
  BY DEF CacheInv, TypeOK
<1>1. PICK r \in [0 .. LastIndex -> UploadResults] :
         /\ ~ Throws(r)
         /\ remote' = UploadedRemote(r) /\ cache_block' = UploadedCache(r)
  BY DEF Sync, Ended
<1>2. CASE i \notin Uploaded(r)
  <2>1. UploadedCache(r)[i] = cache_block[i] /\ UploadedRemote(r)[i] = remote[i]
    BY <1>0, <1>1, <1>2, UploadEffect
  <2> QED BY <1>1, <2>1 DEF HasGoodCopy, HasGoodCache, HasGoodRemote
<1>3. CASE i \in Uploaded(r)
  <2>1. HasGoodCache(i)
    BY <1>3 DEF Uploaded, CacheInv, DirtyIsNotBehind, HasGoodCopy
  <2>2. UploadedCache(r)[i] # NULL /\ UploadedCache(r)[i].cur = cache_block[i].cur
    BY <1>0, <1>1, <1>3, UploadEffect
  <2> QED BY <1>1, <2>1, <2>2 DEF HasGoodCopy, HasGoodCache
<1> QED BY <1>2, <1>3

LEMMA ClearKeepsCopies ==
    ASSUME CacheInv, Clear, NEW i \in written, HasGoodCopy(i)
    PROVE  (HasGoodCopy(i))'
<1>1. HasGoodRemote(i)
  BY InvImpliesClearIsSafe DEF Clear, ClearIsSafe, HasGoodCopy
<1> QED BY <1>1 DEF Clear, HasGoodCopy, HasGoodRemote

(***************************************************************************)
(* Under the same assumption, and as long as the process lives, no handler *)
(* but a write takes the last good copy of a block away.                   *)
(***************************************************************************)
THEOREM OthersKeepCopies ==
    ASSUME HonestUploads
    PROVE  Spec => OnlyWritesTear
<1> DEFINE Lost(i) == /\ mounted = "up" /\ mounted' = "up" /\ i \in written'
                      /\ HasGoodCopy(i) /\ ~ (HasGoodCopy(i))'
           Wrote == \E o \in 0 .. Capacity - 1 : \E n \in 1 .. Capacity - o : Write(o, n)
<1>1. ASSUME CacheInv, [Next]_vars, NEW i \in written, Lost(i)
      PROVE  Wrote
  <2>1. CASE Create
    BY <1>1, <2>1 DEF Create, CacheInv, WrittenInFile
  <2>2. CASE \E o \in 0 .. Capacity - 1 : \E n \in 1 .. Capacity - o : Read(o, n)
    BY <1>1, <2>2, ReadKeepsCopies
  <2>3. CASE \E o \in TruncateSizes : Truncate(o)
    BY <1>1, <2>3, TruncateKeepsCopies
  <2>4. CASE Sync
    BY <1>1, <2>4, SyncKeepsCopies
  <2>5. CASE Clear
    BY <1>1, <2>5, ClearKeepsCopies
  <2>6. CASE Unmount \/ Mount \/ Crash
    BY <1>1, <2>6 DEF Unmount, UploadAndSave, Saved, Mount, Crash, Ended
  <2>7. CASE UNCHANGED vars
    BY <1>1, <2>7 DEF vars, header, HasGoodCopy, HasGoodCache, HasGoodRemote
  <2> QED BY <1>1, <2>1, <2>2, <2>3, <2>4, <2>5, <2>6, <2>7 DEF Next
<1>2. CacheInv /\ [Next]_vars => [\A i \in written : Lost(i) => Wrote]_vars
  BY <1>1
<1> QED BY <1>2, CacheInvariant, PTL DEF Spec, OnlyWritesTear

(***************************************************************************)
(* Whatever downloads bring, wherever writes start, however often the file *)
(* is truncated and a process dies: an unmount, whose uploads may fail     *)
(* while nobody looks, costs no block that had a good copy and that the    *)
(* upload reached.                                                         *)
(***************************************************************************)
THEOREM UnmountStoresWhatItReaches ==
    ASSUME HonestUploads
    PROVE  Spec => UnmountStoresUpToHole
<1> DEFINE Stores == mounted = "up" /\ mounted' = "down" /\ status \in {"CREATED", "MODIFIED"} =>
             \A r \in [0 .. LastIndex -> UploadResults] : UploadAndSave(r) =>
               \A i \in written :
                 HasGoodCopy(i) /\ Reached(i, r) => (HasGoodRemote(i))'
<1>1. ASSUME CacheInv, mounted' = "down", status \in {"CREATED", "MODIFIED"},
             NEW r \in [0 .. LastIndex -> UploadResults], UploadAndSave(r),
             NEW i \in written, HasGoodCopy(i), Reached(i, r)
      PROVE  (HasGoodRemote(i))'
  <2>1. ~ Throws(r) /\ Ended("down", UploadedRemote(r), "root_dir")
    BY <1>1 DEF UploadAndSave, Saved, Ended
  <2>2. TypeOK /\ i \in Blocks
    BY <1>1 DEF CacheInv, TypeOK
  <2>3. i \in 0 .. LastIndex
    <3>1. status # NULL /\ LastIndex \in Int
      BY <1>1, <2>2, NullAssumption, LastBlockType, SizesAssumption
         DEF FileStatus, TypeOK, LastIndex, NumCacheBlocks
    <3> QED BY <1>1, <2>2, <3>1, SizesAssumption DEF CacheInv, WrittenInFile, Blocks
  <2> DEFINE u == UploadedRemote(r)[i]
  <2>4. u # NULL /\ u.cur
    <3>1. CASE i \in Uploaded(r)
      <4>1. HasGoodCache(i)
        BY <1>1, <3>1 DEF Uploaded, CacheInv, DirtyIsNotBehind, HasGoodCopy
      <4> QED BY <1>1, <2>1, <2>2, <3>1, <4>1, UploadEffect DEF HasGoodCache
    <3>2. CASE i \notin Uploaded(r)
      <4>1. ~ IsModified(i)
        BY <1>1, <2>3, <3>2 DEF Uploaded
      <4>2. HasGoodRemote(i)
        BY <1>1, <4>1 DEF CacheInv, CleanIsStored, HasGoodCopy, HasGoodCache, IsModified
      <4> QED BY <1>1, <2>1, <2>2, <3>2, <4>2, UploadEffect DEF HasGoodRemote
    <3> QED BY <3>1, <3>2
  <2>5. u \in RemoteCopies
    BY <1>1, <2>2, <2>4, UploadType
  <2>6. remote'[i] = IF u # NULL /\ u.known = "memory"
                       THEN [u EXCEPT !.known = "root_dir"] ELSE u
    BY <2>1, <2>2 DEF Ended
  <2> HIDE DEF u
  <2>7. remote'[i] \in RemoteCopies /\ remote'[i].cur
    BY <2>4, <2>5, <2>6 DEF RemoteCopies
  <2> QED BY <2>7, NullAssumption DEF HasGoodRemote
<1>2. CacheInv => [Stores]_vars
  BY <1>1
<1> QED BY <1>2, CacheInvariant, PTL DEF UnmountStoresUpToHole

-----------------------------------------------------------------------------
(***************************************************************************)
(* What DfsFile promises a careful user on storages that answer, whenever  *)
(* the process dies: lengths that the header or root.dir has never cut the *)
(* download of a copy whose length they know, and no write loses the rest  *)
(* of a block.                                                             *)
(***************************************************************************)
\* Downloads bring what is stored; an upload stores, even when pclose then
\* reports an error, or the process dies in it and nothing is replaced.
StoragesAnswer ==
    DownloadResults \subseteq {"ok"} /\ UploadResults \subseteq {"ok", "error", "throw"}

\* The user appends and overwrites only, and syncs before unmounting.
UserIsCareful == TruncateSizes = {} /\ MaxGap = 0 /\ SyncsFirst

(***************************************************************************)
(* The invariant: the written blocks are those of the file; every copy of  *)
(* a block that the file fills is a whole block; what is cached is not     *)
(* behind a copy whose length is known; and the header has that length of  *)
(* every block that is not cached, of the last one also while it is not    *)
(* MODIFIED.  A block that the file does not fill may be shorter than its  *)
(* part of the file, or longer: after a crash the size is an older one.    *)
(***************************************************************************)
Held(s) == {i \in Blocks : i * BlockSize < s}
Fills(i, s) == BytesIn(i, s) = BlockSize

NoHoles == status # NULL => written = Held(size)

\* A cached copy c of block i.
CacheFits(i, c) ==
    /\ i \in written /\ c.len <= BlockSize
    /\ c.status = "NOTDOWNLOADED" <=> c.len = 0
    /\ Fills(i, size) => c.len = BlockSize
    /\ c.cur => c.len > 0
    /\ HasKnownRemote(i) => c.cur

AllCacheFits == \A i \in Blocks : cache_block[i] # NULL => CacheFits(i, cache_block[i])

StoreIsSized ==
    \A i \in Blocks : remote[i] # NULL =>
        remote[i].len <= BlockSize /\ (remote[i].cur => remote[i].len > 0)

IsWhole(i) == remote[i] # NULL /\ remote[i].len = BlockSize

StoreIsWhole ==
    status # NULL => \A i \in written : Fills(i, size) /\ ~ IsModified(i) => IsWhole(i)

HeaderKnows ==
    status # NULL =>
        /\ last_block_index \in {-1} \cup written
        /\ status = "SYNCED" => last_block_index = LastIndex
        /\ garbage # {} => LastIndex \in {-1} \cup written

LastIsExact ==
    /\ status # NULL /\ last_block_index \in written
    /\ \/ cache_block[last_block_index] = NULL
       \/ last_block_index = LastIndex /\ ~ IsModified(last_block_index)
    => /\ HasKnownRemote(last_block_index) =>
            last_enc_size = CipherLen(remote[last_block_index].len)
       /\ Fills(last_block_index, size) => last_enc_size = CipherLen(BlockSize)

LastIsKnown ==
    /\ status # NULL /\ LastIndex \in written /\ ~ IsModified(LastIndex)
    => last_block_index = LastIndex

BlocksAreExact == block_enc_size \in {0, CipherLen(BlockSize)}

\* Only a process that runs has lengths in its memory.
MemoryIsAlive ==
    mounted # "up" => \A i \in Blocks : remote[i] # NULL => remote[i].known # "memory"

\* What the line in root.dir, for a file of s bytes, will tell a mount.
LastEntry(s) == CDiv(s - 1)
EntryKnows(entry) ==
    LET s == entry.size
        last == LastEntry(s)
    IN  /\ Held(s) \subseteq written
        /\ last \in {-1} \cup Held(s)
        /\ entry.block_enc_size \in {0, CipherLen(BlockSize)}
        /\ \A i \in Held(s) : Fills(i, s) => IsWhole(i)
        /\ last \in Held(s) /\ Fills(last, s) => entry.last_enc_size = CipherLen(BlockSize)
        /\ last \in Held(s) /\ HasGoodRemote(last) /\ remote[last].known = "root_dir"
             => entry.last_enc_size = CipherLen(remote[last].len)

SavedIsUsable ==
    root_dir # NULL => /\ EntryKnows(root_dir)
                       /\ mounted = "up" => status # NULL /\ root_dir.size <= size

CarefulInv ==
    /\ CacheInv /\ NoHoles /\ AllCacheFits /\ StoreIsSized /\ StoreIsWhole /\ HeaderKnows
    /\ LastIsExact /\ LastIsKnown /\ BlocksAreExact /\ MemoryIsAlive /\ SavedIsUsable

-----------------------------------------------------------------------------
(* The bytes of a block that lie in a file. *)

\* A block has bytes in a file that goes beyond its first byte.
LEMMA BytesOfBlock ==
    ASSUME NEW i \in Blocks, NEW s \in Nat
    PROVE  /\ i \in Nat /\ i * BlockSize \in Nat
           /\ BytesIn(i, s) \in Nat
           /\ BytesIn(i, s) > 0 <=> i * BlockSize < s
           /\ BytesIn(i, s) = IF s <= i * BlockSize THEN 0
                              ELSE IF s < i * BlockSize + BlockSize THEN s - i * BlockSize
                              ELSE BlockSize
<1> DEFINE b == i * BlockSize
<1>1. i \in Nat
  BY SizesAssumption DEF Blocks
<1>2. b \in Nat
  BY <1>1, SizesAssumption, SMTT(30)
<1>3. BytesIn(i, s) = Larger(0, Smaller(s - b, BlockSize))
  BY DEF BytesIn
<1> HIDE DEF b
<1>4. /\ BytesIn(i, s) \in Nat /\ BytesIn(i, s) > 0 <=> b < s
      /\ BytesIn(i, s) = IF s <= b THEN 0 ELSE IF s < b + BlockSize THEN s - b
                         ELSE BlockSize
  BY <1>2, <1>3, SizesAssumption DEF Larger, Smaller
<1> QED BY <1>1, <1>2, <1>4 DEF b

\* Blocks do not overlap.
LEMMA BlocksAreApart ==
    ASSUME NEW i \in Nat, NEW j \in Nat, i < j
    PROVE  i * BlockSize + BlockSize <= j * BlockSize
<1>1. (i + 1) * BlockSize <= j * BlockSize
  BY SizesAssumption, SMTT(30)
<1>2. (i + 1) * BlockSize = i * BlockSize + BlockSize
  BY SizesAssumption, SMTT(30)
<1> QED BY <1>1, <1>2

\* The last block of a file that is not empty holds its last byte.
LEMMA LastHolds ==
    ASSUME NEW s \in Nat \ {0}
    PROVE  /\ CDiv(s - 1) \in Nat
           /\ CDiv(s - 1) * BlockSize < s
           /\ s <= CDiv(s - 1) * BlockSize + BlockSize
<1> DEFINE q == (s - 1) \div BlockSize
<1>1. CDiv(s - 1) = q /\ s - 1 \in Nat
  BY DEF CDiv
<1>2. q \in Nat /\ BlockSize * q <= s - 1 /\ s - 1 < BlockSize * q + BlockSize
  BY <1>1, DivBounds
<1> HIDE DEF q
<1>3. BlockSize * q = q * BlockSize /\ q * BlockSize \in Nat
  BY <1>2, SizesAssumption, SMTT(30)
<1> QED BY <1>1, <1>2, <1>3, SizesAssumption

\* Blocks before another one of the file, or before the last, are full.
LEMMA FullBefore ==
    ASSUME NEW i \in Blocks, NEW s \in Nat, NEW j \in Nat, i < j,
           j * BlockSize < s \/ j = CDiv(s - 1)
    PROVE  BytesIn(i, s) = BlockSize
<1>1. i \in Nat /\ i * BlockSize \in Nat /\ j * BlockSize \in Nat
  BY BytesOfBlock, SizesAssumption, SMTT(30)
<1>2. i * BlockSize + BlockSize <= j * BlockSize
  BY <1>1, BlocksAreApart
<1>3. j * BlockSize < s
  <2>1. s # 0
    <3> SUFFICES ASSUME s = 0, j = CDiv(-1) PROVE FALSE
      BY <1>1
    <3>1. 1 \div BlockSize \in 0 .. 1
      BY SizesAssumption, SMTT(30)
    <3> QED BY <1>1, <3>1 DEF CDiv
  <2> QED BY <2>1, LastHolds
<1> QED BY <1>1, <1>2, <1>3, BytesOfBlock, SizesAssumption

\* A block of the file is not beyond the last one, and there is a last one.
LEMMA HeldUpToLast ==
    ASSUME NEW s \in 0 .. Capacity
    PROVE  /\ \A i \in Held(s) : i \in Blocks /\ i <= CDiv(s - 1)
           /\ \A i \in Blocks : BytesIn(i, s) > 0 <=> i \in Held(s)
           /\ s > 0 => CDiv(s - 1) \in Held(s)
           /\ s = 0 => Held(s) = {}
<1>1. s \in Nat
  BY CapacityType
<1>2. \A i \in Blocks : BytesIn(i, s) > 0 <=> i \in Held(s)
  BY <1>1, BytesOfBlock DEF Held
<1>3. \A i \in Held(s) : i \in Blocks /\ i <= CDiv(s - 1)
  BY <1>1, <1>2, BytesOfBlock, BytesInsideFile DEF Held
<1>4. s > 0 => CDiv(s - 1) \in Held(s)
  BY <1>1, LastHolds, LastBlockType, SizesAssumption DEF Held, Blocks
<1>5. s = 0 => Held(s) = {}
  BY BytesOfBlock DEF Held
<1> QED BY <1>2, <1>3, <1>4, <1>5

\* What a write without a gap does to the file: the blocks it touches have
\* the bytes they had and those up to its end, the others what they had.
LEMMA WriteGrows ==
    ASSUME NEW o \in 0 .. Capacity - 1, NEW n \in 1 .. Capacity - o,
           NEW s \in 0 .. Capacity, o <= s
    PROVE  LET first == o \div BlockSize
               last == (o + n - 1) \div BlockSize
               t == Larger(s, o + n)
           IN  /\ Held(t) = Held(s) \cup (first .. last)
               /\ \A i \in first .. last :
                    /\ Smaller(BlockSize, o + n - i * BlockSize) \in 1 .. BlockSize
                    /\ BytesIn(i, t) =
                         Larger(BytesIn(i, s), Smaller(BlockSize, o + n - i * BlockSize))
               /\ \A i \in Blocks \ (first .. last) : BytesIn(i, t) = BytesIn(i, s)
               /\ CDiv(t - 1) \notin first .. last => t = s
<1> DEFINE first == o \div BlockSize
           last == (o + n - 1) \div BlockSize
           t == Larger(s, o + n)
<1>1. /\ o \in Nat /\ n \in Nat /\ s \in Nat /\ o + n - 1 \in Nat
      /\ first \in Blocks /\ last \in Blocks /\ first .. last \subseteq Blocks
  <2>1. s \in Nat
    BY CapacityType
  <2>2. \A i \in first .. last : i \in Blocks
    BY WriteSpan
  <2> HIDE DEF first, last
  <2>3. first .. last \subseteq Blocks
    BY <2>2
  <2> QED BY <2>1, <2>3, WriteSpan DEF first, last
<1>2. t \in Nat /\ t \in {s, o + n} /\ s <= t /\ o + n <= t
  BY <1>1 DEF Larger
<1>3. first \in Nat /\ last \in Nat /\ first <= last
  <2>1. o <= o + n - 1
    BY <1>1
  <2> QED BY <1>1, <2>1, DivMono, SizesAssumption DEF Blocks
<1>4. /\ first * BlockSize <= o /\ last * BlockSize <= o + n - 1
      /\ o + n - 1 < last * BlockSize + BlockSize
      /\ first * BlockSize \in Nat /\ last * BlockSize \in Nat
  <2>1. /\ BlockSize * first <= o /\ BlockSize * last <= o + n - 1
        /\ o + n - 1 < BlockSize * last + BlockSize
    BY <1>1, DivBounds
  <2> HIDE DEF first, last
  <2>2. /\ BlockSize * first = first * BlockSize /\ BlockSize * last = last * BlockSize
        /\ first * BlockSize \in Nat /\ last * BlockSize \in Nat
    BY <1>3, SizesAssumption, SMTT(30)
  <2> QED BY <2>1, <2>2
<1> HIDE DEF first, last, t
<1>5. ASSUME NEW i \in first .. last
      PROVE  /\ i \in Blocks /\ i * BlockSize < o + n
             /\ Smaller(BlockSize, o + n - i * BlockSize) \in 1 .. BlockSize
             /\ BytesIn(i, t) = Larger(BytesIn(i, s), Smaller(BlockSize, o + n - i * BlockSize))
  <2>1. i \in Blocks /\ i \in Nat /\ i * BlockSize \in Nat
    BY <1>1, BytesOfBlock
  <2>2. i * BlockSize <= last * BlockSize
    BY <1>3, <1>4, <2>1, BlocksAreApart, SizesAssumption
  <2> DEFINE b == i * BlockSize
  <2>3. /\ BytesIn(i, s) = IF s <= b THEN 0 ELSE IF s < b + BlockSize THEN s - b
                           ELSE BlockSize
        /\ BytesIn(i, t) = IF t <= b THEN 0 ELSE IF t < b + BlockSize THEN t - b
                           ELSE BlockSize
    BY <1>1, <1>2, <2>1, BytesOfBlock
  <2>4. b \in Nat /\ b < o + n
    BY <1>1, <1>4, <2>1, <2>2
  <2> HIDE DEF b
  <2>5. /\ Smaller(BlockSize, o + n - b) \in 1 .. BlockSize
        /\ BytesIn(i, t) = Larger(BytesIn(i, s), Smaller(BlockSize, o + n - b))
    BY <1>1, <1>2, <2>3, <2>4, SizesAssumption DEF Larger, Smaller
  <2> QED BY <2>1, <2>4, <2>5 DEF b
<1>6. ASSUME NEW i \in Blocks \ (first .. last)
      PROVE  BytesIn(i, t) = BytesIn(i, s) /\ (i * BlockSize < t => i * BlockSize < s)
  <2>1. i \in Nat /\ i * BlockSize \in Nat
    BY BytesOfBlock
  <2> DEFINE b == i * BlockSize
  <2>0. /\ BytesIn(i, s) = IF s <= b THEN 0 ELSE IF s < b + BlockSize THEN s - b
                           ELSE BlockSize
        /\ BytesIn(i, t) = IF t <= b THEN 0 ELSE IF t < b + BlockSize THEN t - b
                           ELSE BlockSize
    BY <1>1, <1>2, BytesOfBlock
  <2>2. CASE i < first
    <3>1. i * BlockSize + BlockSize <= first * BlockSize
      BY <1>3, <2>1, <2>2, BlocksAreApart
    <3>2. b + BlockSize <= first * BlockSize /\ b \in Nat
      BY <2>1, <3>1
    <3> HIDE DEF b
    <3>3. BytesIn(i, t) = BytesIn(i, s) /\ (b < t => b < s)
      BY <1>1, <1>2, <1>4, <2>0, <3>2, SizesAssumption
    <3> QED BY <3>3 DEF b
  <2>3. CASE last < i
    <3>1. last * BlockSize + BlockSize <= i * BlockSize
      BY <1>3, <2>1, <2>3, BlocksAreApart
    <3>2. last * BlockSize + BlockSize <= b /\ b \in Nat
      BY <2>1, <3>1
    <3> HIDE DEF b
    <3>3. BytesIn(i, t) = BytesIn(i, s) /\ (b < t => b < s)
      BY <1>1, <1>2, <1>4, <2>0, <3>2, SizesAssumption
    <3> QED BY <3>3 DEF b
  <2> QED BY <1>3, <2>1, <2>2, <2>3
<1>7. Held(t) = Held(s) \cup (first .. last)
  BY <1>1, <1>2, <1>5, <1>6, BytesOfBlock DEF Held
<1>8. CDiv(t - 1) \notin first .. last => t = s
  <2> SUFFICES ASSUME t # s PROVE CDiv(t - 1) = last
    BY <1>3
  <2> QED BY <1>1, <1>2 DEF CDiv, last
<1> QED BY <1>5, <1>6, <1>7, <1>8 DEF first, last, t

\* A longer file fills what a shorter one does.
LEMMA FillsMore ==
    ASSUME NEW i \in Blocks, NEW s \in Nat, NEW t \in Nat, s <= t, Fills(i, s)
    PROVE  Fills(i, t)
<1>1. /\ i * BlockSize \in Nat
      /\ BytesIn(i, s) = IF s <= i * BlockSize THEN 0
                         ELSE IF s < i * BlockSize + BlockSize THEN s - i * BlockSize
                         ELSE BlockSize
      /\ BytesIn(i, t) = IF t <= i * BlockSize THEN 0
                         ELSE IF t < i * BlockSize + BlockSize THEN t - i * BlockSize
                         ELSE BlockSize
  BY BytesOfBlock
<1> DEFINE b == i * BlockSize
<1>2. /\ b \in Nat
      /\ BytesIn(i, s) = IF s <= b THEN 0 ELSE IF s < b + BlockSize THEN s - b ELSE BlockSize
      /\ BytesIn(i, t) = IF t <= b THEN 0 ELSE IF t < b + BlockSize THEN t - b ELSE BlockSize
  BY <1>1
<1> HIDE DEF b
<1>3. BlockSize \in Nat /\ BlockSize > 0
  BY SizesAssumption
<1>4. b + BlockSize <= s
  <2> SUFFICES ASSUME s < b + BlockSize PROVE FALSE
    BY <1>2, <1>3
  <2>1. BytesIn(i, s) < BlockSize
    BY <1>2, <1>3
  <2> QED BY <1>2, <1>3, <2>1 DEF Fills
<1>5. b + BlockSize <= t
  BY <1>2, <1>3, <1>4
<1>6. ~ (t <= b) /\ ~ (t < b + BlockSize)
  BY <1>2, <1>3, <1>5
<1>7. BytesIn(i, t) = BlockSize
  BY <1>2, <1>6
<1> QED BY <1>7 DEF Fills
-----------------------------------------------------------------------------
(* What a block operation returns in a state of the invariant. *)

LEMMA SizeType ==
    ASSUME TypeOK
    PROVE  /\ size \in Nat
           /\ LastIndex = CDiv(size - 1) /\ LastIndex \in -1 .. MaxCacheBlock - 1
BY CapacityType, LastBlockType, SizesAssumption DEF TypeOK, LastIndex, NumCacheBlocks

\* The last block of the file, if it holds bytes of the user, is LastIndex.
LEMMA LastIsLast ==
    ASSUME TypeOK, NoHoles, status # NULL
    PROVE  /\ \A i \in written : i \in Blocks /\ i \in Nat /\ i <= LastIndex
           /\ written # {} => LastIndex \in written
<1>1. written = Held(size) /\ size \in 0 .. Capacity
  BY DEF NoHoles, TypeOK
<1>2. LastIndex = CDiv(size - 1) /\ size \in Nat
  BY SizeType
<1> QED BY <1>1, <1>2, HeldUpToLast, BytesOfBlock

\* The header has the encrypted length of a block that is not cached, or 0.
LEMMA UncachedIsExact ==
    ASSUME CarefulInv, status # NULL, NEW i \in written, cache_block[i] = NULL
    PROVE  /\ i <= last_block_index
           /\ Fills(i, size) => EncSize(i) \in {0, CipherLen(BlockSize)}
           /\ HasKnownRemote(i) => EncSize(i) \in {0, CipherLen(remote[i].len)}
<1>1. TypeOK /\ NoHoles /\ i \in Blocks /\ i \in Nat
  BY LastIsLast DEF CarefulInv, CacheInv
<1>2. i <= last_block_index
  BY DEF CarefulInv, CacheInv, UncachedIsKnown
<1>3. CASE i = last_block_index
  BY <1>2, <1>3 DEF CarefulInv, LastIsExact, EncSize
<1>4. CASE i # last_block_index
  <2>1. last_block_index \in Int
    BY <1>1, SizesAssumption DEF TypeOK
  <2>2. i < last_block_index /\ last_block_index # -1
    BY <1>1, <1>2, <1>4, <2>1
  <2>3. last_block_index \in written
    BY <2>2 DEF CarefulInv, HeaderKnows
  <2>4. last_block_index \in Nat /\ last_block_index * BlockSize < size
    BY <1>1, <2>3, LastIsLast DEF NoHoles, Held
  <2>5. BytesIn(i, size) = BlockSize
    BY <1>1, <2>2, <2>4, FullBefore, SizeType
  <2>6. IsWhole(i)
    BY <2>5 DEF CarefulInv, StoreIsWhole, Fills, IsModified
  <2> QED BY <1>2, <1>4, <2>6 DEF CarefulInv, BlocksAreExact, EncSize, IsWhole
<1> QED BY <1>3, <1>4

\* What arrives of a block fits its place, and is all of it unless it is cut.
LEMMA ArrivedFits ==
    ASSUME TypeOK, StoreIsSized, StoragesAnswer, NEW i \in Blocks, BytesIn(i, size) > 0,
           NEW r \in DownloadResults
    PROVE  /\ Arrived(i, r).len \in Nat /\ Arrived(i, r).len <= BlockSize
           /\ Arrived(i, r).cur \in BOOLEAN
           /\ Arrived(i, r).cur => Arrived(i, r).len > 0
           /\ IsWhole(i) /\ EncSize(i) \in {0, CipherLen(BlockSize)}
                => Arrived(i, r).len = BlockSize
           /\ HasKnownRemote(i) /\ EncSize(i) \in {0, CipherLen(remote[i].len)}
                => Arrived(i, r).cur
<1>1. r = "ok" /\ size \in Nat /\ BytesIn(i, size) \in Nat
  BY SizeType, BytesOfBlock DEF StoragesAnswer
<1> DEFINE a == Arrived(i, r)
<1>2. CASE remote[i] = NULL
  <2>1. a = [len |-> 0, cur |-> FALSE]
    BY <1>2 DEF Arrived
  <2> HIDE DEF a
  <2>2. a.cur \in BOOLEAN /\ ~ a.cur
    BY <2>1
  <2>3. a.len \in Nat /\ a.len <= BlockSize
    BY <2>1, SizesAssumption
  <2>4. ~ IsWhole(i) /\ ~ HasKnownRemote(i)
    BY <1>2 DEF IsWhole, HasKnownRemote, HasGoodRemote
  <2> QED BY <2>2, <2>3, <2>4 DEF a
<1>3. CASE remote[i] # NULL
  <2>1. /\ remote[i].len \in Nat /\ remote[i].len <= BlockSize /\ remote[i].cur \in BOOLEAN
        /\ remote[i].cur => remote[i].len > 0
    BY <1>3 DEF TypeOK, RemoteCopies, StoreIsSized
  <2>2. a = Delivered(i)
    BY <1>1, <1>3 DEF Arrived
  <2>3. CASE IsCut(i)
    <3> DEFINE cut == CutLen(EncSize(i))
    <3>1. EncSize(i) \in Nat /\ cut \in Nat /\ CipherLen(remote[i].len) \in Nat
      BY <2>1, CutLenType, CipherLenPositive DEF EncSize, TypeOK
    <3>2. EncSize(i) \notin {0, CipherLen(remote[i].len)}
      BY <2>3, <3>1 DEF IsCut
    <3>3. a = [len |-> Smaller(remote[i].len, cut),
               cur |-> remote[i].cur /\ BytesIn(i, size) <= cut]
      BY <2>2, <2>3 DEF Delivered
    <3> HIDE DEF a, cut
    <3>4. a.len = Smaller(remote[i].len, cut)
      BY <3>3
    <3>5. a.cur \in BOOLEAN /\ (a.cur => remote[i].cur /\ BytesIn(i, size) <= cut)
      BY <3>3
    <3>6. a.len \in Nat /\ a.len <= BlockSize
      BY <2>1, <3>1, <3>4, SizesAssumption DEF Smaller
    <3>7. a.cur => a.len > 0
      BY <1>1, <2>1, <3>1, <3>4, <3>5 DEF Smaller
    <3> QED BY <3>2, <3>5, <3>6, <3>7 DEF a, IsWhole
  <2>4. CASE ~ IsCut(i)
    <3>1. a = [len |-> remote[i].len, cur |-> remote[i].cur]
      BY <2>2, <2>4 DEF Delivered
    <3> HIDE DEF a
    <3>2. a.len = remote[i].len /\ a.cur = remote[i].cur
      BY <3>1
    <3>3. /\ a.len \in Nat /\ a.len <= BlockSize /\ a.cur \in BOOLEAN
          /\ a.cur => a.len > 0
          /\ IsWhole(i) => a.len = BlockSize
          /\ HasKnownRemote(i) => a.cur
      BY <2>1, <3>2 DEF IsWhole, HasKnownRemote, HasGoodRemote
    <3> QED BY <3>3 DEF a
  <2> QED BY <2>3, <2>4
<1> QED BY <1>2, <1>3

\* So a download of a block of the file leaves it as CacheFits says.
LEMMA DownloadFits ==
    ASSUME StoragesAnswer, CarefulInv, status # NULL, NEW i \in written,
           cache_block[i] = NULL \/ cache_block[i].status = "NOTDOWNLOADED",
           NEW r \in DownloadResults
    PROVE  /\ CacheFits(i, Downloaded(i, r))
           /\ Downloaded(i, r).status \in {"SYNCED", "NOTDOWNLOADED"}
<1>1. /\ TypeOK /\ NoHoles /\ StoreIsSized /\ i \in Blocks /\ i \in Nat
      /\ BytesIn(i, size) > 0
  <2>1. TypeOK /\ NoHoles /\ StoreIsSized /\ i \in Blocks /\ i \in Nat /\ i \in Held(size)
    BY LastIsLast DEF CarefulInv, CacheInv, NoHoles
  <2> QED BY <2>1, HeldUpToLast DEF TypeOK
<1>2. Block(i).status = "NOTDOWNLOADED"
  <2>1. CASE cache_block[i] = NULL
    <3>1. ~ (last_block_index < i)
      BY <1>1, <2>1, UncachedIsExact, SizesAssumption DEF TypeOK
    <3> QED BY <2>1, <3>1 DEF Block, NewBlock
  <2>2. CASE cache_block[i] # NULL
    BY <2>2 DEF Block
  <2> QED BY <2>1, <2>2
<1>3. /\ Fills(i, size) => IsWhole(i) /\ EncSize(i) \in {0, CipherLen(BlockSize)}
      /\ HasKnownRemote(i) => EncSize(i) \in {0, CipherLen(remote[i].len)}
  <2>1. CASE cache_block[i] = NULL
    BY <2>1, UncachedIsExact DEF CarefulInv, StoreIsWhole, IsModified
  <2>2. CASE cache_block[i] # NULL
    <3>1. CacheFits(i, cache_block[i]) /\ cache_block[i].status = "NOTDOWNLOADED"
      BY <1>1, <2>2 DEF CarefulInv, AllCacheFits
    <3>2. ~ Fills(i, size) /\ ~ HasKnownRemote(i)
      BY <3>1, SizesAssumption DEF CacheFits
    <3> QED BY <3>2
  <2> QED BY <2>1, <2>2
<1> DEFINE a == Arrived(i, r)
           d == Downloaded(i, r)
<1>4. /\ a.len \in Nat /\ a.len <= BlockSize /\ a.cur \in BOOLEAN
      /\ a.cur => a.len > 0
      /\ Fills(i, size) => a.len = BlockSize
      /\ HasKnownRemote(i) => a.cur
  BY <1>1, <1>3, ArrivedFits
<1>5. d = [status |-> IF a.len > 0 THEN "SYNCED" ELSE "NOTDOWNLOADED",
           len |-> a.len, cur |-> a.cur \/ i \notin written]
  BY <1>2 DEF Downloaded
<1> HIDE DEF a, d
<1>6. /\ d.status = IF a.len > 0 THEN "SYNCED" ELSE "NOTDOWNLOADED"
      /\ d.len = a.len /\ d.cur = a.cur
  BY <1>4, <1>5
<1>7. CacheFits(i, d) /\ d.status \in {"SYNCED", "NOTDOWNLOADED"}
  BY <1>4, <1>6 DEF CacheFits
<1> QED BY <1>7 DEF d

\* A block made for bytes beyond the file is a new one.
LEMMA BeyondIsNew ==
    ASSUME CarefulInv, status # NULL, NEW i \in Blocks, i \notin written
    PROVE  /\ cache_block[i] = NULL /\ last_block_index < i
           /\ BytesIn(i, size) = 0
<1>0. TypeOK /\ NoHoles
  BY DEF CarefulInv, CacheInv
<1>1. cache_block[i] = NULL
  BY DEF CarefulInv, AllCacheFits, CacheFits
<1>2. i \in Nat /\ i * BlockSize \in Nat /\ size \in Nat /\ size <= i * BlockSize
  BY <1>0, BytesOfBlock, SizeType DEF NoHoles, Held
<1>3. BytesIn(i, size) = 0
  BY <1>2, BytesOfBlock
<1>4. last_block_index < i
  <2>1. CASE last_block_index = -1
    BY <1>2, <2>1
  <2>2. CASE last_block_index \in written
    <3>1. last_block_index \in Nat /\ last_block_index * BlockSize \in Nat
          /\ last_block_index * BlockSize < size
      BY <1>0, <2>2, LastIsLast, BytesOfBlock DEF NoHoles, Held
    <3>2. ~ (i < last_block_index)
      <4> SUFFICES ASSUME i < last_block_index PROVE FALSE
        OBVIOUS
      <4>1. i * BlockSize + BlockSize <= last_block_index * BlockSize
        BY <1>2, <3>1, BlocksAreApart
      <4> QED BY <1>2, <3>1, <4>1, SizesAssumption
    <3> QED BY <1>2, <2>2, <3>1, <3>2
  <2> QED BY <2>1, <2>2 DEF CarefulInv, HeaderKnows
<1> QED BY <1>1, <1>3, <1>4

\* DfsBlock::write finds a block that has all the bytes the file fills, and
\* the latest ones if any copy that can be used has them.
LEMMA BlockFits ==
    ASSUME StoragesAnswer, CarefulInv, status # NULL, NEW i \in Blocks,
           NEW r \in DownloadResults
    PROVE  /\ Downloaded(i, r).len \in Nat /\ Downloaded(i, r).len <= BlockSize
           /\ Fills(i, size) => Downloaded(i, r).len = BlockSize
           /\ i \in written /\ (HasGoodCache(i) \/ HasKnownRemote(i)) => Downloaded(i, r).cur
<1>0. TypeOK
  BY DEF CarefulInv, CacheInv
<1>1. Downloaded(i, r).len \in Nat
  BY <1>0, DownloadedType DEF BlockCopies
<1>2. CASE i \notin written
  <2>1. cache_block[i] = NULL /\ last_block_index < i /\ BytesIn(i, size) = 0
    BY <1>2, BeyondIsNew
  <2> DEFINE d == Downloaded(i, r)
  <2>2. d = [status |-> "MODIFIED", len |-> 0, cur |-> TRUE]
    BY <1>2, <2>1 DEF Downloaded, Block, NewBlock
  <2> HIDE DEF d
  <2>3. d.len = 0
    BY <2>2
  <2>4. d.len = 0 /\ ~ Fills(i, size)
    BY <2>1, <2>3, SizesAssumption DEF Fills
  <2> QED BY <1>1, <1>2, <2>4, SizesAssumption DEF d
<1>3. CASE i \in written /\ (cache_block[i] = NULL \/ cache_block[i].status = "NOTDOWNLOADED")
  <2>1. CacheFits(i, Downloaded(i, r))
    BY <1>3, DownloadFits
  <2>2. ~ HasGoodCache(i)
    BY <1>3 DEF HasGoodCache, CarefulInv, AllCacheFits, CacheFits
  <2> QED BY <1>1, <2>1, <2>2 DEF CacheFits
<1>4. CASE /\ i \in written /\ cache_block[i] # NULL
           /\ cache_block[i].status # "NOTDOWNLOADED"
  <2>1. Downloaded(i, r) = cache_block[i]
    BY <1>4 DEF Downloaded, Block
  <2>2. CacheFits(i, cache_block[i])
    BY <1>4 DEF CarefulInv, AllCacheFits
  <2> QED BY <1>1, <2>1, <2>2 DEF CacheFits, HasGoodCache
<1> QED BY <1>2, <1>3, <1>4

-----------------------------------------------------------------------------
(* Every handler keeps the parts that CarefulInv adds to CacheInv. *)

Additions ==
    /\ NoHoles /\ AllCacheFits /\ StoreIsSized /\ StoreIsWhole /\ HeaderKnows
    /\ LastIsExact /\ LastIsKnown /\ BlocksAreExact /\ MemoryIsAlive /\ SavedIsUsable

\* A line in root.dir stays true as long as its blocks stay written, those it
\* fills stay whole in the storages, and those it knows are not replaced.
LEMMA EntryStaysTrue ==
    ASSUME EntryKnows(root_dir), root_dir' = root_dir, Held(root_dir.size) \subseteq written',
           \A i \in Held(root_dir.size) :
             /\ Fills(i, root_dir.size) /\ IsWhole(i) => (IsWhole(i))'
             /\ (HasGoodRemote(i))' /\ remote'[i].known = "root_dir"
                  => remote'[i] = remote[i]
    PROVE  (EntryKnows(root_dir))'
<1> DEFINE s == root_dir.size
           last == CDiv(s - 1)
<1>1. /\ last \in {-1} \cup Held(s)
      /\ root_dir.block_enc_size \in {0, CipherLen(BlockSize)}
      /\ \A i \in Held(s) : Fills(i, s) => IsWhole(i)
      /\ last \in Held(s) /\ Fills(last, s) => root_dir.last_enc_size = CipherLen(BlockSize)
      /\ last \in Held(s) /\ HasGoodRemote(last) /\ remote[last].known = "root_dir"
           => root_dir.last_enc_size = CipherLen(remote[last].len)
  BY DEF EntryKnows, LastEntry
<1>2. root_dir'.size = s /\ CDiv(root_dir'.size - 1) = last
  OBVIOUS
<1> HIDE DEF s, last
<1>3. \A i \in Held(s) : Fills(i, s) => (IsWhole(i))'
  BY <1>1 DEF s
<1>4. last \in Held(s) /\ remote'[last] # NULL /\ remote'[last].cur
         /\ remote'[last].known = "root_dir"
      => root_dir.last_enc_size = CipherLen(remote'[last].len)
  <2>1. \A i \in Held(s) : remote'[i] # NULL /\ remote'[i].cur
                           /\ remote'[i].known = "root_dir" => remote'[i] = remote[i]
    BY DEF s, HasGoodRemote
  <2>2. last \in Held(s) /\ remote[last] # NULL /\ remote[last].cur
        /\ remote[last].known = "root_dir"
          => root_dir.last_enc_size = CipherLen(remote[last].len)
    BY <1>1 DEF HasGoodRemote
  <2> QED BY <2>1, <2>2
<1>5. Held(s) \subseteq written'
  BY DEF s
<1>6. \A i \in Held(s) : Fills(i, s) => remote'[i] # NULL /\ remote'[i].len = BlockSize
  BY <1>3 DEF IsWhole
<1>7. /\ Held(root_dir'.size) \subseteq written'
      /\ CDiv(root_dir'.size - 1) \in {-1} \cup Held(root_dir'.size)
      /\ root_dir'.block_enc_size \in {0, CipherLen(BlockSize)}
      /\ \A i \in Held(root_dir'.size) : Fills(i, root_dir'.size) =>
             remote'[i] # NULL /\ remote'[i].len = BlockSize
  BY <1>1, <1>2, <1>5, <1>6
<1>8. LET k == CDiv(root_dir'.size - 1)
      IN  /\ k \in Held(root_dir'.size) /\ Fills(k, root_dir'.size)
               => root_dir'.last_enc_size = CipherLen(BlockSize)
          /\ k \in Held(root_dir'.size) /\ remote'[k] # NULL /\ remote'[k].cur
                /\ remote'[k].known = "root_dir"
               => root_dir'.last_enc_size = CipherLen(remote'[k].len)
  BY <1>1, <1>2, <1>4
<1> QED BY <1>7, <1>8 DEF EntryKnows, LastEntry, IsWhole, HasGoodRemote

\* What is outdated keeps its length and loses its bytes.
LEMMA OutdatedEffect ==
    ASSUME TypeOK, NEW bs, NEW i \in Blocks
    PROVE  /\ i \notin bs => Outdated(bs)[i] = remote[i]
           /\ remote[i] = NULL => Outdated(bs)[i] = NULL
           /\ remote[i] # NULL => /\ Outdated(bs)[i] # NULL
                                  /\ Outdated(bs)[i].len = remote[i].len
                                  /\ Outdated(bs)[i].cur => i \notin bs /\ remote[i].cur
                                  /\ i \in bs => ~ Outdated(bs)[i].cur
<1> DEFINE u == Outdated(bs)[i]
<1>1. i \notin bs \/ remote[i] = NULL => u = remote[i]
  BY DEF Outdated
<1>2. CASE i \in bs /\ remote[i] # NULL
  <2>1. u = [len |-> remote[i].len, cur |-> FALSE, known |-> "nobody"]
    BY <1>2 DEF Outdated
  <2>2. u \in RemoteCopies \cup {NULL} /\ remote[i] \in RemoteCopies
    BY <1>2, OutdatedType DEF TypeOK
  <2> HIDE DEF u
  <2>3. u \in RemoteCopies /\ u.len = remote[i].len /\ ~ u.cur
    BY <2>1, <2>2 DEF RemoteCopies
  <2> QED BY <1>2, <2>3, NullAssumption DEF u
<1> QED BY <1>1, <1>2

\* dfs_write: the blocks it touches are in the cache and fit the new size.
LEMMA WriteFits ==
    ASSUME StoragesAnswer, CarefulInv,
           NEW o \in 0 .. Capacity - 1, NEW n \in 1 .. Capacity - o, o <= size, Write(o, n)
    PROVE  \E W \in SUBSET Blocks :
             /\ \A i \in W : /\ cache_block'[i] # NULL
                             /\ cache_block'[i].status = "MODIFIED"
                             /\ cache_block'[i].len \in 1 .. BlockSize
                             /\ Fills(i, size') => cache_block'[i].len = BlockSize
             /\ \A i \in Blocks \ W : /\ cache_block'[i] = cache_block[i]
                                      /\ BytesIn(i, size') = BytesIn(i, size)
             /\ remote' = Outdated(W)
             /\ written' = written \cup W
             /\ written' = Held(size')
             /\ LastIndex' \notin W => size' = size
<1> DEFINE first == o \div BlockSize
           last == (o + n - 1) \div BlockSize
           lo(i) == IF i = first THEN o % BlockSize ELSE 0
           hi(i) == Smaller(BlockSize, o + n - i * BlockSize)
           W == first .. last
<1>0. TypeOK /\ TypeOK' /\ status # NULL
  BY WriteType DEF CarefulInv, CacheInv, Write
<1>1. PICK r \in [first .. last -> DownloadResults] :
        cache_block' = [i \in Blocks |->
            IF i \in first .. last THEN WrittenBlock(i, lo(i), hi(i), r[i])
                                   ELSE cache_block[i]]
  BY DEF Write
<1>2. remote' = Outdated(W)
  BY DEF Write
<1>3. written' = written \cup W /\ size' = Larger(size, o + n)
  BY DEF Write
<1>4. size \in 0 .. Capacity /\ LastIndex' = CDiv(size' - 1)
  <2>1. size \in 0 .. Capacity
    BY <1>0 DEF TypeOK
  <2>2. CDiv(size' - 1) \in -1 .. MaxCacheBlock - 1
    BY <1>0, LastBlockType DEF TypeOK
  <2> QED BY <2>1, <2>2, SizesAssumption DEF LastIndex, NumCacheBlocks
<1>5. /\ Held(size') = Held(size) \cup (first .. last)
      /\ \A i \in first .. last : /\ hi(i) \in 1 .. BlockSize
                                  /\ BytesIn(i, size') = Larger(BytesIn(i, size), hi(i))
      /\ \A i \in Blocks \ (first .. last) : BytesIn(i, size') = BytesIn(i, size)
      /\ CDiv(size' - 1) \notin first .. last => size' = size
  BY <1>3, <1>4, WriteGrows
<1>6. written' = Held(size')
  BY <1>0, <1>3, <1>5 DEF CarefulInv, NoHoles
<1>7. ASSUME NEW i \in W
      PROVE  /\ i \in Blocks
             /\ cache_block'[i] # NULL
             /\ cache_block'[i].status = "MODIFIED"
             /\ cache_block'[i].len \in 1 .. BlockSize
             /\ Fills(i, size') => cache_block'[i].len = BlockSize
  <2>1. i \in Blocks
    BY WriteSpan
  <2>2. r[i] \in DownloadResults
    OBVIOUS
  <2> DEFINE d == Downloaded(i, r[i])
             h == hi(i)
             b == BytesIn(i, size)
             c == cache_block'[i]
  <2>3. /\ d.len \in Nat /\ d.len <= BlockSize
        /\ b = BlockSize => d.len = BlockSize
    BY <1>0, <2>1, <2>2, BlockFits DEF Fills
  <2>4. /\ h \in 1 .. BlockSize /\ BytesIn(i, size') = Larger(b, h)
        /\ lo(i) \in Int
    BY <1>5, WriteSpan
  <2>5. b \in Nat
    BY <1>0, <2>1, BytesOfBlock, SizeType
  <2>6. c = WrittenBlock(i, lo(i), h, r[i])
    BY <1>1, <2>1
  <2>7. c \in BlockCopies
    BY <1>0, <2>1, <2>2, <2>4, <2>6, WrittenBlockType, SizesAssumption
  <2>8. c.status = "MODIFIED" /\ c.len = Larger(d.len, h)
    BY <2>6 DEF WrittenBlock
  <2>9. Fills(i, size') <=> Larger(b, h) = BlockSize
    BY <2>4 DEF Fills
  <2> HIDE DEF c, d, h, b
  <2>10. c.len \in 1 .. BlockSize /\ (Larger(b, h) = BlockSize => c.len = BlockSize)
    BY <2>3, <2>4, <2>5, <2>8, SizesAssumption DEF Larger
  <2>11. c # NULL
    BY <2>7, NullAssumption
  <2> QED BY <2>1, <2>8, <2>9, <2>10, <2>11 DEF c
<1>8. ASSUME NEW i \in Blocks \ W
      PROVE  cache_block'[i] = cache_block[i]
  BY <1>1
<1> HIDE DEF W
<1>9. W \subseteq Blocks
  BY <1>7
<1> QED BY <1>2, <1>3, <1>4, <1>5, <1>6, <1>7, <1>8, <1>9 DEF W

LEMMA WriteCareful ==
    ASSUME StoragesAnswer, CarefulInv,
           NEW o \in 0 .. Capacity - 1, NEW n \in 1 .. Capacity - o, o <= size, Write(o, n)
    PROVE  Additions'
<1>0. TypeOK /\ TypeOK'
  BY WriteType DEF CarefulInv, CacheInv
<1>1. /\ status # NULL /\ status' # NULL /\ status' # "SYNCED"
      /\ mounted = "up" /\ mounted' = "up"
      /\ UNCHANGED <<last_block_index, last_enc_size, block_enc_size, garbage, root_dir>>
  BY <1>0, NullAssumption DEF Write, Touched, TypeOK, FileStatus, header
<1>2. PICK W \in SUBSET Blocks :
             /\ \A i \in W : /\ cache_block'[i] # NULL
                             /\ cache_block'[i].status = "MODIFIED"
                             /\ cache_block'[i].len \in 1 .. BlockSize
                             /\ Fills(i, size') => cache_block'[i].len = BlockSize
             /\ \A i \in Blocks \ W : /\ cache_block'[i] = cache_block[i]
                                      /\ BytesIn(i, size') = BytesIn(i, size)
             /\ remote' = Outdated(W)
             /\ written' = written \cup W
             /\ written' = Held(size')
             /\ LastIndex' \notin W => size' = size
  BY WriteFits
<1>3. ASSUME NEW i \in Blocks
      PROVE  /\ i \notin W => remote'[i] = remote[i]
             /\ remote[i] = NULL => remote'[i] = NULL
             /\ remote[i] # NULL => /\ remote'[i] # NULL
                                    /\ remote'[i].len = remote[i].len
                                    /\ remote'[i].cur => i \notin W /\ remote[i].cur
  BY <1>0, <1>2, OutdatedEffect
<1>4. ASSUME NEW i \in written', i \notin W
      PROVE  /\ i \in written /\ i \in Blocks
             /\ cache_block'[i] = cache_block[i] /\ remote'[i] = remote[i]
             /\ Fills(i, size') = Fills(i, size)
             /\ (IsModified(i))' = IsModified(i)
             /\ (HasKnownRemote(i))' = HasKnownRemote(i)
  <2>1. i \in written /\ i \in Blocks
    BY <1>0, <1>2, <1>4 DEF TypeOK
  <2> QED BY <1>2, <1>3, <1>4, <2>1
          DEF IsModified, HasKnownRemote, HasGoodRemote, Fills
<1>5. \A i \in W : ~ (HasGoodRemote(i))'
  BY <1>3 DEF HasGoodRemote
<1>6. LastIndex' \notin W => LastIndex' = LastIndex
  BY <1>2 DEF LastIndex
<1>7. NoHoles'
  BY <1>2 DEF NoHoles
<1>8. AllCacheFits'
  <2> SUFFICES ASSUME NEW i \in Blocks, cache_block'[i] # NULL
               PROVE  (CacheFits(i, cache_block[i]))'
    BY DEF AllCacheFits
  <2>1. CASE i \in W
    <3>1. /\ i \in written' /\ cache_block'[i].len <= BlockSize
          /\ cache_block'[i].status # "NOTDOWNLOADED" /\ cache_block'[i].len # 0
          /\ cache_block'[i].len > 0
          /\ Fills(i, size') => cache_block'[i].len = BlockSize
          /\ ~ (HasKnownRemote(i))'
      BY <1>2, <1>5, <2>1, SizesAssumption DEF HasKnownRemote
    <3> QED BY <3>1 DEF CacheFits
  <2>2. CASE i \notin W
    <3>1. CacheFits(i, cache_block[i]) /\ i \in written' /\ cache_block'[i] = cache_block[i]
      BY <1>2, <2>2 DEF CarefulInv, AllCacheFits, CacheFits
    <3> QED BY <1>4, <2>2, <3>1 DEF CacheFits
  <2> QED BY <2>1, <2>2
<1>9. StoreIsSized'
  <2> SUFFICES ASSUME NEW i \in Blocks, remote'[i] # NULL
               PROVE  remote'[i].len <= BlockSize /\ (remote'[i].cur => remote'[i].len > 0)
    BY DEF StoreIsSized
  <2> QED BY <1>3 DEF CarefulInv, StoreIsSized
<1>10. StoreIsWhole'
  <2> SUFFICES ASSUME NEW i \in written', Fills(i, size'), ~ (IsModified(i))'
               PROVE  (IsWhole(i))'
    BY DEF StoreIsWhole
  <2>1. i \notin W
    BY <1>2 DEF IsModified
  <2> QED BY <1>1, <1>4, <2>1 DEF CarefulInv, StoreIsWhole, IsWhole
<1>11. HeaderKnows'
  <2>1. garbage' # {} => LastIndex' \in {-1} \cup written'
    BY <1>1, <1>2, <1>6 DEF CarefulInv, HeaderKnows
  <2> QED BY <1>1, <1>2, <2>1 DEF CarefulInv, HeaderKnows
<1>12. LastIsExact'
  <2> DEFINE b == last_block_index
  <2> SUFFICES ASSUME b \in written',
                      \/ cache_block'[b] = NULL
                      \/ b = LastIndex' /\ ~ (IsModified(last_block_index))'
               PROVE  /\ (HasKnownRemote(last_block_index))'
                            => last_enc_size = CipherLen(remote'[b].len)
                      /\ Fills(b, size') => last_enc_size = CipherLen(BlockSize)
    BY <1>1 DEF LastIsExact
  <2>1. b \notin W
    BY <1>1, <1>2 DEF IsModified
  <2>2. /\ b \in written /\ remote'[b] = remote[b] /\ Fills(b, size') = Fills(b, size)
        /\ cache_block'[b] = cache_block[b]
    BY <1>4, <2>1
  <2>3. /\ (HasKnownRemote(last_block_index))' = HasKnownRemote(b)
        /\ (IsModified(last_block_index))' = IsModified(b)
    BY <1>1, <2>2 DEF HasKnownRemote, HasGoodRemote, IsModified
  <2> QED BY <1>1, <1>6, <2>1, <2>2, <2>3 DEF CarefulInv, LastIsExact
<1>13. LastIsKnown'
  <2> SUFFICES ASSUME LastIndex' \in written', ~ (IsModified(LastIndex))'
               PROVE  last_block_index = LastIndex'
    BY <1>1 DEF LastIsKnown
  <2>1. LastIndex' \notin W
    BY <1>2 DEF IsModified
  <2>2. LastIndex' = LastIndex /\ LastIndex \in written /\ ~ IsModified(LastIndex)
    BY <1>4, <1>6, <2>1 DEF IsModified
  <2> QED BY <1>1, <2>2 DEF CarefulInv, LastIsKnown
<1>14. BlocksAreExact' /\ MemoryIsAlive'
  BY <1>1 DEF CarefulInv, BlocksAreExact, MemoryIsAlive
<1>15. SavedIsUsable'
  <2> SUFFICES ASSUME root_dir # NULL
               PROVE  (EntryKnows(root_dir))' /\ root_dir.size <= size'
    BY <1>1 DEF SavedIsUsable
  <2>1. EntryKnows(root_dir) /\ root_dir.size <= size /\ Held(root_dir.size) \subseteq written
    BY <1>1 DEF CarefulInv, SavedIsUsable, EntryKnows
  <2>2. ASSUME NEW i \in Held(root_dir.size)
        PROVE  /\ IsWhole(i) => (IsWhole(i))'
               /\ (HasGoodRemote(i))' => remote'[i] = remote[i]
    <3>1. i \in Blocks
      BY DEF Held
    <3> QED BY <1>3, <1>5, <3>1 DEF IsWhole
  <2>3. (EntryKnows(root_dir))'
    BY <1>1, <1>2, <2>1, <2>2, EntryStaysTrue
  <2>4. root_dir.size \in Int /\ size \in Int /\ size' \in Int /\ size <= size'
    <3>1. size \in Nat /\ size' = Larger(size, o + n)
      BY <1>0, SizeType DEF Write
    <3>2. root_dir.size \in Nat
      BY <1>0, CapacityType DEF TypeOK, DirEntries
    <3> QED BY <3>1, <3>2, WriteSpan DEF Larger
  <2> QED BY <2>1, <2>3, <2>4
<1> QED BY <1>7, <1>8, <1>9, <1>10, <1>11, <1>12, <1>13, <1>14, <1>15 DEF Additions

\* dfs_read touches blocks of the file only.
LEMMA ReadsInside ==
    ASSUME TypeOK, NEW o \in 0 .. Capacity - 1, NEW n \in 1 .. Capacity - o, Read(o, n),
           NEW i \in Blocks, cache_block'[i] # cache_block[i]
    PROVE  i \in Held(size)
<1> DEFINE stop == Smaller(o + n, size)
           first == o \div BlockSize
           last == (stop - 1) \div BlockSize
           hi(k) == Smaller(BlockSize, stop - k * BlockSize)
           visits(k, r) == /\ k \in first .. last
                           /\ \A j \in first .. k - 1 : Downloaded(j, r[j]).len >= hi(j)
<1>1. PICK r \in [first .. last -> DownloadResults] :
        cache_block' = [k \in Blocks |->
            IF visits(k, r) THEN Downloaded(k, r[k]) ELSE cache_block[k]]
  BY DEF Read
<1>2. visits(i, r)
  BY <1>1
<1>3. i \in first .. last
  BY <1>2
<1>4. /\ size \in Nat /\ o \in Nat /\ n \in Nat \ {0} /\ o < size
      /\ stop \in Nat \ {0} /\ stop <= size
  <2>1. /\ size \in Nat /\ o \in Nat /\ n \in Nat \ {0} /\ o < size
    BY SizeType, CapacityType DEF Read
  <2> QED BY <2>1 DEF Smaller
<1>5. last = CDiv(stop - 1) /\ i \in Nat /\ i * BlockSize \in Nat
  BY <1>4, BytesOfBlock DEF CDiv
<1> HIDE DEF last, stop
<1>6. last \in Nat /\ last * BlockSize < stop /\ last * BlockSize \in Nat
  <2>1. last \in Nat /\ last * BlockSize < stop
    BY <1>4, <1>5, LastHolds
  <2> QED BY <2>1, SizesAssumption, SMTT(30)
<1>7. i * BlockSize <= last * BlockSize
  BY <1>3, <1>5, <1>6, BlocksAreApart, SizesAssumption
<1> QED BY <1>4, <1>5, <1>6, <1>7 DEF Held


LEMMA ReadCareful ==
    ASSUME StoragesAnswer, CarefulInv,
           NEW o \in 0 .. Capacity - 1, NEW n \in 1 .. Capacity - o, Read(o, n)
    PROVE  Additions'
<1>0. TypeOK /\ status # NULL
  BY DEF CarefulInv, CacheInv, Read
<1>1. /\ UNCHANGED <<mounted, status, size, last_block_index, last_enc_size,
                     block_enc_size, garbage, remote, root_dir, written>>
      /\ mounted = "up" /\ LastIndex' = LastIndex
  BY <1>0, ReadEffect DEF header, LastIndex
<1>2. ASSUME NEW i \in Blocks, cache_block'[i] # cache_block[i]
      PROVE  /\ i \in written /\ ~ IsModified(i)
             /\ cache_block'[i] # NULL /\ cache_block'[i].status # "MODIFIED"
             /\ (CacheFits(i, cache_block[i]))'
  <2>1. i \in written
    BY <1>0, <1>2, ReadsInside DEF CarefulInv, NoHoles
  <2>2. PICK r \in DownloadResults : cache_block'[i] = Downloaded(i, r)
    BY <1>0, <1>2, ReadEffect
  <2>3. cache_block[i] = NULL \/ cache_block[i].status = "NOTDOWNLOADED"
    <3> SUFFICES ASSUME cache_block[i] # NULL, cache_block[i].status # "NOTDOWNLOADED"
                 PROVE  Downloaded(i, r) = cache_block[i]
      BY <1>2, <2>2
    <3> QED BY DEF Downloaded, Block
  <2>4. /\ CacheFits(i, Downloaded(i, r))
        /\ Downloaded(i, r).status \in {"SYNCED", "NOTDOWNLOADED"}
    BY <1>0, <2>1, <2>3, DownloadFits
  <2>5. Downloaded(i, r) # NULL
    BY <1>0, DownloadedType, NullAssumption
  <2>6. CacheFits(i, cache_block'[i]) /\ cache_block'[i].status # "MODIFIED"
    BY <2>2, <2>4
  <2>7. (CacheFits(i, cache_block[i]))'
    BY <1>1, <2>6 DEF CacheFits, HasKnownRemote, HasGoodRemote
  <2> QED BY <2>1, <2>2, <2>3, <2>5, <2>6, <2>7 DEF IsModified
<1>3. \A i \in Blocks : (IsModified(i))' = IsModified(i)
  BY <1>2 DEF IsModified
<1>4. \A i \in written : i \in Blocks
  BY <1>0 DEF TypeOK
<1>5. /\ NoHoles' /\ StoreIsSized' /\ HeaderKnows' /\ BlocksAreExact' /\ MemoryIsAlive'
      /\ SavedIsUsable'
  BY <1>1 DEF CarefulInv, NoHoles, StoreIsSized, HeaderKnows, BlocksAreExact,
              MemoryIsAlive, SavedIsUsable, EntryKnows, IsWhole, HasGoodRemote
<1>6. AllCacheFits'
  <2> SUFFICES ASSUME NEW i \in Blocks, cache_block'[i] # NULL
               PROVE  (CacheFits(i, cache_block[i]))'
    BY DEF AllCacheFits
  <2>1. CASE cache_block'[i] = cache_block[i]
    <3>1. CacheFits(i, cache_block[i])
      BY <2>1 DEF CarefulInv, AllCacheFits
    <3> QED BY <1>1, <2>1, <3>1 DEF CacheFits, HasKnownRemote, HasGoodRemote
  <2>2. CASE cache_block'[i] # cache_block[i]
    BY <1>2, <2>2
  <2> QED BY <2>1, <2>2
<1>7. StoreIsWhole'
  <2> SUFFICES ASSUME NEW i \in written, Fills(i, size), ~ (IsModified(i))'
               PROVE  IsWhole(i)
    BY <1>1 DEF StoreIsWhole, IsWhole
  <2> QED BY <1>0, <1>3, <1>4 DEF CarefulInv, StoreIsWhole
<1>8. LastIsExact'
  <2> DEFINE b == last_block_index
  <2> SUFFICES ASSUME b \in written,
                      \/ cache_block'[b] = NULL
                      \/ b = LastIndex /\ ~ (IsModified(last_block_index))'
               PROVE  /\ HasKnownRemote(b) => last_enc_size = CipherLen(remote[b].len)
                      /\ Fills(b, size) => last_enc_size = CipherLen(BlockSize)
    BY <1>1 DEF LastIsExact, HasKnownRemote, HasGoodRemote
  <2>1. \/ cache_block[b] = NULL
        \/ b = LastIndex /\ ~ IsModified(b)
    BY <1>1, <1>2, <1>4 DEF IsModified
  <2> QED BY <1>0, <2>1 DEF CarefulInv, LastIsExact
<1>9. LastIsKnown'
  <2> SUFFICES ASSUME LastIndex \in written, ~ (IsModified(LastIndex))'
               PROVE  last_block_index = LastIndex
    BY <1>1 DEF LastIsKnown
  <2>1. ~ IsModified(LastIndex)
    BY <1>1, <1>2, <1>4 DEF IsModified
  <2> QED BY <1>0, <2>1 DEF CarefulInv, LastIsKnown
<1> QED BY <1>5, <1>6, <1>7, <1>8, <1>9 DEF Additions

\* DfsFile::upload of one block: it is left alone; stored and marked SYNCED;
\* stored and not marked because pclose failed; or the process dies of it.
LEMMA UploadStores ==
    ASSUME StoragesAnswer, TypeOK, NEW r \in [0 .. LastIndex -> UploadResults],
           NEW i \in Blocks
    PROVE  \/ /\ i \notin Uploaded(r) /\ i \notin Answered(r)
              /\ UploadedCache(r)[i] = cache_block[i]
              /\ UploadedRemote(r)[i] = remote[i]
           \/ /\ IsModified(i) /\ i \in Answered(r) /\ r[i] = "ok"
              /\ UploadedCache(r)[i] # NULL
              /\ UploadedCache(r)[i].status = "SYNCED"
              /\ UploadedCache(r)[i].len = cache_block[i].len
              /\ UploadedCache(r)[i].cur = cache_block[i].cur
              /\ UploadedRemote(r)[i] # NULL
              /\ UploadedRemote(r)[i].len = cache_block[i].len
              /\ UploadedRemote(r)[i].cur = cache_block[i].cur
              /\ UploadedRemote(r)[i].known # "root_dir"
           \/ /\ IsModified(i) /\ i \notin Answered(r) /\ r[i] = "error"
              /\ UploadedCache(r)[i] = cache_block[i]
              /\ UploadedRemote(r)[i] # NULL
              /\ UploadedRemote(r)[i].len = cache_block[i].len
              /\ UploadedRemote(r)[i].cur = cache_block[i].cur
              /\ UploadedRemote(r)[i].known = "nobody"
           \/ /\ Throws(r) /\ i \notin Answered(r)
              /\ UploadedCache(r)[i] = cache_block[i]
              /\ UploadedRemote(r)[i] = remote[i]
<1>1. CASE i \notin Uploaded(r)
  <2>1. i \notin Answered(r)
    BY <1>1 DEF Answered
  <2> QED BY <1>1, <2>1 DEF UploadedCache, UploadedRemote
<1>2. CASE i \in Uploaded(r)
  <2>1. i \in 0 .. LastIndex /\ IsModified(i) /\ r[i] \in {"ok", "error", "throw"}
    BY <1>2 DEF Uploaded, StoragesAnswer
  <2>2. cache_block[i] \in BlockCopies
    BY <2>1 DEF IsModified, TypeOK
  <2> DEFINE u == UploadedRemote(r)[i]
             c == UploadedCache(r)[i]
             k == IF r[i] = "ok" /\ cache_block[i].cur THEN "memory" ELSE "nobody"
  <2>3. ASSUME r[i] \in {"ok", "error"}
        PROVE  /\ u # NULL /\ u.len = cache_block[i].len /\ u.cur = cache_block[i].cur
               /\ u.known = k
    <3>1. u = [len |-> cache_block[i].len, cur |-> cache_block[i].cur, known |-> k]
      BY <1>2, <2>3 DEF UploadedRemote, Stored
    <3>2. k \in {"memory", "nobody"}
      OBVIOUS
    <3> HIDE DEF u, k
    <3>3. u \in RemoteCopies
      BY <2>2, <3>1, <3>2 DEF RemoteCopies, BlockCopies
    <3>4. u # NULL
      BY <3>3, NullAssumption
    <3>5. u.len = cache_block[i].len /\ u.known = k /\ u.cur = cache_block[i].cur
      BY <3>1
    <3> QED BY <3>4, <3>5
  <2>4. CASE r[i] = "ok"
    <3>1. i \in Answered(r)
      BY <1>2, <2>4 DEF Answered
    <3>2. AnsweredSize(i, r) > 0
      BY <2>4, <3>1, AnsweredFacts
    <3>3. c = [cache_block[i] EXCEPT !.status = "SYNCED"]
      BY <3>1, <3>2 DEF UploadedCache
    <3>4. k # "root_dir" /\ u # NULL /\ u.len = cache_block[i].len
          /\ u.cur = cache_block[i].cur /\ u.known = k
      BY <2>3, <2>4
    <3> HIDE DEF c, u, k
    <3>5. /\ c \in BlockCopies /\ c.status = "SYNCED" /\ c.len = cache_block[i].len
          /\ c.cur = cache_block[i].cur
      BY <2>2, <3>3 DEF BlockCopies, BlockStatus
    <3>6. c # NULL
      BY <3>5, NullAssumption
    <3> QED BY <2>1, <2>4, <3>1, <3>4, <3>5, <3>6 DEF c, u
  <2>5. CASE r[i] = "error"
    <3>1. i \notin Answered(r)
      BY <2>5 DEF Answered
    <3>2. c = cache_block[i]
      BY <3>1 DEF UploadedCache
    <3>3. k = "nobody" /\ u # NULL /\ u.len = cache_block[i].len
          /\ u.cur = cache_block[i].cur /\ u.known = k
      BY <2>3, <2>5
    <3> HIDE DEF c, u, k
    <3> QED BY <2>1, <2>5, <3>1, <3>2, <3>3 DEF c, u
  <2>6. CASE r[i] = "throw"
    <3>1. i \notin Answered(r) /\ Throws(r)
      BY <1>2, <2>1, <2>6 DEF Answered, Throws, Uploaded, Deaths
    <3> QED BY <1>2, <2>6, <3>1 DEF UploadedCache, UploadedRemote, Stored
  <2> QED BY <2>1, <2>4, <2>5, <2>6
<1> QED BY <1>1, <1>2

\* The lengths an upload records.
LEMMA UploadRecords ==
    ASSUME StoragesAnswer, CarefulInv, status # NULL,
           NEW r \in [0 .. LastIndex -> UploadResults]
    PROVE  /\ LastIndex \in Answered(r) =>
                /\ Completes(r)
                /\ UploadedLastEncSize(r) = CipherLen(cache_block[LastIndex].len)
           /\ LastIndex \notin Answered(r) => UploadedLastEncSize(r) = last_enc_size
           /\ UploadedBlockEncSize(r) \in {0, CipherLen(BlockSize)}
<1>0. TypeOK /\ LastIndex = CDiv(size - 1) /\ size \in Nat /\ LastIndex \in Int
  BY SizeType, SizesAssumption DEF CarefulInv, CacheInv
<1>1. ASSUME NEW i \in Answered(r)
      PROVE  /\ i \in Blocks /\ i \in Nat /\ i <= LastIndex
             /\ IsModified(i) /\ r[i] = "ok" /\ CacheFits(i, cache_block[i])
             /\ AnsweredSize(i, r) = CipherLen(cache_block[i].len)
  <2>1. i \in 0 .. LastIndex /\ IsModified(i) /\ r[i] = "ok"
    BY DEF Answered, Uploaded, StoragesAnswer
  <2>2. i \in Blocks
    BY <1>0, <2>1, SizeType, SizesAssumption DEF Blocks
  <2>3. CacheFits(i, cache_block[i])
    BY <2>1, <2>2 DEF CarefulInv, AllCacheFits, IsModified
  <2> QED BY <1>0, <2>1, <2>2, <2>3 DEF AnsweredSize
<1>2. LastIndex \in Answered(r) => Completes(r)
  <2> SUFFICES ASSUME LastIndex \in Answered(r), NEW i \in 0 .. LastIndex
               PROVE  ~ StopsUpload(i, r)
    BY DEF Completes
  <2>1. CASE i = LastIndex
    BY <1>1, <2>1 DEF StopsUpload, IsModified, Deaths
  <2>2. CASE i # LastIndex
    <3>1. i \in 0 .. LastIndex - 1
      BY <1>0, <2>2
    <3> QED BY <3>1 DEF Answered, Uploaded, Reached
  <2> QED BY <2>1, <2>2
<1>3. UploadedBlockEncSize(r) \in {0, CipherLen(BlockSize)}
  <2>1. CASE block_enc_size # 0 \/ FirstFullSized(r) = {}
    BY <2>1 DEF UploadedBlockEncSize, CarefulInv, BlocksAreExact
  <2>2. CASE ~ (block_enc_size # 0 \/ FirstFullSized(r) = {})
    <3> DEFINE i == CHOOSE j \in FirstFullSized(r) : TRUE
    <3>1. i \in Answered(r) /\ i # LastIndex
      BY <2>2 DEF FirstFullSized, FullSized
    <3>2. UploadedBlockEncSize(r) = AnsweredSize(i, r)
      BY <2>2 DEF UploadedBlockEncSize
    <3> HIDE DEF i
    <3>3. i \in Blocks /\ i \in Nat /\ i < LastIndex /\ LastIndex \in Nat
      BY <1>0, <1>1, <3>1
    <3>4. Fills(i, size)
      BY <1>0, <3>3, FullBefore DEF Fills
    <3>5. cache_block[i].len = BlockSize
      BY <1>1, <3>1, <3>4 DEF CacheFits
    <3> QED BY <1>1, <3>1, <3>2, <3>5
  <2> QED BY <2>1, <2>2
<1> QED BY <1>1, <1>2, <1>3 DEF UploadedLastEncSize

\* What an upload leaves in the storages has a size, and a block that the file
\* fills is whole if it was; no new copy is known to root.dir.
LEMMA UploadKeepsStore ==
    ASSUME StoragesAnswer, CarefulInv, NEW r \in [0 .. LastIndex -> UploadResults],
           NEW i \in Blocks
    PROVE  LET u == UploadedRemote(r)[i]
           IN  /\ u # NULL => u.len <= BlockSize /\ (u.cur => u.len > 0)
               /\ Fills(i, size) /\ IsWhole(i) => u # NULL /\ u.len = BlockSize
               /\ u # NULL /\ u.known = "root_dir" => u = remote[i]
<1>0. TypeOK
  BY DEF CarefulInv, CacheInv
<1>1. IsModified(i) => CacheFits(i, cache_block[i])
  BY DEF CarefulInv, AllCacheFits, IsModified
<1>2. remote[i] # NULL => remote[i].len <= BlockSize /\ (remote[i].cur => remote[i].len > 0)
  BY DEF CarefulInv, StoreIsSized
<1> QED BY <1>0, <1>1, <1>2, UploadStores DEF CacheFits, IsWhole

\* The process is gone: what the storages have has a size, and what root.dir
\* says of it is true.
LEMMA EndedCareful ==
    ASSUME TypeOK', BlocksAreExact, NEW how \in {"down", "dead"}, NEW store, NEW heir,
           Ended(how, store, heir), heir \in {"root_dir", "nobody"},
           store \in [Blocks -> RemoteCopies \cup {NULL}],
           \A i \in Blocks : store[i] # NULL =>
             store[i].len <= BlockSize /\ (store[i].cur => store[i].len > 0),
           root_dir' # NULL => (EntryKnows(root_dir))'
    PROVE  Additions'
<1>1. /\ status' = NULL /\ mounted' # "up" /\ block_enc_size' = 0
      /\ \A i \in Blocks : cache_block'[i] = NULL
  BY DEF Ended, NoCache
<1>2. ASSUME NEW i \in Blocks, remote'[i] # NULL
      PROVE  /\ remote'[i].len <= BlockSize /\ (remote'[i].cur => remote'[i].len > 0)
             /\ remote'[i].known # "memory"
  <2>1. remote'[i] = IF store[i] # NULL /\ store[i].known = "memory"
                       THEN [store[i] EXCEPT !.known = heir] ELSE store[i]
    BY DEF Ended
  <2>2. CASE store[i] # NULL /\ store[i].known = "memory"
    <3>1. remote'[i] = [store[i] EXCEPT !.known = heir] /\ store[i] \in RemoteCopies
      BY <2>1, <2>2
    <3>2. /\ remote'[i].len = store[i].len /\ remote'[i].cur = store[i].cur
          /\ remote'[i].known = heir
      BY <3>1 DEF RemoteCopies
    <3> QED BY <2>2, <3>2
  <2>3. CASE ~ (store[i] # NULL /\ store[i].known = "memory")
    BY <1>2, <2>1, <2>3
  <2> QED BY <2>2, <2>3
<1>3. StoreIsSized' /\ MemoryIsAlive'
  BY <1>2 DEF StoreIsSized, MemoryIsAlive
<1>4. AllCacheFits' /\ BlocksAreExact' /\ SavedIsUsable'
  BY <1>1 DEF AllCacheFits, BlocksAreExact, SavedIsUsable
<1>5. NoHoles' /\ StoreIsWhole' /\ HeaderKnows' /\ LastIsExact' /\ LastIsKnown'
  BY <1>1 DEF NoHoles, StoreIsWhole, HeaderKnows, LastIsExact, LastIsKnown
<1> QED BY <1>3, <1>4, <1>5 DEF Additions

\* A process that dies leaves a line in root.dir that is still true.
LEMMA DeathCareful ==
    ASSUME CarefulInv, mounted = "up", NEW store, Ended("dead", store, "nobody"), TypeOK',
           store \in [Blocks -> RemoteCopies \cup {NULL}],
           \A i \in Blocks :
             /\ store[i] # NULL => store[i].len <= BlockSize /\ (store[i].cur => store[i].len > 0)
             /\ Fills(i, size) /\ IsWhole(i) => store[i] # NULL /\ store[i].len = BlockSize
             /\ store[i] # NULL /\ store[i].known = "root_dir" => store[i] = remote[i],
           root_dir' \in {root_dir, NULL}, written' = written
    PROVE  Additions'
<1>1. BlocksAreExact /\ TypeOK
  BY DEF CarefulInv, CacheInv
<1>2. ASSUME NEW i \in Blocks
      PROVE  /\ Fills(i, size) /\ IsWhole(i) => (IsWhole(i))'
             /\ (HasGoodRemote(i))' /\ remote'[i].known = "root_dir"
                  => remote'[i] = remote[i]
  <2>1. remote'[i] = IF store[i] # NULL /\ store[i].known = "memory"
                       THEN [store[i] EXCEPT !.known = "nobody"] ELSE store[i]
    BY DEF Ended
  <2>2. CASE store[i] # NULL /\ store[i].known = "memory"
    <3>1. remote'[i] = [store[i] EXCEPT !.known = "nobody"] /\ store[i] \in RemoteCopies
      BY <2>1, <2>2
    <3>2. /\ remote'[i] \in RemoteCopies
          /\ remote'[i].len = store[i].len /\ remote'[i].known = "nobody"
      BY <3>1 DEF RemoteCopies
    <3>3. remote'[i] # NULL
      BY <3>2, NullAssumption
    <3> QED BY <2>2, <3>2, <3>3 DEF IsWhole
  <2>3. CASE ~ (store[i] # NULL /\ store[i].known = "memory")
    BY <2>1, <2>3 DEF IsWhole, HasGoodRemote
  <2> QED BY <2>2, <2>3
<1>3. root_dir' # NULL => (EntryKnows(root_dir))'
  <2> SUFFICES ASSUME root_dir' = root_dir, root_dir # NULL
               PROVE  (EntryKnows(root_dir))'
    OBVIOUS
  <2>1. EntryKnows(root_dir) /\ root_dir.size <= size
    BY DEF CarefulInv, SavedIsUsable
  <2>2. Held(root_dir.size) \subseteq written'
    BY <2>1 DEF EntryKnows
  <2>3. size \in Nat /\ root_dir.size \in Nat
    BY <1>1, SizeType, CapacityType DEF TypeOK, DirEntries
  <2>4. \A i \in Held(root_dir.size) :
          /\ Fills(i, root_dir.size) /\ IsWhole(i) => (IsWhole(i))'
          /\ (HasGoodRemote(i))' /\ remote'[i].known = "root_dir" => remote'[i] = remote[i]
    BY <1>2, <2>1, <2>3, FillsMore DEF Held
  <2> QED BY <2>1, <2>2, <2>4, EntryStaysTrue
<1> QED BY <1>1, <1>3, EndedCareful

LEMMA SyncCareful ==
    ASSUME StoragesAnswer, CarefulInv, Sync
    PROVE  Additions'
<1>0. /\ TypeOK /\ TypeOK' /\ status \in {"CREATED", "MODIFIED"} /\ status # NULL
      /\ mounted = "up" /\ root_dir' = root_dir /\ written' = written
  BY SyncType, NullAssumption DEF CarefulInv, CacheInv, Sync, FileStatus
<1>1. PICK r \in [0 .. LastIndex -> UploadResults] :
         \/ /\ Throws(r)
            /\ Ended("dead", UploadedRemote(r), "nobody")
         \/ /\ ~ Throws(r)
            /\ remote' = UploadedRemote(r)
            /\ cache_block' = UploadedCache(r)
            /\ last_enc_size' = UploadedLastEncSize(r)
            /\ block_enc_size' = UploadedBlockEncSize(r)
            /\ last_block_index' = UploadedLastBlockIndex(r)
            /\ status' = IF Completes(r) THEN "SYNCED" ELSE status
            /\ UNCHANGED <<mounted, size, garbage>>
  BY DEF Sync
<1>2. CASE Throws(r)
  <2>1. UploadedRemote(r) \in [Blocks -> RemoteCopies \cup {NULL}]
    BY <1>0, UploadType
  <2>2. \A i \in Blocks :
          LET u == UploadedRemote(r)[i]
          IN  /\ u # NULL => u.len <= BlockSize /\ (u.cur => u.len > 0)
              /\ Fills(i, size) /\ IsWhole(i) => u # NULL /\ u.len = BlockSize
              /\ u # NULL /\ u.known = "root_dir" => u = remote[i]
    BY UploadKeepsStore
  <2>3. Ended("dead", UploadedRemote(r), "nobody")
    BY <1>1, <1>2
  <2> DEFINE store == UploadedRemote(r)
  <2> HIDE DEF store
  <2>4. /\ Ended("dead", store, "nobody") /\ store \in [Blocks -> RemoteCopies \cup {NULL}]
        /\ \A i \in Blocks :
             /\ store[i] # NULL => store[i].len <= BlockSize /\ (store[i].cur => store[i].len > 0)
             /\ Fills(i, size) /\ IsWhole(i) => store[i] # NULL /\ store[i].len = BlockSize
             /\ store[i] # NULL /\ store[i].known = "root_dir" => store[i] = remote[i]
    BY <2>1, <2>2, <2>3 DEF store
  <2> QED BY <1>0, <2>4, DeathCareful
<1>3. CASE ~ Throws(r)
  <2>1. /\ cache_block' = UploadedCache(r) /\ remote' = UploadedRemote(r)
        /\ last_enc_size' = UploadedLastEncSize(r) /\ block_enc_size' = UploadedBlockEncSize(r)
        /\ last_block_index' = UploadedLastBlockIndex(r)
        /\ status' = IF Completes(r) THEN "SYNCED" ELSE status
        /\ mounted' = "up" /\ size' = size /\ garbage' = garbage
        /\ status' # NULL /\ LastIndex' = LastIndex
    BY <1>0, <1>1, <1>3, NullAssumption DEF FileStatus, LastIndex
  <2>2. ASSUME NEW i \in Blocks
        PROVE  \/ /\ i \notin Answered(r)
                  /\ cache_block'[i] = cache_block[i] /\ remote'[i] = remote[i]
               \/ /\ IsModified(i) /\ i \in Answered(r)
                  /\ cache_block'[i] # NULL /\ cache_block'[i].status = "SYNCED"
                  /\ cache_block'[i].len = cache_block[i].len
                  /\ cache_block'[i].cur = cache_block[i].cur
                  /\ remote'[i] # NULL /\ remote'[i].len = cache_block[i].len
                  /\ remote'[i].cur = cache_block[i].cur
               \/ /\ IsModified(i) /\ i \notin Answered(r)
                  /\ cache_block'[i] = cache_block[i]
                  /\ remote'[i] # NULL /\ remote'[i].known = "nobody"
    BY <1>0, <1>3, <2>1, UploadStores
  <2>3. ASSUME NEW i \in Blocks
        PROVE  /\ remote'[i] # NULL =>
                    remote'[i].len <= BlockSize /\ (remote'[i].cur => remote'[i].len > 0)
               /\ Fills(i, size) /\ IsWhole(i) => (IsWhole(i))'
               /\ remote'[i] # NULL /\ remote'[i].known = "root_dir" => remote'[i] = remote[i]
    BY <2>1, UploadKeepsStore DEF IsWhole
  <2>4. /\ LastIndex \in -1 .. MaxCacheBlock - 1 /\ LastIndex \in Int
        /\ \A i \in written : i \in Blocks /\ i \in Nat /\ i <= LastIndex
        /\ written # {} => LastIndex \in written
    BY <1>0, SizeType, LastIsLast, SizesAssumption DEF CarefulInv
  <2>5. last_block_index \in {-1} \cup written /\ last_block_index <= LastIndex
    BY <1>0, <2>4 DEF CarefulInv, HeaderKnows
  <2>6. last_block_index' = IF Completes(r) THEN LastIndex ELSE last_block_index
    BY <2>1, <2>4, <2>5 DEF UploadedLastBlockIndex, Larger
  <2>7. Completes(r) => LastIndex \in {-1} \cup written
    <3> SUFFICES ASSUME Completes(r), LastIndex # -1 PROVE LastIndex \in written
      OBVIOUS
    <3>1. LastIndex \in Blocks /\ (cache_block[LastIndex] # NULL \/ LastIndex \in garbage)
      BY <2>4, SizesAssumption DEF Completes, StopsUpload, Blocks
    <3> QED BY <1>0, <3>1 DEF CarefulInv, AllCacheFits, CacheFits, HeaderKnows
  <2>8. AllCacheFits'
    <3> SUFFICES ASSUME NEW i \in Blocks, cache_block'[i] # NULL
                 PROVE  (CacheFits(i, cache_block[i]))'
      BY DEF AllCacheFits
    <3>1. CASE cache_block'[i] = cache_block[i]
      <4>1. CacheFits(i, cache_block[i])
        BY <3>1 DEF CarefulInv, AllCacheFits
      <4>2. (HasKnownRemote(i))' => HasKnownRemote(i) \/ cache_block[i].cur
        BY <2>2, <3>1 DEF HasKnownRemote, HasGoodRemote
      <4> QED BY <1>0, <2>1, <3>1, <4>1, <4>2 DEF CacheFits
    <3>2. CASE cache_block'[i] # cache_block[i]
      <4>1. /\ CacheFits(i, cache_block[i]) /\ cache_block[i].status = "MODIFIED"
            /\ cache_block'[i].status = "SYNCED"
            /\ cache_block'[i].len = cache_block[i].len
            /\ cache_block'[i].cur = cache_block[i].cur
            /\ remote'[i].cur = cache_block[i].cur
        BY <2>2, <3>2 DEF CarefulInv, AllCacheFits, IsModified
      <4> QED BY <1>0, <2>1, <4>1 DEF CacheFits, HasKnownRemote, HasGoodRemote
    <3> QED BY <3>1, <3>2
  <2>9. StoreIsSized'
    BY <2>3 DEF StoreIsSized
  <2>10. StoreIsWhole'
    <3> SUFFICES ASSUME NEW i \in written, Fills(i, size), ~ (IsModified(i))'
                 PROVE  (IsWhole(i))'
      BY <1>0, <2>1 DEF StoreIsWhole
    <3>1. i \in Blocks
      BY <2>4
    <3>2. CASE IsModified(i)
      <4>1. cache_block'[i] # cache_block[i]
        BY <3>2 DEF IsModified
      <4>2. remote'[i] # NULL /\ remote'[i].len = cache_block[i].len
        BY <2>2, <3>1, <4>1
      <4> QED BY <3>1, <3>2, <4>2
              DEF CarefulInv, AllCacheFits, CacheFits, IsModified, IsWhole
    <3>3. CASE ~ IsModified(i)
      BY <1>0, <2>3, <3>1, <3>3 DEF CarefulInv, StoreIsWhole
    <3> QED BY <3>2, <3>3
  <2>11. HeaderKnows'
    BY <1>0, <2>1, <2>5, <2>6, <2>7 DEF CarefulInv, HeaderKnows
  <2>12. LastIsExact'
    <3> DEFINE b == last_block_index'
    <3> SUFFICES ASSUME b \in written,
                        \/ cache_block'[b] = NULL
                        \/ b = LastIndex /\ ~ (cache_block'[b] # NULL
                                               /\ cache_block'[b].status = "MODIFIED")
                 PROVE  /\ remote'[b] # NULL /\ remote'[b].cur /\ remote'[b].known # "nobody"
                             => last_enc_size' = CipherLen(remote'[b].len)
                        /\ Fills(b, size) => last_enc_size' = CipherLen(BlockSize)
      BY <1>0, <2>1 DEF LastIsExact, IsModified, HasKnownRemote, HasGoodRemote
    <3>0. b \in Blocks
      BY <2>4
    <3> HIDE DEF b
    <3>1. CASE LastIndex \in Answered(r)
      <4>1. b = LastIndex /\ last_enc_size' = CipherLen(cache_block[LastIndex].len)
        BY <1>0, <2>1, <2>6, <3>1, UploadRecords DEF b
      <4>2. IsModified(b) /\ remote'[b].len = cache_block[b].len
        BY <2>2, <3>0, <3>1, <4>1
      <4>3. CacheFits(b, cache_block[b])
        BY <3>0, <4>2 DEF CarefulInv, AllCacheFits, IsModified
      <4> QED BY <4>1, <4>2, <4>3 DEF CacheFits
    <3>2. CASE LastIndex \notin Answered(r)
      <4>1. last_enc_size' = last_enc_size
        BY <1>0, <2>1, <3>2, UploadRecords
      <4>2. cache_block'[b] = cache_block[b] /\ remote'[b] = remote[b] /\ ~ IsModified(b)
        <5>1. CASE b = LastIndex
          BY <2>2, <3>0, <3>2, <5>1 DEF IsModified
        <5>2. CASE b # LastIndex
          BY <2>2, <3>0, <5>2 DEF IsModified
        <5> QED BY <5>1, <5>2
      <4>3. last_block_index = b
        <5>1. CASE b = LastIndex
          BY <1>0, <4>2, <5>1 DEF CarefulInv, LastIsKnown
        <5>2. CASE b # LastIndex
          BY <2>6, <5>2 DEF b
        <5> QED BY <5>1, <5>2
      <4>4. /\ HasKnownRemote(b) => last_enc_size = CipherLen(remote[b].len)
            /\ Fills(b, size) => last_enc_size = CipherLen(BlockSize)
        BY <1>0, <4>2, <4>3 DEF CarefulInv, LastIsExact
      <4> QED BY <4>1, <4>2, <4>4 DEF HasKnownRemote, HasGoodRemote
    <3> QED BY <3>1, <3>2
  <2>13. LastIsKnown'
    <3> SUFFICES ASSUME LastIndex \in written, ~ (IsModified(LastIndex))', ~ Completes(r)
                 PROVE  last_block_index = LastIndex
      BY <1>0, <2>1, <2>6 DEF LastIsKnown
    <3>1. LastIndex \notin Answered(r) /\ LastIndex \in Blocks
      BY <1>0, <2>4, UploadRecords
    <3>2. cache_block'[LastIndex] = cache_block[LastIndex]
      BY <2>2, <3>1
    <3>3. ~ IsModified(LastIndex)
      BY <2>1, <3>2 DEF IsModified
    <3> QED BY <1>0, <3>3 DEF CarefulInv, LastIsKnown
  <2>14. NoHoles' /\ BlocksAreExact' /\ MemoryIsAlive'
    BY <1>0, <2>1, UploadRecords DEF CarefulInv, NoHoles, BlocksAreExact, MemoryIsAlive
  <2>15. SavedIsUsable'
    <3> SUFFICES ASSUME root_dir # NULL
                 PROVE  (EntryKnows(root_dir))' /\ root_dir.size <= size
      BY <1>0, <2>1 DEF SavedIsUsable
    <3>1. EntryKnows(root_dir) /\ root_dir.size <= size
      BY <1>0 DEF CarefulInv, SavedIsUsable
    <3>2. Held(root_dir.size) \subseteq written'
      BY <1>0, <3>1 DEF EntryKnows
    <3>3. size \in Nat /\ root_dir.size \in Nat
      BY <1>0, SizeType, CapacityType DEF TypeOK, DirEntries
    <3>4. \A i \in Held(root_dir.size) :
            /\ Fills(i, root_dir.size) /\ IsWhole(i) => (IsWhole(i))'
            /\ (HasGoodRemote(i))' /\ remote'[i].known = "root_dir" => remote'[i] = remote[i]
      BY <2>3, <3>1, <3>3, FillsMore DEF Held, HasGoodRemote
    <3> QED BY <1>0, <3>1, <3>2, <3>4, EntryStaysTrue
  <2> QED BY <2>8, <2>9, <2>10, <2>11, <2>12, <2>13, <2>14, <2>15 DEF Additions
<1> QED BY <1>2, <1>3

LEMMA InitCareful == Init => Additions
<1> SUFFICES ASSUME Init PROVE Additions
  OBVIOUS
<1>1. /\ status = NULL /\ cache_block = NoCache /\ remote = NoCache
      /\ mounted = "up" /\ root_dir = NULL /\ block_enc_size = 0
  BY DEF Init
<1> QED BY <1>1 DEF Additions, NoHoles, AllCacheFits, StoreIsSized, StoreIsWhole, HeaderKnows,
            LastIsExact, LastIsKnown, BlocksAreExact, MemoryIsAlive, SavedIsUsable, NoCache

LEMMA CreateCareful ==
    ASSUME CarefulInv, Create
    PROVE  Additions'
<1>1. /\ mounted = "up" /\ mounted' = "up" /\ status = NULL
      /\ status' = "CREATED" /\ size' = 0 /\ written' = {} /\ garbage' = {}
      /\ last_block_index' = -1 /\ block_enc_size' = 0 /\ cache_block' = NoCache
      /\ remote' = remote /\ root_dir' = root_dir
  BY DEF Create, CarefulInv, CacheInv, WrittenInFile
<1>2. Held(0) = {}
  BY HeldUpToLast, CapacityType
<1>3. root_dir = NULL
  BY <1>1 DEF CarefulInv, SavedIsUsable
<1>4. NoHoles' /\ AllCacheFits' /\ StoreIsWhole' /\ HeaderKnows'
  BY <1>1, <1>2 DEF NoHoles, AllCacheFits, StoreIsWhole, HeaderKnows, NoCache
<1>5. LastIsExact' /\ LastIsKnown' /\ BlocksAreExact'
  BY <1>1 DEF LastIsExact, LastIsKnown, BlocksAreExact
<1>6. StoreIsSized' /\ MemoryIsAlive' /\ SavedIsUsable'
  BY <1>1, <1>3 DEF CarefulInv, StoreIsSized, MemoryIsAlive, SavedIsUsable
<1> QED BY <1>4, <1>5, <1>6 DEF Additions

\* "clear": a SYNCED file is stored, and its header has every length.
LEMMA ClearCareful ==
    ASSUME CarefulInv, Clear
    PROVE  Additions'
<1>0. TypeOK /\ status = "SYNCED" /\ status # NULL /\ mounted = "up"
  BY NullAssumption DEF CarefulInv, CacheInv, Clear, FileStatus
<1>1. /\ UNCHANGED <<mounted, status, size, last_block_index, last_enc_size,
                     block_enc_size, garbage, remote, root_dir, written>>
      /\ cache_block' = NoCache /\ LastIndex' = LastIndex
  BY DEF Clear, header, LastIndex
<1>2. \A i \in written : i \in Blocks /\ ~ IsModified(i)
  BY <1>0 DEF CarefulInv, CacheInv, SyncedIsClean, TypeOK
<1>3. last_block_index = LastIndex
  BY <1>0 DEF CarefulInv, HeaderKnows
<1>4. /\ NoHoles' /\ StoreIsSized' /\ HeaderKnows' /\ BlocksAreExact' /\ MemoryIsAlive'
      /\ SavedIsUsable'
  BY <1>1 DEF CarefulInv, NoHoles, StoreIsSized, HeaderKnows, BlocksAreExact,
              MemoryIsAlive, SavedIsUsable, EntryKnows, IsWhole, HasGoodRemote
<1>5. AllCacheFits'
  BY <1>1 DEF AllCacheFits, NoCache
<1>6. StoreIsWhole'
  BY <1>0, <1>1, <1>2 DEF CarefulInv, StoreIsWhole, IsWhole
<1>7. LastIsExact'
  BY <1>0, <1>1, <1>2, <1>3 DEF CarefulInv, LastIsExact, HasKnownRemote, HasGoodRemote
<1>8. LastIsKnown'
  BY <1>1, <1>3 DEF LastIsKnown
<1> QED BY <1>4, <1>5, <1>6, <1>7, <1>8 DEF Additions

LEMMA CrashCareful ==
    ASSUME CarefulInv, Crash
    PROVE  Additions'
<1>1. TypeOK /\ TypeOK'
  BY CrashType DEF CarefulInv, CacheInv
<1>2. \A i \in Blocks :
        /\ remote[i] # NULL => remote[i].len <= BlockSize /\ (remote[i].cur => remote[i].len > 0)
        /\ Fills(i, size) /\ IsWhole(i) => remote[i] # NULL /\ remote[i].len = BlockSize
        /\ remote[i] # NULL /\ remote[i].known = "root_dir" => remote[i] = remote[i]
  BY DEF CarefulInv, StoreIsSized, IsWhole
<1>3. remote \in [Blocks -> RemoteCopies \cup {NULL}]
  BY <1>1 DEF TypeOK
<1> QED BY <1>1, <1>2, <1>3, DeathCareful DEF Crash

\* dfs_destroy of a SYNCED file: the line it writes is one a mount can use,
\* whether the process then ends well or dies of a garbage pointer.
LEMMA UnmountCareful ==
    ASSUME UserIsCareful, CarefulInv, Unmount
    PROVE  Additions'
<1>0. TypeOK /\ TypeOK' /\ BlocksAreExact /\ StoreIsSized
  BY UnmountType DEF CarefulInv, CacheInv
<1>1. /\ written' = written
      /\ \/ root_dir' = NULL
         \/ /\ status = "SYNCED"
            /\ root_dir' = [size |-> size, block_enc_size |-> block_enc_size,
                            last_enc_size |-> last_enc_size]
      /\ \E how \in {"down", "dead"}, heir \in {"root_dir", "nobody"} :
           Ended(how, remote, heir)
  BY DEF Unmount, UserIsCareful, Saved, SavedEntry
<1>2. PICK how \in {"down", "dead"}, heir \in {"root_dir", "nobody"} :
        Ended(how, remote, heir)
  BY <1>1
<1>3. remote \in [Blocks -> RemoteCopies \cup {NULL}]
  BY <1>0 DEF TypeOK
<1>4. ASSUME NEW i \in Blocks
      PROVE  /\ IsWhole(i) => remote'[i] # NULL /\ remote'[i].len = BlockSize
             /\ remote'[i] # NULL /\ remote'[i].cur /\ remote'[i].known = "root_dir"
                  => HasKnownRemote(i) /\ remote'[i].len = remote[i].len
  <2>1. remote'[i] = IF remote[i] # NULL /\ remote[i].known = "memory"
                       THEN [remote[i] EXCEPT !.known = heir] ELSE remote[i]
    BY <1>2 DEF Ended
  <2>2. CASE remote[i] # NULL /\ remote[i].known = "memory"
    <3>1. remote'[i] = [remote[i] EXCEPT !.known = heir] /\ remote[i] \in RemoteCopies
      BY <1>3, <2>1, <2>2
    <3>2. /\ remote'[i] \in RemoteCopies
          /\ remote'[i].len = remote[i].len /\ remote'[i].cur = remote[i].cur
      BY <3>1 DEF RemoteCopies
    <3>3. remote'[i] # NULL
      BY <3>2, NullAssumption
    <3> QED BY <2>2, <3>2, <3>3 DEF IsWhole, HasKnownRemote, HasGoodRemote
  <2>3. CASE ~ (remote[i] # NULL /\ remote[i].known = "memory")
    BY <2>1, <2>3 DEF IsWhole, HasKnownRemote, HasGoodRemote
  <2> QED BY <2>2, <2>3
<1>5. root_dir' # NULL => (EntryKnows(root_dir))'
  <2> SUFFICES ASSUME status = "SYNCED",
                      root_dir' = [size |-> size, block_enc_size |-> block_enc_size,
                                   last_enc_size |-> last_enc_size]
               PROVE  (EntryKnows(root_dir))'
    BY <1>1
  <2>0. status # NULL
    BY NullAssumption DEF FileStatus
  <2>1. /\ root_dir'.size = size /\ root_dir'.block_enc_size = block_enc_size
        /\ root_dir'.last_enc_size = last_enc_size
    OBVIOUS
  <2> DEFINE last == LastIndex
  <2>2. /\ written = Held(size) /\ last = CDiv(size - 1) /\ last_block_index = last
        /\ last \in {-1} \cup Held(size)
    BY <1>0, <2>0, SizeType DEF CarefulInv, NoHoles, HeaderKnows
  <2>3. \A i \in written : i \in Blocks /\ ~ IsModified(i)
    BY <1>0 DEF CarefulInv, CacheInv, SyncedIsClean, TypeOK
  <2>4. \A i \in Held(size) : Fills(i, size) => remote'[i] # NULL /\ remote'[i].len = BlockSize
    BY <1>4, <2>0, <2>2, <2>3 DEF CarefulInv, StoreIsWhole
  <2>5. last \in Held(size) =>
          /\ HasKnownRemote(last) => last_enc_size = CipherLen(remote[last].len)
          /\ Fills(last, size) => last_enc_size = CipherLen(BlockSize)
    BY <2>0, <2>2, <2>3 DEF CarefulInv, LastIsExact
  <2>6. last \in Held(size) /\ remote'[last] # NULL /\ remote'[last].cur
            /\ remote'[last].known = "root_dir"
        => last_enc_size = CipherLen(remote'[last].len)
    BY <1>4, <2>2, <2>3, <2>5
  <2> HIDE DEF last
  <2>7. /\ Held(root_dir'.size) \subseteq written'
        /\ CDiv(root_dir'.size - 1) \in {-1} \cup Held(root_dir'.size)
        /\ root_dir'.block_enc_size \in {0, CipherLen(BlockSize)}
        /\ \A i \in Held(root_dir'.size) : Fills(i, root_dir'.size) =>
               remote'[i] # NULL /\ remote'[i].len = BlockSize
    BY <1>0, <1>1, <2>1, <2>2, <2>4 DEF BlocksAreExact
  <2>8. LET k == CDiv(root_dir'.size - 1)
        IN  /\ k \in Held(root_dir'.size) /\ Fills(k, root_dir'.size)
                 => root_dir'.last_enc_size = CipherLen(BlockSize)
            /\ k \in Held(root_dir'.size) /\ remote'[k] # NULL /\ remote'[k].cur
                  /\ remote'[k].known = "root_dir"
                 => root_dir'.last_enc_size = CipherLen(remote'[k].len)
    BY <2>1, <2>2, <2>5, <2>6
  <2> QED BY <2>7, <2>8 DEF EntryKnows, LastEntry, IsWhole, HasGoodRemote
<1>6. \A i \in Blocks : remote[i] # NULL =>
        remote[i].len <= BlockSize /\ (remote[i].cur => remote[i].len > 0)
  BY <1>0 DEF StoreIsSized
<1> QED BY <1>0, <1>2, <1>3, <1>5, <1>6, EndedCareful

\* The next mount finds the file as its line in root.dir has it.
LEMMA MountCareful ==
    ASSUME CarefulInv, Mount
    PROVE  Additions'
<1>0. TypeOK /\ TypeOK'
  BY MountType DEF CarefulInv, CacheInv
<1>1. /\ mounted # "up" /\ mounted' = "up" /\ cache_block' = NoCache
      /\ root_dir' = root_dir /\ remote' = Outdated(Blocks \ written')
  BY DEF Mount
<1>2. ASSUME NEW i \in Blocks
      PROVE  /\ i \in written' => remote'[i] = remote[i]
             /\ remote[i] = NULL => remote'[i] = NULL
             /\ remote[i] # NULL =>
                  /\ remote'[i] # NULL /\ remote'[i].len = remote[i].len
                  /\ remote'[i].cur => i \in written' /\ remote[i].cur
  <2> DEFINE bs == Blocks \ written'
  <2>1. i \in bs <=> i \notin written'
    OBVIOUS
  <2> HIDE DEF bs
  <2>2. remote' = Outdated(bs)
    BY <1>1 DEF bs
  <2> QED BY <1>0, <2>1, <2>2, OutdatedEffect
<1>3. StoreIsSized' /\ AllCacheFits' /\ MemoryIsAlive'
  BY <1>1, <1>2 DEF CarefulInv, StoreIsSized, AllCacheFits, MemoryIsAlive, NoCache
<1>4. CASE root_dir = NULL
  <2>1. status' = NULL /\ block_enc_size' = 0
    BY <1>4 DEF Mount
  <2> QED BY <1>1, <1>3, <1>4, <2>1
          DEF Additions, NoHoles, StoreIsWhole, HeaderKnows, LastIsExact, LastIsKnown,
              BlocksAreExact, SavedIsUsable
<1>5. CASE root_dir # NULL
  <2> DEFINE s == root_dir.size
             last == CDiv(s - 1)
  <2>1. /\ status' = "SYNCED" /\ size' = s /\ last_block_index' = last
        /\ last_enc_size' = root_dir.last_enc_size
        /\ block_enc_size' = root_dir.block_enc_size
        /\ written' = {i \in written : BytesIn(i, s) > 0}
    BY <1>5 DEF Mount
  <2>2. EntryKnows(root_dir)
    BY <1>5 DEF CarefulInv, SavedIsUsable
  <2>3. /\ Held(s) \subseteq written
        /\ last \in {-1} \cup Held(s)
        /\ root_dir.block_enc_size \in {0, CipherLen(BlockSize)}
        /\ \A i \in Held(s) : Fills(i, s) => IsWhole(i)
        /\ last \in Held(s) /\ Fills(last, s) => root_dir.last_enc_size = CipherLen(BlockSize)
        /\ last \in Held(s) /\ HasGoodRemote(last) /\ remote[last].known = "root_dir"
             => root_dir.last_enc_size = CipherLen(remote[last].len)
    BY <2>2 DEF EntryKnows, LastEntry
  <2>4. s \in 0 .. Capacity /\ LastIndex' = last
    BY <1>0, <2>1, LastBlockType DEF TypeOK, LastIndex, NumCacheBlocks
  <2>5. \A i \in Blocks : BytesIn(i, s) > 0 <=> i \in Held(s)
    BY <2>4, HeldUpToLast
  <2>6. status' # NULL
    BY <2>1, NullAssumption DEF FileStatus
  <2>14. (EntryKnows(root_dir))' /\ s \in Int
    <3>1. written' = Held(s)
      BY <1>0, <2>1, <2>3, <2>5 DEF TypeOK
    <3>2. \A i \in Held(root_dir.size) :
            /\ Fills(i, root_dir.size) /\ IsWhole(i) => (IsWhole(i))'
            /\ (HasGoodRemote(i))' /\ remote'[i].known = "root_dir" => remote'[i] = remote[i]
      BY <1>2, <3>1 DEF IsWhole, Held
    <3>3. Held(root_dir.size) \subseteq written' /\ root_dir' = root_dir
      BY <1>1, <3>1
    <3>4. (EntryKnows(root_dir))'
      BY <2>2, <3>2, <3>3, EntryStaysTrue
    <3>5. s \in Int
      BY <2>4
    <3> QED BY <3>4, <3>5
  <2> HIDE DEF s, last
  <2>7. written' = Held(s) /\ written' \subseteq Blocks
    BY <1>0, <2>1, <2>3, <2>5 DEF TypeOK
  <2>8. NoHoles' /\ BlocksAreExact'
    BY <2>1, <2>3, <2>7 DEF NoHoles, BlocksAreExact
  <2>9. StoreIsWhole'
    <3> SUFFICES ASSUME NEW i \in written', Fills(i, size') PROVE (IsWhole(i))'
      BY DEF StoreIsWhole
    <3> QED BY <1>2, <2>1, <2>3, <2>7 DEF IsWhole
  <2>10. HeaderKnows' /\ LastIsKnown'
    BY <2>1, <2>3, <2>4, <2>7 DEF HeaderKnows, LastIsKnown
  <2>11. LastIsExact'
    <3> SUFFICES ASSUME last \in Held(s)
                 PROVE  /\ remote'[last] # NULL /\ remote'[last].cur
                              /\ remote'[last].known # "nobody"
                            => last_enc_size' = CipherLen(remote'[last].len)
                        /\ Fills(last, s) => last_enc_size' = CipherLen(BlockSize)
      BY <2>1, <2>7 DEF LastIsExact, HasKnownRemote, HasGoodRemote
    <3>1. last \in Blocks /\ remote'[last] = remote[last]
      BY <1>2, <2>7
    <3>2. remote[last] # NULL => remote[last].known \in {"root_dir", "nobody"}
      BY <1>0, <1>1, <3>1 DEF TypeOK, RemoteCopies, CarefulInv, MemoryIsAlive
    <3> QED BY <2>1, <2>3, <3>1, <3>2 DEF HasGoodRemote
  <2>12. SavedIsUsable'
    <3>1. root_dir'.size = size' /\ size' \in Int
      BY <1>1, <2>1, <2>14 DEF s
    <3> QED BY <2>6, <2>14, <3>1 DEF SavedIsUsable
  <2> QED BY <1>3, <2>8, <2>9, <2>10, <2>11, <2>12 DEF Additions
<1> QED BY <1>4, <1>5

LEMMA CarefulNext ==
    ASSUME StoragesAnswer, UserIsCareful, CarefulInv, [Next]_vars
    PROVE  CarefulInv'
<1>1. CacheInv'
  BY NextInv DEF CarefulInv, StoragesAnswer, HonestUploads
<1>2. Additions'
  <2>1. ASSUME NEW o \in 0 .. Capacity - 1, NEW n \in 1 .. Capacity - o,
               (o <= size + MaxGap /\ Write(o, n)) \/ Read(o, n)
        PROVE  Additions'
    <3>1. size \in Nat
      BY SizeType DEF CarefulInv, CacheInv
    <3> QED BY <2>1, <3>1, ReadCareful, WriteCareful DEF UserIsCareful
  <2>2. CASE UNCHANGED vars
    BY <2>2 DEF vars, header, CarefulInv, Additions, NoHoles, AllCacheFits, CacheFits,
                StoreIsSized, StoreIsWhole, HeaderKnows, LastIsExact, LastIsKnown,
                BlocksAreExact, MemoryIsAlive, SavedIsUsable, EntryKnows, LastIndex,
                IsModified, IsWhole, HasKnownRemote, HasGoodRemote
  <2> QED BY <2>1, <2>2, CreateCareful, SyncCareful, ClearCareful, UnmountCareful,
             CrashCareful, MountCareful DEF Next, UserIsCareful
<1> QED BY <1>1, <1>2 DEF CarefulInv, Additions

LEMMA CarefulInvariant ==
    ASSUME StoragesAnswer, UserIsCareful
    PROVE  Spec => []CarefulInv
<1>1. Init => CarefulInv
  BY InitInv, InitCareful DEF CarefulInv, Additions
<1>2. CarefulInv /\ [Next]_vars => CarefulInv'
  BY CarefulNext
<1> QED BY <1>1, <1>2, PTL DEF Spec

-----------------------------------------------------------------------------
(* The theorems. *)

(***************************************************************************)
(* For a careful user on storages that answer, the encrypted lengths that  *)
(* uploads recorded, also those a mount read from root.dir after a crash,  *)
(* never make the download of a copy they are the lengths of stop before   *)
(* its end.                                                                *)
(***************************************************************************)
THEOREM DownloadsAreWhole ==
    ASSUME StoragesAnswer, UserIsCareful
    PROVE  Spec => []DownloadIsWhole
<1>1. CarefulInv => DownloadIsWhole
  <2> SUFFICES ASSUME CarefulInv, status = "SYNCED", NEW i \in written, HasKnownRemote(i)
               PROVE  ~ IsCut(i)
    BY DEF DownloadIsWhole
  <2>0. TypeOK /\ status # NULL
    BY NullAssumption DEF CarefulInv, CacheInv, FileStatus
  <2>1. i \in Blocks /\ i \in Nat /\ i <= LastIndex /\ last_block_index = LastIndex
    BY <2>0, LastIsLast DEF CarefulInv, HeaderKnows
  <2>2. ~ IsModified(i)
    BY DEF CarefulInv, CacheInv, SyncedIsClean
  <2>3. remote[i].len \in Nat
    BY <2>0, <2>1 DEF TypeOK, RemoteCopies, HasKnownRemote, HasGoodRemote
  <2>4. EncSize(i) \in {0, CipherLen(remote[i].len)}
    <3>1. CASE i = LastIndex
      BY <2>0, <2>1, <2>2, <3>1 DEF CarefulInv, LastIsExact, EncSize
    <3>2. CASE i # LastIndex
      <4>1. i < LastIndex /\ LastIndex \in Nat /\ LastIndex = CDiv(size - 1) /\ size \in Nat
        BY <2>0, <2>1, <3>2, SizeType, SizesAssumption
      <4>2. Fills(i, size)
        BY <2>1, <4>1, FullBefore DEF Fills
      <4>3. remote[i].len = BlockSize
        BY <2>0, <2>2, <4>2 DEF CarefulInv, StoreIsWhole, IsWhole
      <4> QED BY <2>1, <3>2, <4>3 DEF CarefulInv, BlocksAreExact, EncSize
    <3> QED BY <3>1, <3>2
  <2>5. CipherLen(remote[i].len) \in Nat
    BY <2>3, CipherLenPositive
  <2> QED BY <2>4, <2>5 DEF IsCut
<1> QED BY <1>1, CarefulInvariant, PTL

\* A write keeps what a block has, in the cache or where it can be found.
LEMMA WriteKeepsBlock ==
    ASSUME StoragesAnswer, CarefulInv,
           NEW o \in 0 .. Capacity - 1, NEW n \in 1 .. Capacity - o, Write(o, n),
           NEW i \in written, HasGoodCache(i) \/ HasKnownRemote(i)
    PROVE  (HasGoodCopy(i))'
<1> DEFINE first == o \div BlockSize
           last == (o + n - 1) \div BlockSize
           lo(j) == IF j = first THEN o % BlockSize ELSE 0
           hi(j) == Smaller(BlockSize, o + n - j * BlockSize)
<1>0. TypeOK /\ status # NULL /\ i \in Blocks
  BY DEF CarefulInv, CacheInv, TypeOK, Write
<1>1. PICK r \in [first .. last -> DownloadResults] :
        cache_block' = [j \in Blocks |->
            IF j \in first .. last THEN WrittenBlock(j, lo(j), hi(j), r[j])
                                   ELSE cache_block[j]]
  BY DEF Write
<1>2. remote' = Outdated(first .. last)
  BY DEF Write
<1>3. CASE i \in first .. last
  <2>1. r[i] \in DownloadResults /\ lo(i) \in Int /\ hi(i) \in Nat
    BY <1>3, WriteSpan
  <2>2. Downloaded(i, r[i]).cur
    BY <1>0, <2>1, BlockFits
  <2> DEFINE c == cache_block'[i]
  <2>3. c = WrittenBlock(i, lo(i), hi(i), r[i])
    BY <1>0, <1>1, <1>3
  <2>4. WrittenBlock(i, lo(i), hi(i), r[i]) \in BlockCopies
    BY <1>0, <2>1, WrittenBlockType
  <2>5. WrittenBlock(i, lo(i), hi(i), r[i]).cur
    BY <2>2 DEF WrittenBlock
  <2> QED BY <2>3, <2>4, <2>5, NullAssumption DEF HasGoodCopy, HasGoodCache
<1>4. CASE i \notin first .. last
  <2>1. cache_block'[i] = cache_block[i]
    BY <1>0, <1>1, <1>4
  <2>2. remote'[i] = remote[i]
    BY <1>0, <1>2, <1>4 DEF Outdated
  <2> QED BY <2>1, <2>2 DEF HasGoodCopy, HasGoodCache, HasGoodRemote, HasKnownRemote
<1> QED BY <1>3, <1>4

(***************************************************************************)
(* And no step while the program is up, a write that covers part of a      *)
(* block least of all, takes away the latest bytes of a block that are in  *)
(* the cache or in a copy whose length is known.                           *)
(***************************************************************************)
THEOREM WritesKeepTheRest ==
    ASSUME StoragesAnswer, UserIsCareful
    PROVE  Spec => WritesKeepBlock
<1> DEFINE Kept == mounted = "up" /\ mounted' = "up" =>
             \A i \in written \cap written' :
                 HasGoodCache(i) \/ HasKnownRemote(i) => (HasGoodCopy(i))'
<1>1. ASSUME CarefulInv, [Next]_vars, mounted = "up", mounted' = "up",
             NEW i \in written, i \in written', HasGoodCache(i) \/ HasKnownRemote(i)
      PROVE  (HasGoodCopy(i))'
  <2>0. CacheInv /\ HasGoodCopy(i) /\ HonestUploads
    BY <1>1 DEF CarefulInv, HasGoodCopy, HasKnownRemote, StoragesAnswer, HonestUploads
  <2>1. CASE Create
    BY <1>1, <2>0, <2>1 DEF Create, CacheInv, WrittenInFile
  <2>2. ASSUME NEW o \in 0 .. Capacity - 1, NEW n \in 1 .. Capacity - o,
               Write(o, n) \/ Read(o, n)
        PROVE  (HasGoodCopy(i))'
    BY <1>1, <2>0, <2>2, ReadKeepsCopies, WriteKeepsBlock
  <2>3. CASE Sync
    BY <1>1, <2>0, <2>3, SyncKeepsCopies
  <2>4. CASE Clear
    BY <1>1, <2>0, <2>4, ClearKeepsCopies
  <2>5. CASE Unmount \/ Mount \/ Crash
    BY <1>1, <2>5 DEF Unmount, UploadAndSave, Saved, Mount, Crash, Ended
  <2>6. CASE UNCHANGED vars
    BY <2>0, <2>6 DEF vars, header, HasGoodCopy, HasGoodCache, HasGoodRemote
  <2>7. ~ \E o \in TruncateSizes : Truncate(o)
    BY DEF UserIsCareful
  <2> QED BY <1>1, <2>1, <2>2, <2>3, <2>4, <2>5, <2>6, <2>7 DEF Next
<1>2. CarefulInv /\ [Next]_vars => [Kept]_vars
  BY <1>1
<1> QED BY <1>2, CarefulInvariant, PTL DEF Spec, WritesKeepBlock
=============================================================================

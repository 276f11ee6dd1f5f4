--------------------------- MODULE DownloadProofs ---------------------------
(***************************************************************************)
(* Theorems about Download, for every code, size of ring and share, and    *)
(* every way in which the storages deliver, stall, cut or lack the object. *)
(***************************************************************************)
EXTENDS Download, FiniteSetTheorems, TLAPS

\* A set of streams has as many members as one that it contains, or more.
LEMMA StreamCount ==
    ASSUME NEW T \in SUBSET Streams, NEW S \in SUBSET T
    PROVE  /\ Cardinality(S) \in Nat /\ Cardinality(T) \in Nat
           /\ Cardinality(S) <= Cardinality(T)
<1>1. IsFiniteSet(Streams)
  BY CodeAssumption, FS_Interval DEF Streams
<1>2. IsFiniteSet(T)
  BY <1>1, FS_Subset
<1> QED BY <1>2, FS_Subset, FS_CardinalityType

\* Cardinality of all streams and of none.
LEMMA AllStreams ==
    Cardinality(Streams) = N /\ Cardinality({}) = 0
BY CodeAssumption, FS_Interval, FS_EmptySet DEF Streams

-----------------------------------------------------------------------------
(* The operators of DownloadBuffer. *)

\* read() returns no more than the pipe holds and than it was asked for.
LEMMA ReadBounds ==
    ASSUME NEW p \in Nat, NEW gone \in BOOLEAN, NEW want \in Nat
    PROVE  /\ ReadPipe(p, gone, want) \in -1 .. p
           /\ ReadPipe(p, gone, want) <= want
           /\ Larger(0, ReadPipe(p, gone, want)) \in 0 .. p
           /\ Larger(0, ReadPipe(p, gone, want)) <= want
BY SMTT(30) DEF ReadPipe, Smaller, Larger

\* The bytes that may come next are a natural number of them.
LEMMA BurstType ==
    ASSUME TypeOK, NEW i \in Streams, NEW b \in Bursts(i)
    PROVE  b \in Nat /\ b > 0 /\ sent[i] + b <= Total(i)
<1>1. Total(i) \in Nat /\ sent[i] \in Nat
  BY SizeAssumption DEF TypeOK, Total
<1> QED BY <1>1 DEF Bursts

\* What the skip of proceed() leaves behind, of a stream with a good magic.
LEMMA SkipBounds ==
    ASSUME TypeOK, NotAhead, NEW i \in Streams, ~ BadMagic(i)
    PROVE  /\ PipeAfterSkip(i) \in Nat
           /\ ReadTotalAfterSkip(i) \in Int
           /\ ReadTotalAfterSkip(i) <= processed_total
           /\ AvailableAfterSkip(i) \in 0 .. BufferSize
           /\ GetEmpty(i) \in 0 .. BufferSize
<1>0. /\ GetDownloaded(i) \in Int /\ processed_total \in Nat
      /\ ended[i] \in BOOLEAN /\ BufferSize \in Nat
      /\ read_total[i] \in Int /\ read_total[i] <= processed_total
      /\ available[i] \in 0 .. BufferSize
  BY SizeAssumption DEF TypeOK, NotAhead, GetDownloaded
<1>1. PipeAfterMagic(i) \in Nat
  BY SizeAssumption DEF TypeOK, BadMagic, PipeAfterMagic, MagicLeft
<1>2. CASE IsLate(i)
  <2> DEFINE want == processed_total - GetDownloaded(i)
  <2>1. want \in Nat
    BY <1>0, <1>2 DEF IsLate
  <2>2. /\ SkipResult(i) \in -1 .. PipeAfterMagic(i) /\ SkipResult(i) <= want
        /\ Larger(0, SkipResult(i)) \in 0 .. PipeAfterMagic(i)
    BY <2>1, <1>0, <1>1, ReadBounds DEF SkipResult
  <2>3. /\ PipeAfterSkip(i) = PipeAfterMagic(i) - Larger(0, SkipResult(i))
        /\ ReadTotalAfterSkip(i) = GetDownloaded(i) + SkipResult(i)
        /\ AvailableAfterSkip(i) = 0
    BY <1>2 DEF PipeAfterSkip, ReadTotalAfterSkip, AvailableAfterSkip
  <2> QED BY <2>2, <2>3, <1>0, <1>1 DEF GetEmpty
<1>3. CASE ~ IsLate(i)
  BY <1>3, <1>0, <1>1
  DEF PipeAfterSkip, ReadTotalAfterSkip, AvailableAfterSkip, GetEmpty
<1> QED BY <1>2, <1>3

\* What proceed() reads into the ring fits, and was in the pipe.
LEMMA FillBounds ==
    ASSUME TypeOK, NotAhead, NEW i \in Streams, ~ BadMagic(i), NEW b \in Nat
    PROVE  /\ Larger(0, FillResult(i, b)) \in Nat
           /\ PipeAfterSkip(i) + b - Larger(0, FillResult(i, b)) \in Nat
           /\ AvailableAfterSkip(i) + Larger(0, FillResult(i, b)) \in 0 .. BufferSize
<1>1. /\ PipeAfterSkip(i) \in Nat /\ PipeAfterSkip(i) + b \in Nat
      /\ ended[i] \in BOOLEAN
      /\ GetEmpty(i) \in Nat /\ GetEmpty(i) = BufferSize - AvailableAfterSkip(i)
      /\ AvailableAfterSkip(i) \in 0 .. BufferSize /\ BufferSize \in Nat
  BY SkipBounds, SizeAssumption DEF TypeOK, GetEmpty
<1>2. /\ Larger(0, FillResult(i, b)) \in 0 .. (PipeAfterSkip(i) + b)
      /\ Larger(0, FillResult(i, b)) <= GetEmpty(i)
  <2>1. CASE GetEmpty(i) = 0
    BY <2>1, <1>1 DEF FillResult, Larger
  <2>2. CASE GetEmpty(i) # 0
    <3>1. FillResult(i, b) = ReadPipe(PipeAfterSkip(i) + b, ended[i], GetEmpty(i))
      BY <2>2 DEF FillResult
    <3> QED BY <3>1, <1>1, ReadBounds
  <2> QED BY <2>1, <2>2
<1>3. Larger(0, FillResult(i, b)) \in Nat
  BY <1>1, <1>2
<1>4. PipeAfterSkip(i) + b - Larger(0, FillResult(i, b)) \in Nat
  BY <1>1, <1>2
<1>5. AvailableAfterSkip(i) + Larger(0, FillResult(i, b)) \in 0 .. BufferSize
  BY <1>1, <1>2
<1> QED BY <1>3, <1>4, <1>5

\* readable_count: the K-th largest is at most one ring ahead of the rows
\* processed, and never behind them.
LEMMA KthLargestBounds ==
    ASSUME PoolInv, NEW d \in {GetDownloaded(i) : i \in Streams}, IsKthLargest(d)
    PROVE  d \in Nat /\ d - processed_total \in 0 .. BufferSize
<1> DEFINE above == {i \in Streams : GetDownloaded(i) > d}
           reached == {i \in Streams : GetDownloaded(i) >= d}
           level == {i \in Streams : GetDownloaded(i) >= processed_total}
<1>0. /\ \A i \in Streams : /\ GetDownloaded(i) = read_total[i] + available[i]
                            /\ read_total[i] \in Int /\ available[i] \in 0 .. BufferSize
                            /\ read_total[i] <= processed_total
      /\ processed_total \in Nat /\ BufferSize \in Nat /\ K \in Nat /\ K >= 1
  BY SizeAssumption, CodeAssumption DEF PoolInv, TypeOK, NotAhead, GetDownloaded
<1>1. d \in Int
  BY <1>0
<1>2. Cardinality(reached) >= K /\ Cardinality(above) < K /\ Cardinality(level) >= K
  BY DEF IsKthLargest, PoolInv, KAhead
<1>3. processed_total <= d
  <2> SUFFICES ASSUME d < processed_total PROVE FALSE
    BY <1>0, <1>1
  <2>1. level \in SUBSET above /\ above \in SUBSET Streams
    BY <1>0, <1>1
  <2> QED BY <2>1, <1>0, <1>2, StreamCount
<1>4. d <= processed_total + BufferSize
  <2>1. reached # {}
    BY <1>0, <1>2, AllStreams
  <2>2. PICK i \in Streams : GetDownloaded(i) >= d
    BY <2>1
  <2> QED BY <2>2, <1>0, <1>1
<1> QED BY <1>0, <1>1, <1>3, <1>4

-----------------------------------------------------------------------------
(* The invariant. *)

\* The invariant holds before the first select().
LEMMA InvInit == ASSUME Init PROVE PoolInv
<1>1. TypeOK
  <2>1. stored \in [Streams -> Nat \cup {NoObject}]
    <3>1. Shares \cup {Len} \subseteq Nat \cup {NoObject}
      BY SizeAssumption, StorageAssumption
    <3>2. stored \in [Streams -> Shares \cup {Len}]
      BY DEF Init
    <3> QED BY <3>1, <3>2
  <2>2. available \in [Streams -> 0 .. BufferSize]
    BY SizeAssumption DEF Init
  <2> QED BY <2>1, <2>2 DEF Init, TypeOK
<1>2. NotAhead
  BY DEF Init, NotAhead
<1>3. KAhead
  <2>1. {i \in Streams : GetDownloaded(i) >= processed_total} = Streams
    BY DEF Init, GetDownloaded
  <2>2. Cardinality({i \in Streams : GetDownloaded(i) >= processed_total}) = N
    BY <2>1, AllStreams
  <2>3. N >= K
    BY CodeAssumption
  <2> QED BY <2>2, <2>3 DEF KAhead
<1> QED BY <1>1, <1>2, <1>3 DEF PoolInv

\* K buffers stay ahead when none of those that were receives less.
LEMMA KAheadKept ==
    ASSUME PoolInv, processed_total' = processed_total,
           \A i \in Streams : GetDownloaded(i) >= processed_total
                              => (GetDownloaded(i))' >= processed_total
    PROVE  KAhead'
<1> DEFINE before == {i \in Streams : GetDownloaded(i) >= processed_total}
           after == {i \in Streams : (GetDownloaded(i))' >= processed_total}
<1>1. before \in SUBSET after /\ after \in SUBSET Streams
  OBVIOUS
<1>2. Cardinality(before) <= Cardinality(after) /\ Cardinality(before) >= K
      /\ Cardinality(before) \in Nat /\ Cardinality(after) \in Nat /\ K \in Nat
  BY <1>1, StreamCount, CodeAssumption DEF PoolInv, KAhead
<1>3. KAhead' <=> Cardinality(after) >= K
  BY DEF KAhead
<1> QED BY <1>2, <1>3

LEMMA ProceedKeeps ==
    ASSUME PoolInv, NEW i \in Streams, Proceed(i)
    PROVE  PoolInv'
<1>0. TypeOK /\ NotAhead
  BY DEF PoolInv
<1>1. PICK b \in {0} \cup (IF ended[i] THEN {} ELSE Bursts(i)) :
         /\ sent' = [sent EXCEPT ![i] = @ + b]
         /\ pipe' = [pipe EXCEPT ![i] = PipeAfterSkip(i) + b - Larger(0, FillResult(i, b))]
         /\ available' = [available EXCEPT
                            ![i] = AvailableAfterSkip(i) + Larger(0, FillResult(i, b))]
         /\ status' = [status EXCEPT ![i] = StatusAfter(i, b)]
         /\ slipped' = IF Slips(i, b) THEN slipped \cup {i} ELSE slipped
  BY DEF Proceed
<1>2. b \in Nat /\ ~ BadMagic(i)
  BY <1>0, BurstType DEF Proceed
<1>3. /\ Larger(0, FillResult(i, b)) \in Nat
      /\ PipeAfterSkip(i) + b - Larger(0, FillResult(i, b)) \in Nat
      /\ AvailableAfterSkip(i) + Larger(0, FillResult(i, b)) \in 0 .. BufferSize
  BY <1>0, <1>2, FillBounds
<1>4. /\ ReadTotalAfterSkip(i) \in Int
      /\ ReadTotalAfterSkip(i) <= processed_total
  BY <1>0, <1>2, SkipBounds
<1>5. /\ read_total' = [read_total EXCEPT ![i] = ReadTotalAfterSkip(i)]
      /\ is_first_read' = [is_first_read EXCEPT ![i] = FALSE]
      /\ ready' = ready \ {i} /\ pc' \in {"merge", "download"}
      /\ UNCHANGED <<stored, healthy, ended, processed_total>>
  BY DEF Proceed, Visited, storages
<1>6. TypeOK'
  <2>1. StatusAfter(i, b) \in {"OPEN", "FINISHED", "DROPPED"}
    BY DEF StatusAfter
  <2>2. sent' \in [Streams -> Nat] /\ pipe' \in [Streams -> Nat]
    BY <1>0, <1>1, <1>2, <1>3 DEF TypeOK
  <2>3. /\ available' \in [Streams -> 0 .. BufferSize]
        /\ read_total' \in [Streams -> Int]
        /\ is_first_read' \in [Streams -> BOOLEAN]
    BY <1>0, <1>1, <1>3, <1>4, <1>5 DEF TypeOK
  <2>4. status' \in [Streams -> {"OPEN", "DROPPED", "FINISHED"}]
    BY <1>0, <1>1, <2>1 DEF TypeOK
  <2>5. slipped' \in SUBSET Streams
    BY <1>0, <1>1 DEF TypeOK
  <2> QED BY <1>0, <1>5, <2>2, <2>3, <2>4, <2>5 DEF TypeOK
<1>7. NotAhead'
  BY <1>0, <1>4, <1>5 DEF NotAhead, TypeOK
<1>8. KAhead'
  <2>1. ASSUME NEW j \in Streams, GetDownloaded(j) >= processed_total
        PROVE  (GetDownloaded(j))' >= processed_total
    <3>1. CASE j # i
      BY <3>1, <2>1, <1>0, <1>1, <1>5 DEF GetDownloaded, TypeOK
    <3>2. CASE j = i
      <4>1. /\ available[i] \in Int /\ read_total[i] \in Int /\ processed_total \in Nat
            /\ Larger(0, FillResult(i, b)) \in Nat
        BY <1>0, <1>3, SizeAssumption DEF TypeOK
      <4>2. ~ IsLate(i)
        BY <2>1, <3>2, <4>1 DEF IsLate, GetDownloaded
      <4>3. ReadTotalAfterSkip(i) = read_total[i] /\ AvailableAfterSkip(i) = available[i]
        BY <4>2 DEF ReadTotalAfterSkip, AvailableAfterSkip
      <4>4. /\ (GetDownloaded(i))' = ReadTotalAfterSkip(i)
                 + (AvailableAfterSkip(i) + Larger(0, FillResult(i, b)))
        BY <1>0, <1>1, <1>5 DEF GetDownloaded, TypeOK
      <4> QED BY <3>2, <2>1, <4>1, <4>3, <4>4 DEF GetDownloaded
    <3> QED BY <3>1, <3>2
  <2> QED BY <2>1, <1>5, KAheadKept
<1> QED BY <1>6, <1>7, <1>8 DEF PoolInv

LEMMA MergeKeeps ==
    ASSUME PoolInv, Merge
    PROVE  PoolInv'
<1> DEFINE taken(d, i) ==
             IF i \in Pieces(d) THEN Smaller(d - processed_total, available[i])
             ELSE IF i \in Behind(d) /\ d # processed_total THEN available[i]
             ELSE 0
<1>0. TypeOK /\ NotAhead
  BY DEF PoolInv
<1>1. PICK d \in {GetDownloaded(i) : i \in Streams} :
         /\ IsKthLargest(d)
         /\ processed_total' = d
         /\ read_total' = [i \in Streams |-> read_total[i] + taken(d, i)]
         /\ available' = [i \in Streams |-> available[i] - taken(d, i)]
         /\ pc' \in {"leave", "select"}
  BY DEF Merge
<1>2. d \in Nat /\ d - processed_total \in 0 .. BufferSize
  BY <1>1, KthLargestBounds
<1>3. /\ processed_total \in Nat /\ BufferSize \in Nat
      /\ \A i \in Streams : /\ read_total[i] \in Int /\ available[i] \in 0 .. BufferSize
                            /\ read_total[i] <= processed_total
  BY <1>0, SizeAssumption DEF TypeOK, NotAhead
<1>4. ASSUME NEW i \in Streams
      PROVE  /\ taken(d, i) \in 0 .. available[i]
             /\ read_total[i] + taken(d, i) <= d
  <2>1. CASE i \in Pieces(d)
    BY <2>1, <1>2, <1>3 DEF Smaller
  <2>2. CASE i \notin Pieces(d) /\ i \in Behind(d)
    BY <2>2, <1>2, <1>3 DEF Behind, GetDownloaded
  <2>3. CASE i \notin Pieces(d) /\ i \notin Behind(d)
    BY <2>3, <1>2, <1>3
  <2> QED BY <2>1, <2>2, <2>3
<1> HIDE DEF taken
<1>5. \A i \in Streams : (GetDownloaded(i))' = GetDownloaded(i)
  BY <1>1, <1>3, <1>4 DEF GetDownloaded
<1>6. TypeOK'
  <2>1. read_total' \in [Streams -> Int] /\ available' \in [Streams -> 0 .. BufferSize]
    BY <1>1, <1>3, <1>4
  <2>2. UNCHANGED <<stored, healthy, sent, ended, pipe, status, is_first_read, ready, slipped>>
    BY DEF Merge, storages, curls
  <2> QED BY <1>0, <1>1, <1>2, <2>1, <2>2 DEF TypeOK
<1>7. NotAhead'
  BY <1>1, <1>4 DEF NotAhead
<1>8. KAhead'
  <2>1. {i \in Streams : (GetDownloaded(i))' >= processed_total'}
          = {i \in Streams : GetDownloaded(i) >= d}
    BY <1>1, <1>5
  <2>2. KAhead' <=> Cardinality({i \in Streams : (GetDownloaded(i))' >= processed_total'}) >= K
    BY DEF KAhead
  <2> QED BY <1>1, <2>1, <2>2 DEF IsKthLargest
<1> QED BY <1>6, <1>7, <1>8 DEF PoolInv

LEMMA InvNext ==
    ASSUME PoolInv, [Next]_vars
    PROVE  PoolInv'
<1>0. TypeOK /\ NotAhead
  BY DEF PoolInv
<1>1. ASSUME UNCHANGED <<read_total, available, processed_total>>, TypeOK'
      PROVE  PoolInv'
  <2>1. NotAhead'
    BY <1>0, <1>1 DEF NotAhead
  <2>2. KAhead'
    BY <1>1, KAheadKept DEF GetDownloaded
  <2> QED BY <1>1, <2>1, <2>2 DEF PoolInv
<1>2. ASSUME NEW i \in Streams, Arrive(i) PROVE PoolInv'
  <2>1. PICK b \in Bursts(i) : /\ sent' = [sent EXCEPT ![i] = @ + b]
                               /\ pipe' = [pipe EXCEPT ![i] = @ + b]
    BY <1>2 DEF Arrive
  <2>2. b \in Nat
    BY <1>0, BurstType
  <2>3. TypeOK'
    BY <1>0, <1>2, <2>1, <2>2 DEF Arrive, TypeOK, storages, buffers
  <2> QED BY <1>1, <1>2, <2>3 DEF Arrive, buffers
<1>3. ASSUME NEW i \in Streams, Exit(i) PROVE PoolInv'
  <2>1. TypeOK'
    BY <1>0, <1>3 DEF Exit, TypeOK, storages, buffers
  <2> QED BY <1>1, <1>3, <2>1 DEF Exit, buffers
<1>4. ASSUME Select PROVE PoolInv'
  <2>1. TypeOK'
    BY <1>0, <1>4 DEF Select, Ready, TypeOK, storages, curls, buffers
  <2> QED BY <1>1, <1>4, <2>1 DEF Select, buffers
<1>5. ASSUME NEW i \in Streams, DropUnread(i) PROVE PoolInv'
  <2>1. TypeOK'
    BY <1>0, <1>5 DEF DropUnread, Visited, TypeOK, storages, curls
  <2> QED BY <1>1, <1>5, <2>1 DEF DropUnread
<1>6. ASSUME NEW i \in Streams, Proceed(i) PROVE PoolInv'
  BY <1>6, ProceedKeeps
<1>7. ASSUME Merge PROVE PoolInv'
  BY <1>7, MergeKeeps
<1>8. ASSUME Leave PROVE PoolInv'
  <2>1. TypeOK'
    BY <1>0, <1>8 DEF Leave, TypeOK, storages, curls
  <2> QED BY <1>1, <1>8, <2>1 DEF Leave
<1>9. ASSUME UNCHANGED vars PROVE PoolInv'
  <2>1. TypeOK'
    BY <1>0, <1>9 DEF vars, TypeOK, storages, curls, buffers
  <2> QED BY <1>1, <1>9, <2>1 DEF vars, buffers
<1> QED BY <1>2, <1>3, <1>4, <1>5, <1>6, <1>7, <1>8, <1>9 DEF Next, Engine, Curl

(***************************************************************************)
(* The counters of every buffer keep their types and the two conjuncts     *)
(* that hold proceed() and read_buffer() together.                         *)
(***************************************************************************)
THEOREM PoolInvariant == Spec => []PoolInv
BY InvInit, InvNext, PTL DEF Spec

(***************************************************************************)
(* The arrays that download() puts on its stack have a size between 0 and  *)
(* one ring, whatever the storages do.                                     *)
(***************************************************************************)
THEOREM RowsFitTheStack == Spec => []ReadableFits
<1>1. PoolInv => ReadableFits
  BY KthLargestBounds DEF ReadableFits
<1> QED BY <1>1, PoolInvariant, PTL

(***************************************************************************)
(* BufferPool::read_buffer never throws "read failure".                    *)
(***************************************************************************)
THEOREM ReadsDoNotFail == Spec => []NoReadFailure
<1>1. ASSUME PoolInv PROVE NoReadFailure
  <2> SUFFICES ASSUME NEW d \in {GetDownloaded(j) : j \in Streams}, IsKthLargest(d),
                      NEW i \in Pieces(d)
               PROVE  available[i] >= d - processed_total
    BY DEF NoReadFailure
  <2>1. d \in Nat
    BY <1>1, KthLargestBounds
  <2>2. i \in Streams /\ read_total[i] + available[i] >= d
    BY DEF Pieces, GetDownloaded
  <2>3. /\ read_total[i] \in Int /\ available[i] \in 0 .. BufferSize /\ BufferSize \in Nat
        /\ read_total[i] <= processed_total /\ processed_total \in Nat
    BY <1>1, <2>2, SizeAssumption DEF PoolInv, TypeOK, NotAhead
  <2> QED BY <2>1, <2>2, <2>3
<1> QED BY <1>1, PoolInvariant, PTL

-----------------------------------------------------------------------------
(***************************************************************************)
(* Where a stream is.  The counters of a buffer and the bytes that really  *)
(* came out of its pipe agree until it slips; a stream is cut, whole or    *)
(* absent, and each of the five cases below says what the loop can have    *)
(* made of it.                                                             *)
(***************************************************************************)

\* A storage without the object: nothing comes, and the magic drops it.
Lacks(i) ==
    /\ stored[i] = NoObject /\ sent[i] = 0 /\ pipe[i] = 0
    /\ read_total[i] = 0 /\ available[i] = 0
    /\ IsOpen(i) => is_first_read[i]
    /\ status[i] = "FINISHED" => pc = "done"

\* A stream before its first read.
Waits(i) ==
    /\ stored[i] \in 0 .. Len /\ is_first_read[i]
    /\ pipe[i] = sent[i]
    /\ read_total[i] = 0 /\ available[i] = 0
    /\ IsOpen(i) \/ pc = "done"

\* A stream whose magic was not all there at the first read.
Misses(i) ==
    /\ stored[i] \in 0 .. Len /\ status[i] = "DROPPED"
    /\ read_total[i] = 0 /\ available[i] = 0

\* A stream that has not slipped: its counters add up to what was taken out of
\* the pipe, and what is in its ring begins at row processed_total.
Follows(i) ==
    /\ stored[i] \in 0 .. Len /\ ~ is_first_read[i] /\ i \notin slipped
    /\ GetDownloaded(i) = sent[i] - pipe[i] - MagicSize
    /\ available[i] > 0 => read_total[i] = processed_total
    /\ \/ IsOpen(i) \/ pc = "done"
       \/ status[i] = "FINISHED" /\ GetDownloaded(i) = stored[i]

\* The counters of a stream that has slipped or was found too short are not
\* beyond what came out of its pipe.
Strays(i) ==
    /\ stored[i] \in 0 .. Len /\ ~ is_first_read[i]
    /\ i \in slipped \/ (status[i] = "DROPPED" /\ stored[i] # Len)
    /\ GetDownloaded(i) <= sent[i] - pipe[i] - MagicSize

Delivers(i) ==
    /\ sent[i] <= Total(i)
    /\ ended[i] => sent[i] = Total(i)
    /\ Lacks(i) \/ Waits(i) \/ Misses(i) \/ Follows(i) \/ Strays(i)

\* A visited stream has something to read, or its end.
Visits ==
    /\ \A i \in ready : IsOpen(i) /\ (pipe[i] > 0 \/ ended[i])
    /\ pc # "download" => ready = {}

\* Between two rounds processed_total is the K-th largest count.
Rounds ==
    /\ pc = "select" => IsKthLargest(processed_total)
    /\ pc = "leave" => HasAll(processed_total)
HealthyAreWhole == \A i \in healthy : stored[i] = Len

StreamInv ==
    /\ PoolInv /\ HealthyAreWhole /\ Visits /\ Rounds /\ Complete
    /\ \A i \in Streams : Delivers(i)

LEMMA TotalType ==
    ASSUME NEW i \in Streams, stored[i] \in (0 .. Len) \cup {NoObject}
    PROVE  /\ Total(i) \in Nat
           /\ stored[i] \in 0 .. Len => Total(i) = MagicSize + stored[i]
           /\ stored[i] = NoObject => Total(i) = 0 /\ stored[i] \notin 0 .. Len
BY SizeAssumption, StorageAssumption DEF Total

\* A stream that a step leaves alone stays where it was.
LEMMA LeftAlone ==
    ASSUME NEW i \in Streams, Delivers(i), stored' = stored,
           sent'[i] = sent[i], ended'[i] = ended[i], pipe'[i] = pipe[i],
           status'[i] = status[i], is_first_read'[i] = is_first_read[i],
           read_total'[i] = read_total[i], available'[i] = available[i],
           i \in slipped' <=> i \in slipped,
           processed_total' = processed_total, pc = "done" => pc' = "done"
    PROVE  Delivers(i)'
<1>1. Total(i)' = Total(i) /\ IsOpen(i)' = IsOpen(i) /\ GetDownloaded(i)' = GetDownloaded(i)
  BY DEF Total, IsOpen, GetDownloaded
<1>2. Lacks(i) => Lacks(i)'
  BY <1>1 DEF Lacks
<1>3. (Waits(i) => Waits(i)') /\ (Misses(i) => Misses(i)')
  BY <1>1 DEF Waits, Misses
<1>4. (Follows(i) => Follows(i)') /\ (Strays(i) => Strays(i)')
  BY <1>1 DEF Follows, Strays
<1> QED BY <1>1, <1>2, <1>3, <1>4 DEF Delivers

LEMMA StreamsStart == Init => StreamInv
<1> SUFFICES ASSUME Init PROVE StreamInv
  OBVIOUS
<1>1. PoolInv /\ TypeOK
  BY InvInit DEF PoolInv
<1>2. HealthyAreWhole
  BY DEF Init, HealthyAreWhole
<1>3. Visits
  BY DEF Init, Visits
<1>4. IsKthLargest(processed_total)
  <2>1. \A i \in Streams : GetDownloaded(i) = 0
    BY DEF Init, GetDownloaded
  <2>2. processed_total = 0
    BY DEF Init
  <2>3. /\ {i \in Streams : GetDownloaded(i) >= 0} = Streams
        /\ {i \in Streams : GetDownloaded(i) > 0} = {}
    BY <2>1
  <2>4. Cardinality(Streams) >= K /\ Cardinality({}) < K
    BY AllStreams, CodeAssumption
  <2> QED BY <2>2, <2>3, <2>4 DEF IsKthLargest
<1>5. Rounds /\ Complete
  BY <1>4 DEF Init, Rounds, Complete
<1>6. ASSUME NEW i \in Streams PROVE Delivers(i)
  <2>1. stored[i] \in (0 .. Len) \cup {NoObject}
    <3>1. Shares \cup {Len} \subseteq (0 .. Len) \cup {NoObject}
      BY SizeAssumption, StorageAssumption
    <3>2. stored \in [Streams -> Shares \cup {Len}]
      BY DEF Init
    <3> QED BY <3>1, <3>2
  <2>2. Total(i) \in Nat
    BY <2>1, TotalType
  <2>3. /\ sent[i] = 0 /\ ~ ended[i] /\ pipe[i] = 0 /\ status[i] = "OPEN"
        /\ is_first_read[i] /\ read_total[i] = 0 /\ available[i] = 0
    BY DEF Init
  <2>4. Lacks(i) \/ Waits(i)
    BY <2>1, <2>3 DEF Lacks, Waits, IsOpen
  <2> QED BY <2>2, <2>3, <2>4 DEF Delivers
<1> QED BY <1>1, <1>2, <1>3, <1>5, <1>6 DEF StreamInv

\* What the invariant says of the numbers of one stream.
LEMMA StreamFacts ==
    ASSUME StreamInv, NEW i \in Streams
    PROVE  /\ TypeOK /\ Delivers(i)
           /\ stored[i] \in (0 .. Len) \cup {NoObject}
           /\ sent[i] \in Nat /\ pipe[i] \in Nat /\ ended[i] \in BOOLEAN
           /\ read_total[i] \in Int /\ available[i] \in 0 .. BufferSize
           /\ processed_total \in Nat /\ read_total[i] <= processed_total
           /\ GetDownloaded(i) \in Int
           /\ Len \in Nat \ {0} /\ MagicSize \in Nat \ {0} /\ BufferSize \in Nat \ {0}
           /\ Total(i) \in Nat
<1>1. TypeOK /\ NotAhead /\ Delivers(i)
  BY DEF StreamInv, PoolInv
<1>2. stored[i] \in (0 .. Len) \cup {NoObject}
  BY <1>1 DEF Delivers, Lacks, Waits, Misses, Follows, Strays
<1>3. Total(i) \in Nat
  BY <1>2, TotalType
<1> QED BY <1>1, <1>2, <1>3, SizeAssumption DEF TypeOK, NotAhead, GetDownloaded

\* No stream has received more than the longest share.
LEMMA NoneBeyondShare ==
    ASSUME StreamInv, NEW i \in Streams
    PROVE  GetDownloaded(i) <= Len
<1>1. /\ Delivers(i) /\ sent[i] \in Nat /\ pipe[i] \in Nat /\ Len \in Nat /\ MagicSize \in Nat
      /\ stored[i] \in (0 .. Len) \cup {NoObject} /\ GetDownloaded(i) \in Int
  BY StreamFacts
<1>2. CASE Lacks(i) \/ Waits(i) \/ Misses(i)
  BY <1>1, <1>2 DEF Lacks, Waits, Misses, GetDownloaded
<1>3. CASE Follows(i) \/ Strays(i)
  <2>1. stored[i] \in 0 .. Len /\ sent[i] <= MagicSize + stored[i]
    BY <1>1, <1>3, TotalType DEF Delivers, Follows, Strays
  <2>2. GetDownloaded(i) <= sent[i] - pipe[i] - MagicSize
    BY <1>1, <1>3 DEF Follows, Strays
  <2> QED BY <1>1, <2>1, <2>2
<1> QED BY <1>1, <1>2, <1>3 DEF Delivers

LEMMA ArriveKeeps ==
    ASSUME StreamInv, NEW i \in Streams, Arrive(i)
    PROVE  \A j \in Streams : Delivers(j)'
<1>1. PICK b \in Bursts(i) : /\ sent' = [sent EXCEPT ![i] = @ + b]
                             /\ pipe' = [pipe EXCEPT ![i] = @ + b]
  BY DEF Arrive
<1>2. /\ pc # "done" /\ ~ ended[i]
      /\ UNCHANGED <<stored, ended, status, is_first_read, read_total, available,
                     processed_total, pc, slipped>>
  BY DEF Arrive, storages, buffers
<1>3. TypeOK
  BY DEF StreamInv, PoolInv
<1>4. ASSUME NEW j \in Streams, j # i PROVE Delivers(j)'
  <2>1. Delivers(j) /\ sent'[j] = sent[j] /\ pipe'[j] = pipe[j]
    BY <1>1, <1>3, <1>4, StreamFacts DEF TypeOK
  <2> QED BY <1>2, <1>4, <2>1, LeftAlone
<1>5. Delivers(i)'
  <2>1. b \in Nat /\ b > 0 /\ sent[i] + b <= Total(i)
    BY <1>3, BurstType
  <2>2. /\ sent[i] \in Nat /\ pipe[i] \in Nat /\ Total(i) \in Nat /\ Delivers(i)
        /\ MagicSize \in Nat /\ GetDownloaded(i) \in Int
        /\ stored[i] \in (0 .. Len) \cup {NoObject}
    BY StreamFacts
  <2>3. /\ sent'[i] = sent[i] + b /\ pipe'[i] = pipe[i] + b
        /\ Total(i)' = Total(i) /\ IsOpen(i)' = IsOpen(i)
        /\ GetDownloaded(i)' = GetDownloaded(i)
    BY <1>1, <1>2, <1>3 DEF TypeOK, Total, IsOpen, GetDownloaded
  <2>4. sent'[i] <= Total(i)' /\ ~ ended'[i]
    BY <1>2, <2>1, <2>3
  <2>5. sent'[i] - pipe'[i] - MagicSize = sent[i] - pipe[i] - MagicSize
    BY <2>1, <2>2, <2>3
  <2>6. ~ Lacks(i)
    BY <2>1, <2>2, TotalType DEF Lacks
  <2>7. (Waits(i) => Waits(i)') /\ (Misses(i) => Misses(i)')
    BY <1>2, <2>3 DEF Waits, Misses
  <2>8. (Follows(i) => Follows(i)') /\ (Strays(i) => Strays(i)')
    BY <1>2, <2>3, <2>5 DEF Follows, Strays
  <2> QED BY <2>2, <2>4, <2>6, <2>7, <2>8 DEF Delivers
<1> QED BY <1>4, <1>5

LEMMA DropKeeps ==
    ASSUME StreamInv, NEW i \in Streams, DropUnread(i)
    PROVE  \A j \in Streams : Delivers(j)'
<1>1. /\ pc = "download" /\ i \in ready /\ BadMagic(i)
      /\ status' = [status EXCEPT ![i] = "DROPPED"]
      /\ is_first_read' = [is_first_read EXCEPT ![i] = FALSE]
      /\ pipe' = [pipe EXCEPT ![i] = 0]
      /\ UNCHANGED <<stored, sent, ended, read_total, available, processed_total, slipped>>
  BY DEF DropUnread, Next1, storages, curls
<1>2. TypeOK
  BY DEF StreamInv, PoolInv
<1>3. ASSUME NEW j \in Streams, j # i PROVE Delivers(j)'
  <2>1. Delivers(j) /\ pipe'[j] = pipe[j] /\ status'[j] = status[j]
        /\ is_first_read'[j] = is_first_read[j]
    BY <1>1, <1>2, <1>3, StreamFacts DEF TypeOK
  <2> QED BY <1>1, <1>3, <2>1, LeftAlone
<1>4. Delivers(i)'
  <2>1. /\ pipe[i] \in Nat /\ Delivers(i) /\ IsOpen(i)
    BY <1>1, StreamFacts DEF StreamInv, Visits
  <2>2. is_first_read[i]
    BY <1>1, <2>1 DEF BadMagic, MagicLeft
  <2>3. Lacks(i) \/ Waits(i)
    BY <2>1, <2>2 DEF Delivers, Misses, Follows, Strays, IsOpen
  <2>4. status'[i] = "DROPPED" /\ pipe'[i] = 0
    BY <1>1, <1>2 DEF TypeOK
  <2>5. Lacks(i) => Lacks(i)'
    BY <1>1, <2>4 DEF Lacks, IsOpen
  <2>6. Waits(i) => Misses(i)'
    BY <1>1, <2>4 DEF Waits, Misses
  <2>7. Total(i)' = Total(i)
    BY <1>1 DEF Total
  <2> QED BY <1>1, <2>1, <2>3, <2>5, <2>6, <2>7 DEF Delivers
<1> QED BY <1>3, <1>4

\* proceed() of a stream with a good magic: the skip and the fill take out of
\* the pipe what they add to the counters, and only a stream that is level
\* fills its ring, unless it slips.
LEMMA ProceedFollows ==
    ASSUME StreamInv, NEW i \in Streams, ~ BadMagic(i),
           IsOpen(i), pipe[i] > 0 \/ ended[i],
           NEW b \in Nat, b > 0 => ~ ended[i]
    PROVE  LET fill == Larger(0, FillResult(i, b))
               rt == ReadTotalAfterSkip(i)
               av == AvailableAfterSkip(i) + fill
               left == PipeAfterSkip(i) + b - fill
               slips == i \in slipped \/ Slips(i, b)
           IN  /\ stored[i] \in 0 .. Len
               /\ rt + av <= sent[i] + b - left - MagicSize
               /\ ~ slips => /\ rt + av = sent[i] + b - left - MagicSize
                             /\ av > 0 => rt = processed_total
               /\ \/ StatusAfter(i, b) = "OPEN"
                  \/ StatusAfter(i, b) = "FINISHED" /\ (~ slips => rt + av = stored[i])
                  \/ StatusAfter(i, b) = "DROPPED" /\ (slips \/ stored[i] # Len)
<1> DEFINE p == PipeAfterMagic(i)
           g == GetDownloaded(i)
<1>1. /\ TypeOK /\ Delivers(i) /\ stored[i] \in (0 .. Len) \cup {NoObject}
      /\ sent[i] \in Nat /\ pipe[i] \in Nat /\ ended[i] \in BOOLEAN
      /\ read_total[i] \in Int /\ available[i] \in 0 .. BufferSize
      /\ processed_total \in Nat /\ read_total[i] <= processed_total /\ g \in Int
      /\ Len \in Nat \ {0} /\ MagicSize \in Nat \ {0} /\ BufferSize \in Nat \ {0}
  BY StreamFacts
<1>2. stored[i] \in 0 .. Len /\ ~ Lacks(i)
  <2>1. ~ Lacks(i)
    BY <1>1 DEF Lacks, BadMagic, MagicLeft
  <2> QED BY <1>1, <2>1 DEF Delivers, Waits, Misses, Follows, Strays
<1>3. Total(i) = MagicSize + stored[i] /\ sent[i] <= Total(i) /\ (ended[i] => sent[i] = Total(i))
  BY <1>1, <1>2, TotalType DEF Delivers
<1>4. /\ p \in Nat /\ g <= sent[i] - p - MagicSize
      /\ i \notin slipped => /\ g = sent[i] - p - MagicSize
                             /\ available[i] > 0 => read_total[i] = processed_total
  <2>1. ~ Misses(i)
    BY DEF Misses, IsOpen
  <2>2. CASE Waits(i)
    <3>1. p = pipe[i] - MagicSize /\ g = 0
      BY <1>1, <2>2 DEF Waits, PipeAfterMagic, MagicLeft, GetDownloaded
    <3>2. pipe[i] >= MagicSize
      BY <1>1, <2>2 DEF Waits, BadMagic, MagicLeft
    <3> QED BY <1>1, <2>2, <3>1, <3>2 DEF Waits
  <2>3. CASE Follows(i)
    <3>1. p = pipe[i]
      BY <1>1, <2>3 DEF Follows, PipeAfterMagic, MagicLeft
    <3> QED BY <1>1, <2>3, <3>1 DEF Follows
  <2>4. CASE Strays(i)
    <3>1. p = pipe[i] /\ i \in slipped
      BY <1>1, <2>4 DEF Strays, PipeAfterMagic, MagicLeft, IsOpen
    <3> QED BY <1>1, <2>4, <3>1 DEF Strays
  <2> QED BY <1>1, <1>2, <2>1, <2>2, <2>3, <2>4 DEF Delivers
<1>5. g = read_total[i] + available[i]
  BY DEF GetDownloaded
<1> HIDE DEF p, g
<1>6. CASE IsLate(i)
  <2> DEFINE s == SkipResult(i)
             fill == Larger(0, FillResult(i, b))
  <2>1. g < processed_total
    BY <1>6 DEF IsLate, g
  <2>2. s = ReadPipe(p, ended[i], processed_total - g)
    BY DEF SkipResult, p, g
  <2>3. s \in -1 .. p /\ s <= processed_total - g /\ (s < 0 \/ s = p \/ s = processed_total - g)
    BY <1>1, <1>4, <2>1, <2>2 DEF ReadPipe, Smaller
  <2>4. /\ PipeAfterSkip(i) = p - Larger(0, s) /\ ReadTotalAfterSkip(i) = g + s
        /\ AvailableAfterSkip(i) = 0 /\ GetEmpty(i) = BufferSize
    BY <1>1, <1>4, <1>6, <2>3 DEF PipeAfterSkip, ReadTotalAfterSkip, AvailableAfterSkip,
       GetEmpty, p, g
  <2>5. FillResult(i, b) = ReadPipe(p - Larger(0, s) + b, ended[i], BufferSize)
    BY <1>1, <2>4 DEF FillResult
  <2>6. Larger(0, s) \in 0 .. p /\ s <= Larger(0, s) /\ (s >= 0 => Larger(0, s) = s)
    BY <1>4, <2>3 DEF Larger
  <2>7. fill \in 0 .. (p - Larger(0, s) + b)
    BY <1>1, <1>4, <2>5, <2>6 DEF ReadPipe, Smaller, Larger
  <2>8. Slips(i, b) <=> s < 0 \/ (b > 0 /\ g + s < processed_total)
    BY <1>6, <2>4 DEF Slips
  <2>9. StatusAfter(i, b) = "OPEN"
    BY <1>6 DEF StatusAfter
  <2> DEFINE out == Larger(0, s)
  <2> HIDE DEF s, fill, out
  <2>10. ~ Slips(i, b) /\ fill > 0 => g + s = processed_total
    BY <1>1, <1>4, <2>3, <2>6, <2>7, <2>8
  <2>14. s \in Int /\ out \in Int /\ fill \in Int /\ s <= out /\ (s >= 0 => out = s)
    BY <1>4, <2>3, <2>6, <2>7 DEF out
  <2>15. sent[i] + b - (p - out + b - fill) - MagicSize
           = (sent[i] - p - MagicSize) + out + fill
    BY <1>1, <1>4, <2>14
  <2>11. g + s + (0 + fill) <= sent[i] + b - (p - out + b - fill) - MagicSize
    BY <1>1, <1>4, <2>14, <2>15
  <2>12. i \notin slipped /\ ~ Slips(i, b) =>
            g + s + (0 + fill) = sent[i] + b - (p - out + b - fill) - MagicSize
    BY <1>1, <1>4, <2>8, <2>14, <2>15
  <2>13. 0 + fill = fill
    BY <1>4, <2>6, <2>7
  <2> QED BY <1>2, <2>4, <2>9, <2>10, <2>11, <2>12, <2>13 DEF fill, out
<1>7. CASE ~ IsLate(i)
  <2> DEFINE fill == Larger(0, FillResult(i, b))
  <2>1. g >= processed_total
    BY <1>1, <1>7 DEF IsLate, g
  <2>2. /\ PipeAfterSkip(i) = p /\ ReadTotalAfterSkip(i) = read_total[i]
        /\ AvailableAfterSkip(i) = available[i] /\ GetEmpty(i) = BufferSize - available[i]
    BY <1>7 DEF PipeAfterSkip, ReadTotalAfterSkip, AvailableAfterSkip, GetEmpty, p
  <2>3. FillResult(i, b) = IF BufferSize - available[i] = 0 THEN -1
                           ELSE ReadPipe(p + b, ended[i], BufferSize - available[i])
    BY <2>2 DEF FillResult
  <2>4. /\ fill \in 0 .. (p + b)
        /\ FillResult(i, b) = 0 => p = 0 /\ b = 0 /\ ended[i] /\ fill = 0
    BY <1>1, <1>4, <2>3 DEF ReadPipe, Smaller, Larger
  <2>5. i \notin slipped => read_total[i] = processed_total
    BY <1>1, <1>4, <1>5, <2>1
  <2>6. \/ StatusAfter(i, b) = "OPEN"
        \/ /\ StatusAfter(i, b) = "FINISHED"
           /\ i \notin slipped => read_total[i] + (available[i] + fill) = stored[i]
        \/ StatusAfter(i, b) = "DROPPED" /\ (i \in slipped \/ stored[i] # Len)
    <3>1. CASE FillResult(i, b) # 0
      BY <3>1 DEF StatusAfter
    <3>2. CASE FillResult(i, b) = 0
      <4>1. (i \notin slipped => g = stored[i]) /\ fill = 0
        BY <1>1, <1>2, <1>3, <1>4, <2>4, <3>2
      <4>2. i \notin slipped /\ stored[i] = Len => GoodEof(i)
        BY <4>1, NoneBeyondShare DEF GoodEof, g
      <4>3. StatusAfter(i, b) = IF GoodEof(i) THEN "FINISHED" ELSE "DROPPED"
        BY <1>7, <3>2 DEF StatusAfter
      <4> QED BY <1>1, <1>5, <4>1, <4>2, <4>3
    <3> QED BY <3>1, <3>2
  <2> HIDE DEF fill
  <2>7. /\ read_total[i] + (available[i] + fill) <= sent[i] + b - (p + b - fill) - MagicSize
        /\ i \notin slipped =>
             read_total[i] + (available[i] + fill) = sent[i] + b - (p + b - fill) - MagicSize
    <3>1. fill \in Int
      BY <1>4, <2>4
    <3>2. sent[i] + b - (p + b - fill) - MagicSize = (sent[i] - p - MagicSize) + fill
      BY <1>1, <1>4, <3>1
    <3>3. read_total[i] + (available[i] + fill) = g + fill
      BY <1>1, <1>5, <3>1
    <3> QED BY <1>1, <1>4, <3>1, <3>2, <3>3
  <2>8. ~ Slips(i, b)
    BY <1>7 DEF Slips
  <2> QED BY <1>2, <2>2, <2>5, <2>6, <2>7, <2>8 DEF fill
<1> QED BY <1>6, <1>7

LEMMA ProceedDelivers ==
    ASSUME StreamInv, NEW i \in Streams, Proceed(i)
    PROVE  \A j \in Streams : Delivers(j)'
<1>1. PICK b \in {0} \cup (IF ended[i] THEN {} ELSE Bursts(i)) :
         /\ sent' = [sent EXCEPT ![i] = @ + b]
         /\ pipe' = [pipe EXCEPT ![i] = PipeAfterSkip(i) + b - Larger(0, FillResult(i, b))]
         /\ available' = [available EXCEPT
                            ![i] = AvailableAfterSkip(i) + Larger(0, FillResult(i, b))]
         /\ status' = [status EXCEPT ![i] = StatusAfter(i, b)]
         /\ slipped' = IF Slips(i, b) THEN slipped \cup {i} ELSE slipped
  BY DEF Proceed
<1> DEFINE fill == Larger(0, FillResult(i, b))
<1>2. /\ pc = "download" /\ i \in ready /\ ~ BadMagic(i)
      /\ read_total' = [read_total EXCEPT ![i] = ReadTotalAfterSkip(i)]
      /\ is_first_read' = [is_first_read EXCEPT ![i] = FALSE]
      /\ UNCHANGED <<stored, ended, processed_total>>
  BY DEF Proceed, Next1, storages
<1>3. TypeOK /\ sent[i] \in Nat /\ Delivers(i) /\ Total(i) \in Nat
  BY StreamFacts
<1>4. b \in Nat /\ (b > 0 => ~ ended[i]) /\ sent[i] + b <= Total(i)
  BY <1>3, BurstType DEF Delivers
<1>5. ASSUME NEW j \in Streams, j # i PROVE Delivers(j)'
  <2>1. /\ Delivers(j) /\ pipe'[j] = pipe[j] /\ status'[j] = status[j]
        /\ is_first_read'[j] = is_first_read[j] /\ available'[j] = available[j]
        /\ read_total'[j] = read_total[j] /\ sent'[j] = sent[j]
        /\ (j \in slipped' <=> j \in slipped)
    BY <1>1, <1>2, <1>3, <1>5, StreamFacts DEF TypeOK
  <2> QED BY <1>2, <1>5, <2>1, LeftAlone
<1>6. Delivers(i)'
  <2>1. IsOpen(i) /\ (pipe[i] > 0 \/ ended[i])
    BY <1>2 DEF StreamInv, Visits
  <2>2. /\ pipe'[i] = PipeAfterSkip(i) + b - fill
        /\ available'[i] = AvailableAfterSkip(i) + fill
        /\ status'[i] = StatusAfter(i, b) /\ sent'[i] = sent[i] + b
        /\ read_total'[i] = ReadTotalAfterSkip(i) /\ ~ is_first_read'[i]
        /\ (i \in slipped' <=> i \in slipped \/ Slips(i, b))
    BY <1>1, <1>2, <1>3 DEF TypeOK
  <2>3. /\ stored[i] \in 0 .. Len
        /\ ReadTotalAfterSkip(i) + (AvailableAfterSkip(i) + fill)
             <= sent[i] + b - (PipeAfterSkip(i) + b - fill) - MagicSize
        /\ ~ (i \in slipped \/ Slips(i, b)) =>
             /\ ReadTotalAfterSkip(i) + (AvailableAfterSkip(i) + fill)
                  = sent[i] + b - (PipeAfterSkip(i) + b - fill) - MagicSize
             /\ AvailableAfterSkip(i) + fill > 0 => ReadTotalAfterSkip(i) = processed_total
        /\ \/ StatusAfter(i, b) = "OPEN"
           \/ /\ StatusAfter(i, b) = "FINISHED"
              /\ ~ (i \in slipped \/ Slips(i, b)) =>
                   ReadTotalAfterSkip(i) + (AvailableAfterSkip(i) + fill) = stored[i]
           \/ /\ StatusAfter(i, b) = "DROPPED"
              /\ i \in slipped \/ Slips(i, b) \/ stored[i] # Len
    BY <1>2, <1>4, <2>1, ProceedFollows
  <2> HIDE DEF fill
  <2>7. /\ GetDownloaded(i)' = read_total'[i] + available'[i]
        /\ (IsOpen(i)' <=> status'[i] = "OPEN") /\ stored' = stored
        /\ processed_total' = processed_total
    BY <1>2 DEF GetDownloaded, IsOpen
  <2>8. /\ stored'[i] \in 0 .. Len
        /\ GetDownloaded(i)' <= sent'[i] - pipe'[i] - MagicSize
        /\ i \notin slipped' => /\ GetDownloaded(i)' = sent'[i] - pipe'[i] - MagicSize
                                /\ available'[i] > 0 => read_total'[i] = processed_total'
        /\ \/ status'[i] = "OPEN"
           \/ status'[i] = "FINISHED" /\ (i \notin slipped' => GetDownloaded(i)' = stored'[i])
           \/ status'[i] = "DROPPED" /\ (i \in slipped' \/ stored'[i] # Len)
    <3> DEFINE rt == ReadTotalAfterSkip(i)
               av == AvailableAfterSkip(i) + fill
               left == PipeAfterSkip(i) + b - fill
               slips == i \in slipped \/ Slips(i, b)
    <3>1. /\ rt + av <= sent[i] + b - left - MagicSize
          /\ ~ slips => rt + av = sent[i] + b - left - MagicSize /\ (av > 0 => rt = processed_total)
          /\ \/ StatusAfter(i, b) = "OPEN"
             \/ StatusAfter(i, b) = "FINISHED" /\ (~ slips => rt + av = stored[i])
             \/ StatusAfter(i, b) = "DROPPED" /\ (slips \/ stored[i] # Len)
      BY <2>3
    <3>2. /\ pipe'[i] = left /\ available'[i] = av /\ read_total'[i] = rt
          /\ (i \in slipped' <=> slips)
      BY <2>2
    <3> HIDE DEF rt, av, left, slips
    <3>3. GetDownloaded(i)' = rt + av /\ stored'[i] = stored[i] /\ stored[i] \in 0 .. Len
      BY <2>3, <2>7, <3>2
    <3>4. /\ rt + av <= sent'[i] - pipe'[i] - MagicSize
          /\ i \notin slipped' => rt + av = sent'[i] - pipe'[i] - MagicSize
      <4>1. sent'[i] = sent[i] + b /\ pipe'[i] = left /\ (i \in slipped' <=> slips)
        BY <2>2, <3>2
      <4>4. TypeOK' /\ left \in Nat /\ MagicSize \in Nat
        BY <4>1, ProceedKeeps, SizeAssumption DEF StreamInv, PoolInv, TypeOK
      <4>2. sent'[i] - pipe'[i] - MagicSize = sent[i] + b - left - MagicSize
        BY <1>3, <1>4, <4>1, <4>4
      <4>3. /\ rt + av <= sent[i] + b - left - MagicSize
            /\ ~ slips => rt + av = sent[i] + b - left - MagicSize
        BY <3>1
      <4> QED BY <4>1, <4>2, <4>3
    <3>5. i \notin slipped' => (available'[i] > 0 => read_total'[i] = processed_total')
      BY <2>7, <3>1, <3>2
    <3>6. \/ status'[i] = "OPEN"
          \/ status'[i] = "FINISHED" /\ (i \notin slipped' => GetDownloaded(i)' = stored'[i])
          \/ status'[i] = "DROPPED" /\ (i \in slipped' \/ stored'[i] # Len)
      BY <2>2, <3>1, <3>2, <3>3
    <3> QED BY <3>3, <3>4, <3>5, <3>6
  <2>4. Follows(i)' \/ Strays(i)'
    <3>1. CASE i \in slipped' \/ status'[i] = "DROPPED"
      <4>1. Strays(i)'
        BY <2>2, <2>8, <3>1 DEF Strays
      <4> QED BY <4>1
    <3>2. CASE i \notin slipped' /\ status'[i] # "DROPPED"
      <4>1. Follows(i)'
        BY <2>2, <2>7, <2>8, <3>2 DEF Follows
      <4> QED BY <4>1
    <3> QED BY <3>1, <3>2
  <2>5. Total(i)' = Total(i)
    BY <1>2 DEF Total
  <2>6. sent'[i] <= Total(i)' /\ (ended'[i] => sent'[i] = Total(i)')
    BY <1>2, <1>3, <1>4, <2>2, <2>5 DEF Delivers
  <2> QED BY <2>4, <2>6 DEF Delivers
<1> QED BY <1>5, <1>6

\* Rows that were not processed begin in the ring of a stream that has not
\* slipped at row processed_total; a stream that has them and is closed to
\* merge() is cut or has slipped.
LEMMA NewRows ==
    ASSUME StreamInv, pc # "done", NEW i \in Streams, NEW d \in Nat,
           d > processed_total, GetDownloaded(i) >= d
    PROVE  /\ IsEverOpened(i) \/ i \in slipped \cup Cut
           /\ IsEverOpened(i) /\ i \notin slipped => FirstRow(i) = processed_total
<1>1. /\ Delivers(i) /\ sent[i] \in Nat /\ pipe[i] \in Nat /\ MagicSize \in Nat
      /\ read_total[i] \in Int /\ available[i] \in 0 .. BufferSize /\ BufferSize \in Nat
      /\ processed_total \in Nat /\ read_total[i] <= processed_total
      /\ stored[i] \in (0 .. Len) \cup {NoObject}
  BY StreamFacts
<1>2. GetDownloaded(i) = read_total[i] + available[i]
  BY DEF GetDownloaded
<1>3. Follows(i) \/ Strays(i)
  BY <1>1, <1>2 DEF Delivers, Lacks, Waits, Misses
<1>4. available[i] > 0
  BY <1>1, <1>2
<1>5. CASE Follows(i)
  <2>1. FirstRow(i) = read_total[i]
    BY <1>1, <1>2, <1>5 DEF Follows, FirstRow
  <2> QED BY <1>4, <1>5, <2>1 DEF Follows, IsEverOpened, IsOpen
<1>6. CASE Strays(i)
  <2>1. i \in slipped \/ (status[i] = "DROPPED" /\ i \in Cut)
    BY <1>6, TotalType DEF Strays, Cut
  <2> QED BY <2>1 DEF IsEverOpened
<1> QED BY <1>3, <1>5, <1>6

LEMMA MergeDelivers ==
    ASSUME StreamInv, Merge
    PROVE  (\A j \in Streams : Delivers(j)') /\ Rounds'
<1> DEFINE taken(d, i) ==
             IF i \in Pieces(d) THEN Smaller(d - processed_total, available[i])
             ELSE IF i \in Behind(d) /\ d # processed_total THEN available[i]
             ELSE 0
<1>0. TypeOK /\ PoolInv
  BY DEF StreamInv, PoolInv
<1>1. PICK d \in {GetDownloaded(i) : i \in Streams} :
         /\ IsKthLargest(d)
         /\ processed_total' = d
         /\ read_total' = [i \in Streams |-> read_total[i] + taken(d, i)]
         /\ available' = [i \in Streams |-> available[i] - taken(d, i)]
         /\ pc' = IF d # processed_total /\ HasAll(d) THEN "leave" ELSE "select"
  BY DEF Merge
<1>2. d \in Nat /\ d - processed_total \in 0 .. BufferSize
  BY <1>0, <1>1, KthLargestBounds
<1>3. /\ pc = "merge"
      /\ UNCHANGED <<stored, healthy, sent, ended, pipe, status, is_first_read, ready,
                     slipped>>
  BY DEF Merge, storages, curls
<1>4. ASSUME NEW i \in Streams
      PROVE  /\ read_total'[i] = read_total[i] + taken(d, i)
             /\ available'[i] = available[i] - taken(d, i)
             /\ taken(d, i) \in 0 .. available[i]
             /\ GetDownloaded(i)' = GetDownloaded(i)
  <2>1. read_total[i] \in Int /\ available[i] \in 0 .. BufferSize /\ BufferSize \in Nat
        /\ processed_total \in Nat
    BY StreamFacts
  <2>2. taken(d, i) \in 0 .. available[i]
    BY <1>2, <2>1 DEF Smaller
  <2> HIDE DEF taken
  <2>3. read_total'[i] = read_total[i] + taken(d, i) /\ available'[i] = available[i] - taken(d, i)
    BY <1>1
  <2> QED BY <2>1, <2>2, <2>3 DEF GetDownloaded
<1>5. ASSUME NEW i \in Streams PROVE Delivers(i)'
  <2>1. /\ Delivers(i) /\ read_total[i] \in Int /\ available[i] \in 0 .. BufferSize
        /\ BufferSize \in Nat /\ processed_total \in Nat /\ read_total[i] <= processed_total
    BY StreamFacts
  <2>2. Total(i)' = Total(i) /\ IsOpen(i)' = IsOpen(i) /\ pc' # "done"
    BY <1>1, <1>3 DEF Total, IsOpen
  <2>3. CASE Lacks(i) \/ Waits(i) \/ Misses(i)
    <3>1. taken(d, i) = 0
      BY <1>4, <2>3 DEF Lacks, Waits, Misses
    <3> HIDE DEF taken
    <3>2. read_total'[i] = read_total[i] /\ available'[i] = available[i]
      BY <1>4, <2>1, <3>1
    <3>3. (Lacks(i) => Lacks(i)') /\ (Waits(i) => Waits(i)') /\ (Misses(i) => Misses(i)')
      BY <1>3, <2>2, <3>2 DEF Lacks, Waits, Misses
    <3> QED BY <1>3, <2>1, <2>2, <2>3, <3>3 DEF Delivers
  <2>4. CASE Follows(i)
    <3>1. GetDownloaded(i) = read_total[i] + available[i]
      BY DEF GetDownloaded
    <3>2. IsEverOpened(i)
      BY <1>3, <2>4 DEF Follows, IsOpen, IsEverOpened
    <3>3. available'[i] > 0 => read_total'[i] = d
      <4>1. CASE GetDownloaded(i) >= d
        <5>1. i \in Pieces(d)
          BY <3>2, <4>1 DEF Pieces
        <5>2. taken(d, i) = Smaller(d - processed_total, available[i])
          BY <5>1
        <5> HIDE DEF taken
        <5> QED BY <1>2, <1>4, <2>1, <2>4, <3>1, <4>1, <5>2 DEF Smaller, Follows
      <4>2. CASE GetDownloaded(i) < d
        <5>1. i \notin Pieces(d) /\ i \in Behind(d)
          BY <1>2, <2>1, <3>1, <3>2, <4>2 DEF Pieces, Behind
        <5>2. taken(d, i) = IF d # processed_total THEN available[i] ELSE 0
          BY <5>1
        <5> HIDE DEF taken
        <5>3. available'[i] = available[i] - taken(d, i)
          BY <1>4
        <5>4. CASE d # processed_total
          BY <2>1, <5>2, <5>3, <5>4
        <5>5. CASE d = processed_total
          BY <2>1, <2>4, <3>1, <4>2, <5>2, <5>3, <5>5 DEF Follows
        <5> QED BY <5>4, <5>5
      <4> QED BY <1>2, <2>1, <3>1, <4>1, <4>2
    <3>4. Follows(i)'
      BY <1>1, <1>3, <1>4, <2>2, <2>4, <3>3 DEF Follows
    <3> QED BY <1>3, <2>1, <2>2, <3>4 DEF Delivers
  <2>5. CASE Strays(i)
    <3> HIDE DEF taken
    <3>1. Strays(i)'
      BY <1>3, <1>4, <2>5 DEF Strays
    <3> QED BY <1>3, <2>1, <2>2, <3>1 DEF Delivers
  <2> QED BY <2>1, <2>3, <2>4, <2>5 DEF Delivers
<1>6. Rounds'
  <2>1. IsKthLargest(d)'
    <3>1. /\ {i \in Streams : GetDownloaded(i)' >= d} = {i \in Streams : GetDownloaded(i) >= d}
          /\ {i \in Streams : GetDownloaded(i)' > d} = {i \in Streams : GetDownloaded(i) > d}
      BY <1>4
    <3> QED BY <1>1, <3>1 DEF IsKthLargest
  <2>2. IsKthLargest(processed_total)'
    BY <1>1, <2>1 DEF IsKthLargest
  <2>3. pc' = "leave" => HasAll(processed_total)'
    BY <1>1 DEF HasAll
  <2> QED BY <2>2, <2>3 DEF Rounds
<1> QED BY <1>5, <1>6

\* When the loop gives up waiting, K streams have ended whole.
LEMMA LoopEndsWhole ==
    ASSUME StreamInv, slipped \cup Cut = {}, Cardinality(Sound) >= K,
           pc = "select", ~ KeepsGoing
    PROVE  processed_total = Len
<1> DEFINE whole == {i \in Streams : GetDownloaded(i) = Len}
           above == {i \in Streams : GetDownloaded(i) > processed_total}
           reached == {i \in Streams : GetDownloaded(i) >= processed_total}
<1>1. /\ TypeOK /\ processed_total \in Nat /\ Len \in Nat /\ K \in Nat \ {0} /\ N \in Nat
  BY SizeAssumption, CodeAssumption, StorageAssumption DEF StreamInv, PoolInv, TypeOK
<1>2. \A i \in Streams : GetDownloaded(i) \in Int /\ GetDownloaded(i) <= Len /\ Delivers(i)
  BY StreamFacts, NoneBeyondShare
<1>0. \A i \in Streams : i \notin slipped /\ stored[i] \in {NoObject, Len}
  BY DEF Cut
<1>3. Finished \in SUBSET whole /\ whole \in SUBSET Streams
  <2>1. ASSUME NEW i \in Finished PROVE i \in whole
    <3>1. i \in Streams /\ status[i] = "FINISHED"
      BY DEF Finished
    <3>2. Follows(i)
      BY <1>0, <1>2, <3>1 DEF Delivers, Lacks, Waits, Misses, Strays, IsOpen
    <3>3. stored[i] = Len
      BY <1>0, <3>1, <3>2, StorageAssumption DEF Follows
    <3> QED BY <3>1, <3>2, <3>3 DEF Follows, IsOpen
  <2> QED BY <2>1
<1>4. /\ Cardinality(Finished) \in Nat /\ Cardinality(whole) \in Nat
      /\ Cardinality(Finished) <= Cardinality(whole)
  BY <1>3, StreamCount
<1>5. Cardinality(whole) >= K
  <2>1. CASE Cardinality(Finished) >= K
    BY <1>1, <1>4, <2>1
  <2>2. CASE Cardinality(Closed) >= N
    <3>1. Closed \in SUBSET Streams /\ healthy \in SUBSET Streams
      BY <1>1 DEF Closed, TypeOK
    <3>2. Closed = Streams
      <4>1. IsFiniteSet(Streams) /\ Cardinality(Streams) = N
        BY CodeAssumption, AllStreams, FS_Interval DEF Streams
      <4>2. Cardinality(Closed) \in Nat /\ Cardinality(Closed) <= N
        BY <3>1, <4>1, StreamCount
      <4>3. Cardinality(Closed) = Cardinality(Streams)
        BY <1>1, <2>2, <4>1, <4>2
      <4> QED BY <3>1, <4>1, <4>3, FS_Subset
    <3>3. ASSUME NEW i \in Sound PROVE i \in whole
      <4>1. /\ i \in Streams /\ stored[i] = Len /\ Delivers(i) /\ ~ MissedMagic(i)
            /\ status[i] \in {"FINISHED", "DROPPED"}
        BY <1>2, <3>1, <3>2 DEF StreamInv, HealthyAreWhole, Closed, Sound
      <4>2. stored[i] # NoObject
        BY <1>1, <4>1, StorageAssumption
      <4>3. ~ Misses(i)
        BY <4>1 DEF Misses, MissedMagic, GetDownloaded
      <4>4. Follows(i)
        BY <1>0, <4>1, <4>2, <4>3 DEF Delivers, Lacks, Waits, Strays, IsOpen
      <4> QED BY <4>1, <4>4 DEF Follows, IsOpen
    <3>4. Sound \in SUBSET whole
      BY <3>3
    <3>5. Cardinality(Sound) <= Cardinality(whole) /\ Cardinality(Sound) \in Nat
      BY <1>3, <3>4, StreamCount
    <3> QED BY <1>1, <1>4, <3>5
  <2>3. Cardinality(Closed) \in Nat
    <3>1. Closed \in SUBSET Streams
      BY DEF Closed
    <3> QED BY <3>1, StreamCount
  <2> QED BY <1>1, <1>4, <2>1, <2>2, <2>3 DEF KeepsGoing
<1>6. Cardinality(above) < K /\ Cardinality(reached) >= K
  BY DEF StreamInv, Rounds, IsKthLargest
<1>7. processed_total >= Len
  <2> SUFFICES ASSUME processed_total < Len PROVE FALSE
    BY <1>1
  <2>1. whole \in SUBSET above /\ above \in SUBSET Streams
    BY <1>1, <1>2
  <2>2. Cardinality(whole) <= Cardinality(above) /\ Cardinality(above) \in Nat
    BY <2>1, StreamCount
  <2> QED BY <1>1, <1>4, <1>5, <1>6, <2>2
<1>8. processed_total <= Len
  <2>1. reached # {}
    BY <1>1, <1>6, AllStreams
  <2>2. PICK i \in Streams : GetDownloaded(i) >= processed_total
    BY <2>1
  <2> QED BY <1>1, <1>2, <2>2
<1> QED BY <1>1, <1>7, <1>8

\* Every step keeps the streams where their counters say they are.
LEMMA StreamsKeep == StreamInv /\ [Next]_vars => StreamInv'
<1> SUFFICES ASSUME StreamInv, [Next]_vars PROVE StreamInv'
  OBVIOUS
<1>0. TypeOK /\ PoolInv' /\ (\A i \in Streams : Delivers(i))
  BY InvNext DEF StreamInv, PoolInv
<1>1. HealthyAreWhole'
  <2>1. UNCHANGED <<stored, healthy>>
    BY DEF Next, Engine, Curl, Select, DropUnread, Proceed, Merge, Leave, Arrive, Exit,
       vars, storages
  <2> QED BY <2>1 DEF StreamInv, HealthyAreWhole
<1>2. ASSUME NEW i \in Streams, Arrive(i) PROVE StreamInv'
  <2>1. \A j \in Streams : Delivers(j)'
    BY <1>2, ArriveKeeps
  <2>2. UNCHANGED <<status, read_total, available, ended, processed_total, pc, ready,
                    slipped, stored, healthy>> /\ pc # "done"
    BY <1>2 DEF Arrive, buffers, storages
  <2>3. Rounds' /\ Complete'
    BY <2>2 DEF StreamInv, Rounds, Complete, IsKthLargest, GetDownloaded, HasAll
  <2>4. \A j \in Streams : pipe[j] > 0 => pipe'[j] > 0
    <3>1. PICK b \in Bursts(i) : pipe' = [pipe EXCEPT ![i] = @ + b]
      BY <1>2 DEF Arrive
    <3>2. b \in Nat
      BY <1>0, BurstType
    <3> QED BY <1>0, <3>1, <3>2 DEF TypeOK
  <2>5. Visits'
    <3>1. ready \in SUBSET Streams
      BY <1>0 DEF TypeOK
    <3> QED BY <2>2, <2>4, <3>1 DEF StreamInv, Visits, IsOpen
  <2> QED BY <1>0, <1>1, <2>1, <2>3, <2>5 DEF StreamInv
<1>3. ASSUME NEW i \in Streams, Exit(i) PROVE StreamInv'
  <2>1. /\ pc # "done" /\ sent[i] = Total(i) /\ ended' = [ended EXCEPT ![i] = TRUE]
        /\ UNCHANGED <<stored, sent, pipe, status, is_first_read, read_total, available,
                       processed_total, pc, ready, slipped>>
    BY <1>3 DEF Exit, buffers, storages
  <2>2. Rounds' /\ Complete'
    BY <2>1 DEF StreamInv, Rounds, Complete, IsKthLargest, GetDownloaded, HasAll
  <2>3. \A j \in Streams : ended'[j] = ended[j] \/ j = i
    BY <1>0, <2>1 DEF TypeOK
  <2>4. \A j \in Streams : ended[j] => ended'[j]
    BY <1>0, <2>1 DEF TypeOK
  <2>5. Visits'
    <3>1. ready \in SUBSET Streams
      BY <1>0 DEF TypeOK
    <3> QED BY <2>1, <2>4, <3>1 DEF StreamInv, Visits, IsOpen
  <2>6. ASSUME NEW j \in Streams PROVE Delivers(j)'
    <3>1. CASE j # i
      BY <1>0, <2>1, <2>3, <3>1, LeftAlone
    <3>2. CASE j = i
      <4>1. Delivers(i)
        BY <1>0
      <4>2. /\ Total(i)' = Total(i) /\ (Lacks(i) => Lacks(i)')
            /\ (Waits(i) => Waits(i)') /\ (Misses(i) => Misses(i)')
            /\ (Follows(i) => Follows(i)') /\ (Strays(i) => Strays(i)')
        BY <2>1 DEF Total, Lacks, Waits, Misses, Follows, Strays, IsOpen, GetDownloaded
      <4> QED BY <2>1, <3>2, <4>1, <4>2 DEF Delivers
    <3> QED BY <3>1, <3>2
  <2> QED BY <1>0, <1>1, <2>2, <2>5, <2>6 DEF StreamInv
<1>4. ASSUME Select PROVE StreamInv'
  <2>1. /\ pc = "select" /\ pc' = "download" /\ ready' = Ready
        /\ UNCHANGED <<stored, sent, ended, pipe, status, is_first_read, read_total, available,
                       processed_total, slipped>>
    BY <1>4 DEF Select, storages, curls, buffers
  <2>2. \A j \in Streams : Delivers(j)'
    BY <1>0, <2>1, LeftAlone
  <2>3. Visits'
    BY <2>1 DEF Visits, Ready, IsOpen
  <2>4. Rounds' /\ Complete'
    BY <2>1 DEF Rounds, Complete
  <2> QED BY <1>0, <1>1, <2>2, <2>3, <2>4 DEF StreamInv
<1>5. ASSUME NEW i \in Streams, DropUnread(i) \/ Proceed(i) PROVE StreamInv'
  <2>1. \A j \in Streams : Delivers(j)'
    BY <1>5, DropKeeps, ProceedDelivers
  <2>2. /\ pc' \in {"download", "merge"} /\ (pc' # "download" => ready' = {})
        /\ ready' = ready \ {i} /\ ended' = ended
        /\ \A j \in Streams \ {i} : pipe'[j] = pipe[j] /\ status'[j] = status[j]
    BY <1>0, <1>5 DEF DropUnread, Proceed, Visited, curls, TypeOK
  <2>3. Visits'
    <3>1. ready \in SUBSET Streams
      BY <1>0 DEF TypeOK
    <3> QED BY <2>2, <3>1 DEF StreamInv, Visits, IsOpen
  <2>4. Rounds' /\ Complete'
    BY <2>2 DEF Rounds, Complete
  <2> QED BY <1>0, <1>1, <2>1, <2>3, <2>4 DEF StreamInv
<1>6. ASSUME Merge PROVE StreamInv'
  <2>1. (\A j \in Streams : Delivers(j)') /\ Rounds'
    BY <1>6, MergeDelivers
  <2>2. /\ pc = "merge" /\ pc' \in {"leave", "select"}
        /\ UNCHANGED <<ended, pipe, status, ready>>
    BY <1>6 DEF Merge, curls
  <2>3. Visits' /\ Complete'
    BY <2>2 DEF StreamInv, Visits, IsOpen, Complete
  <2> QED BY <1>0, <1>1, <2>1, <2>3 DEF StreamInv
<1>7. ASSUME Leave PROVE StreamInv'
  <2>1. /\ pc = "leave" \/ (pc = "select" /\ ~ KeepsGoing)
        /\ pc' = "done"
        /\ status' = [i \in Streams |-> IF IsOpen(i) THEN "FINISHED" ELSE status[i]]
        /\ UNCHANGED <<stored, healthy, sent, ended, pipe, is_first_read, read_total,
                       available, processed_total, ready, slipped>>
    BY <1>7 DEF Leave, storages, curls
  <2>2. ASSUME NEW j \in Streams PROVE Delivers(j)'
    <3>1. /\ Total(j)' = Total(j) /\ Delivers(j)
          /\ status'[j] = IF IsOpen(j) THEN "FINISHED" ELSE status[j]
      BY <1>0, <2>1 DEF Total
    <3>2. /\ (Lacks(j) => Lacks(j)') /\ (Waits(j) => Waits(j)') /\ (Misses(j) => Misses(j)')
          /\ (Follows(j) => Follows(j)') /\ (Strays(j) => Strays(j)')
      BY <2>1, <3>1 DEF Lacks, Waits, Misses, Follows, Strays, IsOpen, GetDownloaded
    <3> QED BY <2>1, <3>1, <3>2 DEF Delivers
  <2>3. Visits' /\ Rounds'
    BY <2>1 DEF StreamInv, Visits, Rounds
  <2>4. Complete'
    <3>1. CASE pc = "leave"
      BY <2>1, <3>1 DEF StreamInv, Rounds, Complete, HasAll
    <3>2. CASE pc = "select" /\ ~ KeepsGoing
      <4> SUFFICES ASSUME (slipped \cup Cut = {})', (Cardinality(Sound) >= K)'
                   PROVE  processed_total = Len
        BY <2>1 DEF Complete
      <4>1. slipped \cup Cut = {}
        BY <2>1 DEF Cut
      <4>2. Sound' \in SUBSET Sound
        BY <1>0, <2>1 DEF TypeOK, Sound, MissedMagic, GetDownloaded, IsOpen
      <4>3. Sound \in SUBSET Streams
        BY <1>0 DEF Sound, TypeOK
      <4>4. Cardinality(Sound) >= K
        BY <4>2, <4>3, StreamCount, CodeAssumption
      <4> QED BY <3>2, <4>1, <4>4, LoopEndsWhole
    <3> QED BY <2>1, <3>1, <3>2
  <2> QED BY <1>0, <1>1, <2>2, <2>3, <2>4 DEF StreamInv
<1>8. ASSUME UNCHANGED vars PROVE StreamInv'
  <2>1. UNCHANGED <<stored, healthy, sent, ended, pipe, status, is_first_read, read_total,
                    available, processed_total, pc, ready, slipped>>
    BY <1>8 DEF vars, storages, curls, buffers
  <2>2. \A j \in Streams : Delivers(j)'
    BY <1>0, <2>1, LeftAlone
  <2>3. Visits' /\ Rounds'
    BY <2>1 DEF StreamInv, Visits, Rounds, IsOpen, IsKthLargest, GetDownloaded, HasAll
  <2>4. Complete'
    BY <2>1 DEF StreamInv, Complete, Cut, Sound, MissedMagic, GetDownloaded, HasAll
  <2> QED BY <1>0, <1>1, <2>2, <2>3, <2>4 DEF StreamInv
<1> QED BY <1>2, <1>3, <1>4, <1>5, <1>6, <1>7, <1>8 DEF Next, Engine, Curl

LEMMA StreamInvariant == Spec => []StreamInv
BY StreamsStart, StreamsKeep, PTL DEF Spec

\* A merge in a state of StreamInv has K streams or more to take bytes from,
\* and in each of them they begin at row processed_total, unless it is cut or
\* has slipped.
LEMMA MergeTakesRows ==
    ASSUME StreamInv, Merge, processed_total' # processed_total
    PROVE  /\ Cardinality(Pieces(processed_total') \cup slipped \cup Cut) >= K
           /\ \A i \in Pieces(processed_total') \ slipped : FirstRow(i) = processed_total
<1>1. PICK d \in {GetDownloaded(i) : i \in Streams} :
         IsKthLargest(d) /\ processed_total' = d
  BY DEF Merge
<1>2. /\ pc = "merge" /\ processed_total \in Nat /\ TypeOK
      /\ d \in Nat /\ d - processed_total \in 0 .. BufferSize
  BY <1>1, KthLargestBounds DEF Merge, StreamInv, PoolInv, TypeOK
<1>3. d > processed_total
  BY <1>1, <1>2, SizeAssumption
<1>4. \A i \in Streams : GetDownloaded(i) >= d =>
         /\ IsEverOpened(i) \/ i \in slipped \cup Cut
         /\ IsEverOpened(i) /\ i \notin slipped => FirstRow(i) = processed_total
  BY <1>2, <1>3, NewRows
<1>5. \A i \in Pieces(d) \ slipped : FirstRow(i) = processed_total
  BY <1>4 DEF Pieces
<1>6. Cardinality(Pieces(d) \cup slipped \cup Cut) >= K
  <2> DEFINE reached == {i \in Streams : GetDownloaded(i) >= d}
             giving == Pieces(d) \cup slipped \cup Cut
  <2>1. reached \in SUBSET giving /\ giving \in SUBSET Streams
    BY <1>2, <1>4 DEF Pieces, Cut, TypeOK
  <2>2. Cardinality(reached) >= K
    BY <1>1 DEF IsKthLargest
  <2> HIDE DEF reached, giving
  <2>3. Cardinality(giving) >= K
    BY <2>1, <2>2, StreamCount, CodeAssumption
  <2> QED BY <2>3 DEF giving
<1> QED BY <1>1, <1>5, <1>6

\* Only a merge changes processed_total.
LEMMA OnlyMergeCounts ==
    ASSUME [Next]_vars, processed_total' # processed_total
    PROVE  Merge
BY DEF Next, Engine, Curl, Select, DropUnread, Proceed, Leave, Arrive, Exit, vars

(***************************************************************************)
(* "follow up, if too late" (download_buffer.cpp:154) brings a late stream *)
(* to where the others are: whatever the storages have and in whatever     *)
(* pieces and order the bytes come, every byte that merge() is given by a  *)
(* stream that has not slipped is of row processed_total.                  *)
(***************************************************************************)
THEOREM MergesAreAligned == Spec => PiecesAligned
<1>1. StreamInv /\ [Next]_vars =>
        [processed_total' # processed_total =>
           \A i \in Pieces(processed_total') \ slipped : FirstRow(i) = processed_total]_vars
  BY MergeTakesRows, OnlyMergeCounts
<1> QED BY <1>1, StreamInvariant, PTL DEF Spec, PiecesAligned

(***************************************************************************)
(* k_servers is "the number of minimum storages to decode messages"        *)
(* (distribute.h): BufferPool::read_buffer gives merge() the bytes of K    *)
(* streams or more, every time; those that are missing have counted bytes  *)
(* for readable_count and were dropped, and are cut or have slipped.       *)
(***************************************************************************)
THEOREM MergesHaveEnough == Spec => EnoughPieces
<1>1. StreamInv /\ [Next]_vars =>
        [processed_total' # processed_total =>
           Cardinality(Pieces(processed_total') \cup slipped \cup Cut) >= K]_vars
  BY MergeTakesRows, OnlyMergeCounts
<1> QED BY <1>1, StreamInvariant, PTL DEF Spec, EnoughPieces

(***************************************************************************)
(* download() returns only with the whole share, or with as much as it was *)
(* asked for, if K storages stay sound and none has a cut object or slips: *)
(* the loop of BufferPool is not left early because other streams were     *)
(* dropped, nor because K of them finished before what they sent was       *)
(* merged.                                                                 *)
(***************************************************************************)
THEOREM DownloadIsComplete == Spec => []Complete
<1>1. StreamInv => Complete
  BY DEF StreamInv
<1> QED BY <1>1, StreamInvariant, PTL
=============================================================================

------------------------------ MODULE Download ------------------------------
(***************************************************************************)
(* The download of one block from N storages, of which any K suffice:      *)
(* download() of download.cpp and the classes BufferPool and               *)
(* DownloadBuffer of download_buffer.cpp.  One curl per storage writes     *)
(* MagicSize bytes and then its share into a pipe; a single thread selects *)
(* on the pipes, fills one ring buffer per storage and merges as many      *)
(* bytes as at least K of them have.                                       *)
(*                                                                         *)
(* Bytes are counted, not represented: byte number p of every share        *)
(* belongs to row p of the code word, so a merge is right when the bytes   *)
(* it takes from every buffer begin at row processed_total.                *)
(***************************************************************************)
EXTENDS Integers, FiniteSets

CONSTANTS
    N, K,         \* code word and message length: storages, storages needed
    BufferSize,   \* DownloadBuffer::buffer_size
    MagicSize,    \* magic_size
    Len,          \* length of the longest share, which every good storage has
    DownLen,      \* down_len, 0: until the end
    NoObject,     \* a storage without the object: curl delivers no share
    Shares,       \* lengths of share that a storage without fault may have
    MinHealthy    \* how many storages have the share and never stall

ASSUME CodeAssumption == N \in Nat \ {0} /\ K \in 1 .. N
ASSUME SizeAssumption ==
    /\ BufferSize \in Nat \ {0} /\ MagicSize \in Nat \ {0}
    /\ Len \in Nat \ {0} /\ DownLen \in Nat
ASSUME StorageAssumption ==
    /\ NoObject \notin Nat /\ Shares \subseteq (0 .. Len) \cup {NoObject}
    /\ MinHealthy \in 0 .. N

Streams == 1 .. N

VARIABLES
    stored,           \* length of the share of a storage, or NoObject
    healthy,          \* the storages that never stall
    sent, ended,      \* bytes that curl wrote, and whether it has exited
    pipe,             \* bytes written and not yet read
    status,           \* DownloadBuffer::status
    is_first_read,    \* DownloadBuffer::is_first_read
    read_total,       \* DownloadBuffer::read_total
    available,        \* DownloadBuffer::available
    processed_total,  \* BufferPool::processed_total
    pc, ready,        \* where download() is; streams select found ready
    slipped           \* history: streams whose counters lost their place

storages == <<stored, healthy>>
curls == <<sent, ended>>
buffers == <<status, is_first_read, read_total, available>>
vars == <<storages, curls, pipe, buffers, processed_total, pc, ready,
          slipped>>

Smaller(a, b) == IF a < b THEN a ELSE b
Larger(a, b) == IF a < b THEN b ELSE a

-----------------------------------------------------------------------------
(***************************************************************************)
(* The storages.                                                           *)
(***************************************************************************)
Total(i) == IF stored[i] = NoObject THEN 0 ELSE MagicSize + stored[i]

\* What curl may write next: any number of the bytes that are left, none of
\* them being more likely to come together than others.
Bursts(i) == 1 .. (Total(i) - sent[i])

Arrive(i) ==
    /\ pc # "done" /\ ~ ended[i]
    /\ \E b \in Bursts(i) :
         /\ sent' = [sent EXCEPT ![i] = @ + b]
         /\ pipe' = [pipe EXCEPT ![i] = @ + b]
    /\ UNCHANGED <<storages, ended, buffers, processed_total, pc, ready, slipped>>

Exit(i) ==
    /\ pc # "done" /\ ~ ended[i] /\ sent[i] = Total(i)
    /\ ended' = [ended EXCEPT ![i] = TRUE]
    /\ UNCHANGED <<storages, sent, pipe, buffers, processed_total, pc, ready, slipped>>

-----------------------------------------------------------------------------
(***************************************************************************)
(* DownloadBuffer.                                                         *)
(***************************************************************************)
IsOpen(i) == status[i] = "OPEN"
\* Mutant of IsEverOpened: what a FINISHED buffer has left is ignored.
IsOpenStill(i) == status[i] = "OPEN"
IsEverOpened(i) == status[i] \in {"OPEN", "FINISHED"}
GetDownloaded(i) == read_total[i] + available[i]

\* read() from a pipe that holds p bytes and whose writer is gone or not:
\* the number of bytes, 0 at the end, -1 for EAGAIN.
ReadPipe(p, gone, want) == IF p > 0 THEN Smaller(p, want) ELSE IF gone THEN 0 ELSE -1

\* The magic is read first, once.
MagicLeft(i) == IF is_first_read[i] THEN MagicSize ELSE 0
\* Mutant of BadMagic: the result of the read is not compared.
BadMagicUnseen(i) == FALSE
BadMagic(i) == pipe[i] < MagicLeft(i)
PipeAfterMagic(i) == pipe[i] - MagicLeft(i)

\* "follow up, if too late": the rows already processed are skipped by one
\* read, whose result is added to read_total whatever it is.
\* Mutant of IsLate: never.
IsLateNever(i) == FALSE
IsLate(i) == GetDownloaded(i) < processed_total
\* Mutant of SkipResult: reads a ring full instead of what is to be skipped.
SkipResultRing(i) == ReadPipe(PipeAfterMagic(i), ended[i], BufferSize)
SkipResult(i) ==
    ReadPipe(PipeAfterMagic(i), ended[i], processed_total - GetDownloaded(i))
PipeAfterSkip(i) ==
    IF IsLate(i) THEN PipeAfterMagic(i) - Larger(0, SkipResult(i)) ELSE PipeAfterMagic(i)
ReadTotalAfterSkip(i) ==
    IF IsLate(i) THEN GetDownloaded(i) + SkipResult(i) ELSE read_total[i]
AvailableAfterSkip(i) == IF IsLate(i) THEN 0 ELSE available[i]

\* Mutant of GetEmpty: one too many.
GetEmptyPlusOne(i) == BufferSize - AvailableAfterSkip(i) + 1
GetEmpty(i) == BufferSize - AvailableAfterSkip(i)

\* What proceed() reads when b bytes arrive after it has skipped; 0 is the
\* end of the stream, -1 nothing.
FillResult(i, b) ==
    IF GetEmpty(i) = 0 THEN -1
    ELSE ReadPipe(PipeAfterSkip(i) + b, ended[i], GetEmpty(i))

\* A late stream loses its place when its skip reads nothing, because the -1
\* of read() is added to read_total; and when its skip falls short and b bytes
\* come before the second read, which puts them into the ring although the
\* others are beyond their rows.
Slips(i, b) ==
    /\ IsLate(i)
    /\ \/ SkipResult(i) < 0
       \/ b > 0 /\ ReadTotalAfterSkip(i) < processed_total

\* An end of stream is good if no other buffer has received more.
GoodEof(i) == \A j \in Streams : GetDownloaded(j) <= GetDownloaded(i)

StatusAfter(i, b) ==
    IF FillResult(i, b) # 0 \/ IsLate(i) THEN "OPEN"
    ELSE IF GoodEof(i) THEN "FINISHED" ELSE "DROPPED"

-----------------------------------------------------------------------------
(***************************************************************************)
(* BufferPool and download().                                              *)
(***************************************************************************)
Finished == {i \in Streams : status[i] = "FINISHED"}
Closed == {i \in Streams : status[i] \in {"FINISHED", "DROPPED"}}
\* Mutant of KeepsGoing: one finished stream short.
KeepsGoingLess == Cardinality(Finished) + 1 < K /\ Cardinality(Closed) < N
KeepsGoing == Cardinality(Finished) < K /\ Cardinality(Closed) < N

\* get_fds leaves a stream whose ring is full out.
Ready ==
    {i \in Streams : /\ IsOpen(i) /\ available[i] < BufferSize
                     /\ pipe[i] > 0 \/ ended[i]}

Init ==
    /\ healthy \in {h \in SUBSET Streams : Cardinality(h) >= MinHealthy}
    /\ stored \in [Streams -> Shares \cup {Len}]
    /\ \A i \in healthy : stored[i] = Len
    /\ sent = [i \in Streams |-> 0] /\ ended = [i \in Streams |-> FALSE]
    /\ pipe = [i \in Streams |-> 0]
    /\ status = [i \in Streams |-> "OPEN"]
    /\ is_first_read = [i \in Streams |-> TRUE]
    /\ read_total = [i \in Streams |-> 0] /\ available = [i \in Streams |-> 0]
    /\ processed_total = 0
    /\ pc = "select" /\ ready = {}
    /\ slipped = {}

Select ==
    /\ pc = "select" /\ KeepsGoing
    /\ Ready # {}
    /\ ready' = Ready
    /\ pc' = "download"
    /\ UNCHANGED <<storages, curls, pipe, buffers, processed_total, slipped>>

\* BufferPool::download visits the ready streams in order.
Next1(i) == i \in ready /\ \A j \in ready : i <= j
Visited(i) ==
    /\ ready' = ready \ {i}
    /\ pc' = IF ready = {i} THEN "merge" ELSE "download"

\* proceed() returns -3 and the stream is dropped.
DropUnread(i) ==
    /\ pc = "download" /\ Next1(i) /\ BadMagic(i)
    /\ status' = [status EXCEPT ![i] = "DROPPED"]
    /\ is_first_read' = [is_first_read EXCEPT ![i] = FALSE]
    /\ pipe' = [pipe EXCEPT ![i] = 0]
    /\ Visited(i)
    /\ UNCHANGED <<storages, curls, read_total, available, processed_total, slipped>>

Proceed(i) ==
    /\ pc = "download" /\ Next1(i) /\ ~ BadMagic(i)
    /\ \E b \in {0} \cup (IF ended[i] THEN {} ELSE Bursts(i)) :
         /\ sent' = [sent EXCEPT ![i] = @ + b]
         /\ pipe' = [pipe EXCEPT ![i] = PipeAfterSkip(i) + b - Larger(0, FillResult(i, b))]
         /\ available' = [available EXCEPT
                            ![i] = AvailableAfterSkip(i) + Larger(0, FillResult(i, b))]
         /\ status' = [status EXCEPT ![i] = StatusAfter(i, b)]
         /\ slipped' = IF Slips(i, b) THEN slipped \cup {i} ELSE slipped
    /\ read_total' = [read_total EXCEPT ![i] = ReadTotalAfterSkip(i)]
    /\ is_first_read' = [is_first_read EXCEPT ![i] = FALSE]
    /\ Visited(i)
    /\ UNCHANGED <<storages, ended, processed_total>>

\* readable_count: d is the K-th largest of what the buffers have received,
\* dropped ones included.
\* Mutant of IsKthLargest: b[n-1], what all buffers have received.
IsLeast(d) == \A i \in Streams : GetDownloaded(i) >= d
IsKthLargest(d) ==
    /\ Cardinality({i \in Streams : GetDownloaded(i) >= d}) >= K
    /\ Cardinality({i \in Streams : GetDownloaded(i) > d}) < K

\* The streams that give merge() their bytes up to row d; read_buffer takes
\* the bytes from them, and consume() empties the ones that are behind.
Pieces(d) == {i \in Streams : IsEverOpened(i) /\ GetDownloaded(i) >= d}
Behind(d) == {i \in Streams : IsEverOpened(i) /\ GetDownloaded(i) < d}

HasAll(rows) == DownLen > 0 /\ K * rows >= DownLen

Merge ==
    /\ pc = "merge"
    /\ \E d \in {GetDownloaded(i) : i \in Streams} :
         LET taken(i) == IF i \in Pieces(d) THEN Smaller(d - processed_total, available[i])
                         ELSE IF i \in Behind(d) /\ d # processed_total THEN available[i]
                         ELSE 0
         IN  /\ IsKthLargest(d)
             /\ processed_total' = d
             /\ read_total' = [i \in Streams |-> read_total[i] + taken(i)]
             /\ available' = [i \in Streams |-> available[i] - taken(i)]
             /\ pc' = IF d # processed_total /\ HasAll(d) THEN "leave" ELSE "select"
    /\ UNCHANGED <<storages, curls, pipe, status, is_first_read, ready, slipped>>

\* The loop ends, and ~BufferPool closes the streams that are still open.
Leave ==
    /\ pc = "leave" \/ (pc = "select" /\ ~ KeepsGoing)
    /\ pc' = "done"
    /\ status' = [i \in Streams |-> IF IsOpen(i) THEN "FINISHED" ELSE status[i]]
    /\ UNCHANGED <<storages, curls, pipe, is_first_read, read_total, available,
                   processed_total, ready, slipped>>

Engine == Select \/ (\E i \in Streams : DropUnread(i) \/ Proceed(i)) \/ Merge \/ Leave
Curl(i) == Arrive(i) \/ Exit(i)
Next == Engine \/ \E i \in Streams : Curl(i)

Spec == Init /\ [][Next]_vars

\* The thread of download() runs; only a healthy storage is sure to deliver.
FairSpec ==
    /\ Spec /\ WF_vars(Engine)
    /\ \A i \in Streams : WF_vars(i \in healthy /\ Curl(i))

-----------------------------------------------------------------------------
(***************************************************************************)
(* Properties.                                                             *)
(***************************************************************************)
\* A ring never holds more than its bytes, a pipe never fewer than none; only
\* read_total may be negative: a failed read adds -1 (download_buffer.cpp:165).
TypeOK ==
    /\ stored \in [Streams -> Nat \cup {NoObject}] /\ healthy \in SUBSET Streams
    /\ sent \in [Streams -> Nat] /\ ended \in [Streams -> BOOLEAN]
    /\ pipe \in [Streams -> Nat]
    /\ status \in [Streams -> {"OPEN", "DROPPED", "FINISHED"}]
    /\ is_first_read \in [Streams -> BOOLEAN]
    /\ read_total \in [Streams -> Int] /\ available \in [Streams -> 0 .. BufferSize]
    /\ processed_total \in Nat
    /\ pc \in {"select", "download", "merge", "leave", "done"}
    /\ ready \in SUBSET Streams /\ slipped \in SUBSET Streams

(***************************************************************************)
(* The row buffers of download() are arrays of readable bytes on the       *)
(* stack (download.cpp:86), and readable is a difference of counters kept  *)
(* in different places: it is never negative and never more than one ring. *)
(***************************************************************************)
ReadableFits ==
    pc = "merge" =>
        \A d \in {GetDownloaded(i) : i \in Streams} :
            IsKthLargest(d) => d - processed_total \in 0 .. BufferSize

(***************************************************************************)
(* The exception "read failure in BufferPool::read_buffer" is never        *)
(* thrown: a stream that has received all rows up to d still has the ones  *)
(* after processed_total in its ring, however it was skipped and emptied.  *)
(***************************************************************************)
NoReadFailure ==
    pc = "merge" =>
        \A d \in {GetDownloaded(i) : i \in Streams} : IsKthLargest(d) =>
            \A i \in Pieces(d) : available[i] >= d - processed_total

(***************************************************************************)
(* Why both hold, whatever the storages do: no buffer gives away rows that *)
(* were not processed, and K buffers have received all that were.  The     *)
(* skip of proceed() keeps the first only because it asks for no more than *)
(* is missing; the count of proceed() can lower what a buffer received (by *)
(* the -1 of a failed read) only if it was not one of the K.               *)
(***************************************************************************)
NotAhead == \A i \in Streams : read_total[i] <= processed_total
KAhead == Cardinality({i \in Streams : GetDownloaded(i) >= processed_total}) >= K
PoolInv == TypeOK /\ NotAhead /\ KAhead

\* The row that the oldest byte in the ring of stream i belongs to.
FirstRow(i) == sent[i] - pipe[i] - MagicSize - available[i]

(***************************************************************************)
(* merge() puts together bytes of the same row: after "follow up, if too   *)
(* late" (download_buffer.cpp:154) a late stream is where the others are,  *)
(* in whatever pieces its bytes come, unless they come inside one of the   *)
(* two windows of Slips.  One stream that slips does not move the others.  *)
(***************************************************************************)
PiecesAligned ==
    [][processed_total' # processed_total =>
         \A i \in Pieces(processed_total') \ slipped :
             FirstRow(i) = processed_total]_vars

\* Objects that are shorter than the share.
Cut == {i \in Streams : stored[i] \notin {NoObject, Len}}

(***************************************************************************)
(* k_servers is "the number of minimum storages to decode messages"        *)
(* (distribute.h): every merge gets the bytes of K streams or more.  The   *)
(* streams that count for readable_count and give nothing were dropped as  *)
(* "too short": they are cut or have slipped, never whole.                 *)
(***************************************************************************)
EnoughPieces ==
    [][processed_total' # processed_total =>
         Cardinality(Pieces(processed_total') \cup slipped \cup Cut) >= K]_vars

\* A stream dropped at its magic, and the healthy ones that are still good.
MissedMagic(i) == status[i] = "DROPPED" /\ GetDownloaded(i) = 0
Sound == {i \in healthy : i \notin slipped /\ ~ MissedMagic(i)}

(***************************************************************************)
(* A download that ends has merged the whole share, or as much as asked,   *)
(* if K storages are sound and no stream is cut or has slipped: neither    *)
(* the streams that finish nor those that are dropped end the loop early.  *)
(***************************************************************************)
Complete ==
    pc = "done" /\ slipped \cup Cut = {} /\ Cardinality(Sound) >= K
        => processed_total = Len \/ HasAll(processed_total)

(***************************************************************************)
(* A download ends, however the other storages stall, cut their share or   *)
(* slip, as long as K healthy storages stay sound.                         *)
(***************************************************************************)
Terminates == <>(pc = "done" \/ Cardinality(Sound) < K)
=============================================================================

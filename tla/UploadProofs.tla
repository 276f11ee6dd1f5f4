---------------------------- MODULE UploadProofs ----------------------------
(***************************************************************************)
(* For all numbers of storages, lengths, buffers, pipes and failures:      *)
(* upload() uses the pool of closing threads as AsyncClose has it, so the  *)
(* pool stays safe, and a pipe is given a beginning of its share in order. *)
(***************************************************************************)
EXTENDS Upload, AsyncCloseProofs, SequenceTheorems, FiniteSetTheorems

\* The magic and then a beginning of the share, byte by byte.
Counts(h) ==
    /\ h \in Seq(Int)
    /\ Len(h) >= 1 /\ Len(h) - 1 <= L
    /\ \A j \in 1 .. Len(h) : h[j] = j - 1

LEMMA MagicCounts == Counts(<<0>>)
<1>1. <<0>> \in Seq(Int) /\ Len(<<0>>) = 1 /\ <<0>>[1] = 0
  OBVIOUS
<1>. QED
  BY <1>1, UploadAssumption DEF Counts

\* w more bytes of the share, from where it was left.
LEMMA MoreCounts ==
    ASSUME NEW h, Counts(h), NEW w \in Nat, Len(h) - 1 + w <= L
    PROVE  /\ Counts(h \o [b \in 1 .. w |-> Len(h) - 1 + b])
           /\ Len(h \o [b \in 1 .. w |-> Len(h) - 1 + b]) = Len(h) + w
<1>. DEFINE p == Len(h) - 1
            new == [b \in 1 .. w |-> p + b]
<1>1. h \in Seq(Int) /\ Len(h) \in Nat /\ Len(h) >= 1
  BY LenProperties DEF Counts
<1>2. new \in Seq(Int) /\ Len(new) = w
  <2>1. p \in Nat
    BY <1>1
  <2>2. new \in [1 .. w -> Int]
    BY <2>1
  <2>. QED
    BY <2>2
<1>3. \A b \in 1 .. w : new[b] = p + b
  OBVIOUS
<1>. HIDE DEF new
<1>4. /\ h \o new \in Seq(Int) /\ Len(h \o new) = Len(h) + w
      /\ \A j \in 1 .. Len(h) + w : (h \o new)[j] =
           IF j <= Len(h) THEN h[j] ELSE new[j - Len(h)]
  BY <1>1, <1>2, ConcatProperties
<1>5. \A j \in 1 .. Len(h) + w : (h \o new)[j] = j - 1
  <2>. TAKE j \in 1 .. Len(h) + w
  <2>2. CASE j <= Len(h)
    BY <1>1, <1>4, <2>2 DEF Counts
  <2>3. CASE j > Len(h)
    <3>1. j - Len(h) \in 1 .. w
      BY <1>1, <2>3
    <3>2. new[j - Len(h)] = p + (j - Len(h))
      BY <1>3, <3>1
    <3>3. (h \o new)[j] = new[j - Len(h)]
      BY <1>1, <1>4, <2>3
    <3>. QED
      BY <1>1, <3>2, <3>3
  <2>4. j <= Len(h) \/ j > Len(h)
    BY <1>1
  <2>. QED
    BY <2>2, <2>3, <2>4
<1>6. Counts(h \o new)
  BY <1>1, <1>4, <1>5 DEF Counts
<1>. QED
  BY <1>4, <1>6 DEF new

LEMMA CountsIsShare ==
    ASSUME NEW h, Counts(h)
    PROVE  h = <<0>> \o SubSeq(Share, 1, Len(h) - 1)
<1>. DEFINE n == Len(h) - 1
            part == SubSeq(Share, 1, n)
<1>1. h \in Seq(Int) /\ n \in Nat /\ n <= L /\ Len(h) = n + 1
  BY LenProperties DEF Counts
<1>2. \A i \in 1 .. n : Share[i] = i /\ Share[i] \in Int
  BY <1>1, UploadAssumption DEF Share
<1>3. /\ part \in Seq(Int) /\ Len(part) = n
      /\ \A i \in 1 .. n : part[i] = i
  <2>1. /\ part \in Seq(Int)
        /\ Len(part) = IF 1 <= n THEN n - 1 + 1 ELSE 0
        /\ \A i \in 1 .. n - 1 + 1 : part[i] = Share[1 + i - 1]
    BY <1>1, <1>2, SubSeqProperties
  <2>. QED
    BY <1>1, <1>2, <2>1
<1>. DEFINE magic == <<0>>
<1>4. magic \in Seq(Int) /\ Len(magic) = 1 /\ magic[1] = 0
  OBVIOUS
<1>. HIDE DEF part, magic
<1>5. /\ magic \o part \in Seq(Int) /\ Len(magic \o part) = 1 + n
      /\ \A i \in 1 .. 1 + n : (magic \o part)[i] =
           IF i <= Len(magic) THEN magic[i] ELSE part[i - Len(magic)]
  <2>1. /\ magic \o part \in Seq(Int)
        /\ Len(magic \o part) = Len(magic) + Len(part)
        /\ \A i \in 1 .. Len(magic) + Len(part) : (magic \o part)[i] =
             IF i <= Len(magic) THEN magic[i] ELSE part[i - Len(magic)]
    BY <1>3, <1>4, ConcatProperties
  <2>. QED
    BY <1>1, <1>3, <1>4, <2>1
<1>6. \A i \in 1 .. Len(h) : h[i] = (magic \o part)[i]
  <2>. TAKE i \in 1 .. Len(h)
  <2>2. h[i] = i - 1
    BY DEF Counts
  <2>3. CASE i = 1
    BY <1>1, <1>4, <1>5, <2>2, <2>3
  <2>4. CASE i # 1
    <3>1. i - 1 \in 1 .. n
      BY <1>1, <2>4
    <3>2. (magic \o part)[i] = part[i - 1]
      BY <1>1, <1>4, <1>5, <2>4
    <3>. QED
      BY <1>3, <2>2, <3>1, <3>2
  <2>. QED
    BY <2>3, <2>4
<1>7. h = magic \o part
  <2>1. Len(h) = Len(magic \o part)
    BY <1>1, <1>5
  <2>. QED
    BY <1>1, <1>5, <1>6, <2>1, SeqEqual
<1>. QED
  BY <1>7 DEF part, magic

-----------------------------------------------------------------------------

\* The loops stay within the storages.  A pipe that is open is of a storage,
\* belongs to nobody else, and its curl can only have died.
EngineInv ==
    /\ at \in Int
    /\ pc \in {"open", "visit"} => at \in Storages
    /\ storage \subseteq Storages
    /\ curl \in [Storages -> {"none", "running", "done", "dead"}]
    /\ closer \in [Files -> {"nobody", "thread", "caller", "closed"}]
    /\ pc = "open" => \A s \in Storages : closer[s] = "nobody"
    /\ \A s \in storage : closer[s] = "nobody" /\ curl[s] \in {"running", "dead"}

\* What each open pipe has been given, and what the engine knows of it.
PipeInv ==
    /\ handed \in [Storages -> Seq(Int)]
    /\ write_count \in [Storages -> Int] /\ position \in [Storages -> Int]
    /\ taken \in [Storages -> Int]
    /\ pc = "open" => \A s \in Storages :
         /\ write_count[s] = 0 /\ position[s] = 0
    /\ \A s \in storage :
         /\ Counts(handed[s])
         /\ curl[s] = "running" => /\ write_count[s] = Len(handed[s]) - 1
                                   /\ position[s] = write_count[s]

UploadInv == EngineInv /\ PipeInv

LEMMA Starts == Init => UploadInv
<1>. USE UploadAssumption
<1>1. Init => EngineInv
  BY DEF Init, PoolInit, EngineInv, Storages
<1>2. Init => PipeInv
  BY DEF Init, PipeInv, Storages
<1>. QED
  BY <1>1, <1>2 DEF UploadInv

-----------------------------------------------------------------------------
(***************************************************************************)
(* The engine.                                                             *)
(***************************************************************************)
LEMMA EngineKeeps == EngineInv /\ [Next]_vars => EngineInv'
<1>. SUFFICES ASSUME EngineInv, [Next]_vars PROVE EngineInv'
  OBVIOUS
<1>. USE UploadAssumption DEF EngineInv
<1>1. CASE Open
  <2>. USE <1>1 DEF Open
  <2>1. at' = at + 1 /\ pc' \in {"open", "thrown", "select"}
        /\ (pc' = "open" => at < N) /\ UNCHANGED closer
    BY DEF Opened, poolVars
  <2>2. pc' \in {"open", "visit"} => at' \in Storages
    BY <2>1 DEF Storages
  <2>3. closer[at] = "nobody"
    BY DEF Storages
  <2>. QED
    BY <2>1, <2>2, <2>3
<1>2. CASE Select
  BY <1>2 DEF Select, poolVars, Storages
<1>3. CASE SelectFails
  BY <1>3 DEF SelectFails, poolVars
<1>4. CASE Visit
  <2>1. at' \in Int /\ pc' # "open" /\ (pc' = "visit" => at' \in Storages)
    BY <1>4 DEF Visit, Feed, Wrote, CloseStorage, Visited, Storages
  <2>2. CASE UNCHANGED <<storage, curl, closer>>
    <3>. UNCHANGED <<storage, curl, closer>>
      BY <2>2
    <3>. QED
      BY <2>1
  <2>3. CASE CloseStorage /\ at \in storage
    <3>1. /\ closer' \in [Files -> {"nobody", "thread", "caller", "closed"}]
          /\ \A f \in Files \ {at} : closer'[f] = closer[f]
      BY <2>3 DEF CloseStorage, async_pclose, StartThread, StartNoThread
    <3>2. storage' = storage \ {at} /\ curl' = curl
      BY <2>3 DEF CloseStorage
    <3>. QED
      BY <2>1, <3>1, <3>2
  <2>. QED
    BY <1>4, <2>2, <2>3 DEF Visit, Feed, Wrote, poolVars
<1>5. ASSUME NEW s \in Storages, Reads(s) PROVE EngineInv'
  BY <1>5 DEF Reads, engine, poolVars
<1>6. ASSUME NEW s \in Storages, Finishes(s) PROVE EngineInv'
  BY <1>6 DEF Finishes, engine, poolVars
<1>7. ASSUME NEW s \in Storages, Dies(s) PROVE EngineInv'
  BY <1>7 DEF Dies, engine, poolVars
<1>8. ASSUME NEW s \in Storages, Closes(s) PROVE EngineInv'
  BY <1>8 DEF Closes, close_it, CallerCloses, engine
<1>9. CASE OtherUse
  <2>1. PICK f \in Others :
          async_pclose(f) \/ close_it(f) \/ CallerCloses(f) \/ Reopen(f)
    BY <1>9 DEF OtherUse
  <2>2. /\ closer' \in [Files -> {"nobody", "thread", "caller", "closed"}]
        /\ \A g \in Files \ {f} : closer'[g] = closer[g]
    BY <2>1 DEF async_pclose, StartThread, StartNoThread, close_it, CallerCloses,
                Reopen, Others
  <2>. QED
    BY <1>9, <2>2 DEF OtherUse, engine, Others
<1>10. CASE UNCHANGED vars
  BY <1>10 DEF vars, engine, poolVars
<1>. QED
  BY <1>1, <1>2, <1>3, <1>4, <1>5, <1>6, <1>7, <1>8, <1>9, <1>10 DEF Next

-----------------------------------------------------------------------------
(***************************************************************************)
(* The pipes.                                                              *)
(***************************************************************************)
\* What write takes continues what the pipe was given.
LEMMA FeedKeeps == ASSUME UploadInv, Visit, at \in storage, Feed PROVE PipeInv'
<1>. USE UploadAssumption DEF UploadInv, EngineInv, PipeInv
<1>1. pc' # "open" /\ at \in Storages /\ storage' = storage /\ curl' = curl
  BY DEF Visit, Feed, Wrote, Visited
<1>2. ToWrite \in Int /\ ToWrite <= L - position[at]
  BY <1>1 DEF ToWrite, Smaller
<1>3. ASSUME NEW w \in Int, Wrote(w)
      PROVE  /\ write_count' \in [Storages -> Int]
             /\ write_count'[at] = write_count[at] + w
             /\ position' \in [Storages -> Int]
             /\ position'[at] = PositionAfter(position[at], ToWrite, w)
             /\ \A s \in Storages \ {at} : /\ write_count'[s] = write_count[s]
                                           /\ position'[s] = position[s]
  BY <1>1, <1>2, <1>3 DEF Wrote, PositionAfter
<1>4. CASE curl[at] = "dead"
  <2>1. Wrote(-1) /\ UNCHANGED handed
    BY <1>4 DEF Feed
  <2>2. taken' = taken
    BY <2>1 DEF Wrote
  <2>3. /\ write_count' \in [Storages -> Int] /\ position' \in [Storages -> Int]
        /\ \A s \in Storages \ {at} : /\ write_count'[s] = write_count[s]
                                      /\ position'[s] = position[s]
    BY <1>3, <2>1
  <2>. QED
    BY <1>1, <1>4, <2>1, <2>2, <2>3
<1>5. CASE curl[at] = "running"
  <2>1. PICK w \in 1 .. Smaller(ToWrite, Room(at)) :
          /\ handed' = [handed EXCEPT ![at] = @ \o [b \in 1 .. w |-> position[at] + b]]
          /\ Wrote(w)
    BY <1>5 DEF Feed
  <2>2. Counts(handed[at]) /\ position[at] = Len(handed[at]) - 1
    BY <1>1, <1>5
  <2>3. w \in Nat /\ Len(handed[at]) \in Nat /\ position[at] \in Nat
    BY <2>1, <2>2, LenProperties DEF Counts
  <2>4. w <= ToWrite
    <3>1. Room(at) \in Int
      BY <1>1, <2>3, UploadAssumption DEF Room
    <3>. QED
      BY <1>2, <2>1, <2>3, <3>1 DEF Smaller
  <2>5. Len(handed[at]) - 1 + w <= L
    BY <1>2, <2>2, <2>3, <2>4
  <2>6. /\ handed' = [handed EXCEPT ![at] =
                @ \o [b \in 1 .. w |-> Len(handed[at]) - 1 + b]]
    BY <2>1, <2>2
  <2>7. /\ handed' \in [Storages -> Seq(Int)]
        /\ Counts(handed'[at]) /\ Len(handed'[at]) = Len(handed[at]) + w
        /\ \A s \in Storages \ {at} : handed'[s] = handed[s]
    BY <1>1, <2>2, <2>3, <2>5, <2>6, MoreCounts DEF Counts
  <2>8. position'[at] = position[at] + w
    BY <1>3, <2>1, <2>3 DEF PositionAfter
  <2>9. /\ write_count'[at] = Len(handed'[at]) - 1
        /\ position'[at] = write_count'[at]
    BY <1>1, <1>3, <1>5, <2>1, <2>2, <2>3, <2>7, <2>8
  <2>10. \A s \in storage' : s # at => s \in Storages \ {at} /\ s \in storage
    BY <1>1
  <2>. QED
    <3>1. taken' = taken
      BY <2>1 DEF Wrote
    <3>2. \A s \in storage' \ {at} :
            /\ Counts(handed'[s])
            /\ curl'[s] = "running" => /\ write_count'[s] = Len(handed'[s]) - 1
                                       /\ position'[s] = write_count'[s]
      <4>. TAKE s \in storage' \ {at}
      <4>1. s \in Storages \ {at} /\ s \in storage
        BY <2>10
      <4>2. /\ handed'[s] = handed[s] /\ curl'[s] = curl[s]
            /\ write_count'[s] = write_count[s] /\ position'[s] = position[s]
        BY <1>1, <1>3, <2>1, <2>3, <2>7, <4>1
      <4>. QED
        BY <4>1, <4>2
    <3>3. write_count' \in [Storages -> Int] /\ position' \in [Storages -> Int]
      BY <1>3, <2>1, <2>3
    <3>. QED
      BY <1>1, <2>7, <2>9, <3>1, <3>2, <3>3
<1>. QED
  BY <1>4, <1>5

\* No other step changes a pipe that is open, but Open, which starts it.
LEMMA PipesKeep == UploadInv /\ [Next]_vars => PipeInv'
<1>. SUFFICES ASSUME UploadInv, [Next]_vars PROVE PipeInv'
  OBVIOUS
<1>. USE UploadAssumption DEF UploadInv, EngineInv, PipeInv
<1>1. CASE Open
  <2>1. at \in Storages /\ UNCHANGED <<write_count, position, taken>>
    BY <1>1 DEF Open, Opened
  <2>2. write_count[at] = 0 /\ position[at] = 0
    BY <1>1, <2>1 DEF Open
  <2>3. Counts(<<0>>) /\ <<0>> \in Seq(Int) /\ Len(<<0>>) = 1
    BY MagicCounts DEF Counts
  <2>4. CASE /\ storage' = storage \cup {at}
             /\ handed' = [handed EXCEPT ![at] = <<0>>]
             /\ curl' = [curl EXCEPT ![at] = "running"]
    <3>1. handed'[at] = <<0>> /\ handed' \in [Storages -> Seq(Int)]
      BY <2>1, <2>3, <2>4
    <3>2. Counts(handed'[at]) /\ Len(handed'[at]) = 1
      BY <2>3, <3>1
    <3>3. \A s \in storage : s # at => /\ handed'[s] = handed[s]
                                       /\ curl'[s] = curl[s]
      BY <2>4
    <3>. QED
      BY <1>1, <2>1, <2>2, <2>4, <3>1, <3>2, <3>3 DEF Open
  <2>5. CASE UNCHANGED <<storage, handed>> /\ curl' = [curl EXCEPT ![at] = "dead"]
    BY <1>1, <2>1, <2>5 DEF Open
  <2>. QED
    BY <1>1, <2>4, <2>5 DEF Open
<1>2. CASE Select
  BY <1>2 DEF Select
<1>3. CASE SelectFails
  BY <1>3 DEF SelectFails
<1>4. CASE Visit
  <2>1. CASE at \in storage /\ Feed
    BY <1>4, <2>1, FeedKeeps
  <2>2. CASE CloseStorage
    BY <1>4, <2>2 DEF Visit, CloseStorage, Visited
  <2>3. CASE Visited /\ UNCHANGED <<storage, write_count, position, handed, curl, taken>>
    BY <2>3 DEF Visited
  <2>. QED
    BY <1>4, <2>1, <2>2, <2>3 DEF Visit
<1>5. ASSUME NEW s \in Storages, Reads(s) PROVE PipeInv'
  BY <1>5 DEF Reads, engine
<1>6. ASSUME NEW s \in Storages, Finishes(s) PROVE PipeInv'
  BY <1>6 DEF Finishes, engine
<1>7. ASSUME NEW s \in Storages, Dies(s) PROVE PipeInv'
  BY <1>7 DEF Dies, engine
<1>8. ASSUME NEW s \in Storages, Closes(s) PROVE PipeInv'
  BY <1>8 DEF Closes, engine
<1>9. CASE OtherUse
  BY <1>9 DEF OtherUse, engine
<1>10. CASE UNCHANGED vars
  BY <1>10 DEF vars, engine
<1>. QED
  BY <1>1, <1>2, <1>3, <1>4, <1>5, <1>6, <1>7, <1>8, <1>9, <1>10 DEF Next

LEMMA UploadInvariant == Spec => []UploadInv
<1>1. UploadInv /\ [Next]_vars => UploadInv'
  BY EngineKeeps, PipesKeep DEF UploadInv
<1>. QED
  BY Starts, <1>1, PTL DEF Spec

-----------------------------------------------------------------------------
(***************************************************************************)
(* Whatever a pipe takes at a time and whenever its curl dies, it is given *)
(* the magic and then a beginning of its share: the position of its split  *)
(* file is set back by exactly what write did not take (upload.cpp:148).   *)
(***************************************************************************)
THEOREM PipesAreInOrder == Spec => []InOrder
<1>1. UploadInv => InOrder
  <2>. SUFFICES ASSUME UploadInv, NEW s \in storage
       PROVE  /\ handed[s] = <<0>> \o SubSeq(Share, 1, Len(handed[s]) - 1)
              /\ curl[s] = "running" => /\ write_count[s] = Len(handed[s]) - 1
                                        /\ position[s] = write_count[s]
    BY DEF InOrder
  <2>. QED
    BY CountsIsShare DEF UploadInv, PipeInv
<1>. QED
  BY UploadInvariant, <1>1, PTL

\* A step of an upload is a step of the pool, or leaves the pool alone.
LEMMA UploadUsesPool == UploadInv /\ [Next]_vars => [PoolNext]_poolVars
<1>. SUFFICES ASSUME EngineInv, [Next]_vars PROVE [PoolNext]_poolVars
  BY DEF UploadInv
<1>1. CASE Open \/ Select \/ SelectFails
  BY <1>1 DEF Open, Opened, Select, SelectFails
<1>2. CASE Visit
  <2>1. CASE UNCHANGED poolVars
    BY <2>1
  <2>2. CASE CloseStorage
    BY <1>2, <2>2, UploadAssumption DEF CloseStorage, PoolNext, Visit, EngineInv
  <2>. QED
    BY <1>2, <2>1, <2>2 DEF Visit, Feed, Wrote
<1>3. ASSUME NEW s \in Storages, Reads(s) \/ Finishes(s) \/ Dies(s)
      PROVE  [PoolNext]_poolVars
  BY <1>3 DEF Reads, Finishes, Dies
<1>4. ASSUME NEW s \in Storages, Closes(s) PROVE [PoolNext]_poolVars
  BY <1>4, UploadAssumption DEF Closes, PoolNext
<1>5. CASE OtherUse
  BY <1>5 DEF OtherUse, PoolNext, Others
<1>6. CASE UNCHANGED vars
  BY <1>6 DEF vars
<1>. QED
  BY <1>1, <1>2, <1>3, <1>4, <1>5, <1>6 DEF Next

(***************************************************************************)
(* In an upload, with other operations around, async_pclose never gives    *)
(* the slot of a running thread away nor leaves its table, and the counter *)
(* of the pool is right.                                                   *)
(***************************************************************************)
THEOREM UploadKeepsPool == Spec => []PoolInv
<1>1. Init => PoolInv
  BY PoolStarts DEF Init
<1>2. PoolInv /\ UploadInv /\ [Next]_vars => PoolInv'
  BY UploadUsesPool, PoolKeeps
<1>. QED
  BY <1>1, <1>2, UploadInvariant, PTL DEF Spec

-----------------------------------------------------------------------------
(***************************************************************************)
(* What upload() counts, and what its return means.                        *)
(***************************************************************************)
\* A pipe that was given its whole share.
Full(h) == Counts(h) /\ Len(h) = L + 1

\* The types that the engine and the pipes keep between them.
RangeInv ==
    /\ at \in 1 .. N + 1 /\ fds \subseteq Storages
    /\ pc \in {"open", "select", "visit", "returned", "thrown"}
    /\ error_count \in Nat /\ complete_count \in Nat
    /\ write_count \in [Storages -> - MaxLoss .. L]
    /\ position \in [Storages -> 0 .. L]
    /\ \A s \in Storages : handed[s] \in Seq(0 .. L) /\ taken[s] \in 0 .. Len(handed[s])

\* What a dead pipe did not take is never counted: as long as its count is not
\* negative it agrees with the position, and is no more than was handed over.
Honest(s) ==
    write_count[s] >= 0 => /\ position[s] = write_count[s]
                           /\ write_count[s] <= Len(handed[s]) - 1

\* The storages that took the magic, and those of them that upload() is done
\* with and that have their whole share.
Started == {s \in Storages : handed[s] # <<>>}
Served == {s \in Storages \ storage : Full(handed[s])}

\* Each storage is counted once: as an error when it did not start, and as
\* complete only when it was served.
CountInv ==
    /\ pc = "open" => /\ \A s \in Storages : s >= at => handed[s] = <<>>
                      /\ Cardinality(Started) + error_count = at - 1
    /\ pc # "open" => Cardinality(Started) + error_count = N
    /\ pc \in {"select", "visit", "returned"} => ~ TooManyErrors(error_count)
    /\ complete_count <= Cardinality(Served)
    /\ pc = "returned" => complete_count >= N - error_count

ServiceInv == RangeInv /\ (\A s \in storage : Honest(s)) /\ CountInv

-----------------------------------------------------------------------------
\* The numbers and sets that the proofs below count with.
LEMMA Numbers ==
    /\ K \in Nat /\ K >= 1 /\ N \in Nat /\ K <= N /\ L \in Nat /\ B \in Nat /\ B >= 1
    /\ P \in Nat /\ MaxLoss \in Nat
    /\ IsFiniteSet(Storages) /\ Cardinality(Storages) = N
<1>1. N \in Int /\ N >= 1
  BY UploadAssumption
<1> QED BY <1>1, UploadAssumption, FS_Interval DEF Storages

LEMMA StorageCount ==
    ASSUME NEW T \in SUBSET Storages
    PROVE  IsFiniteSet(T) /\ Cardinality(T) \in Nat /\ Cardinality(T) <= N
BY Numbers, FS_Subset, FS_CardinalityType

\* What a pipe was given is bytes of the share.
LEMMA CountsRange ==
    ASSUME NEW h, Counts(h)
    PROVE  h \in Seq(0 .. L) /\ Len(h) \in Nat /\ h # <<>>
<1>1. h \in Seq(Int) /\ Len(h) \in Nat /\ Len(h) >= 1 /\ Len(h) - 1 <= L
  BY LenProperties DEF Counts
<1>2. \A j \in 1 .. Len(h) : h[j] \in 0 .. L
  BY <1>1, Numbers DEF Counts
<1>3. h \in [1 .. Len(h) -> 0 .. L]
  <2>1. h \in [1 .. Len(h) -> Int]
    BY <1>1, LenProperties
  <2> QED BY <1>2, <2>1
<1>4. h \in Seq(0 .. L)
  <2> DEFINE S == 0 .. L
  <2>1. h \in [1 .. Len(h) -> S] /\ Len(h) \in Nat
    BY <1>1, <1>3
  <2> HIDE DEF S
  <2>2. h \in Seq(S)
    BY <2>1, SeqDef
  <2> QED BY <2>2 DEF S
<1> QED BY <1>1, <1>4

LEMMA FullIsShare ==
    ASSUME NEW h, Full(h)
    PROVE  h = <<0>> \o Share
<1>1. h = <<0>> \o SubSeq(Share, 1, L)
  <2>1. h = <<0>> \o SubSeq(Share, 1, Len(h) - 1)
    BY CountsIsShare DEF Full
  <2>2. Len(h) - 1 = L
    BY Numbers DEF Full
  <2> QED BY <2>1, <2>2, Zenon
<1>2. Share \in Seq(Int) /\ Len(Share) = L
  BY Numbers DEF Share
<1>3. SubSeq(Share, 1, L) = Share
  BY <1>2, SubSeqFull
<1> QED BY <1>1, <1>3

\* The first storage is next, and none has been counted.
LEMMA ServiceStarts == ASSUME Init PROVE ServiceInv
<1>1. RangeInv
  <2>1. <<>> \in Seq(0 .. L) /\ Len(<<>>) = 0
    BY EmptySeq
  <2>2. 0 \in - MaxLoss .. L /\ 0 \in 0 .. L /\ 1 \in 1 .. N + 1
    BY Numbers
  <2>3. \A s \in Storages : handed[s] = <<>> /\ taken[s] = 0
    BY DEF Init
  <2> QED BY <2>1, <2>2, <2>3 DEF Init, RangeInv
<1>2. storage = {} /\ complete_count = 0 /\ error_count = 0 /\ at = 1 /\ pc = "open"
  BY DEF Init
<1>3. Started = {} /\ Cardinality({}) = 0
  BY FS_EmptySet DEF Started, Init
<1>4. Cardinality(Served) \in Nat
  BY StorageCount DEF Served
<1>5. CountInv
  BY <1>2, <1>3, <1>4 DEF CountInv, Init
<1> QED BY <1>1, <1>2, <1>5 DEF ServiceInv

\* The steps that hand nothing over and count nothing.
LEMMA NothingHanded ==
    ASSUME ServiceInv, RangeInv',
           UNCHANGED <<storage, error_count, complete_count, write_count, position, handed>>,
           \/ pc' = pc /\ at' = at
           \/ pc \in {"select", "visit"} /\ pc' \in {"select", "visit", "thrown"}
           \/ pc = "select" /\ pc' = "returned" /\ complete_count >= N - error_count
    PROVE  ServiceInv'
<1>1. \A s \in storage' : Honest(s)'
  BY DEF ServiceInv, Honest
<1>2. Started' = Started /\ Served' = Served
  BY DEF Started, Served
<1>3. CountInv'
  BY <1>2 DEF ServiceInv, RangeInv, CountInv, TooManyErrors
<1> QED BY <1>1, <1>3 DEF ServiceInv

\* A storage that starts or refuses is counted once.
LEMMA OpenServes == ASSUME UploadInv, ServiceInv, Open PROVE ServiceInv'
<1>0. /\ pc = "open" /\ at \in Storages /\ storage \subseteq Storages
      /\ write_count[at] = 0 /\ position[at] = 0 /\ handed[at] = <<>>
      /\ handed \in [Storages -> Seq(Int)] /\ at \in 1 .. N
      /\ error_count \in Nat /\ complete_count \in Nat
  BY DEF Open, UploadInv, EngineInv, PipeInv, ServiceInv, RangeInv, CountInv, Storages
<1>1. /\ UNCHANGED <<fds, complete_count, write_count, position, taken>>
      /\ at' = at + 1
      /\ error_count' \in {error_count, error_count + 1}
      /\ pc' = IF at < N THEN "open" ELSE IF TooManyErrors(error_count') THEN "thrown" ELSE "select"
  BY DEF Open, Opened
<1>2. /\ Started \in SUBSET Storages /\ Started' \in SUBSET Storages /\ at \notin Started
      /\ Served \in SUBSET Storages
      /\ Cardinality(Started) + error_count = at - 1
      /\ Cardinality(Started) \in Nat /\ Cardinality(Served) \in Nat
      /\ complete_count <= Cardinality(Served)
      /\ IsFiniteSet(Started) /\ N \in Nat
  BY <1>0, StorageCount, Numbers DEF Started, Served, ServiceInv, CountInv
<1>3. ~ Full(<<>>)
  BY EmptySeq DEF Full, Counts
<1>4. /\ \A s \in Storages : s # at => handed'[s] = handed[s]
      /\ handed'[at] \in {<<>>, <<0>>}
      /\ storage \subseteq storage' /\ storage' \subseteq storage \cup {at}
      /\ at \in storage' <=> handed'[at] = <<0>>
      /\ \/ Started' = Started \cup {at} /\ error_count' = error_count /\ handed'[at] = <<0>>
         \/ Started' = Started /\ error_count' = error_count + 1
  <2>1. CASE /\ storage' = storage \cup {at}
             /\ handed' = [handed EXCEPT ![at] = <<0>>]
             /\ error_count' = error_count
    <3>1. handed'[at] = <<0>> /\ \A s \in Storages : s # at => handed'[s] = handed[s]
      BY <1>0, <2>1
    <3>2. <<0>> # <<>>
      BY MagicCounts, CountsRange
    <3>3. Started' = Started \cup {at}
      BY <1>0, <3>1, <3>2 DEF Started
    <3> QED BY <2>1, <3>1, <3>3
  <2>2. CASE UNCHANGED <<storage, handed>> /\ error_count' = error_count + 1
             /\ at \notin storage
    BY <1>0, <2>2 DEF Started
  <2>3. at \notin storage
    BY <1>0, EmptySeq DEF UploadInv, PipeInv, Counts
  <2> QED BY <2>1, <2>2, <2>3 DEF Open, Opened
<1>5. RangeInv'
  <2>1. <<0>> \in Seq(0 .. L) /\ Len(<<0>>) = 1
    BY MagicCounts, CountsRange
  <2>2. /\ write_count \in [Storages -> - MaxLoss .. L] /\ position \in [Storages -> 0 .. L]
        /\ fds \subseteq Storages
        /\ \A s \in Storages : handed[s] \in Seq(0 .. L) /\ taken[s] \in 0 .. Len(handed[s])
    BY DEF ServiceInv, RangeInv
  <2>3. taken[at] = 0
    BY <1>0, <2>2, EmptySeq
  <2>4. \A s \in Storages : handed'[s] \in Seq(0 .. L) /\ taken'[s] \in 0 .. Len(handed'[s])
    <3>1. ASSUME NEW s \in Storages, s # at
          PROVE  handed'[s] \in Seq(0 .. L) /\ taken'[s] \in 0 .. Len(handed'[s])
      BY <1>1, <1>4, <2>2, <3>1
    <3>2. handed'[at] \in Seq(0 .. L) /\ taken'[at] \in 0 .. Len(handed'[at])
      <4>1. taken'[at] = 0
        BY <1>1, <2>3
      <4>2. CASE handed'[at] = <<>>
        BY <4>1, <4>2, EmptySeq
      <4>3. CASE handed'[at] = <<0>>
        BY <2>1, <4>1, <4>3
      <4> QED BY <1>4, <4>2, <4>3
    <3> QED BY <3>1, <3>2
  <2>5. at' \in 1 .. N + 1 /\ pc' \in {"open", "thrown", "select"} /\ error_count' \in Nat
    BY <1>0, <1>1, <1>2
  <2> QED BY <1>0, <1>1, <2>2, <2>4, <2>5 DEF RangeInv
<1>6. \A s \in storage' : Honest(s)'
  <2>1. ASSUME NEW s \in storage', s # at PROVE Honest(s)'
    BY <1>0, <1>1, <1>4, <2>1 DEF ServiceInv, Honest
  <2>2. ASSUME NEW s \in storage', s = at PROVE Honest(s)'
    <3>1. Len(<<0>>) = 1
      OBVIOUS
    <3>2. write_count'[s] = 0 /\ position'[s] = 0 /\ Len(handed'[s]) = 1
      BY <1>0, <1>1, <1>4, <2>2, <3>1
    <3> QED BY <3>2 DEF Honest
  <2> QED BY <2>1, <2>2
<1>7. CountInv'
  <2>1. Served' = Served
    <3>1. at \notin Served /\ at \notin Served'
      BY <1>0, <1>3, <1>4 DEF Served
    <3> QED BY <1>4, <3>1 DEF Served
  <2>2. Cardinality(Started') + error_count' = at' - 1
    <3>1. Cardinality(Started \cup {at}) = Cardinality(Started) + 1
      BY <1>2, FS_AddElement
    <3>2. CASE Started' = Started \cup {at} /\ error_count' = error_count
      <4>1. Cardinality(Started') = Cardinality(Started) + 1
        BY <3>1, <3>2
      <4>2. error_count' = error_count /\ at' = at + 1
        BY <1>1, <3>2
      <4> QED BY <1>0, <1>2, <4>1, <4>2
    <3>3. CASE Started' = Started /\ error_count' = error_count + 1
      <4>1. Cardinality(Started') = Cardinality(Started)
        BY <3>3
      <4> QED BY <1>0, <1>1, <1>2, <3>3, <4>1
    <3> QED BY <1>4, <3>2, <3>3
  <2>3. pc' = "open" => \A s \in Storages : s >= at' => handed'[s] = <<>>
    BY <1>0, <1>1, <1>4 DEF ServiceInv, CountInv, Storages
  <2>4. pc' # "open" => at' - 1 = N
    BY <1>0, <1>1, <1>2
  <2> QED BY <1>1, <1>2, <2>1, <2>2, <2>3, <2>4 DEF CountInv, TooManyErrors
<1> QED BY <1>5, <1>6, <1>7 DEF ServiceInv

\* One round of the loop over the storages.
LEMMA VisitedRange ==
    ASSUME pc = "visit", at \in Storages, Visited
    PROVE  at' \in 1 .. N + 1 /\ pc' \in {"visit", "select"} /\ UNCHANGED <<fds, error_count>>
BY Numbers DEF Visited, Storages

\* A live pipe is handed what its count says, a dead one loses of its count
\* and of its position alike, until the count is negative.
LEMMA FeedServes ==
    ASSUME UploadInv, ServiceInv, Visit, at \in storage, Feed
    PROVE  ServiceInv'
<1>0. /\ pc = "visit" /\ at \in Storages /\ storage \subseteq Storages
      /\ curl \in [Storages -> {"none", "running", "done", "dead"}]
      /\ curl[at] \in {"running", "dead"} /\ Counts(handed[at])
      /\ curl[at] = "running" => /\ write_count[at] = Len(handed[at]) - 1
                                 /\ position[at] = write_count[at]
      /\ handed \in [Storages -> Seq(Int)]
      /\ write_count \in [Storages -> - MaxLoss .. L] /\ position \in [Storages -> 0 .. L]
      /\ \A s \in Storages : handed[s] \in Seq(0 .. L) /\ taken[s] \in 0 .. Len(handed[s])
  BY DEF Visit, UploadInv, EngineInv, PipeInv, ServiceInv, RangeInv
<1>1. PipeInv'
  BY FeedKeeps
<1>2. /\ UNCHANGED <<storage, complete_count, curl, taken>>
      /\ at' \in 1 .. N + 1 /\ pc' \in {"visit", "select"} /\ UNCHANGED <<fds, error_count>>
      /\ \A s \in Storages : s # at => handed'[s] = handed[s]
  BY <1>0, VisitedRange DEF Feed, Wrote
<1>3. /\ Counts(handed'[at]) /\ handed'[at] \in Seq(0 .. L) /\ Len(handed'[at]) \in Nat
      /\ handed'[at] # <<>> /\ Len(handed'[at]) - 1 <= L /\ Len(handed'[at]) >= 1
  <2>1. Counts(handed'[at])
    BY <1>1, <1>2 DEF PipeInv
  <2>2. Len(handed'[at]) - 1 <= L /\ Len(handed'[at]) >= 1
    BY <2>1 DEF Counts
  <2> QED BY <2>1, <2>2, CountsRange
<1>4. /\ Len(handed[at]) \in Nat /\ handed[at] # <<>> /\ ToWrite \in 1 .. L - position[at]
      /\ position[at] \in 0 .. L /\ write_count[at] \in - MaxLoss .. L
  <2>1. Len(handed[at]) \in Nat /\ handed[at] # <<>> /\ position[at] \in 0 .. L
        /\ write_count[at] \in - MaxLoss .. L
    BY <1>0, CountsRange
  <2>2. ToWrite > 0
    BY DEF Feed
  <2> QED BY <2>1, <2>2, Numbers DEF ToWrite, Smaller
<1>5. /\ \A s \in Storages : s # at => /\ write_count'[s] = write_count[s]
                                       /\ position'[s] = position[s]
      /\ write_count' \in [Storages -> - MaxLoss .. L] /\ position' \in [Storages -> 0 .. L]
      /\ taken[at] <= Len(handed'[at])
      /\ write_count'[at] >= 0 => /\ position'[at] = write_count'[at]
                                  /\ write_count'[at] <= Len(handed'[at]) - 1
  <2>1. CASE curl[at] = "dead"
    <3>1. Wrote(-1) /\ handed' = handed /\ write_count[at] > - MaxLoss
      BY <2>1 DEF Feed
    <3>2. /\ write_count' = [write_count EXCEPT ![at] = write_count[at] - 1]
          /\ position' = [position EXCEPT ![at] = PositionAfter(position[at], ToWrite, -1)]
      BY <1>0, <3>1 DEF Wrote
    <3>3. /\ PositionAfter(position[at], ToWrite, -1) \in 0 .. L
          /\ position[at] >= 1 => PositionAfter(position[at], ToWrite, -1) = position[at] - 1
      BY <1>4, Numbers DEF PositionAfter
    <3>4. write_count[at] - 1 \in - MaxLoss .. L
      BY <1>4, <3>1, Numbers
    <3>5. write_count'[at] = write_count[at] - 1
          /\ position'[at] = PositionAfter(position[at], ToWrite, -1)
      BY <1>0, <3>2
    <3>6. Honest(at) /\ taken[at] \in 0 .. Len(handed[at])
      BY <1>0 DEF ServiceInv
    <3>7. write_count'[at] >= 0 => /\ position'[at] = write_count'[at]
                                   /\ write_count'[at] <= Len(handed'[at]) - 1
      <4>1. write_count[at] \in Int /\ position[at] \in Int
        BY <1>4, Numbers
      <4>2. ASSUME write_count'[at] >= 0
            PROVE  write_count[at] >= 1 /\ position[at] = write_count[at]
                   /\ write_count[at] <= Len(handed[at]) - 1
        BY <3>5, <3>6, <4>1, <4>2 DEF Honest
      <4>3. handed'[at] = handed[at]
        BY <3>1
      <4> QED BY <1>4, <3>3, <3>5, <4>1, <4>2, <4>3
    <3>8. taken[at] <= Len(handed'[at])
      BY <1>4, <3>1, <3>6
    <3> QED BY <1>0, <3>2, <3>3, <3>4, <3>7, <3>8
  <2>2. CASE curl[at] = "running"
    <3>1. PICK w \in 1 .. Smaller(ToWrite, Room(at)) : Wrote(w)
      BY <2>2 DEF Feed
    <3>2. /\ write_count' = [write_count EXCEPT ![at] = write_count[at] + w]
          /\ position' = [position EXCEPT ![at] = PositionAfter(position[at], ToWrite, w)]
      BY <1>0, <3>1 DEF Wrote
    <3>3. w \in Nat
      BY <3>1
    <3>4. /\ write_count'[at] = Len(handed'[at]) - 1 /\ position'[at] = write_count'[at]
      BY <1>0, <1>1, <1>2, <2>2 DEF PipeInv
    <3>5. write_count'[at] = write_count[at] + w
      BY <1>0, <3>2
    <3>6. write_count'[at] \in 0 .. L /\ write_count'[at] \in - MaxLoss .. L
      BY <1>3, <3>4, Numbers
    <3>7. position'[at] \in 0 .. L
      BY <3>4, <3>6
    <3>8. Len(handed'[at]) >= Len(handed[at]) /\ taken[at] \in 0 .. Len(handed[at])
      BY <1>0, <1>3, <1>4, <2>2, <3>3, <3>4, <3>5
    <3>9. /\ write_count' \in [Storages -> - MaxLoss .. L] /\ position' \in [Storages -> 0 .. L]
      BY <1>0, <3>2, <3>6, <3>7
    <3>10. \A s \in Storages : s # at => /\ write_count'[s] = write_count[s]
                                         /\ position'[s] = position[s]
      BY <1>0, <3>2
    <3>11. taken[at] <= Len(handed'[at])
      BY <1>3, <1>4, <3>8
    <3>12. write_count'[at] <= Len(handed'[at]) - 1
      BY <1>3, <3>4
    <3> QED BY <3>4, <3>9, <3>10, <3>11, <3>12
  <2> QED BY <1>0, <2>1, <2>2
<1>6. RangeInv'
  <2>1. \A s \in Storages : handed'[s] \in Seq(0 .. L) /\ taken'[s] \in 0 .. Len(handed'[s])
    <3>1. ASSUME NEW s \in Storages, s # at
          PROVE  handed'[s] \in Seq(0 .. L) /\ taken'[s] \in 0 .. Len(handed'[s])
      BY <1>0, <1>2, <3>1
    <3>2. handed'[at] \in Seq(0 .. L) /\ taken'[at] \in 0 .. Len(handed'[at])
      BY <1>0, <1>2, <1>3, <1>4, <1>5
    <3> QED BY <3>1, <3>2
  <2> QED BY <1>2, <1>5, <2>1 DEF ServiceInv, RangeInv
<1>7. \A s \in storage' : Honest(s)'
  <2>1. ASSUME NEW s \in storage', s # at PROVE Honest(s)'
    BY <1>0, <1>2, <1>5, <2>1 DEF ServiceInv, Honest
  <2>2. ASSUME NEW s \in storage', s = at PROVE Honest(s)'
    BY <1>5, <2>2 DEF Honest
  <2> QED BY <2>1, <2>2
<1>8. CountInv'
  <2>1. Started' = Started
    BY <1>0, <1>2, <1>3, <1>4 DEF Started
  <2>2. Served' = Served
    BY <1>0, <1>2 DEF Served
  <2> QED BY <1>0, <1>2, <2>1, <2>2 DEF ServiceInv, CountInv, TooManyErrors
<1> QED BY <1>6, <1>7, <1>8 DEF ServiceInv

\* A storage is taken for complete only when its share was handed over.
LEMMA CloseServes ==
    ASSUME UploadInv, ServiceInv, Visit, at \in storage, CloseStorage
    PROVE  ServiceInv'
<1>0. /\ pc = "visit" /\ at \in Storages /\ storage \subseteq Storages
      /\ Counts(handed[at]) /\ Honest(at)
      /\ write_count[at] \in - MaxLoss .. L /\ position[at] \in 0 .. L
      /\ complete_count \in Nat /\ complete_count <= Cardinality(Served)
  BY DEF Visit, UploadInv, EngineInv, PipeInv, ServiceInv, RangeInv, CountInv
<1>1. /\ UNCHANGED <<write_count, position, handed, curl, taken>>
      /\ storage' = storage \ {at}
      /\ complete_count' = complete_count + IF IsComplete(at) THEN 1 ELSE 0
      /\ ToWrite = 0
      /\ at' \in 1 .. N + 1 /\ pc' \in {"visit", "select"} /\ UNCHANGED <<fds, error_count>>
  BY <1>0, VisitedRange DEF CloseStorage
<1>2. IsComplete(at) => Full(handed[at])
  <2>1. position[at] = L
    BY <1>0, <1>1, Numbers DEF ToWrite, Smaller
  <2>2. Len(handed[at]) \in Nat /\ Len(handed[at]) - 1 <= L
    BY <1>0, CountsRange DEF Counts
  <2>3. IsComplete(at) => write_count[at] >= 0
    BY <1>0 DEF IsComplete
  <2>4. write_count[at] >= 0 => Len(handed[at]) = L + 1
    BY <1>0, <2>1, <2>2, Numbers DEF Honest
  <2> QED BY <1>0, <2>3, <2>4 DEF Full
<1>3. Started' = Started
  BY <1>1 DEF Started
<1>4. complete_count' \in Nat /\ complete_count' <= Cardinality(Served')
  <2>1. /\ Served \in SUBSET Storages /\ Served' \in SUBSET Storages /\ at \notin Served
        /\ IsFiniteSet(Served) /\ Cardinality(Served) \in Nat
        /\ IsFiniteSet(Served') /\ Cardinality(Served') \in Nat
    BY <1>0, StorageCount DEF Served
  <2>2. CASE Full(handed[at])
    <3>1. Served' = Served \cup {at}
      BY <1>0, <1>1, <2>2 DEF Served
    <3>2. Cardinality(Served') = Cardinality(Served) + 1
      BY <2>1, <3>1, FS_AddElement
    <3> QED BY <1>0, <1>1, <2>1, <3>2
  <2>3. CASE ~ Full(handed[at])
    <3>1. Served' = Served
      BY <1>0, <1>1, <2>3 DEF Served
    <3> QED BY <1>0, <1>1, <1>2, <2>3, <3>1
  <2> QED BY <2>2, <2>3
<1>5. RangeInv'
  BY <1>1, <1>4 DEF ServiceInv, RangeInv
<1>6. \A s \in storage' : Honest(s)'
  BY <1>1 DEF ServiceInv, Honest
<1>7. CountInv'
  BY <1>0, <1>1, <1>3, <1>4 DEF ServiceInv, CountInv, TooManyErrors
<1> QED BY <1>5, <1>6, <1>7 DEF ServiceInv

\* The steps of the curls, the pool and its other users.
LEMMA OthersServe ==
    ASSUME ServiceInv, RangeInv', UNCHANGED engine, handed' = handed
    PROVE  ServiceInv'
<1>1. UNCHANGED <<storage, error_count, complete_count, write_count, position, handed>>
  BY DEF engine
<1>2. pc' = pc /\ at' = at
  BY DEF engine
<1> QED BY <1>1, <1>2, NothingHanded

LEMMA ServiceKeeps == UploadInv /\ ServiceInv /\ [Next]_vars => ServiceInv'
<1> SUFFICES ASSUME UploadInv, ServiceInv, [Next]_vars PROVE ServiceInv'
  OBVIOUS
<1>0. RangeInv
  BY DEF ServiceInv
<1>1. CASE Open
  BY <1>1, OpenServes
<1>2. CASE Select
  <2>1. RangeInv'
    <3>1. 1 \in 1 .. N + 1
      BY Numbers
    <3> QED BY <1>0, <1>2, <3>1 DEF Select, RangeInv, ServiceInv, UploadInv, EngineInv
  <2>2. /\ UNCHANGED <<storage, error_count, complete_count, write_count, position, handed>>
        /\ pc = "select"
        /\ pc' = "visit" \/ (pc' = "returned" /\ complete_count >= N - error_count)
    BY <1>2 DEF Select
  <2> QED BY <2>1, <2>2, NothingHanded
<1>3. CASE SelectFails
  <2>1. RangeInv'
    BY <1>0, <1>3 DEF SelectFails, RangeInv
  <2> QED BY <1>3, <2>1, NothingHanded DEF SelectFails
<1>4. CASE Visit
  <2>1. CASE at \in storage /\ Feed
    BY <1>4, <2>1, FeedServes
  <2>2. CASE at \in storage /\ CloseStorage
    BY <1>4, <2>2, CloseServes
  <2>3. CASE Visited /\ UNCHANGED <<storage, complete_count, write_count, position, handed, curl, taken>>
    <3>1. pc = "visit" /\ at \in Storages
      BY <1>4 DEF Visit, UploadInv, EngineInv
    <3>2. at' \in 1 .. N + 1 /\ pc' \in {"visit", "select"} /\ UNCHANGED <<fds, error_count>>
      BY <2>3, <3>1, VisitedRange
    <3>3. RangeInv'
      BY <1>0, <2>3, <3>2 DEF RangeInv
    <3> QED BY <2>3, <3>1, <3>2, <3>3, NothingHanded
  <2> QED BY <1>4, <2>1, <2>2, <2>3 DEF Visit
<1>5. ASSUME NEW s \in Storages, Reads(s) PROVE ServiceInv'
  <2>1. /\ taken' = [taken EXCEPT ![s] = @ + 1] /\ taken[s] < Len(handed[s])
        /\ UNCHANGED <<pc, at, storage, fds, error_count, complete_count, write_count, position,
                       handed>>
    BY <1>5 DEF Reads, engine
  <2>2. \A q \in Storages : handed'[q] \in Seq(0 .. L) /\ taken'[q] \in 0 .. Len(handed'[q])
    <3>1. ASSUME NEW q \in Storages PROVE taken'[q] \in 0 .. Len(handed[q])
      <4>1. taken \in [Storages -> Int] /\ taken[q] \in 0 .. Len(handed[q])
            /\ Len(handed[q]) \in Nat
        BY <1>0, LenProperties DEF RangeInv, UploadInv, PipeInv
      <4> QED BY <2>1, <4>1
    <3> QED BY <1>0, <2>1, <3>1 DEF RangeInv
  <2>3. RangeInv'
    BY <1>0, <2>1, <2>2 DEF RangeInv
  <2> QED BY <1>5, <2>3, OthersServe DEF Reads
<1>6. ASSUME UNCHANGED <<engine, handed, taken>> PROVE ServiceInv'
  <2>1. UNCHANGED <<pc, at, storage, fds, error_count, complete_count, write_count, position,
                    handed, taken>>
    BY <1>6 DEF engine
  <2>2. RangeInv'
    BY <1>0, <2>1 DEF RangeInv
  <2> QED BY <1>6, <2>2, OthersServe
<1>7. ASSUME NEW s \in Storages, Finishes(s) \/ Dies(s) \/ Closes(s) PROVE ServiceInv'
  BY <1>6, <1>7 DEF Finishes, Dies, Closes
<1>8. CASE OtherUse
  BY <1>6, <1>8 DEF OtherUse
<1>9. CASE UNCHANGED vars
  BY <1>6, <1>9 DEF vars
<1> QED BY <1>1, <1>2, <1>3, <1>4, <1>5, <1>7, <1>8, <1>9 DEF Next

LEMMA ServiceInvariant == Spec => [](UploadInv /\ ServiceInv)
<1>1. Init => ServiceInv
  BY ServiceStarts
<1>2. UploadInv /\ ServiceInv /\ [Next]_vars => ServiceInv'
  BY ServiceKeeps
<1> QED BY <1>1, <1>2, UploadInvariant, PTL DEF Spec

\* Types of the engine and the pipes.
THEOREM UploadTypes == Spec => []TypeOK
<1>1. UploadInv /\ ServiceInv => TypeOK
  <2> SUFFICES ASSUME UploadInv, ServiceInv PROVE TypeOK
    OBVIOUS
  <2>1. error_count \in 0 .. N
    <3>1. Started \in SUBSET Storages
      BY DEF Started
    <3>2. Cardinality(Started) \in Nat /\ error_count \in Nat /\ N \in Nat /\ at \in 1 .. N + 1
      BY <3>1, StorageCount, Numbers DEF ServiceInv, RangeInv
    <3> QED BY <3>2 DEF ServiceInv, CountInv
  <2>2. complete_count \in 0 .. N
    <3>1. Served \in SUBSET Storages
      BY DEF Served
    <3>2. /\ Cardinality(Served) \in Nat /\ Cardinality(Served) <= N /\ N \in Nat
          /\ complete_count \in Nat /\ complete_count <= Cardinality(Served)
      BY <3>1, StorageCount, Numbers DEF ServiceInv, RangeInv, CountInv
    <3> QED BY <3>2
  <2> QED BY <2>1, <2>2 DEF TypeOK, UploadInv, EngineInv, ServiceInv, RangeInv
<1> QED BY <1>1, ServiceInvariant, PTL

(***************************************************************************)
(* When upload() returns, every storage that took the magic has been       *)
(* handed its whole share, and they are K or more: complete_count, which   *)
(* compares the write_count of a storage with those of the others          *)
(* (upload.cpp:160), never counts one that died on the way, however many   *)
(* failed writes moved its position back.                                  *)
(***************************************************************************)
THEOREM ReturnsWhenHanded == Spec => []ReturnMeansHanded
<1>1. UploadInv /\ ServiceInv => ReturnMeansHanded
  <2> SUFFICES ASSUME ServiceInv, pc = "returned"
               PROVE  /\ \A s \in Storages : handed[s] # <<>> => handed[s] = <<0>> \o Share
                      /\ Cardinality({s \in Storages : handed[s] # <<>>}) >= K
    BY DEF ReturnMeansHanded
  <2>1. /\ Started \in SUBSET Storages /\ Served \in SUBSET Started
    BY CountsRange DEF Started, Served, Full
  <2>2. /\ IsFiniteSet(Started) /\ Cardinality(Started) \in Nat
        /\ Cardinality(Served) \in Nat /\ Cardinality(Served) <= Cardinality(Started)
    BY <2>1, StorageCount, FS_Subset
  <2>3. /\ error_count \in Nat /\ complete_count \in Nat
        /\ Cardinality(Started) + error_count = N /\ ~ (error_count > N - K)
        /\ complete_count <= Cardinality(Served) /\ complete_count >= N - error_count
    BY DEF ServiceInv, RangeInv, CountInv, TooManyErrors
  <2>4. Cardinality(Served) = Cardinality(Started) /\ Cardinality(Started) >= K
    BY <2>2, <2>3, Numbers
  <2>5. Served = Started
    BY <2>1, <2>2, <2>4, FS_Subset
  <2>6. \A s \in Started : handed[s] = <<0>> \o Share
    BY <2>5, FullIsShare DEF Served
  <2> QED BY <2>4, <2>6 DEF Started
<1> QED BY <1>1, ServiceInvariant, PTL
=============================================================================

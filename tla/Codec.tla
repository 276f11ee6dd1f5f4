------------------------------- MODULE Codec -------------------------------
(***************************************************************************)
(* One transfer through the coder that all transfers share (merge_split.cpp*)
(* and distribute.cpp): split() makes the shares of a file chunk by chunk, *)
(* merge() gives the rows of any K of them back, while other transfers use *)
(* the static Distribute object with their own parameters.                 *)
(***************************************************************************)
EXTENDS ReedSolomon

CONSTANTS
    NULL,
    Codes,         \* the <<n, k>> of the files
    Messages,      \* what a transfer may carry: sequences of bytes
    ChunkRows,     \* rows that split() reads at once (1024)
    Garbage,       \* bytes that decode_merge may find in its stack
    Noise,         \* by how much a stored byte may be damaged
    SplitsAlone    \* TRUE: a split never runs beside another transfer

ASSUME CodecAssumption ==
    \* What codeword[256] and er[128] of decode_merge hold.
    /\ \A c \in Codes : /\ c \in (2 .. 255) \X (1 .. 254)
                         /\ c[1] - c[2] \in 1 .. 128
    /\ \A m \in Messages : m \in Seq(0 .. 255) /\ m # <<>>
    /\ ChunkRows \in Nat \ {0}
    /\ Garbage \subseteq 0 .. 255 /\ Noise \subseteq 1 .. 255
    /\ SplitsAlone \in BOOLEAN

ASSUME NullAssumption == \A c \in Codes : NULL # c

VARIABLES
    phase,      \* "idle", "splitting", "merging"
    dfs,        \* the Distribute object, NULL until it is first needed
    code,       \* n and k of this transfer's file
    message,
    count,      \* bytes that split() has read
    split,      \* the split files
    out         \* what merge() has written

vars == <<phase, dfs, code, message, count, split, out>>

n == code[1]
k == code[2]
Smaller(a, b) == IF a < b THEN a ELSE b
CDiv(a, b) == (a + b - 1) \div b

Init ==
    /\ phase = "idle" /\ dfs = NULL
    /\ code \in Codes /\ message \in Messages
    /\ count = 0 /\ split = [s \in 0 .. n - 1 |-> <<>>] /\ out = <<>>

\* Mutant of Prepared: the arrays of the coder stay whatever the parity is.
PreparedOnce(c) ==
    [n_servers |-> c[1], k_servers |-> c[2], npar |-> c[1] - c[2],
     genPoly |-> IF dfs # NULL THEN dfs.genPoly ELSE compute_genpoly(c[1] - c[2])]

\* new Distribute, or Distribute::reset, which leaves the arrays of the coder
\* alone when the number of parity bytes is the same.
Prepared(c) ==
    LET parity == c[1] - c[2]
    IN  [n_servers |-> c[1], k_servers |-> c[2], npar |-> parity,
         genPoly |-> IF dfs # NULL /\ dfs.npar = parity THEN dfs.genPoly
                     ELSE compute_genpoly(parity)]

\* Another transfer splits or merges with the same object.  A split does it
\* without dfs_mutex; with SplitsAlone it does so before this transfer, and
\* what runs beside it are merges.
Interfere ==
    /\ SplitsAlone => phase # "splitting"
    /\ \E c \in Codes : dfs' = Prepared(c)
    /\ UNCHANGED <<phase, code, message, count, split, out>>

-----------------------------------------------------------------------------
BeginSplit ==
    /\ phase = "idle" /\ phase' = "splitting"
    /\ dfs' = Prepared(code)
    /\ UNCHANGED <<code, message, count, split, out>>

\* Distribute::encode_split: one code word for each unit of k_servers bytes,
\* the last one filled up with zeros.  The bytes are those from first on.
\* Mutant of Padding: the unit is filled up with what is on the stack.
PaddingStack == 255
Padding == 0
Unit(first, length, u) ==
    [i \in 0 .. dfs.k_servers - 1 |->
        LET b == u * dfs.k_servers + i
        IN  IF b < length THEN message[first + b] ELSE Padding]
encode_split(first, length) ==
    LET unit_count == CDiv(length, dfs.k_servers)
        codeword == [u \in 1 .. unit_count |->
            encode_data(Unit(first, length, u - 1), dfs.k_servers, dfs.genPoly, dfs.npar)]
    IN  [s \in 0 .. n - 1 |-> [u \in 1 .. unit_count |-> codeword[u][s]]]

\* One round of split(), up to the last, which reads less than a buffer.  An
\* object reset to fewer servers has too few arrays: the read beyond their
\* end is not modelled.
SplitChunk ==
    /\ phase = "splitting" /\ n <= dfs.n_servers
    /\ LET r == Smaller(ChunkRows * k, Len(message) - count)
           encoded == encode_split(count + 1, r)
       IN  /\ split' = IF r = 0 THEN split
                       ELSE [s \in 0 .. n - 1 |-> split[s] \o encoded[s]]
           /\ count' = count + r
           /\ phase' = IF r < ChunkRows * k THEN "merging" ELSE "splitting"
    /\ UNCHANGED <<dfs, code, message, out>>

-----------------------------------------------------------------------------
is_simple(S) == 0 .. k - 1 \subseteq S

\* decode_merge: where a storage gave no piece, the code word on the stack
\* keeps what was there, g; for the next row that is another g.  damage is a
\* storage and what was added to its bytes.
\* Mutant of Erasures: locations are counted from the other end.
ErasuresFromFirst(S) ==
    LET e[s \in 0 .. n] == IF s = 0 THEN <<>>
            ELSE IF s - 1 \in S THEN e[s - 1] ELSE Append(e[s - 1], s - 1)
    IN  e[n]
Erasures(S) ==
    LET e[s \in 0 .. n] == IF s = 0 THEN <<>>
            ELSE IF s - 1 \in S THEN e[s - 1] ELSE Append(e[s - 1], n - s)
    IN  e[n]
Received(S, row, g, damage) == [s \in 0 .. n - 1 |->
    IF s \notin S THEN g[s]
    ELSE split[s][row] \oplus IF damage[1] = s THEN damage[2] ELSE 0]
Decoded(c, S, coder) ==
    correct_errors_erasures(c, n, Erasures(S), decode_data(c, n, coder.npar), coder.npar)

\* What the coder can put right: one damaged piece costs as much as two that
\* are missing.
Damages(S) == {<<0, 0>>} \cup IF n - Cardinality(S) + 2 <= n - k THEN S \X Noise ELSE {}

Simple(row) == [i \in 0 .. k - 1 |-> split[i][row]]

\* merge(): the next rows, cut after the bytes that are still missing.
Rows == CDiv(Len(message), k)
Done == Len(out) \div k
Written(words, rows) ==
    LET size == Smaller(rows * k, Len(message) - Len(out))
    IN  out' = out \o [b \in 1 .. size |-> words[(b - 1) \div k + 1][(b - 1) % k]]

MergeSimple ==
    /\ phase = "merging" /\ Len(out) < Len(message)
    /\ \E rows \in 1 .. Rows - Done, S \in SUBSET (0 .. n - 1) :
         /\ is_simple(S)
         /\ Written([u \in 1 .. rows |-> Simple(Done + u)], rows)
    /\ UNCHANGED <<phase, dfs, code, message, count, split>>

\* The coder is reset and used with dfs_mutex locked, so no other merge comes
\* between; a split could (hence SplitsAlone).
Merge ==
    /\ phase = "merging" /\ Len(out) < Len(message)
    /\ \E rows \in 1 .. Rows - Done, S \in SUBSET (0 .. n - 1) :
         /\ Cardinality(S) >= k /\ ~ is_simple(S)
         /\ dfs' = Prepared(code)
         /\ \E g \in [1 .. rows -> [(0 .. n - 1) \ S -> Garbage]], d \in Damages(S) :
              Written([u \in 1 .. rows |-> Decoded(Received(S, Done + u, g[u], d), S, dfs')], rows)
    /\ UNCHANGED <<phase, code, message, count, split>>

Next == Interfere \/ BeginSplit \/ SplitChunk \/ MergeSimple \/ Merge

Spec == Init /\ [][Next]_vars

-----------------------------------------------------------------------------
(***************************************************************************)
(* Properties.                                                             *)
(***************************************************************************)
TypeOK ==
    /\ phase \in {"idle", "splitting", "merging"}
    /\ dfs # NULL => /\ <<dfs.n_servers, dfs.k_servers>> \in Codes
                     /\ dfs.genPoly \in [Degrees(dfs.npar) -> 0 .. 255]
    /\ code \in Codes /\ message \in Messages
    /\ count \in 0 .. Len(message)
    /\ \A s \in 0 .. n - 1 : split[s] \in Seq(0 .. 255)

(***************************************************************************)
(* The split files together are the rows of the message and their parity,  *)
(* however split() cut it into chunks and whatever the coder was used for  *)
(* before: the first k of them hold the message byte by byte, and a row,   *)
(* read as a polynomial, is 0 at the first n - k powers of x.              *)
(***************************************************************************)
SharesAreCodeWords == phase = "merging" => \A u \in 1 .. Rows :
    /\ \A s \in 0 .. n - 1 : Len(split[s]) = Rows
    /\ \A s \in 0 .. k - 1 : LET b == (u - 1) * k + s + 1
                             IN  split[s][u] = IF b <= Len(message) THEN message[b] ELSE 0
    /\ \A r \in 1 .. n - k : Value([i \in 0 .. n - 1 |-> split[n - 1 - i][u]], n, r) = 0

(***************************************************************************)
(* merge() gives back what was split, whichever k storages deliver each    *)
(* row, on both of its ways, with garbage for the missing bytes, and with  *)
(* a damaged piece as long as 2 x damaged + missing <= n - k.              *)
(***************************************************************************)
MergeGivesMessage == out = SubSeq(message, 1, Len(out))
=============================================================================

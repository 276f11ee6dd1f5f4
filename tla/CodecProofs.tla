-------------------------- MODULE CodecProofs --------------------------
(***************************************************************************)
(* Theorems about Codec, for every set of codes, every file, every buffer  *)
(* of split() and every garbage and damage, provided that no other         *)
(* transfer uses the shared object while a file is split.                  *)
(***************************************************************************)
EXTENDS Codec, CoderProofs

-----------------------------------------------------------------------------
(* The invariant. *)

Coder(c) == [n_servers |-> c[1], k_servers |-> c[2], npar |-> c[1] - c[2],
             genPoly |-> compute_genpoly(c[1] - c[2])]
\* Unit u of the file, and its code word.
UnitOf(u) == [i \in 0 .. k - 1 |->
    IF (u - 1) * k + i < Len(message) THEN message[((u - 1) * k + i) + 1] ELSE 0]
Word(u) == encode_data(UnitOf(u), k, compute_genpoly(n - k), n - k)

\* Nobody leaves another generator polynomial in the shared object.
DfsInv == dfs = NULL \/ \E c \in Codes : dfs = Coder(c)
RowsAre(R) ==
    /\ split \in [0 .. n - 1 -> Seq(Byte)]
    /\ \A s \in 0 .. n - 1 : Len(split[s]) = R /\ \A u \in 1 .. R : split[s][u] = Word(u)[s]
SplitInv ==
    /\ phase = "idle" => count = 0 /\ RowsAre(0)
    /\ phase = "splitting" => dfs = Coder(code) /\ \E R \in Nat : RowsAre(R) /\ count = R * k
    /\ phase = "merging" => count = Len(message) /\ RowsAre(Rows)
OutInv ==
    /\ out = SubSeq(message, 1, Len(out)) /\ Len(out) \in 0 .. Len(message)
    /\ Len(out) = Len(message) \/ \E D \in Nat : Len(out) = D * k
Inv ==
    /\ phase \in {"idle", "splitting", "merging"}
    /\ code \in Codes /\ message \in Messages /\ count \in 0 .. Len(message)
    /\ DfsInv /\ SplitInv /\ OutInv

\* A code fits the arrays of decode_merge.
LEMMA CodeType ==
  ASSUME code \in Codes
  PROVE  /\ n \in Nat /\ n \in 0 .. 255 /\ n \in 2 .. 255 /\ k \in Nat /\ k \in Nat \ {0} /\ k \in 1 .. n - 1
         /\ n - k \in Nat \ {0} /\ k + (n - k) = n
<1>1. code \in (2 .. 255) \X (1 .. 254) /\ code[1] - code[2] \in 1 .. 128
  BY CodecAssumption
<1>2. n \in 2 .. 255 /\ k \in 1 .. 254
  BY <1>1 DEF n, k
<1>3. n - k \in 1 .. 128
  BY <1>1 DEF n, k
<1> QED
  BY <1>2, <1>3

LEMMA PairsOfCodes == \A c \in Codes : c = <<c[1], c[2]>> /\ c[1] - c[2] \in Nat \ {0}
<1>1. ASSUME NEW c \in Codes
      PROVE  c \in (2 .. 255) \X (1 .. 254) /\ c[1] - c[2] \in 1 .. 128
  BY CodecAssumption
<1>2. ASSUME NEW c \in Codes PROVE c = <<c[1], c[2]>>
  <2>1. c \in (2 .. 255) \X (1 .. 254)
    BY <1>1
  <2> QED
    BY <2>1
<1>3. ASSUME NEW c \in Codes PROVE c[1] - c[2] \in Nat \ {0}
  <2>1. c[1] - c[2] \in 1 .. 128
    BY <1>1
  <2> QED
    BY <2>1
<1> QED
  BY <1>2, <1>3

LEMMA MessageType ==
  ASSUME message \in Messages
  PROVE  /\ message \in Seq(Byte) /\ Len(message) \in Nat /\ Len(message) # 0
         /\ \A b \in 1 .. Len(message) : message[b] \in Byte
<1>1. message \in Seq(Byte) /\ message # <<>>
  BY CodecAssumption DEF Byte
<1> QED
  BY <1>1

LEMMA UnitType ==
  ASSUME code \in Codes, message \in Messages, NEW u \in Nat \ {0}
  PROVE  Bytes(UnitOf(u), k)
<1>1. \A b \in 1 .. Len(message) : message[b] \in Byte
  BY MessageType
<1>2. k \in Nat /\ Len(message) \in Nat /\ u - 1 \in Nat
  BY CodeType, MessageType
<1>3. (u - 1) * k \in Nat
  BY <1>2, Product
<1>4. ASSUME NEW i \in 0 .. k - 1 PROVE UnitOf(u)[i] \in Byte
  <2>. DEFINE b == (u - 1) * k + i
  <2>1. b \in Nat
    BY <1>2, <1>3
  <2>2. UnitOf(u)[i] = IF b < Len(message) THEN message[b + 1] ELSE 0
    BY DEF UnitOf
  <2>. HIDE DEF b
  <2>3. b < Len(message) => message[b + 1] \in Byte
    BY <1>1, <1>2, <2>1
  <2> QED
    BY <2>2, <2>3, ZeroIsByte
<1> QED
  BY <1>4 DEF Bytes

\* Each row of a file is encoded to a code word.
LEMMA WordType ==
  ASSUME code \in Codes, message \in Messages, NEW u \in Nat \ {0}
  PROVE  /\ Word(u) \in [0 .. n - 1 -> Byte] /\ Bytes(Word(u), n)
         /\ \A i \in 0 .. k - 1 : Word(u)[i] = UnitOf(u)[i]
         /\ IsCodeWord(Word(u), n, n - k)
<1>. DEFINE w == Word(u)
            npar == n - k
<1>1. k \in Nat /\ npar \in Nat \ {0} /\ Bytes(UnitOf(u), k) /\ k + npar = n
  BY CodeType, UnitType
<1>2. w = encode_data(UnitOf(u), k, compute_genpoly(npar), npar)
  BY DEF Word
<1>. HIDE DEF w, npar
<1>3. /\ w \in [0 .. k + npar - 1 -> Byte]
      /\ \A i \in 0 .. k - 1 : w[i] = UnitOf(u)[i]
      /\ \A e \in 1 .. npar : Value(Rev(w, k + npar), k + npar, e) = 0
  <2>. DEFINE m == UnitOf(u)
  <2>1. k \in Nat /\ npar \in Nat \ {0} /\ Bytes(m, k)
    BY <1>1
  <2>2. w = encode_data(m, k, compute_genpoly(npar), npar)
    BY <1>2
  <2>. HIDE DEF m
  <2>3. /\ w \in [0 .. k + npar - 1 -> Byte]
        /\ \A i \in 0 .. k - 1 : w[i] = m[i]
        /\ \A e \in 1 .. npar : Value(Rev(w, k + npar), k + npar, e) = 0
    BY <2>1, <2>2, CodeWord
  <2> QED
    BY <2>3 DEF m
<1>4. IsCodeWord(w, n, npar) /\ w \in [0 .. n - 1 -> Byte]
  BY <1>1, <1>3 DEF IsCodeWord
<1>5. Bytes(w, n)
  BY <1>4 DEF Bytes
<1> QED
  BY <1>3, <1>4, <1>5 DEF w, npar

\* Whatever the object was used for, it has the right generator polynomial.
LEMMA PreparedIs ==
  ASSUME DfsInv, NEW c \in Codes
  PROVE  Prepared(c) = Coder(c)
<1>1. CASE dfs = NULL
  BY <1>1 DEF Prepared, Coder
<1>2. CASE \E b \in Codes : dfs = Coder(b)
  <2>1. PICK b \in Codes : dfs = Coder(b)
    BY <1>2
  <2>2. dfs.npar = b[1] - b[2] /\ dfs.genPoly = compute_genpoly(b[1] - b[2])
    BY <2>1 DEF Coder
  <2> QED
    BY <2>2 DEF Prepared, Coder
<1> QED
  BY <1>1, <1>2 DEF DfsInv

-----------------------------------------------------------------------------
(* The steps. *)

\* The file is the same all along, and so are its code words.
LEMMA SameFile ==
  ASSUME UNCHANGED <<code, message>>
  PROVE  /\ n' = n /\ k' = k /\ Rows' = Rows
         /\ \A u : UnitOf(u)' = UnitOf(u) /\ Word(u)' = Word(u)
<1>1. n' = n /\ k' = k
  BY DEF n, k
<1>2. \A u : UnitOf(u)' = UnitOf(u)
  BY <1>1 DEF UnitOf
<1> QED
  BY <1>1, <1>2 DEF Word, Rows

LEMMA SameRows ==
  ASSUME UNCHANGED <<code, message, split>>
  PROVE  \A R : RowsAre(R)' <=> RowsAre(R)
BY SameFile DEF RowsAre

LEMMA SameOut ==
  ASSUME UNCHANGED <<code, message, out>>, OutInv
  PROVE  OutInv'
BY SameFile DEF OutInv

\* Inv holds at the start,
LEMMA InitInv ==
  ASSUME Init
  PROVE  Inv
<1>1. code \in Codes /\ message \in Messages /\ count = 0 /\ out = <<>> /\ phase = "idle" /\ dfs = NULL
      /\ split = [s \in 0 .. n - 1 |-> <<>>]
  BY DEF Init
<1>2. Len(message) \in Nat /\ message \in Seq(Byte)
  BY <1>1, MessageType
<1>3. RowsAre(0)
  BY <1>1 DEF RowsAre
<1>4. SplitInv
  BY <1>1, <1>3 DEF SplitInv
<1>5. OutInv
  <2>1. Len(out) = 0 /\ Len(out) = 0 * k
    <3>1. k \in Nat
      BY <1>1, CodeType
    <3> QED
      BY <1>1, <3>1
  <2>2. SubSeq(message, 1, 0) = <<>>
    BY <1>2
  <2> QED
    BY <1>1, <1>2, <2>1, <2>2 DEF OutInv
<1> QED
  BY <1>1, <1>2, <1>4, <1>5 DEF Inv, DfsInv

\* after another transfer,
LEMMA InterfereInv ==
  ASSUME Inv, SplitsAlone, Interfere
  PROVE  Inv'
<1>1. PICK c \in Codes : dfs' = Prepared(c)
  BY DEF Interfere
<1>2. UNCHANGED <<phase, code, message, count, split, out>> /\ phase # "splitting"
  BY DEF Interfere
<1>3. DfsInv'
  BY <1>1, PreparedIs DEF Inv, DfsInv
<1>4. SplitInv'
  BY <1>2, SameRows, SameFile DEF Inv, SplitInv
<1>5. OutInv'
  BY <1>2, SameOut DEF Inv
<1> QED
  BY <1>2, <1>3, <1>4, <1>5 DEF Inv

\* when a split begins,
LEMMA BeginSplitInv ==
  ASSUME Inv, BeginSplit
  PROVE  Inv'
<1>1. /\ phase = "idle" /\ phase' = "splitting" /\ dfs' = Prepared(code)
      /\ UNCHANGED <<code, message, count, split, out>>
  BY DEF BeginSplit
<1>2. dfs' = Coder(code) /\ code \in Codes
  BY <1>1, PreparedIs DEF Inv
<1>3. RowsAre(0) /\ count = 0
  BY <1>1 DEF Inv, SplitInv
<1>4. RowsAre(0)' /\ count' = 0 /\ k' \in Nat
  BY <1>1, <1>2, <1>3, SameRows, SameFile, CodeType
<1>5. (\E R \in Nat : RowsAre(R) /\ count = R * k)'
  <2>1. count' = 0 * k'
    <3>1. 0 * k = 0
      BY <1>2, CodeType
    <3>2. 0 * k' = 0 * k
      BY <1>1, SameFile
    <3> QED
      BY <1>4, <3>1, <3>2
  <2> QED
    BY <1>4, <2>1
<1>6. DfsInv'
  BY <1>1, <1>2 DEF DfsInv
<1>7. SplitInv'
  <2>1. Coder(code)' = Coder(code)
    BY <1>1 DEF Coder
  <2> QED
    BY <1>1, <1>2, <1>5, <2>1 DEF SplitInv
<1>8. OutInv'
  BY <1>1, SameOut DEF Inv
<1> QED
  BY <1>1, <1>6, <1>7, <1>8 DEF Inv

-----------------------------------------------------------------------------
(* split(). *)

\* A chunk of r bytes from row R on: whole rows, or all the bytes that are left.
IsChunk(R, r) ==
    /\ R \in Nat /\ r \in Nat /\ count = R * k
    /\ r = Len(message) - R * k \/ (r = ChunkRows * k /\ r <= Len(message) - R * k)

Appended(r) == split' = IF r = 0 THEN split
                        ELSE [s \in 0 .. n - 1 |-> split[s] \o encode_split(count + 1, r)[s]]

\* What a round of split() reads,
LEMMA ChunkIs ==
  ASSUME Inv, phase = "splitting"
  PROVE  \E R, r : /\ r = Smaller(ChunkRows * k, Len(message) - count)
                   /\ IsChunk(R, r) /\ RowsAre(R) /\ r \in 0 .. Len(message) - count
                   /\ r < ChunkRows * k => r = Len(message) - count
                   /\ ~ (r < ChunkRows * k) => r = ChunkRows * k
<1>. DEFINE x == ChunkRows * k
            z == Len(message)
            r == Smaller(x, z - count)
<1>1. PICK R \in Nat : RowsAre(R) /\ count = R * k
  BY DEF Inv, SplitInv
<1>2. z \in Nat /\ count \in 0 .. z /\ code \in Codes
  BY MessageType DEF Inv
<1>3. x \in Nat
  BY <1>2, CodeType, CodecAssumption, Product
<1>. HIDE DEF x, z
<1>4. r \in 0 .. z - count /\ (r = z - count \/ (r = x /\ r <= z - count))
      /\ (r < x => r = z - count) /\ (~ (r < x) => r = x)
  BY <1>2, <1>3 DEF Smaller
<1>0. r = Smaller(x, z - count)
  OBVIOUS
<1>. HIDE DEF r
<1>5. r \in Nat
  BY <1>2, <1>4
<1>6. IsChunk(R, r)
  BY <1>1, <1>4, <1>5 DEF IsChunk, x, z
<1> QED
  BY <1>0, <1>1, <1>4, <1>6 DEF x, z

\* and that its units are rows of the file.
LEMMA ChunkUnits ==
  ASSUME Inv, phase = "splitting", NEW R, NEW r, IsChunk(R, r), NEW u \in 1 .. CDiv(r, k)
  PROVE  /\ Unit(count + 1, r, u - 1) = UnitOf(R + u)
         /\ encode_data(Unit(count + 1, r, u - 1), dfs.k_servers, dfs.genPoly, dfs.npar) = Word(R + u)
<1>. DEFINE z == Len(message)
            G == compute_genpoly(n - k)
<1>1. dfs = Coder(code) /\ code \in Codes /\ z \in Nat
  BY MessageType DEF Inv, SplitInv
<1>2. dfs.k_servers = k /\ dfs.npar = n - k /\ dfs.genPoly = G
  BY <1>1 DEF Coder, n, k
<1>3. /\ k \in Nat \ {0} /\ R \in Nat /\ r \in Nat /\ count = R * k
      /\ u \in 1 .. (r + k - 1) \div k /\ ChunkRows \in Nat
      /\ r = z - R * k \/ (r = ChunkRows * k /\ r <= z - R * k)
  BY <1>1, CodeType, CodecAssumption DEF IsChunk, CDiv
<1>. HIDE DEF z, G
<1>4. ASSUME NEW i \in 0 .. k - 1
      PROVE  /\ (u - 1) * k + i < r <=> ((R + u) - 1) * k + i < z
             /\ (count + 1) + ((u - 1) * k + i) = (((R + u) - 1) * k + i) + 1
  BY <1>1, <1>3, ChunkBytes
<1>5. Unit(count + 1, r, u - 1)
        = [i \in 0 .. k - 1 |-> IF (u - 1) * k + i < r
                                THEN message[(count + 1) + ((u - 1) * k + i)] ELSE 0]
  BY <1>2 DEF Unit, Padding
<1>6. UnitOf(R + u)
        = [i \in 0 .. k - 1 |-> IF ((R + u) - 1) * k + i < z
                                THEN message[(((R + u) - 1) * k + i) + 1] ELSE 0]
  BY DEF UnitOf, z
<1>7. \A i \in 0 .. k - 1 :
        (IF (u - 1) * k + i < r THEN message[(count + 1) + ((u - 1) * k + i)] ELSE 0)
          = (IF ((R + u) - 1) * k + i < z THEN message[(((R + u) - 1) * k + i) + 1] ELSE 0)
  BY <1>4
<1>8. Unit(count + 1, r, u - 1) = UnitOf(R + u)
  BY <1>5, <1>6, <1>7
<1> QED
  BY <1>2, <1>8 DEF Word, G

\* One round of split() adds its rows.
LEMMA ChunkRowsRight ==
  ASSUME Inv, phase = "splitting", NEW R, NEW r, IsChunk(R, r), RowsAre(R),
         UNCHANGED <<code, message>>, Appended(r), NEW Q, Q = R + CDiv(r, k)
  PROVE  RowsAre(Q)'
<1>. DEFINE U == CDiv(r, k)
            e == encode_split(count + 1, r)
<1>1. code \in Codes /\ message \in Messages /\ k \in Nat \ {0} /\ R \in Nat /\ r \in Nat
  BY CodeType DEF Inv, IsChunk
<1>2. U \in Nat /\ (r = 0 => U = 0)
  BY <1>1, CeilBounds DEF CDiv
<1>3. \A s \in 0 .. n - 1 : e[s] = [u \in 1 .. U |-> Word(R + u)[s]]
  <2>1. e = [s \in 0 .. n - 1 |-> [u \in 1 .. CDiv(r, dfs.k_servers) |->
              [v \in 1 .. CDiv(r, dfs.k_servers) |->
                 encode_data(Unit(count + 1, r, v - 1), dfs.k_servers, dfs.genPoly, dfs.npar)][u][s]]]
    BY DEF encode_split
  <2>2. dfs.k_servers = k
    BY DEF Inv, SplitInv, Coder, k
  <2>3. \A v \in 1 .. U :
          encode_data(Unit(count + 1, r, v - 1), dfs.k_servers, dfs.genPoly, dfs.npar) = Word(R + v)
    BY ChunkUnits
  <2>. HIDE DEF e
  <2>. DEFINE f == [v \in 1 .. U |->
                 encode_data(Unit(count + 1, r, v - 1), dfs.k_servers, dfs.genPoly, dfs.npar)]
  <2>4. \A v \in 1 .. U : f[v] = Word(R + v)
    BY <2>3
  <2>5. \A s \in 0 .. n - 1 : e[s] = [u \in 1 .. U |-> f[u][s]]
    BY <2>1, <2>2
  <2>. HIDE DEF f, U
  <2> QED
    BY <2>4, <2>5
<1>. HIDE DEF U, e
<1>4. \A u \in 1 .. U : R + u \in Nat \ {0}
  BY <1>1, <1>2
<1>5. ASSUME NEW s \in 0 .. n - 1
      PROVE  /\ split'[s] \in Seq(Byte) /\ Len(split'[s]) = R + U
             /\ \A u \in 1 .. R + U : split'[s][u] = Word(u)[s]
  <2>1. split[s] \in Seq(Byte) /\ Len(split[s]) = R /\ \A u \in 1 .. R : split[s][u] = Word(u)[s]
    BY DEF RowsAre
  <2>2. CASE r = 0
    <3>1. split'[s] = split[s] /\ R + U = R
      BY <1>1, <1>2, <2>2 DEF Appended
    <3> QED
      BY <2>1, <3>1
  <2>3. CASE r # 0
    <3>. DEFINE a == split[s]
                b == [u \in 1 .. U |-> Word(R + u)[s]]
    <3>1. split'[s] = a \o b
      BY <1>3, <2>3 DEF e, Appended
    <3>2. \A u \in 1 .. U : Word(R + u)[s] \in Byte
      BY <1>1, <1>4, WordType
    <3>3. b \in Seq(Byte) /\ Len(b) = U /\ \A u \in 1 .. U : b[u] = Word(R + u)[s]
      BY <1>2, <3>2
    <3>. HIDE DEF a, b
    <3>4. a \in Seq(Byte) /\ Len(a) = R /\ \A u \in 1 .. R : a[u] = Word(u)[s]
      BY <2>1 DEF a
    <3>5. /\ a \o b \in Seq(Byte) /\ Len(a \o b) = R + U
          /\ \A u \in 1 .. R : (a \o b)[u] = a[u]
          /\ \A u \in 1 .. U : (a \o b)[R + u] = b[u]
      <4>1. a \in Seq(Byte) /\ b \in Seq(Byte) /\ Len(a) = R /\ Len(b) = U
        BY <3>3, <3>4
      <4> QED
        BY <4>1, ConcatParts
    <3>6. ASSUME NEW u \in 1 .. R + U PROVE (a \o b)[u] = Word(u)[s]
      <4>1. CASE u \in 1 .. R
        BY <3>4, <3>5, <4>1
      <4>2. CASE u \notin 1 .. R
        <5>. DEFINE v == u - R
        <5>1. v \in 1 .. U /\ R + v = u
          BY <1>1, <1>2, <4>2
        <5>. HIDE DEF v
        <5>2. (a \o b)[R + v] = Word(R + v)[s]
          BY <3>3, <3>5, <5>1
        <5> QED
          BY <5>1, <5>2
      <4> QED
        BY <4>1, <4>2
    <3> QED
      BY <3>1, <3>5, <3>6
  <2> QED
    BY <2>2, <2>3
<1>6. split' = [s \in 0 .. n - 1 |-> split'[s]]
  BY DEF RowsAre, e, Appended
<1>7. n' = n /\ \A u : Word(u)' = Word(u)
  BY SameFile
<1>8. Q = R + U
  BY DEF U
<1>9. split' \in [0 .. n - 1 -> Seq(Byte)]
  BY <1>5, <1>6
<1> QED
  BY <1>5, <1>7, <1>8, <1>9 DEF RowsAre

\* after each round of it.
LEMMA SplitChunkInv ==
  ASSUME Inv, SplitChunk
  PROVE  Inv'
<1>. DEFINE x == ChunkRows * k
            z == Len(message)
<1>1. PICK R, r : /\ r = Smaller(ChunkRows * k, Len(message) - count)
                  /\ IsChunk(R, r) /\ RowsAre(R) /\ r \in 0 .. z - count
                  /\ r < x => r = z - count
                  /\ ~ (r < x) => r = x
  BY ChunkIs DEF SplitChunk
<1>2. /\ phase = "splitting" /\ UNCHANGED <<dfs, code, message, out>>
      /\ Appended(r) /\ count' = count + r
      /\ phase' = IF r < x THEN "merging" ELSE "splitting"
  BY <1>1 DEF SplitChunk, Appended
<1>3. z \in Nat /\ count \in 0 .. z /\ code \in Codes /\ message \in Messages /\ k \in Nat \ {0}
      /\ ChunkRows \in Nat
  BY MessageType, CodeType, CodecAssumption DEF Inv
<1>4. \A Q : Q = R + CDiv(r, k) => RowsAre(Q)'
  BY <1>1, <1>2, ChunkRowsRight
<1>5. R \in Nat /\ r \in Nat /\ count = R * k
  BY <1>1 DEF IsChunk
<1>6. /\ r = z - R * k => (z + k - 1) \div k = R + ((r + k - 1) \div k)
      /\ r = ChunkRows * k => (r + k - 1) \div k = ChunkRows /\ R * k + r = (R + ChunkRows) * k
  <2>1. k \in Nat \ {0} /\ R \in Nat /\ z \in Nat /\ ChunkRows \in Nat /\ r \in Nat
    BY <1>3, <1>5
  <2>. HIDE DEF z, x
  <2>2. \A m \in Nat \ {0}, L \in Nat, C \in Nat :
          /\ r = L - R * m => (L + m - 1) \div m = R + ((r + m - 1) \div m)
          /\ r = C * m => (r + m - 1) \div m = C /\ R * m + r = (R + C) * m
    BY <2>1, ChunkRowsAdd
  <2> QED
    BY <2>1, <2>2, Zenon
<1>7. k' = k /\ Rows' = Rows /\ z' = z
  BY <1>2, SameFile
<1>8. ASSUME r < x
      PROVE  phase' = "merging" /\ count' = z' /\ RowsAre(Rows)'
  <2>1. phase' = "merging" /\ r = z - count /\ r = z - R * k
    BY <1>1, <1>2, <1>5, <1>8
  <2>2. count' = z
    <3>. HIDE DEF z
    <3> QED
      BY <1>2, <1>3, <2>1
  <2>3. Rows = R + CDiv(r, k)
    BY <1>6, <2>1 DEF Rows, CDiv
  <2>4. PICK Q : Q = Rows
    OBVIOUS
  <2>5. RowsAre(Q)' /\ Rows' = Q
    BY <1>4, <1>7, <2>3, <2>4
  <2>6. RowsAre(Rows)'
    BY <2>5 DEF RowsAre
  <2> QED
    BY <1>7, <2>1, <2>2, <2>6
<1>9. ASSUME ~ (r < x)
      PROVE  phase' = "splitting" /\ \E Q \in Nat : RowsAre(Q)' /\ count' = Q * k'
  <2>1. phase' = "splitting" /\ r = x
    BY <1>1, <1>2, <1>9
  <2>2. CDiv(r, k) = ChunkRows /\ R * k + r = (R + ChunkRows) * k
    BY <1>6, <2>1 DEF CDiv
  <2>. DEFINE Q == R + ChunkRows
  <2>3. RowsAre(Q)'
    BY <1>4, <2>2
  <2>4. count' = Q * k'
    <3>1. count' = R * k + r
      BY <1>2, <1>5
    <3> QED
      BY <1>7, <2>2, <3>1
  <2>5. Q \in Nat
    BY <1>3, <1>5
  <2> QED
    BY <2>1, <2>3, <2>4, <2>5
<1>10. Coder(code)' = Coder(code)
  BY <1>2 DEF Coder
<1>11. dfs' = Coder(code)'
  BY <1>2, <1>10 DEF Inv, SplitInv
<1>12. SplitInv'
  <2>1. CASE r < x
    BY <1>8, <2>1 DEF SplitInv
  <2>2. CASE ~ (r < x)
    BY <1>9, <1>11, <2>2 DEF SplitInv
  <2> QED
    BY <2>1, <2>2
<1>13. OutInv'
  BY <1>2, SameOut DEF Inv
<1>14. DfsInv'
  BY <1>2 DEF Inv, DfsInv
<1>15. count' \in 0 .. z
  <2>. HIDE DEF z
  <2> QED
    BY <1>1, <1>2, <1>3
<1> QED
  BY <1>2, <1>7, <1>8, <1>9, <1>12, <1>13, <1>14, <1>15 DEF Inv

\* merge() has the right bytes of the rows that it writes.
RowsOfMessage(words, rows) ==
    \A u \in 1 .. rows, i \in 0 .. k - 1 : words[u][i] = Word(Done + u)[i]

\* Rows of the file written after a beginning of it make a longer beginning.
LEMMA WrittenInv ==
  ASSUME Inv, Len(out) < Len(message), NEW rows \in 1 .. Rows - Done, NEW words,
         RowsOfMessage(words, rows), Written(words, rows), UNCHANGED <<code, message>>
  PROVE  OutInv'
<1>. DEFINE z == Len(message)
            y == Len(out)
            x == rows * k
            size == Smaller(x, z - y)
            a == [b \in 1 .. size |-> words[((b - 1) \div k) + 1][(b - 1) % k]]
<1>1. /\ z \in Nat /\ code \in Codes /\ message \in Messages /\ message \in Seq(Byte) /\ k \in Nat \ {0}
      /\ \A b \in 1 .. z : message[b] \in Byte
  BY MessageType, CodeType DEF Inv
<1>2. out = SubSeq(message, 1, y) /\ y \in 0 .. z /\ y < z /\ (y = z \/ \E D \in Nat : y = D * k)
  BY DEF Inv, OutInv
<1>3. PICK D \in Nat : y = D * k
  <2>1. y < z /\ y \in 0 .. z /\ z \in Nat /\ (y = z \/ \E D \in Nat : y = D * k)
    BY <1>1, <1>2
  <2>. HIDE DEF y, z
  <2> QED
    BY <2>1
<1>4. Done = D
  <2>1. D * k <= y /\ y < D * k + k /\ y \in Nat
    BY <1>1, <1>2, <1>3
  <2>. HIDE DEF y
  <2>2. y \div k = D
    BY <1>1, <2>1, DivIs
  <2> QED
    BY <2>2 DEF Done, y
<1>5. out' = out \o a
  BY DEF Written
<1>6. rows \in Nat \ {0} /\ x \in Nat
  <2>1. Rows \in Nat
    BY <1>1, CeilBounds DEF Rows, CDiv
  <2>2. rows \in Nat \ {0}
    BY <1>3, <1>4, <2>1
  <2> QED
    BY <1>1, <2>2, Product
<1>. HIDE DEF y, z, x
<1>0. y \in 0 .. z /\ y < z /\ z \in Nat /\ y \in Nat
  BY <1>1, <1>2
<1>7. size \in Nat /\ size <= z - y /\ size <= x /\ (size = x \/ size = z - y)
  BY <1>0, <1>6 DEF Smaller
<1>. HIDE DEF size
<1>8. ASSUME NEW b \in 1 .. size PROVE a[b] = message[y + b] /\ a[b] \in Byte /\ y + b \in 1 .. z
  <2>. DEFINE u == ((b - 1) \div k) + 1
              i == (b - 1) % k
  <2>1. b \in Nat \ {0} /\ b <= x /\ y + b \in 1 .. z
    <3>1. b \in Nat \ {0} /\ b <= size
      BY <1>7
    <3> QED
      BY <1>0, <1>6, <1>7, <3>1
  <2>2. u \in 1 .. rows /\ i \in 0 .. k - 1 /\ (u - 1) * k + i + 1 = b
    BY <1>1, <1>6, <2>1, RowOfByte DEF x
  <2>3. a[b] = words[u][i]
    OBVIOUS
  <2>. HIDE DEF u, i
  <2>4. D + u \in Nat \ {0}
    BY <1>3, <2>2
  <2>5. words[u][i] = Word(D + u)[i]
    BY <1>4, <2>2 DEF RowsOfMessage
  <2>6. Word(D + u)[i] = UnitOf(D + u)[i]
    BY <1>1, <2>2, <2>4, WordType
  <2>7. ((D + u) - 1) * k = y + (u - 1) * k /\ (u - 1) * k \in Nat
    <3>. DEFINE v == u - 1
    <3>1. v \in Nat /\ (D + u) - 1 = D + v
      BY <1>3, <2>2
    <3>. HIDE DEF v
    <3>2. (D + v) * k = D * k + v * k /\ v * k \in Nat
      BY <1>1, <1>3, <3>1, AddRows, Product
    <3> QED
      BY <1>3, <3>1, <3>2 DEF v
  <2>8. ((D + u) - 1) * k + i < z /\ (((D + u) - 1) * k + i) + 1 = y + b
    <3>. DEFINE w == (u - 1) * k
                p == ((D + u) - 1) * k
    <3>1. p = y + w /\ w \in Nat /\ w + i + 1 = b
      BY <2>2, <2>7
    <3>. HIDE DEF w, p
    <3>2. p + i < z /\ (p + i) + 1 = y + b
      BY <1>0, <2>1, <2>2, <3>1
    <3> QED
      BY <3>2 DEF p
  <2>9. UnitOf(D + u)[i] = message[y + b]
    BY <2>2, <2>8 DEF UnitOf, z
  <2> QED
    BY <1>1, <2>1, <2>3, <2>5, <2>6, <2>9
<1>9. a \in Seq(Byte) /\ Len(a) = size
  <2>1. a \in [1 .. size -> Byte]
    BY <1>8
  <2>. HIDE DEF a
  <2> QED
    BY <1>7, <2>1, FunctionIsSequence
<1>. HIDE DEF a
<1>10. out \in Seq(Byte) /\ Len(out) = y /\ y \in Nat /\ \A b \in 1 .. y : out[b] = message[b]
  <2>1. message \in Seq(Byte) /\ y \in 0 .. Len(message)
    BY <1>1, <1>2 DEF z
  <2>. DEFINE t == SubSeq(message, 1, y)
  <2>2. t \in Seq(Byte) /\ Len(t) = y /\ \A b \in 1 .. y : t[b] = message[b]
    BY <2>1, PrefixParts
  <2>3. out = t
    BY <1>2
  <2>. HIDE DEF t
  <2> QED
    BY <1>0, <2>2, <2>3
<1>11. /\ out' \in Seq(Byte) /\ Len(out') = y + size
       /\ \A b \in 1 .. y : out'[b] = out[b]
       /\ \A b \in 1 .. size : out'[y + b] = a[b]
  <2>1. out \in Seq(Byte) /\ a \in Seq(Byte) /\ Len(out) = y /\ Len(a) = size
    BY <1>9, <1>10
  <2>. DEFINE t == out \o a
  <2>2. /\ t \in Seq(Byte) /\ Len(t) = y + size
        /\ \A b \in 1 .. y : t[b] = out[b]
        /\ \A b \in 1 .. size : t[y + b] = a[b]
    BY <2>1, ConcatParts
  <2>3. out' = t
    BY <1>5
  <2>. HIDE DEF t
  <2> QED
    BY <2>2, <2>3
<1>12. y + size \in 0 .. z
  BY <1>0, <1>7
<1>13. ASSUME NEW b \in 1 .. y + size PROVE out'[b] = message[b]
  <2>1. CASE b \in 1 .. y
    BY <1>10, <1>11, <2>1
  <2>2. CASE b \notin 1 .. y
    <3>. DEFINE c == b - y
    <3>1. c \in 1 .. size /\ y + c = b
      BY <1>7, <1>10, <2>2
    <3>. HIDE DEF c
    <3>2. out'[y + c] = message[y + c]
      BY <1>8, <1>11, <3>1
    <3> QED
      BY <3>1, <3>2
  <2> QED
    BY <2>1, <2>2
<1>14. out' = SubSeq(message, 1, Len(out'))
  <2>. DEFINE t == SubSeq(message, 1, y + size)
  <2>1. t \in Seq(Byte) /\ Len(t) = y + size /\ \A b \in 1 .. y + size : t[b] = message[b]
    <3>1. message \in Seq(Byte) /\ y + size \in 0 .. Len(message)
      BY <1>1, <1>12 DEF z
    <3> QED
      BY <3>1, PrefixParts
  <2>. HIDE DEF t
  <2>2. out' = t
    <3>1. out' \in Seq(Byte) /\ Len(out') = y + size /\ \A b \in 1 .. y + size : out'[b] = t[b]
      BY <1>11, <1>13, <2>1
    <3> QED
      BY <2>1, <3>1, SequencesEqual
  <2> QED
    BY <1>11, <2>2 DEF t
<1>15. y + size = z \/ \E Q \in Nat : y + size = Q * k
  <2>1. CASE size = z - y
    BY <1>0, <2>1
  <2>2. CASE size = x
    <3>1. (D + rows) * k = y + size /\ D + rows \in Nat
      BY <1>1, <1>3, <1>6, <2>2, AddRows DEF x
    <3> QED
      BY <3>1
  <2> QED
    BY <1>7, <2>1, <2>2
<1>16. k' = k /\ Len(message)' = z
  BY SameFile DEF z
<1> QED
  BY <1>11, <1>12, <1>14, <1>15, <1>16 DEF OutInv

-----------------------------------------------------------------------------
(* merge(). *)

\* Erasures lists the missing pieces.
LEMMA ErasuresAre ==
  ASSUME code \in Codes, NEW S
  PROVE  Missing(Erasures(S), S, n, n)
<1>. DEFINE P(e) == e = [s \in 0 .. n |-> IF s = 0 THEN <<>>
                           ELSE IF s - 1 \in S THEN e[s - 1] ELSE Append(e[s - 1], n - s)]
            h == CHOOSE e : P(e)
<1>1. n \in Nat
  BY CodeType
<1>2. Erasures(S) = h[n]
  BY DEF Erasures
<1>3. \A e : P(e) <=> IsErasures(e, S, n)
  BY DEF IsErasures
<1>. HIDE DEF P
<1>4. \E e : P(e)
  BY <1>1, <1>3, ErasuresExist
<1>5. P(h)
  BY <1>4, Zenon
<1>. HIDE DEF h
<1>6. IsErasures(h, S, n)
  BY <1>3, <1>5
<1> QED
  BY <1>1, <1>2, <1>6, ErasuresMissing

\* A merge that cannot do without the coder misses a piece, but no more than
\* there are parity bytes.
LEMMA MissingCount ==
  ASSUME code \in Codes, NEW S \in SUBSET (0 .. n - 1), Cardinality(S) >= k, ~ is_simple(S)
  PROVE  n - Cardinality(S) \in 1 .. n - k
<1>. DEFINE A == 0 .. n - 1
            m == Cardinality(S)
<1>1. n \in Nat /\ n - 1 \in Int /\ 0 \in Int /\ k \in Nat /\ k < n /\ 0 <= n - 1
  BY CodeType
<1>2. IsFiniteSet(A) /\ Cardinality(A) = (n - 1 - 0) + 1
  BY <1>1, IntervalSize
<1>3. S # A
  <2>1. 0 .. k - 1 \subseteq 0 .. n - 1
    BY <1>1
  <2> QED
    BY <2>1 DEF is_simple
<1>4. S \in SUBSET A
  OBVIOUS
<1>. HIDE DEF A
<1>5. IsFiniteSet(S) /\ m <= Cardinality(A) /\ (Cardinality(A) = m => A = S)
  BY <1>2, <1>4, FS_Subset
<1>6. m \in Nat
  BY <1>5, FS_CardinalityType
<1>7. m >= k
  OBVIOUS
<1>. HIDE DEF m
<1>8. m < n
  BY <1>1, <1>2, <1>3, <1>5, <1>6
<1>9. n - m \in 1 .. n - k
  BY <1>1, <1>6, <1>7, <1>8
<1> QED
  BY <1>9 DEF m

\* What the pieces of a row are when they arrive.
LEMMA ReceivedIs ==
  ASSUME code \in Codes, message \in Messages, RowsAre(Rows), NEW row \in 1 .. Rows,
         NEW S \in SUBSET (0 .. n - 1), NEW g, NEW d, NEW p,
         \A s \in (0 .. n - 1) \ S : g[s] \in Garbage,
         \/ d = <<0, 0>> /\ p = n
         \/ d[1] = p /\ p \in S /\ d[2] \in Noise
  PROVE  /\ Delivers(Received(S, row, g, d), Word(row), S, p, n)
         /\ p \in S => Received(S, row, g, d)[p] # Word(row)[p]
<1>. DEFINE c == Received(S, row, g, d)
            w == Word(row)
            x(s) == IF d[1] = s THEN d[2] ELSE 0
<1>1. row \in Nat \ {0} /\ n \in Nat
  BY CodeType
<1>2. Bytes(w, n) /\ (\A s \in (0 .. n - 1) \ S : g[s] \in Byte) /\ Noise \subseteq 1 .. 255 /\ 1 .. 255 \subseteq Byte
  <2>1. 1 .. 255 \subseteq Byte
    BY DEF Byte
  <2>2. ASSUME NEW s \in (0 .. n - 1) \ S PROVE g[s] \in Byte
    BY CodecAssumption DEF Byte
  <2>3. Bytes(w, n)
    BY <1>1, WordType
  <2>4. Noise \subseteq 1 .. 255
    BY CodecAssumption
  <2> QED
    BY <2>1, <2>2, <2>3, <2>4
<1>3. ASSUME NEW s \in S PROVE split[s][row] = w[s] /\ w[s] \in Byte
  BY <1>2 DEF RowsAre, Bytes
<1>4. \A s \in 0 .. n - 1 : c[s] = IF s \notin S THEN g[s] ELSE split[s][row] \oplus x(s)
  BY DEF Received
<1>. HIDE DEF w, c
<1>5. \A s \in S : x(s) \in Byte /\ (s # p => x(s) = 0) /\ (s = p => x(s) \in 1 .. 255)
  <2>1. CASE d = <<0, 0>> /\ p = n
    <3>1. \A s \in S : x(s) = 0 /\ s # p
      BY <1>1, <2>1
    <3> QED
      BY <3>1, ZeroIsByte
  <2>2. CASE d[1] = p /\ p \in S /\ d[2] \in Noise
    BY <1>2, <2>2, ZeroIsByte
  <2> QED
    BY <2>1, <2>2
<1>. HIDE DEF x
<1>6. ASSUME NEW s \in S PROVE c[s] \in Byte /\ (s # p => c[s] = w[s]) /\ (s = p => c[s] # w[s])
  <2>1. s \in 0 .. n - 1 /\ c[s] = w[s] \oplus x(s) /\ w[s] \in Byte /\ x(s) \in Byte
    BY <1>3, <1>4, <1>5
  <2>2. c[s] \in Byte
    BY <2>1, XorType
  <2>3. s # p => c[s] = w[s]
    BY <1>5, <2>1, XorZero
  <2>4. s = p => c[s] # w[s]
    <3>. SUFFICES ASSUME s = p, c[s] = w[s] PROVE FALSE
      OBVIOUS
    <3>1. w[s] \oplus (w[s] \oplus x(s)) = x(s)
      BY <2>1, XorCancels
    <3>2. w[s] \oplus w[s] = 0
      BY <2>1, XorCancels
    <3>3. x(s) = 0
      BY <2>1, <3>1, <3>2
    <3>4. x(s) \in 1 .. 255
      BY <1>5
    <3> QED
      BY <3>3, <3>4
  <2> QED
    BY <2>2, <2>3, <2>4
<1>7. \A s \in 0 .. n - 1 : c[s] \in Byte
  BY <1>2, <1>4, <1>6
<1>8. Delivers(c, w, S, p, n)
  BY <1>2, <1>6, <1>7 DEF Delivers, Bytes
<1> QED
  BY <1>6, <1>8 DEF c, w

\* A row that is merged with the coder is the row of the file.
LEMMA DecodedRow ==
  ASSUME code \in Codes, message \in Messages, RowsAre(Rows), NEW row \in 1 .. Rows,
         NEW S \in SUBSET (0 .. n - 1), Cardinality(S) >= k, ~ is_simple(S),
         NEW g, \A s \in (0 .. n - 1) \ S : g[s] \in Garbage,
         NEW d \in Damages(S), NEW coder, coder = Coder(code)
  PROVE  \A i \in 0 .. n - 1 : Decoded(Received(S, row, g, d), S, coder)[i] = Word(row)[i]
<1>. DEFINE c == Received(S, row, g, d)
            w == Word(row)
            npar == n - k
            X == Erasures(S)
<1>1. npar \in Nat \ {0} /\ n \in 0 .. 255 /\ n \in Nat /\ row \in Nat \ {0}
  BY CodeType
<1>2. Missing(X, S, n, n)
  BY ErasuresAre
<1>3. n - Cardinality(S) \in 1 .. npar
  BY MissingCount
<1>4. IsCodeWord(w, n, npar)
  BY <1>1, WordType
<1>5. coder.npar = npar
  BY DEF Coder, n, k
<1>6. Decoded(c, S, coder) = correct_errors_erasures(c, n, X, decode_data(c, n, npar), npar)
  BY <1>5 DEF Decoded
<1>. HIDE DEF c, w, npar, X
<1>7. Corrects(c, n, X, npar, w)
  <2>1. CASE d = <<0, 0>>
    <3>1. Delivers(c, w, S, n, n)
      BY <2>1, ReceivedIs DEF c, w
    <3> QED
      BY <1>1, <1>2, <1>3, <1>4, <3>1, MergeErasures
  <2>2. CASE d # <<0, 0>>
    <3>. DEFINE p == d[1]
    <3>1. d \in S \X Noise /\ n - Cardinality(S) + 2 <= npar
      BY <2>2 DEF Damages, npar
    <3>2. d[1] = p /\ p \in S /\ d[2] \in Noise
      BY <3>1
    <3>. HIDE DEF p
    <3>3. Delivers(c, w, S, p, n) /\ c[p] # w[p]
      BY <3>2, ReceivedIs DEF c, w
    <3> QED
      BY <1>1, <1>2, <1>4, <3>1, <3>2, <3>3, MergeError
  <2> QED
    BY <2>1, <2>2
<1>8. \A i \in 0 .. n - 1 : Decoded(c, S, coder)[i] = w[i]
  BY <1>6, <1>7 DEF Corrects
<1> QED
  BY <1>8 DEF c, w

LEMMA RowsLeft ==
  ASSUME Inv, NEW rows \in 1 .. Rows - Done, NEW u \in 1 .. rows
  PROVE  Done + u \in 1 .. Rows
<1>1. code \in Codes /\ Len(message) \in Nat /\ Len(out) \in Nat
  BY MessageType DEF Inv, OutInv
<1>2. k \in Nat \ {0}
  BY <1>1, CodeType
<1>3. Done \in Nat /\ Rows \in Nat
  BY <1>1, <1>2, DivBounds, CeilBounds DEF Done, Rows, CDiv
<1> QED
  BY <1>3

\* A merge from the first k pieces keeps Inv,
LEMMA MergeSimpleInv ==
  ASSUME Inv, MergeSimple
  PROVE  Inv'
<1>1. phase = "merging" /\ Len(out) < Len(message) /\ UNCHANGED <<phase, dfs, code, message, count, split>>
  BY DEF MergeSimple
<1>2. PICK rows \in 1 .. Rows - Done : Written([u \in 1 .. rows |-> Simple(Done + u)], rows)
  BY DEF MergeSimple
<1>3. PICK words : words = [u \in 1 .. rows |-> Simple(Done + u)]
  OBVIOUS
<1>4. RowsAre(Rows) /\ code \in Codes
  BY <1>1 DEF Inv, SplitInv
<1>5. ASSUME NEW u \in 1 .. rows, NEW i \in 0 .. k - 1
      PROVE  words[u][i] = Word(Done + u)[i]
  <2>1. Done + u \in 1 .. Rows
    BY RowsLeft
  <2>2. i \in 0 .. n - 1
    <3>1. n \in Nat /\ k \in Nat /\ k < n
      BY <1>4, CodeType
    <3> QED
      BY <3>1
  <2>3. words[u][i] = split[i][Done + u]
    BY <1>3 DEF Simple
  <2> QED
    BY <1>4, <2>1, <2>2, <2>3 DEF RowsAre
<1>6. RowsOfMessage(words, rows)
  BY <1>5 DEF RowsOfMessage
<1>7. OutInv'
  BY <1>1, <1>2, <1>3, <1>6, WrittenInv
<1>8. SplitInv'
  BY <1>1, SameRows, SameFile DEF Inv, SplitInv, Coder
<1> QED
  BY <1>1, <1>7, <1>8 DEF Inv, DfsInv

\* and so does one with the coder.
LEMMA MergeInv ==
  ASSUME Inv, Merge
  PROVE  Inv'
<1>1. phase = "merging" /\ Len(out) < Len(message) /\ UNCHANGED <<phase, code, message, count, split>>
  BY DEF Merge
<1>0. PICK rows \in 1 .. Rows - Done, S \in SUBSET (0 .. n - 1) :
        /\ Cardinality(S) >= k /\ ~ is_simple(S) /\ dfs' = Prepared(code)
        /\ \E g \in [1 .. rows -> [(0 .. n - 1) \ S -> Garbage]], d \in Damages(S) :
             Written([u \in 1 .. rows |-> Decoded(Received(S, Done + u, g[u], d), S, dfs')], rows)
  BY DEF Merge
<1>2. PICK g \in [1 .. rows -> [(0 .. n - 1) \ S -> Garbage]], d \in Damages(S) :
        Written([u \in 1 .. rows |-> Decoded(Received(S, Done + u, g[u], d), S, dfs')], rows)
  BY <1>0
<1>3. RowsAre(Rows) /\ code \in Codes /\ message \in Messages
  BY <1>1 DEF Inv, SplitInv
<1>4. dfs' = Coder(code)
  BY <1>0, <1>3, PreparedIs DEF Inv
<1>5. PICK coder : coder = Coder(code) /\ dfs' = coder
  BY <1>4
<1>6. PICK words : words = [u \in 1 .. rows |-> Decoded(Received(S, Done + u, g[u], d), S, coder)]
  OBVIOUS
<1>7. ASSUME NEW u \in 1 .. rows, NEW i \in 0 .. k - 1
      PROVE  words[u][i] = Word(Done + u)[i]
  <2>1. Done + u \in 1 .. Rows
    BY RowsLeft
  <2>2. i \in 0 .. n - 1
    <3>1. n \in Nat /\ k \in Nat /\ k < n
      BY <1>3, CodeType
    <3> QED
      BY <3>1
  <2>3. \A j \in 0 .. n - 1 :
          Decoded(Received(S, Done + u, g[u], d), S, coder)[j] = Word(Done + u)[j]
    <3>1. PICK h : h = g[u] /\ h \in [(0 .. n - 1) \ S -> Garbage]
      BY <1>2
    <3>2. \A j \in 0 .. n - 1 :
            Decoded(Received(S, Done + u, h, d), S, coder)[j] = Word(Done + u)[j]
      <4>1. RowsAre(Rows) /\ code \in Codes /\ message \in Messages /\ coder = Coder(code)
        BY <1>3, <1>5
      <4>2. Cardinality(S) >= k /\ ~ is_simple(S) /\ S \in SUBSET (0 .. n - 1)
        BY <1>0
      <4>3. d \in Damages(S) /\ \A s \in (0 .. n - 1) \ S : h[s] \in Garbage
        BY <1>2, <3>1
      <4> QED
        BY <2>1, <4>1, <4>2, <4>3, DecodedRow, SMTT(60)
    <3> QED
      BY <3>1, <3>2
  <2> QED
    BY <1>6, <2>2, <2>3
<1>8. RowsOfMessage(words, rows)
  BY <1>7 DEF RowsOfMessage
<1>9. Written(words, rows)
  BY <1>2, <1>5, <1>6
<1>10. OutInv'
  BY <1>1, <1>8, <1>9, WrittenInv
<1>11. SplitInv'
  BY <1>1, SameRows, SameFile DEF Inv, SplitInv
<1>12. DfsInv'
  BY <1>3, <1>4 DEF DfsInv, Coder
<1> QED
  BY <1>1, <1>10, <1>11, <1>12 DEF Inv

LEMMA StutterInv ==
  ASSUME Inv, UNCHANGED vars
  PROVE  Inv'
<1>1. UNCHANGED <<phase, dfs, code, message, count, split, out>>
  BY DEF vars
<1>2. SplitInv'
  BY <1>1, SameRows, SameFile DEF Inv, SplitInv, Coder
<1>3. OutInv'
  BY <1>1, SameOut DEF Inv
<1> QED
  BY <1>1, <1>2, <1>3 DEF Inv, DfsInv

(***************************************************************************)
(* Inv is inductive, as long as no other transfer uses the shared coder    *)
(* while a file is split: the coder object has the generator polynomial of *)
(* its own parity count, the split files grow by code words of the file,   *)
(* and what merge() has written is a beginning of the message.             *)
(***************************************************************************)
THEOREM CoderInvariant == SplitsAlone => (Spec => []Inv)
<1>. SUFFICES ASSUME SplitsAlone PROVE Spec => []Inv
  OBVIOUS
<1>1. Init => Inv
  BY InitInv
<1>2. Inv /\ [Next]_vars => Inv'
  BY InterfereInv, BeginSplitInv, SplitChunkInv, MergeSimpleInv, MergeInv, StutterInv DEF Next
<1> QED
  BY <1>1, <1>2, PTL DEF Spec

\* What Inv says of the properties.
LEMMA InvGivesTypes ==
  ASSUME Inv
  PROVE  TypeOK
<1>1. ASSUME dfs # NULL
      PROVE  /\ <<dfs.n_servers, dfs.k_servers>> \in Codes
             /\ dfs.genPoly \in [Degrees(dfs.npar) -> 0 .. 255]
  <2>1. PICK c \in Codes : dfs = Coder(c)
    BY <1>1 DEF Inv, DfsInv
  <2>2. c = <<c[1], c[2]>> /\ c[1] - c[2] \in Nat \ {0}
    BY PairsOfCodes
  <2>3. /\ dfs.n_servers = c[1] /\ dfs.k_servers = c[2] /\ dfs.npar = c[1] - c[2]
        /\ dfs.genPoly = compute_genpoly(c[1] - c[2])
    BY <2>1 DEF Coder
  <2>4. compute_genpoly(c[1] - c[2]) \in Polys(c[1] - c[2])
    BY <2>2, GenpolyType
  <2> QED
    BY <2>2, <2>3, <2>4 DEF Polys, Byte
<1>2. \A s \in 0 .. n - 1 : split[s] \in Seq(0 .. 255)
  BY DEF Inv, SplitInv, RowsAre, Byte
<1> QED
  BY <1>1, <1>2 DEF Inv, TypeOK

LEMMA InvGivesCodeWords ==
  ASSUME Inv
  PROVE  SharesAreCodeWords
<1>. SUFFICES ASSUME phase = "merging", NEW u \in 1 .. Rows
              PROVE  /\ \A s \in 0 .. n - 1 : Len(split[s]) = Rows
                     /\ \A s \in 0 .. k - 1 : split[s][u]
                          = IF (u - 1) * k + s + 1 <= Len(message)
                            THEN message[(u - 1) * k + s + 1] ELSE 0
                     /\ \A r \in 1 .. n - k : Value([i \in 0 .. n - 1 |-> split[n - 1 - i][u]], n, r) = 0
  BY DEF SharesAreCodeWords
<1>1. code \in Codes /\ message \in Messages /\ RowsAre(Rows) /\ Len(message) \in Nat
  BY MessageType DEF Inv, SplitInv
<1>2. /\ n \in Nat /\ k \in Nat \ {0} /\ k < n /\ u \in Nat \ {0}
  <2>1. n \in Nat /\ k \in Nat \ {0} /\ k < n
    BY <1>1, CodeType
  <2>2. Rows \in Nat
    BY <1>1, <2>1, CeilBounds DEF Rows, CDiv
  <2> QED
    BY <2>1, <2>2
<1>3. /\ \A s \in 0 .. n - 1 : Len(split[s]) = Rows /\ split[s][u] = Word(u)[s]
  BY <1>1 DEF RowsAre
<1>4. /\ \A i \in 0 .. k - 1 : Word(u)[i] = UnitOf(u)[i]
      /\ IsCodeWord(Word(u), n, n - k)
  BY <1>1, <1>2, WordType
<1>5. ASSUME NEW s \in 0 .. k - 1
      PROVE  split[s][u] = IF (u - 1) * k + s + 1 <= Len(message)
                           THEN message[(u - 1) * k + s + 1] ELSE 0
  <2>. DEFINE y == (u - 1) * k
  <2>1. y \in Nat
    <3>1. u - 1 \in Nat
      BY <1>2
    <3> QED
      BY <1>2, <3>1, Product
  <2>2. s \in 0 .. n - 1
    BY <1>2
  <2>3. UnitOf(u)[s] = IF y + s < Len(message) THEN message[(y + s) + 1] ELSE 0
    BY DEF UnitOf
  <2>. HIDE DEF y
  <2>4. (y + s) + 1 = y + s + 1 /\ (y + s < Len(message) <=> y + s + 1 <= Len(message))
    BY <1>1, <2>1
  <2>5. split[s][u] = IF y + s + 1 <= Len(message) THEN message[y + s + 1] ELSE 0
    BY <1>3, <1>4, <2>2, <2>3, <2>4
  <2> QED
    BY <2>5 DEF y
<1>6. ASSUME NEW r \in 1 .. n - k
      PROVE  Value([i \in 0 .. n - 1 |-> split[n - 1 - i][u]], n, r) = 0
  <2>1. \A i \in 0 .. n - 1 : n - 1 - i \in 0 .. n - 1
    BY <1>2
  <2>2. [i \in 0 .. n - 1 |-> split[n - 1 - i][u]] = Rev(Word(u), n)
    BY <1>3, <2>1 DEF Rev
  <2> QED
    BY <1>4, <2>2 DEF IsCodeWord
<1> QED
  BY <1>3, <1>5, <1>6

(***************************************************************************)
(* The shared coder, the counters of split() and the bytes of the split    *)
(* files keep their types, for every set of codes and every file.          *)
(***************************************************************************)
THEOREM CodecTypes == SplitsAlone => (Spec => []TypeOK)
BY CoderInvariant, InvGivesTypes, PTL

(***************************************************************************)
(* When split() is done, the split files are the rows of the file and      *)
(* their parity, however it was cut into chunks and whatever the coder was *)
(* used for before, by reset() or without it.                              *)
(***************************************************************************)
THEOREM SharesRight == SplitsAlone => (Spec => []SharesAreCodeWords)
BY CoderInvariant, InvGivesCodeWords, PTL

LEMMA InvGivesMessage == Inv => MergeGivesMessage
BY DEF Inv, OutInv, MergeGivesMessage

(***************************************************************************)
(* merge() gives back what was split, on both of its ways, whichever k     *)
(* storages deliver each row, with any garbage for the missing bytes, any  *)
(* damage within the coder's reach and any use of the shared coder by      *)
(* other transfers in between.                                             *)
(***************************************************************************)
THEOREM MergeRight == SplitsAlone => (Spec => []MergeGivesMessage)
BY CoderInvariant, InvGivesMessage, PTL
=============================================================================

---------------------------- MODULE DfsDirProofs ----------------------------
(***************************************************************************)
(* For every number of names, slots and files: the directory keeps its     *)
(* types, lookups and the listing agree on every file but those that were  *)
(* created behind a REMOVED entry, and it implements Namespace, through    *)
(* unmounts, mounts and the death of the program at any point.             *)
(***************************************************************************)
EXTENDS DfsDir, SequenceTheorems, NaturalsInduction, WellFoundedInduction, TLAPS

-----------------------------------------------------------------------------
(***************************************************************************)
(* Records.                                                                *)
(***************************************************************************)
LEMMA NewFileType == ASSUME NEW n \in Names, created < MaxCreated, created \in Nat
                     PROVE  /\ NewFile(n) \in DfsFiles
                            /\ NewFile(n).name = n /\ NewFile(n).id = created + 1
                            /\ NewFile(n).status = "CREATED"
<1>1. created + 1 \in Ids
  BY DirAssumption DEF Ids
<1>. QED
  BY <1>1 DEF NewFile, DfsFiles, FileStatus

LEMMA LoadedFileType == ASSUME NEW l \in Lines
                        PROVE  /\ LoadedFile(l) \in DfsFiles
                               /\ LoadedFile(l).name = l.name /\ LoadedFile(l).id = l.id
                               /\ LoadedFile(l).status = "SYNCED"
BY DEF LoadedFile, DfsFiles, Lines, FileStatus

LEMMA LineType == ASSUME NEW f \in DfsFiles
                  PROVE  /\ Line(f) \in Lines
                         /\ Line(f).name = f.name /\ Line(f).id = f.id
BY DEF Line, Lines, DfsFiles

\* What the handlers of a file make of its entry is the same file, and not
\* REMOVED.
SameFile(f, g) == /\ g \in DfsFiles /\ g.name = f.name /\ g.id = f.id
                  /\ \A st \in {"REMOVED", "CREATED"} : g.status = st => f.status = st

LEMMA HandlersKeepFile ==
    ASSUME NEW f \in DfsFiles
    PROVE  /\ SameFile(f, Written(f)) /\ SameFile(f, Cached(f))
           /\ SameFile(f, Emptied(f)) /\ SameFile(f, Uploaded(f))
           /\ SameFile(f, [f EXCEPT !.cached = FALSE])
BY DEF SameFile, Written, Cached, Emptied, Uploaded, DfsFiles, FileStatus

-----------------------------------------------------------------------------
(***************************************************************************)
(* Types.                                                                  *)
(***************************************************************************)
LEMMA EntryType == ASSUME TypeOK, NEW i \in Slots, files[i] # NULL
                   PROVE  files[i] \in DfsFiles
BY DEF TypeOK

LEMMA BecomesType == ASSUME TypeOK, NEW i \in Slots, NEW f \in DfsFiles \cup {NULL},
                            Becomes(i, f)
                     PROVE  TypeOK'
BY DEF TypeOK, Becomes

LEMMA GoneType == ASSUME TypeOK, Gone, mounted' \in {"down", "torn"},
                         root_dir' \in Seq(Lines), Len(root_dir') <= MaxFile
                  PROVE  TypeOK'
<1>1. <<>> \in Seq(Lines) /\ Len(<<>>) = 0
  OBVIOUS
<1>. QED
  BY <1>1, DirAssumption DEF TypeOK, Gone, NoFiles

LEMMA TearsType == ASSUME TypeOK, Tears PROVE TypeOK'
<1>1. PICK k \in 0 .. Len(lines) : root_dir' = SubSeq(lines, 1, k)
  BY DEF Tears
<1>2. \A j \in 1 .. k : lines[j] \in Lines
  BY DEF TypeOK
<1>3. Len(lines) \in Nat /\ Len(lines) <= MaxFile
  BY LenProperties, DirAssumption DEF TypeOK
<1>4. root_dir' \in Seq(Lines) /\ Len(root_dir') = k
  BY <1>1, <1>2, <1>3, SubSeqProperties
<1>5. Len(root_dir') <= MaxFile /\ mounted' = "torn"
  BY <1>1, <1>3, <1>4, DirAssumption DEF Tears
<1>. QED
  BY <1>4, <1>5, GoneType DEF Tears

LEMMA TypesStart == Init => TypeOK
<1>1. <<>> \in Seq(Lines) /\ Len(<<>>) = 0
  OBVIOUS
<1>. QED
  BY <1>1, DirAssumption DEF Init, TypeOK, NoFiles

LEMMA TypesKeep == TypeOK /\ [Next]_vars => TypeOK'
<1>. SUFFICES ASSUME TypeOK, [Next]_vars PROVE TypeOK'
  OBVIOUS
<1>1. ASSUME NEW n \in Names, Create(n) PROVE TypeOK'
  <2>1. CASE UNCHANGED <<files, created, hidden>>
    BY <1>1, <2>1 DEF Create, TypeOK
  <2>2. ASSUME NEW i \in Slots, files' = [files EXCEPT ![i] = NewFile(n)],
               created' = created + 1,
               hidden' = hidden \cup
                  {id \in {created + 1} : \E j \in Slots : j < i /\ Find(n, j)}
        PROVE  TypeOK'
    <3>1. NewFile(n) \in DfsFiles
      BY <1>1, NewFileType DEF Create, TypeOK
    <3>2. created' \in 0 .. MaxCreated
      BY <1>1, <2>2, DirAssumption DEF Create, TypeOK
    <3>3. hidden' \subseteq 1 .. created'
      <4>1. hidden \subseteq 1 .. created /\ created \in Nat
        BY DirAssumption DEF TypeOK
      <4>2. \A x \in hidden' : x \in hidden \/ x = created + 1
        BY <2>2
      <4>3. created' = created + 1
        BY <2>2
      <4>4. ASSUME NEW x \in hidden' PROVE x \in 1 .. created + 1
        <5>1. CASE x \in hidden
          <6>1. x \in 1 .. created
            BY <4>1, <5>1
          <6>. QED
            BY <4>1, <6>1
        <5>2. CASE x = created + 1
          BY <4>1, <5>2
        <5>. QED
          BY <4>2, <4>4, <5>1, <5>2
      <4>. QED
        BY <4>3, <4>4
    <3>. QED
      BY <1>1, <2>2, <3>1, <3>2, <3>3 DEF Create, TypeOK
  <2>. QED
    BY <1>1, <2>1, <2>2 DEF Create, FirstFree
<1>2. ASSUME NEW n \in Names, NEW i \in Slots, Entry(n, i),
             \/ Becomes(i, Written(files[i])) \/ Becomes(i, Cached(files[i]))
             \/ Becomes(i, Emptied(files[i])) \/ Becomes(i, Uploaded(files[i]))
             \/ Becomes(i, [files[i] EXCEPT !.cached = FALSE])
             \/ Becomes(i, Removed(files[i]))
      PROVE  TypeOK'
  <2>1. files[i] \in DfsFiles
    BY <1>2, EntryType DEF Entry, Find, Resolves
  <2>2. Removed(files[i]) \in DfsFiles \cup {NULL}
    BY <2>1 DEF Removed, DfsFiles, FileStatus
  <2>. QED
    BY <1>2, <2>1, <2>2, HandlersKeepFile, BecomesType DEF SameFile
<1>3. ASSUME NEW n \in Names, Write(n) \/ Read(n) \/ Truncate(n) \/ Clear(n) \/ Unlink(n)
      PROVE  TypeOK'
  BY <1>2, <1>3 DEF Write, Read, Truncate, Clear, Unlink
<1>4. ASSUME NEW n \in Names, Sync(n) PROVE TypeOK'
  <2>1. CASE mounted' = "down" /\ Gone /\ UNCHANGED root_dir
    BY <2>1, GoneType DEF TypeOK
  <2>. QED
    BY <1>2, <1>4, <2>1 DEF Sync
<1>5. CASE Mount
  <2>1. \A i \in Slots : i < Len(root_dir) => root_dir[i + 1] \in Lines
    <3>. TAKE i \in Slots
    <3>1. Len(root_dir) \in Nat
      BY LenProperties DEF TypeOK
    <3>2. i < Len(root_dir) => i + 1 \in 1 .. Len(root_dir)
      BY <3>1, DirAssumption DEF Slots
    <3>. QED
      BY <3>2 DEF TypeOK
  <2>2. files' \in [Slots -> DfsFiles \cup {NULL}]
    BY <1>5, <2>1, LoadedFileType DEF Mount
  <2>. QED
    BY <1>5, <2>2 DEF Mount, TypeOK
<1>6. CASE BeginSave
  <2>1. <<>> \in Seq(Lines) /\ Len(<<>>) = 0
    OBVIOUS
  <2>. QED
    BY <1>6, <2>1, DirAssumption DEF BeginSave, TypeOK
<1>7. CASE SaveSlot
  <2>. DEFINE f == files[slot]
  <2>1. slot \in Slots
    BY <1>7, DirAssumption DEF SaveSlot, TypeOK, Slots
  <2>2. f \in DfsFiles \cup {NULL}
    BY <2>1 DEF TypeOK
  <2>3. ASSUME NEW g \in DfsFiles \cup {NULL}, SaveAs(f, g) PROVE TypeOK'
    <3>1. files' \in [Slots -> DfsFiles \cup {NULL}]
      BY <2>1, <2>3 DEF TypeOK, SaveAs
    <3>2. slot' \in 0 .. MaxFile /\ slot' = slot + 1
      BY <2>1, <2>3, DirAssumption DEF Slots, SaveAs
    <3>3. lines \in Seq(Lines) /\ Len(lines) \in Nat /\ Len(lines) <= slot
      BY LenProperties DEF TypeOK
    <3>4. IsSaved(f) => Line(f) \in Lines
      BY <2>2, LineType DEF IsSaved
    <3>5. lines' \in Seq(Lines) /\ Len(lines') <= slot'
      <4>1. CASE IsSaved(f)
        BY <2>1, <2>3, <3>2, <3>3, <3>4, <4>1, AppendProperties DEF Slots, SaveAs
      <4>2. CASE ~ IsSaved(f)
        BY <2>1, <2>3, <3>2, <3>3, <4>2 DEF Slots, SaveAs
      <4>. QED
        BY <4>1, <4>2
    <3>. QED
      BY <2>3, <3>1, <3>2, <3>5 DEF TypeOK, SaveAs
  <2>4. NeedsUpload(f) => Uploaded(f) \in DfsFiles
    BY <2>2, HandlersKeepFile DEF NeedsUpload, SameFile
  <2>5. SaveAs(f, f) \/ (NeedsUpload(f) /\ SaveAs(f, Uploaded(f))) \/ Tears
    BY <1>7 DEF SaveSlot
  <2>6. CASE SaveAs(f, f)
    BY <2>2, <2>3, <2>6
  <2>7. CASE NeedsUpload(f) /\ SaveAs(f, Uploaded(f))
    BY <2>3, <2>4, <2>7
  <2>8. CASE Tears
    BY <2>8, TearsType
  <2>. HIDE DEF f
  <2>. QED
    BY <2>5, <2>6, <2>7, <2>8
<1>8. CASE Exit
  <2>1. CASE mounted' = "down" /\ root_dir' = lines /\ Gone
    <3>1. Len(lines) <= MaxFile
      BY LenProperties, DirAssumption DEF TypeOK
    <3>. QED
      BY <2>1, <3>1, GoneType DEF TypeOK
  <2>. QED
    BY <1>8, <2>1, TearsType DEF Exit
<1>9. CASE Crash
  <2>1. CASE mounted' = "down" /\ Gone /\ UNCHANGED root_dir
    BY <2>1, GoneType DEF TypeOK
  <2>. QED
    BY <1>9, <2>1, TearsType DEF Crash
<1>10. CASE UNCHANGED vars
  BY <1>10 DEF vars, TypeOK
<1>. QED
  BY <1>1, <1>3, <1>4, <1>5, <1>6, <1>7, <1>8, <1>9, <1>10 DEF Next

(***************************************************************************)
(* The tables keep their types, and root.dir never has more lines than a   *)
(* mount has slots for, whoever unlinks and creates what.                  *)
(***************************************************************************)
THEOREM TypeCorrect == Spec => []TypeOK
BY TypesStart, TypesKeep, PTL DEF Spec


-----------------------------------------------------------------------------
(***************************************************************************)
(* The table, seen as a function fs from slots.                            *)
(***************************************************************************)
LiveSlots(fs) == {i \in Slots : fs[i] # NULL /\ fs[i].status # "REMOVED"}
FoundSlots(fs) == {i \in LiveSlots(fs) : Resolves(fs, i)}
FirstSlots(fs) == {i \in LiveSlots(fs) :
                     \A j \in LiveSlots(fs) : fs[j].name = fs[i].name => i <= j}
HidingNames(fs) == {n \in Names : \E i \in Slots :
                     Resolves(fs, i) /\ fs[i].name = n /\ fs[i].status = "REMOVED"}
PairsOf(fs, S) == {Pair(fs[i]) : i \in S}

LEMMA Views ==
    /\ Live = LiveSlots(files)
    /\ LiveFiles = PairsOf(files, LiveSlots(files))
    /\ FoundFiles = PairsOf(files, FoundSlots(files))
    /\ FirstFiles = PairsOf(files, FirstSlots(files))
    /\ Unlinked = HidingNames(files)
<1>1. Live = LiveSlots(files)
  BY DEF Live, LiveSlots
<1>2. {j \in Live : FirstLive(j)} = FirstSlots(files)
  BY <1>1 DEF FirstLive, FirstSlots
<1>3. Unlinked = HidingNames(files)
  BY DEF Unlinked, HidingNames, Find
<1>. QED
  BY <1>1, <1>2, <1>3 DEF LiveFiles, FoundFiles, FirstFiles, FoundSlots, PairsOf

\* The same of the next state.
LEMMA ViewsNext ==
    /\ LiveFiles' = PairsOf(files', LiveSlots(files'))
    /\ FoundFiles' = PairsOf(files', FoundSlots(files'))
    /\ FirstFiles' = PairsOf(files', FirstSlots(files'))
    /\ Unlinked' = HidingNames(files')
<1>1. (/\ LiveFiles = PairsOf(files, LiveSlots(files))
       /\ FoundFiles = PairsOf(files, FoundSlots(files))
       /\ FirstFiles = PairsOf(files, FirstSlots(files))
       /\ Unlinked = HidingNames(files))'
  BY Views, PTL
<1>. QED
  BY <1>1

LEMMA FoundAreFirst == \A fs : FoundSlots(fs) \subseteq FirstSlots(fs)
BY DEF FoundSlots, FirstSlots, Resolves, LiveSlots

\* Identities are those that were given out, and no two entries share one.
IdsUpTo(fs, c) == \A i \in Slots : fs[i] # NULL => fs[i].id <= c
IdsDiffer(fs) == \A i, j \in Slots :
    fs[i] # NULL /\ fs[j] # NULL /\ fs[i].id = fs[j].id => i = j

\* An entry that is freed when it is unlinked leaves no other of its name to
\* be found: the next one is REMOVED.
RemovedFollow(fs) == \A i, j \in Slots :
    /\ fs[i] # NULL /\ fs[i].status = "CREATED" /\ Resolves(fs, i)
    /\ fs[j] # NULL /\ fs[j].name = fs[i].name /\ j # i
    => \E r \in Slots : /\ fs[r] # NULL /\ fs[r].name = fs[i].name
                        /\ fs[r].status = "REMOVED" /\ r <= j

OthersFound(fs, h) == \A i \in LiveSlots(fs) : Resolves(fs, i) \/ fs[i].id \in h

TableInv(fs, h, c) ==
    IdsUpTo(fs, c) /\ IdsDiffer(fs) /\ RemovedFollow(fs) /\ OthersFound(fs, h)

\* Steps that leave each entry its name, its identity, and whether it is
\* REMOVED, and make none that counts as CREATED.
SameSlots(fs, gs) == \A i \in Slots :
    /\ fs[i] = NULL <=> gs[i] = NULL
    /\ fs[i] # NULL => /\ gs[i].name = fs[i].name /\ gs[i].id = fs[i].id
                       /\ gs[i].status = "REMOVED" <=> fs[i].status = "REMOVED"
                       /\ gs[i].status = "CREATED" => fs[i].status = "CREATED"

LEMMA SameViews ==
    ASSUME NEW fs, NEW gs, SameSlots(fs, gs)
    PROVE  /\ \A i \in Slots : Resolves(gs, i) <=> Resolves(fs, i)
           /\ LiveSlots(gs) = LiveSlots(fs)
           /\ FoundSlots(gs) = FoundSlots(fs)
           /\ FirstSlots(gs) = FirstSlots(fs)
           /\ HidingNames(gs) = HidingNames(fs)
           /\ PairsOf(gs, LiveSlots(fs)) = PairsOf(fs, LiveSlots(fs))
           /\ PairsOf(gs, FoundSlots(fs)) = PairsOf(fs, FoundSlots(fs))
           /\ PairsOf(gs, FirstSlots(fs)) = PairsOf(fs, FirstSlots(fs))
<1>1. \A i \in Slots : Resolves(gs, i) <=> Resolves(fs, i)
  BY DEF SameSlots, Resolves
<1>2. LiveSlots(gs) = LiveSlots(fs)
  BY DEF SameSlots, LiveSlots
<1>3. FoundSlots(gs) = FoundSlots(fs)
  BY <1>1, <1>2 DEF FoundSlots, LiveSlots
<1>4. FirstSlots(gs) = FirstSlots(fs)
  <2>1. \A i, j \in LiveSlots(fs) : gs[j].name = gs[i].name <=> fs[j].name = fs[i].name
    BY DEF SameSlots, LiveSlots
  <2>. QED
    BY <1>2, <2>1 DEF FirstSlots
<1>5. HidingNames(gs) = HidingNames(fs)
  <2>1. \A i \in Slots : Resolves(fs, i) => fs[i] # NULL
    BY DEF Resolves
  <2>. QED
    BY <1>1, <2>1 DEF HidingNames, SameSlots
<1>6. ASSUME NEW S \in SUBSET LiveSlots(fs) PROVE PairsOf(gs, S) = PairsOf(fs, S)
  <2>1. \A i \in S : Pair(gs[i]) = Pair(fs[i])
    BY DEF SameSlots, LiveSlots, Pair
  <2>. QED
    BY <2>1 DEF PairsOf
<1>7. FoundSlots(fs) \in SUBSET LiveSlots(fs) /\ FirstSlots(fs) \in SUBSET LiveSlots(fs)
  BY DEF FoundSlots, FirstSlots
<1>. QED
  BY <1>1, <1>2, <1>3, <1>4, <1>5, <1>6, <1>7

LEMMA SameTable ==
    ASSUME NEW fs, NEW gs, SameSlots(fs, gs), NEW h, NEW c, TableInv(fs, h, c)
    PROVE  TableInv(gs, h, c)
<1>. USE DEF TableInv
<1>1. \A i \in Slots : Resolves(gs, i) <=> Resolves(fs, i)
  BY SameViews
<1>2. IdsUpTo(gs, c)
  BY DEF SameSlots, IdsUpTo
<1>3. IdsDiffer(gs)
  BY DEF SameSlots, IdsDiffer
<1>4. RemovedFollow(gs)
  BY <1>1 DEF SameSlots, RemovedFollow
<1>5. OthersFound(gs, h)
  <2>1. LiveSlots(gs) = LiveSlots(fs)
    BY SameViews
  <2>. QED
    BY <1>1, <2>1 DEF SameSlots, OthersFound, LiveSlots
<1>. QED
  BY <1>2, <1>3, <1>4, <1>5

LEMMA FirstSlot == ASSUME NEW S \in SUBSET Slots, S # {} PROVE \E m \in S : \A x \in S : m <= x
<1>. DEFINE R == OpToRel(<, Nat)
<1>1. IsWellFoundedOn(R, Nat)
  BY NatLessThanWellFounded, Zenon
<1>2. \A x, y \in Nat : <<y, x>> \in R <=> y < x
  BY DEF OpToRel
<1>3. S \subseteq Nat
  BY DirAssumption DEF Slots
<1>. HIDE DEF R
<1>4. PICK m \in S : \A y \in S : ~ (<<y, m>> \in R)
  BY <1>1, <1>3, WFMin
<1>5. \A x \in S : ~ (x < m)
  BY <1>2, <1>3, <1>4
<1>. QED
  BY <1>3, <1>5

LEMMA FirstOfName ==
    ASSUME NEW fs, NEW j \in Slots, fs[j] # NULL
    PROVE  \E m \in Slots : m <= j /\ Resolves(fs, m) /\ fs[m].name = fs[j].name
<1>. DEFINE S == {x \in Slots : fs[x] # NULL /\ fs[x].name = fs[j].name}
<1>1. PICK m \in S : \A x \in S : m <= x
  BY FirstSlot
<1>. QED
  BY <1>1 DEF Resolves

\* What a new file in slot i adds to hidden.
HiddenAs(fs, n, i, c) ==
    {id \in {c + 1} : \E j \in Slots : j < i /\ Resolves(fs, j) /\ fs[j].name = n}

\* A new file of a name to which no live entry answers.
Adds(fs, gs, n, i, c) ==
    /\ \A j \in Slots : fs[j] # NULL => fs[j].id \in Nat
    /\ \A j \in Slots : Resolves(fs, j) /\ fs[j].name = n => fs[j].status = "REMOVED"
    /\ fs[i] = NULL /\ \A j \in Slots : j # i => gs[j] = fs[j]
    /\ gs[i] # NULL /\ gs[i].name = n /\ gs[i].id = c + 1 /\ gs[i].status = "CREATED"

IsNowFound(fs, gs, n, i) ==
    /\ FoundSlots(gs) = FoundSlots(fs) \cup {i}
    /\ HidingNames(gs) = HidingNames(fs) \ {n}
IsNowHidden(fs, gs, n) ==
    /\ FoundSlots(gs) = FoundSlots(fs) /\ HidingNames(gs) = HidingNames(fs)
    /\ n \in HidingNames(fs)

LEMMA CreateTable ==
    ASSUME NEW fs, NEW gs, NEW n \in Names, NEW i \in Slots, NEW h, NEW c \in Nat,
           TableInv(fs, h, c), Adds(fs, gs, n, i, c)
    PROVE  /\ TableInv(gs, h \cup HiddenAs(fs, n, i, c), c + 1)
           /\ LiveSlots(gs) = LiveSlots(fs) \cup {i}
           /\ \A j \in FoundSlots(fs) : fs[j].name # n
           /\ IsNowFound(fs, gs, n, i) \/ IsNowHidden(fs, gs, n)
<1>. USE DEF TableInv, HiddenAs, Adds, IsNowFound, IsNowHidden
<1>. DEFINE g == h \cup HiddenAs(fs, n, i, c)
            Behind == \E j \in Slots : j < i /\ Resolves(fs, j) /\ fs[j].name = n
<1>1. \A j \in Slots : j \in Nat
  BY DirAssumption DEF Slots
<1>2. ASSUME NEW j \in Slots, j # i, fs[j] # NULL => fs[j].name # n
      PROVE  Resolves(gs, j) <=> Resolves(fs, j)
  BY <1>2 DEF Resolves
<1>3. LiveSlots(gs) = LiveSlots(fs) \cup {i}
  BY DEF LiveSlots
<1>4. \A j \in FoundSlots(fs) : fs[j].name # n
  BY DEF FoundSlots, LiveSlots
<1>5. IdsUpTo(gs, c + 1)
  <2>. SUFFICES ASSUME NEW j \in Slots, gs[j] # NULL PROVE gs[j].id <= c + 1
    BY DEF IdsUpTo
  <2>1. CASE j = i
    BY <2>1
  <2>2. CASE j # i
    <3>1. fs[j].id \in Nat /\ fs[j].id <= c /\ gs[j] = fs[j]
      BY <2>2 DEF IdsUpTo
    <3>. QED
      BY <3>1
  <2>. QED
    BY <2>1, <2>2
<1>6. IdsDiffer(gs)
  <2>1. ASSUME NEW j \in Slots, j # i, gs[j] # NULL PROVE gs[j].id # c + 1
    <3>1. fs[j].id \in Nat /\ fs[j].id <= c /\ gs[j] = fs[j]
      BY <2>1 DEF IdsUpTo
    <3>. QED
      BY <3>1
  <2>. QED
    BY <2>1 DEF IdsDiffer
<1>7. CASE Behind
  <2>1. PICK b \in Slots : b < i /\ Resolves(fs, b) /\ fs[b].name = n
    BY <1>7
  <2>2. fs[b].status = "REMOVED" /\ fs[b] # NULL /\ b # i
    BY <1>1, <2>1 DEF Resolves
  <2>3. ~ Resolves(gs, i)
    BY <1>1, <2>1, <2>2 DEF Resolves
  <2>4. ASSUME NEW j \in Slots, j # i PROVE Resolves(gs, j) <=> Resolves(fs, j)
    <3>1. CASE fs[j] # NULL /\ fs[j].name = n
      <4>1. Resolves(fs, j) => j <= b
        BY <2>1, <2>2, <3>1 DEF Resolves
      <4>2. Resolves(fs, j) => j <= i
        BY <1>1, <2>1, <4>1
      <4>. QED
        BY <2>4, <3>1, <4>2 DEF Resolves
    <3>. QED
      BY <1>2, <2>4, <3>1
  <2>5. FoundSlots(gs) = FoundSlots(fs)
    BY <1>3, <2>3, <2>4 DEF FoundSlots, LiveSlots
  <2>6. HidingNames(gs) = HidingNames(fs)
    BY <2>3, <2>4 DEF HidingNames, Resolves
  <2>7. n \in HidingNames(fs)
    BY <2>1, <2>2 DEF HidingNames
  <2>8. RemovedFollow(gs)
    <3>. SUFFICES ASSUME NEW p \in Slots, NEW j \in Slots,
                         gs[p] # NULL, gs[p].status = "CREATED", Resolves(gs, p),
                         gs[j] # NULL, gs[j].name = gs[p].name, j # p
         PROVE  \E r \in Slots : /\ gs[r] # NULL /\ gs[r].name = gs[p].name
                                 /\ gs[r].status = "REMOVED" /\ r <= j
      BY DEF RemovedFollow
    <3>1. p # i /\ Resolves(fs, p) /\ gs[p] = fs[p]
      BY <2>3, <2>4
    <3>2. fs[p].name # n
      BY <3>1
    <3>3. j # i /\ gs[j] = fs[j]
      BY <3>1, <3>2
    <3>4. PICK r \in Slots : /\ fs[r] # NULL /\ fs[r].name = fs[p].name
                             /\ fs[r].status = "REMOVED" /\ r <= j
      BY <3>1, <3>3 DEF RemovedFollow
    <3>5. r # i /\ gs[r] = fs[r]
      BY <3>4
    <3>. QED
      BY <3>1, <3>4, <3>5
  <2>9. OthersFound(gs, g)
    <3>. SUFFICES ASSUME NEW j \in LiveSlots(gs) PROVE Resolves(gs, j) \/ gs[j].id \in g
      BY DEF OthersFound
    <3>1. CASE j = i
      BY <1>7, <3>1
    <3>2. CASE j # i
      BY <1>3, <2>4, <3>2 DEF OthersFound, LiveSlots
    <3>. QED
      BY <3>1, <3>2
  <2>. QED
    BY <1>3, <1>4, <1>5, <1>6, <2>5, <2>6, <2>7, <2>8, <2>9
<1>8. CASE ~ Behind
  <2>1. ASSUME NEW j \in Slots, fs[j] # NULL, fs[j].name = n PROVE i < j
    <3>1. PICK m \in Slots : m <= j /\ Resolves(fs, m) /\ fs[m].name = n
      BY <2>1, FirstOfName
    <3>2. ~ m < i /\ m # i
      BY <1>8, <3>1 DEF Resolves
    <3>. QED
      BY <1>1, <3>1, <3>2
  <2>2. Resolves(gs, i)
    BY <1>1, <2>1 DEF Resolves
  <2>3. ASSUME NEW j \in Slots, j # i PROVE Resolves(gs, j) <=> Resolves(fs, j) /\ fs[j].name # n
    <3>1. CASE fs[j] # NULL /\ fs[j].name = n
      BY <1>1, <2>1, <2>3, <3>1 DEF Resolves
    <3>2. CASE fs[j] = NULL
      BY <2>3, <3>2 DEF Resolves
    <3>. QED
      BY <1>2, <2>3, <3>1, <3>2
  <2>4. FoundSlots(gs) = FoundSlots(fs) \cup {i}
    BY <1>3, <1>4, <2>2, <2>3 DEF FoundSlots, LiveSlots
  <2>5. HidingNames(gs) = HidingNames(fs) \ {n}
    <3>1. \A p \in Slots : Resolves(gs, p) /\ gs[p].status = "REMOVED" =>
            p # i /\ Resolves(fs, p) /\ fs[p].name # n /\ gs[p] = fs[p]
      BY <2>3
    <3>2. \A p \in Slots : Resolves(fs, p) /\ fs[p].name # n =>
            p # i /\ Resolves(gs, p) /\ gs[p] = fs[p]
      BY <2>3 DEF Resolves
    <3>. QED
      BY <3>1, <3>2 DEF HidingNames
  <2>6. RemovedFollow(gs)
    <3>. SUFFICES ASSUME NEW p \in Slots, NEW j \in Slots,
                         gs[p] # NULL, gs[p].status = "CREATED", Resolves(gs, p),
                         gs[j] # NULL, gs[j].name = gs[p].name, j # p
         PROVE  \E r \in Slots : /\ gs[r] # NULL /\ gs[r].name = gs[p].name
                                 /\ gs[r].status = "REMOVED" /\ r <= j
      BY DEF RemovedFollow
    <3>1. CASE p = i
      <4>1. fs[j] # NULL /\ fs[j].name = n
        BY <3>1
      <4>2. PICK m \in Slots : m <= j /\ Resolves(fs, m) /\ fs[m].name = n
        BY <4>1, FirstOfName
      <4>3. fs[m].status = "REMOVED" /\ fs[m] # NULL /\ m # i
        BY <4>2 DEF Resolves
      <4>. QED
        BY <3>1, <4>2, <4>3
    <3>2. CASE p # i
      <4>1. Resolves(fs, p) /\ gs[p] = fs[p] /\ fs[p].name # n
        BY <2>3, <3>2
      <4>2. j # i /\ gs[j] = fs[j]
        BY <4>1
      <4>3. PICK r \in Slots : /\ fs[r] # NULL /\ fs[r].name = fs[p].name
                               /\ fs[r].status = "REMOVED" /\ r <= j
        BY <4>1, <4>2 DEF RemovedFollow
      <4>4. r # i /\ gs[r] = fs[r]
        BY <4>3
      <4>. QED
        BY <4>1, <4>3, <4>4
    <3>. QED
      BY <3>1, <3>2
  <2>7. OthersFound(gs, g)
    <3>. SUFFICES ASSUME NEW j \in LiveSlots(gs) PROVE Resolves(gs, j) \/ gs[j].id \in g
      BY DEF OthersFound
    <3>1. CASE j = i
      BY <2>2, <3>1
    <3>2. CASE j # i
      <4>1. j \in LiveSlots(fs) /\ gs[j] = fs[j]
        BY <1>3, <3>2 DEF LiveSlots
      <4>2. fs[j].id \in h \/ Resolves(fs, j)
        BY <4>1 DEF OthersFound
      <4>3. Resolves(fs, j) => fs[j].name # n
        BY <4>1 DEF LiveSlots
      <4>. QED
        BY <2>3, <3>2, <4>1, <4>2, <4>3 DEF LiveSlots
    <3>. QED
      BY <3>1, <3>2
  <2>. QED
    BY <1>3, <1>4, <1>5, <1>6, <2>4, <2>5, <2>6, <2>7
<1>. QED
  BY <1>7, <1>8

\* An entry that is found is unlinked: freed, or marked.
LEMMA UnlinkTable ==
    ASSUME NEW fs, NEW gs, NEW i \in Slots, NEW h, NEW c, TableInv(fs, h, c),
           i \in FoundSlots(fs), \A j \in Slots : j # i => gs[j] = fs[j],
           \/ gs[i] = NULL /\ fs[i].status = "CREATED"
           \/ /\ gs[i] # NULL /\ gs[i].name = fs[i].name /\ gs[i].id = fs[i].id
              /\ gs[i].status = "REMOVED"
    PROVE  /\ TableInv(gs, h, c)
           /\ LiveSlots(gs) = LiveSlots(fs) \ {i}
           /\ FoundSlots(gs) = FoundSlots(fs) \ {i}
           /\ HidingNames(gs) \in {HidingNames(fs), HidingNames(fs) \cup {fs[i].name}}
<1>. USE DEF TableInv
<1>. DEFINE n == fs[i].name
<1>1. \A j \in Slots : j \in Nat
  BY DirAssumption DEF Slots
<1>2. fs[i] # NULL /\ fs[i].status # "REMOVED" /\ Resolves(fs, i)
  BY DEF FoundSlots, LiveSlots
<1>3. ASSUME NEW j \in Slots, j # i, fs[j] # NULL, fs[j].name = n PROVE ~ Resolves(fs, j)
  <2>1. i <= j
    BY <1>2, <1>3 DEF Resolves
  <2>2. Resolves(fs, j) => j <= i
    BY <1>2, <1>3 DEF Resolves
  <2>. QED
    BY <1>1, <1>3, <2>1, <2>2
<1>4. ASSUME NEW j \in Slots, fs[j] # NULL => fs[j].name # n
      PROVE  Resolves(gs, j) <=> Resolves(fs, j)
  <2>1. j # i /\ gs[j] = fs[j]
    BY <1>2, <1>4
  <2>2. \A x \in Slots : /\ gs[x] # NULL /\ gs[x].name = fs[j].name /\ fs[j] # NULL
                            => fs[x] # NULL /\ fs[x].name = fs[j].name
    BY <1>2
  <2>3. \A x \in Slots : /\ fs[x] # NULL /\ fs[x].name = fs[j].name /\ fs[j] # NULL
                            => gs[x] # NULL /\ gs[x].name = fs[j].name
    BY <1>2, <1>4
  <2>. QED
    BY <2>1, <2>2, <2>3 DEF Resolves
<1>5. LiveSlots(gs) = LiveSlots(fs) \ {i}
  BY DEF LiveSlots
<1>6. IdsUpTo(gs, c) /\ IdsDiffer(gs)
  <2>1. \A j \in Slots : gs[j] # NULL => fs[j] # NULL /\ gs[j].id = fs[j].id
    BY <1>2
  <2>. QED
    BY <2>1 DEF IdsUpTo, IdsDiffer
<1>7. ASSUME NEW j \in Slots, j # i, fs[j] # NULL, fs[j].name = n, Resolves(gs, j)
      PROVE  fs[j].status = "REMOVED"
  <2>1. CASE gs[i] = NULL
    <3>1. PICK r \in Slots : fs[r] # NULL /\ fs[r].name = n /\ fs[r].status = "REMOVED" /\ r <= j
      BY <1>2, <1>7, <2>1 DEF RemovedFollow
    <3>2. gs[r] = fs[r] /\ gs[j] = fs[j]
      BY <1>2, <1>7, <3>1
    <3>3. j <= r
      BY <1>7, <3>1, <3>2 DEF Resolves
    <3>. QED
      BY <1>1, <3>1, <3>3
  <2>2. CASE gs[i] # NULL
    <3>1. i <= j
      BY <1>2, <1>7 DEF Resolves
    <3>2. j <= i
      BY <1>7, <2>2 DEF Resolves
    <3>. QED
      BY <1>1, <1>7, <3>1, <3>2
  <2>. QED
    BY <2>1, <2>2
<1>8. FoundSlots(gs) = FoundSlots(fs) \ {i}
  <2>1. ASSUME NEW j \in LiveSlots(fs), j # i PROVE Resolves(gs, j) <=> Resolves(fs, j)
    BY <1>3, <1>4, <1>7, <2>1 DEF LiveSlots
  <2>. QED
    BY <1>5, <2>1 DEF FoundSlots
<1>9. RemovedFollow(gs)
  <2>. SUFFICES ASSUME NEW p \in Slots, NEW j \in Slots,
                       gs[p] # NULL, gs[p].status = "CREATED", Resolves(gs, p),
                       gs[j] # NULL, gs[j].name = gs[p].name, j # p
       PROVE  \E r \in Slots : /\ gs[r] # NULL /\ gs[r].name = gs[p].name
                               /\ gs[r].status = "REMOVED" /\ r <= j
    BY DEF RemovedFollow
  <2>1. p # i /\ gs[p] = fs[p]
    OBVIOUS
  <2>2. fs[p].name # n
    BY <1>7, <2>1
  <2>3. Resolves(fs, p) /\ j # i /\ gs[j] = fs[j]
    BY <1>4, <2>1, <2>2
  <2>4. PICK r \in Slots : /\ fs[r] # NULL /\ fs[r].name = fs[p].name
                           /\ fs[r].status = "REMOVED" /\ r <= j
    BY <2>1, <2>3 DEF RemovedFollow
  <2>5. r # i /\ gs[r] = fs[r]
    BY <2>2, <2>4
  <2>. QED
    BY <2>1, <2>4, <2>5
<1>10. OthersFound(gs, h)
  <2>. SUFFICES ASSUME NEW j \in LiveSlots(gs) PROVE Resolves(gs, j) \/ gs[j].id \in h
    BY DEF OthersFound
  <2>1. j \in LiveSlots(fs) /\ j # i /\ gs[j] = fs[j]
    BY <1>5 DEF LiveSlots
  <2>2. Resolves(fs, j) \/ fs[j].id \in h
    BY <2>1 DEF OthersFound
  <2>. QED
    BY <1>3, <1>4, <2>1, <2>2 DEF LiveSlots
<1>11. HidingNames(gs) \in {HidingNames(fs), HidingNames(fs) \cup {n}}
  <2>1. \A m \in Names : m # n => (m \in HidingNames(gs) <=> m \in HidingNames(fs))
    <3>1. ASSUME NEW j \in Slots, NEW m, m # n, Resolves(gs, j), gs[j].name = m
          PROVE  Resolves(fs, j) /\ gs[j] = fs[j]
      <4>1. gs[j] # NULL
        BY <3>1 DEF Resolves
      <4>2. j # i /\ gs[j] = fs[j]
        BY <3>1, <4>1
      <4>. QED
        BY <1>4, <3>1, <4>2
    <3>2. ASSUME NEW j \in Slots, NEW m, m # n, Resolves(fs, j), fs[j].name = m
          PROVE  Resolves(gs, j) /\ gs[j] = fs[j]
      BY <1>4, <3>2
    <3>. QED
      BY <3>1, <3>2 DEF HidingNames
  <2>2. n \notin HidingNames(fs)
    <3>1. \A j \in Slots : Resolves(fs, j) /\ fs[j].name = n => j = i
      BY <1>3 DEF Resolves
    <3>. QED
      BY <1>2, <3>1 DEF HidingNames
  <2>3. HidingNames(gs) \subseteq Names /\ HidingNames(fs) \subseteq Names
    BY DEF HidingNames
  <2>4. CASE n \in HidingNames(gs)
    BY <2>1, <2>2, <2>3, <2>4
  <2>5. CASE n \notin HidingNames(gs)
    BY <2>1, <2>2, <2>3, <2>5
  <2>. QED
    BY <2>4, <2>5
<1>. QED
  BY <1>5, <1>6, <1>8, <1>9, <1>10, <1>11

-----------------------------------------------------------------------------
(***************************************************************************)
(* Lines, in root.dir and in the buffer of save.                           *)
(***************************************************************************)
LineIds(ls) == \A k, j \in 1 .. Len(ls) : ls[k].id = ls[j].id => k = j

LinesInv(ls, h, c) ==
    /\ \A k \in 1 .. Len(ls) : ls[k].id <= c /\ (FirstLine(ls, k) \/ ls[k].id \in h)
    /\ LineIds(ls)

LEMMA NoLines ==
    /\ Len(<<>>) = 0 /\ \A h, c : LinesInv(<<>>, h, c)
    /\ LineFiles(<<>>) = {} /\ FirstLines(<<>>) = {}
<1>1. Len(<<>>) = 0
  OBVIOUS
<1>. QED
  BY <1>1 DEF LinesInv, LineIds, LineFiles, FirstLines

\* What is left of root.dir when save is interrupted.
LEMMA SomeLines ==
    ASSUME NEW ls \in Seq(Lines), NEW k \in 0 .. Len(ls), NEW h, NEW c, LinesInv(ls, h, c),
           NEW t, t = SubSeq(ls, 1, k)
    PROVE  /\ LinesInv(t, h, c)
           /\ LineFiles(t) \subseteq LineFiles(ls) /\ FirstLines(t) \subseteq FirstLines(ls)
<1>1. Len(ls) \in Nat
  BY LenProperties
<1>2. Len(t) = k /\ \A j \in 1 .. k : t[j] = ls[j] /\ j \in 1 .. Len(ls)
  BY <1>1, SubSeqProperties
<1>3. \A j \in 1 .. k : FirstLine(t, j) <=> FirstLine(ls, j)
  <2>. SUFFICES ASSUME NEW j \in 1 .. k PROVE FirstLine(t, j) <=> FirstLine(ls, j)
    OBVIOUS
  <2>1. \A x \in 1 .. Len(ls) : x \in 1 .. k \/ j <= x
    BY <1>1
  <2>. QED
    BY <1>2, <2>1 DEF FirstLine
<1>. QED
  BY <1>2, <1>3 DEF LinesInv, LineIds, LineFiles, FirstLines

\* A mount puts the lines ls into the slots, in their order.
LEMMA MountTable ==
    ASSUME NEW ls \in Seq(Lines), Len(ls) <= MaxFile, NEW gs, NEW h, NEW c, LinesInv(ls, h, c),
           \A i \in Slots : gs[i] = IF i < Len(ls) THEN LoadedFile(ls[i + 1]) ELSE NULL
    PROVE  /\ TableInv(gs, h, c)
           /\ PairsOf(gs, LiveSlots(gs)) = LineFiles(ls)
           /\ PairsOf(gs, FoundSlots(gs)) = FirstLines(ls)
           /\ HidingNames(gs) = {}
<1>1. Len(ls) \in Nat
  BY LenProperties
<1>2. ASSUME NEW i \in Slots
      PROVE  /\ gs[i] # NULL <=> i < Len(ls)
             /\ i < Len(ls) => /\ i + 1 \in 1 .. Len(ls)
                               /\ gs[i].name = ls[i + 1].name /\ gs[i].id = ls[i + 1].id
                               /\ gs[i].status = "SYNCED"
  <2>1. i < Len(ls) => i + 1 \in 1 .. Len(ls)
    BY <1>1, DirAssumption DEF Slots
  <2>2. i < Len(ls) => ls[i + 1] \in Lines
    BY <2>1
  <2>. QED
    BY <2>1, <2>2, LoadedFileType, NullAssumption
<1>3. \A k \in 1 .. Len(ls) : k - 1 \in Slots /\ k - 1 < Len(ls) /\ (k - 1) + 1 = k
  BY <1>1, DirAssumption DEF Slots
<1>4. LiveSlots(gs) = {i \in Slots : i < Len(ls)}
  BY <1>2 DEF LiveSlots
<1>5. ASSUME NEW i \in Slots, i < Len(ls)
      PROVE  Resolves(gs, i) <=> FirstLine(ls, i + 1)
  <2>1. ASSUME Resolves(gs, i), NEW k \in 1 .. Len(ls), ls[k].name = ls[i + 1].name
        PROVE  i + 1 <= k
    <3>1. /\ gs[k - 1] # NULL /\ gs[k - 1].name = gs[i].name
      BY <1>2, <1>3, <1>5, <2>1
    <3>2. i <= k - 1
      BY <1>3, <2>1, <3>1 DEF Resolves
    <3>. QED
      BY <3>2, <1>1, DirAssumption DEF Slots
  <2>2. ASSUME FirstLine(ls, i + 1), NEW j \in Slots, gs[j] # NULL, gs[j].name = gs[i].name
        PROVE  i <= j
    <3>1. j < Len(ls) /\ j + 1 \in 1 .. Len(ls) /\ ls[j + 1].name = ls[i + 1].name
      BY <1>2, <1>5, <2>2
    <3>2. i + 1 <= j + 1
      BY <2>2, <3>1 DEF FirstLine
    <3>. QED
      BY <3>2, DirAssumption DEF Slots
  <2>. QED
    BY <1>2, <1>5, <2>1, <2>2 DEF Resolves, FirstLine
<1>6. TableInv(gs, h, c)
  <2>1. IdsUpTo(gs, c)
    BY <1>2 DEF IdsUpTo, LinesInv
  <2>2. IdsDiffer(gs)
    <3>. SUFFICES ASSUME NEW i \in Slots, NEW j \in Slots, gs[i] # NULL, gs[j] # NULL,
                         gs[i].id = gs[j].id
         PROVE  i = j
      BY DEF IdsDiffer
    <3>1. i + 1 = j + 1
      BY <1>2 DEF LinesInv, LineIds
    <3>. QED
      BY <3>1, DirAssumption DEF Slots
  <2>3. RemovedFollow(gs)
    BY <1>2 DEF RemovedFollow
  <2>4. OthersFound(gs, h)
    BY <1>2, <1>4, <1>5 DEF OthersFound, LinesInv
  <2>. QED
    BY <2>1, <2>2, <2>3, <2>4 DEF TableInv
<1>7. \A i \in Slots : i < Len(ls) => Pair(gs[i]) = Pair(ls[i + 1])
  BY <1>2 DEF Pair
<1>8. PairsOf(gs, LiveSlots(gs)) = LineFiles(ls)
  <2>1. PairsOf(gs, LiveSlots(gs)) \subseteq LineFiles(ls)
    BY <1>2, <1>4, <1>7 DEF PairsOf, LineFiles
  <2>2. ASSUME NEW k \in 1 .. Len(ls) PROVE Pair(ls[k]) \in PairsOf(gs, LiveSlots(gs))
    <3>1. k - 1 \in LiveSlots(gs) /\ Pair(gs[k - 1]) = Pair(ls[k])
      BY <1>3, <1>4, <1>7
    <3>. QED
      BY <3>1 DEF PairsOf
  <2>. QED
    BY <2>1, <2>2 DEF LineFiles
<1>9. PairsOf(gs, FoundSlots(gs)) = FirstLines(ls)
  <2>1. PairsOf(gs, FoundSlots(gs)) \subseteq FirstLines(ls)
    <3>. SUFFICES ASSUME NEW i \in FoundSlots(gs) PROVE Pair(gs[i]) \in FirstLines(ls)
      BY DEF PairsOf
    <3>1. i \in Slots /\ i < Len(ls) /\ Resolves(gs, i)
      BY <1>4 DEF FoundSlots
    <3>. QED
      BY <1>2, <1>5, <1>7, <3>1 DEF FirstLines
  <2>2. ASSUME NEW k \in 1 .. Len(ls), FirstLine(ls, k)
        PROVE  Pair(ls[k]) \in PairsOf(gs, FoundSlots(gs))
    <3>1. PICK i \in Slots : i = k - 1 /\ i < Len(ls) /\ i + 1 = k
      BY <1>3
    <3>2. i \in FoundSlots(gs) /\ Pair(gs[i]) = Pair(ls[k])
      BY <1>4, <1>5, <1>7, <2>2, <3>1 DEF FoundSlots
    <3>. QED
      BY <3>2 DEF PairsOf
  <2>. QED
    BY <2>1, <2>2 DEF FirstLines
<1>10. HidingNames(gs) = {}
  BY <1>2 DEF HidingNames, Resolves
<1>. QED
  BY <1>6, <1>8, <1>9, <1>10

-----------------------------------------------------------------------------
(***************************************************************************)
(* While save is running: the lines ls are those of the slots before s,    *)
(* and the first line of a name is that of the first of its files.         *)
(***************************************************************************)
PrintedFrom(fs, ls, k, i) ==
    Pair(ls[k]) = Pair(fs[i]) /\ (FirstLine(ls, k) <=> i \in FirstSlots(fs))

SavesInv(fs, ls, s) ==
    /\ \A k \in 1 .. Len(ls) : \E i \in LiveSlots(fs) : i < s /\ PrintedFrom(fs, ls, k, i)
    /\ \A i \in LiveSlots(fs) : i < s => \E k \in 1 .. Len(ls) : PrintedFrom(fs, ls, k, i)
    /\ LineIds(ls)

LEMMA SaveNothing == \A fs : SavesInv(fs, <<>>, 0)
<1>1. \A fs : \A i \in LiveSlots(fs) : ~ i < 0
  BY DirAssumption DEF LiveSlots, Slots
<1>. QED
  BY <1>1, NoLines DEF SavesInv, LineIds

LEMMA SavesSame ==
    ASSUME NEW fs, NEW gs, SameSlots(fs, gs), NEW ls, NEW s, SavesInv(fs, ls, s)
    PROVE  SavesInv(gs, ls, s)
<1>1. LiveSlots(gs) = LiveSlots(fs) /\ FirstSlots(gs) = FirstSlots(fs)
  BY SameViews
<1>2. \A i \in LiveSlots(fs) : Pair(gs[i]) = Pair(fs[i])
  BY DEF SameSlots, LiveSlots, Pair
<1>. QED
  BY <1>1, <1>2 DEF SavesInv, PrintedFrom

\* A slot is passed that has nothing to print.
LEMMA SavePasses ==
    ASSUME NEW fs, NEW ls, NEW s \in Slots, SavesInv(fs, ls, s), s \notin LiveSlots(fs)
    PROVE  SavesInv(fs, ls, s + 1)
<1>1. \A i \in LiveSlots(fs) : i < s + 1 <=> i < s
  BY DirAssumption DEF LiveSlots, Slots
<1>. QED
  BY <1>1 DEF SavesInv

\* A slot is printed.
LEMMA SavePrints ==
    ASSUME NEW fs, NEW ls \in Seq(Lines), NEW s \in Slots, SavesInv(fs, ls, s),
           s \in LiveSlots(fs), IdsDiffer(fs),
           NEW l \in Lines, l.name = fs[s].name, l.id = fs[s].id,
           NEW ms, ms = Append(ls, l)
    PROVE  SavesInv(fs, ms, s + 1)
<1>. DEFINE n == Len(ls)
<1>1. n \in Nat /\ s \in Int
  BY LenProperties, DirAssumption DEF Slots
<1>2. /\ Len(ms) = n + 1
      /\ \A k \in 1 .. n : ms[k] = ls[k]
      /\ ms[n + 1] = l
  BY <1>1, AppendProperties
<1>3. \A k \in 1 .. n + 1 : k \in 1 .. n \/ k = n + 1
  BY <1>1
<1>4. \A k \in 1 .. n : k \in 1 .. n + 1 /\ k <= n + 1
  BY <1>1
<1>5. \A i \in LiveSlots(fs) : i \in Int /\ (i < s + 1 <=> i < s \/ i = s) /\ i \in Slots
  BY <1>1, DirAssumption DEF LiveSlots, Slots
<1>6. \A k \in 1 .. n : FirstLine(ms, k) <=> FirstLine(ls, k)
  BY <1>2, <1>3, <1>4 DEF FirstLine
<1>7. ASSUME NEW k \in 1 .. n
      PROVE  \E i \in LiveSlots(fs) : i < s /\ PrintedFrom(fs, ms, k, i)
  <2>1. PICK i \in LiveSlots(fs) : i < s /\ PrintedFrom(fs, ls, k, i)
    BY DEF SavesInv
  <2>. QED
    BY <1>2, <1>6, <2>1 DEF PrintedFrom
<1>8. Pair(ms[n + 1]) = Pair(fs[s])
  BY <1>2 DEF Pair
<1>9. FirstLine(ms, n + 1) <=> s \in FirstSlots(fs)
  <2>1. ASSUME FirstLine(ms, n + 1), NEW j \in LiveSlots(fs), fs[j].name = fs[s].name
        PROVE  s <= j
    <3>. SUFFICES ASSUME j < s PROVE FALSE
      BY <1>1, <1>5
    <3>1. PICK k \in 1 .. n : PrintedFrom(fs, ls, k, j)
      BY DEF SavesInv
    <3>2. ms[k].name = ms[n + 1].name /\ k \in 1 .. n + 1
      BY <1>2, <1>4, <2>1, <3>1 DEF PrintedFrom, Pair
    <3>3. n + 1 <= k
      BY <1>2, <2>1, <3>2 DEF FirstLine
    <3>. QED
      BY <1>1, <3>3
  <2>2. ASSUME s \in FirstSlots(fs), NEW k \in 1 .. n, ms[k].name = ms[n + 1].name
        PROVE  FALSE
    <3>1. PICK i \in LiveSlots(fs) : i < s /\ PrintedFrom(fs, ls, k, i)
      BY DEF SavesInv
    <3>2. fs[i].name = fs[s].name
      BY <1>2, <2>2, <3>1 DEF PrintedFrom, Pair
    <3>3. s <= i
      BY <2>2, <3>2 DEF FirstSlots
    <3>. QED
      BY <1>1, <1>5, <3>1, <3>3
  <2>3. s \in FirstSlots(fs) => FirstLine(ms, n + 1)
    BY <1>1, <1>2, <1>3, <2>2 DEF FirstLine
  <2>. QED
    BY <2>1, <2>3 DEF FirstSlots
<1>10. PrintedFrom(fs, ms, n + 1, s) /\ n + 1 \in 1 .. n + 1
  BY <1>1, <1>8, <1>9 DEF PrintedFrom
<1>11. ASSUME NEW k \in 1 .. n + 1
       PROVE  \E i \in LiveSlots(fs) : i < s + 1 /\ PrintedFrom(fs, ms, k, i)
  <2>1. CASE k = n + 1
    BY <1>5, <1>10, <2>1
  <2>2. CASE k \in 1 .. n
    BY <1>5, <1>7, <2>2
  <2>. QED
    BY <1>3, <2>1, <2>2
<1>12. ASSUME NEW i \in LiveSlots(fs), i < s + 1
       PROVE  \E k \in 1 .. n + 1 : PrintedFrom(fs, ms, k, i)
  <2>1. CASE i = s
    BY <1>10, <2>1
  <2>2. CASE i < s
    <3>1. PICK k \in 1 .. n : PrintedFrom(fs, ls, k, i)
      BY <2>2 DEF SavesInv
    <3>2. k \in 1 .. n + 1 /\ PrintedFrom(fs, ms, k, i)
      BY <1>2, <1>4, <1>6, <3>1 DEF PrintedFrom
    <3>. QED
      BY <3>2
  <2>. QED
    BY <1>5, <1>12, <2>1, <2>2
<1>13. LineIds(ms)
  <2>1. ASSUME NEW k \in 1 .. n PROVE ls[k].id # l.id
    <3>1. PICK i \in LiveSlots(fs) : i < s /\ PrintedFrom(fs, ls, k, i)
      BY DEF SavesInv
    <3>2. i # s /\ ls[k].id = fs[i].id
      BY <1>1, <1>5, <3>1 DEF PrintedFrom, Pair
    <3>. QED
      BY <3>2 DEF IdsDiffer, LiveSlots
  <2>. QED
    BY <1>2, <1>3, <2>1 DEF SavesInv, LineIds
<1>. QED
  BY <1>2, <1>11, <1>12, <1>13 DEF SavesInv

\* What save has printed are live files, in the end all of them.
LEMMA PrintedFiles ==
    ASSUME NEW fs, NEW ls, NEW s, SavesInv(fs, ls, s)
    PROVE  /\ LineFiles(ls) \subseteq PairsOf(fs, LiveSlots(fs))
           /\ FirstLines(ls) \subseteq PairsOf(fs, FirstSlots(fs))
           /\ s = MaxFile => /\ LineFiles(ls) = PairsOf(fs, LiveSlots(fs))
                             /\ FirstLines(ls) = PairsOf(fs, FirstSlots(fs))
<1>1. LineFiles(ls) \subseteq PairsOf(fs, LiveSlots(fs))
  BY DEF SavesInv, PrintedFrom, LineFiles, PairsOf
<1>2. FirstLines(ls) \subseteq PairsOf(fs, FirstSlots(fs))
  BY DEF SavesInv, PrintedFrom, FirstLines, PairsOf
<1>3. ASSUME s = MaxFile, NEW i \in LiveSlots(fs)
      PROVE  \E k \in 1 .. Len(ls) : PrintedFrom(fs, ls, k, i)
  <2>1. i < s
    BY <1>3, DirAssumption DEF LiveSlots, Slots
  <2>. QED
    BY <2>1 DEF SavesInv
<1>4. s = MaxFile => PairsOf(fs, LiveSlots(fs)) \subseteq LineFiles(ls)
  BY <1>3 DEF PrintedFrom, LineFiles, PairsOf
<1>5. s = MaxFile => PairsOf(fs, FirstSlots(fs)) \subseteq FirstLines(ls)
  <2>1. FirstSlots(fs) \subseteq LiveSlots(fs)
    BY DEF FirstSlots
  <2>. QED
    BY <1>3, <2>1 DEF PrintedFrom, FirstLines, PairsOf
<1>. QED
  BY <1>1, <1>2, <1>4, <1>5

LEMMA PrintedLines ==
    ASSUME NEW fs, NEW ls, NEW s, SavesInv(fs, ls, s), NEW h, NEW c, TableInv(fs, h, c)
    PROVE  LinesInv(ls, h, c)
<1>1. ASSUME NEW k \in 1 .. Len(ls)
      PROVE  ls[k].id <= c /\ (FirstLine(ls, k) \/ ls[k].id \in h)
  <2>1. PICK i \in LiveSlots(fs) : PrintedFrom(fs, ls, k, i)
    BY DEF SavesInv
  <2>2. ls[k].id = fs[i].id /\ fs[i] # NULL /\ i \in Slots
    BY <2>1 DEF PrintedFrom, Pair, LiveSlots
  <2>3. Resolves(fs, i) => i \in FirstSlots(fs)
    BY FoundAreFirst DEF FoundSlots
  <2>. QED
    BY <2>1, <2>2, <2>3 DEF PrintedFrom, TableInv, IdsUpTo, OthersFound
<1>. QED
  BY <1>1 DEF SavesInv, LinesInv

\* Of the files of one name, root.dir will lead to exactly one.
LEMMA OneFirst ==
    ASSUME NEW fs, NEW i \in LiveSlots(fs), \A j \in LiveSlots(fs) : fs[j].id \in Ids
    PROVE  \E id \in Ids : \A other \in Ids :
             <<fs[i].name, other>> \in PairsOf(fs, FirstSlots(fs)) <=> other = id
<1>. DEFINE S == {x \in LiveSlots(fs) : fs[x].name = fs[i].name}
<1>1. S \in SUBSET Slots /\ S # {}
  BY DEF LiveSlots
<1>2. PICK m \in S : \A x \in S : m <= x
  BY <1>1, FirstSlot
<1>3. m \in FirstSlots(fs) /\ Pair(fs[m]) = <<fs[i].name, fs[m].id>>
  BY <1>2 DEF FirstSlots, Pair
<1>4. ASSUME NEW x \in FirstSlots(fs), fs[x].name = fs[i].name PROVE x = m
  <2>1. x \in S /\ x <= m /\ m <= x
    BY <1>2, <1>4 DEF FirstSlots
  <2>. QED
    BY <2>1, DirAssumption DEF LiveSlots, Slots
<1>5. ASSUME NEW other \in Ids, <<fs[i].name, other>> \in PairsOf(fs, FirstSlots(fs))
      PROVE  other = fs[m].id
  <2>1. PICK x \in FirstSlots(fs) : <<fs[i].name, other>> = Pair(fs[x])
    BY <1>5 DEF PairsOf
  <2>. QED
    BY <1>4, <2>1 DEF Pair
<1>6. <<fs[i].name, fs[m].id>> \in PairsOf(fs, FirstSlots(fs))
  BY <1>3 DEF PairsOf
<1>. QED
  BY <1>2, <1>5, <1>6

-----------------------------------------------------------------------------
(***************************************************************************)
(* The invariant.                                                          *)
(***************************************************************************)
SavingInv ==
    /\ mounted = "saving" => root_dir = <<>>
    /\ mounted # "saving" => slot = 0 /\ lines = <<>>
    /\ Ended => files = NoFiles

DirInv ==
    /\ TypeOK /\ TableInv(files, hidden, created) /\ LinesInv(root_dir, hidden, created)
    /\ SavesInv(files, lines, slot) /\ SavingInv

LEMMA EmptyTable ==
    ASSUME NEW fs, \A i \in Slots : fs[i] = NULL
    PROVE  /\ \A h, c : TableInv(fs, h, c)
           /\ LiveSlots(fs) = {} /\ FoundSlots(fs) = {} /\ HidingNames(fs) = {}
BY DEF TableInv, IdsUpTo, IdsDiffer, RemovedFollow, OthersFound, LiveSlots, FoundSlots,
       HidingNames, Resolves

LEMMA DirStarts == Init => DirInv
<1>. SUFFICES ASSUME Init PROVE DirInv
  OBVIOUS
<1>1. \A i \in Slots : files[i] = NULL
  BY DEF Init, NoFiles
<1>. QED
  BY <1>1, TypesStart, EmptyTable, NoLines, SaveNothing DEF Init, DirInv, SavingInv, Ended

\* The handlers that find an entry and keep its file.
FileStep == \E i \in Slots, g \in DfsFiles :
    /\ mounted = "up" /\ files[i] # NULL /\ files[i].status # "REMOVED"
    /\ SameFile(files[i], g) /\ Becomes(i, g)

\* A run ends without a save: by an exception of a sync, or killed.
Aborts == mounted = "up" /\ mounted' = "down" /\ Gone /\ UNCHANGED root_dir

\* save has passed all slots, and root.dir gets its lines.
Commits == /\ mounted = "saving" /\ slot = MaxFile
           /\ mounted' = "down" /\ root_dir' = lines /\ Gone

SaveStep == \E g :
    /\ mounted = "saving" /\ slot < MaxFile /\ SaveAs(files[slot], g)
    /\ g = files[slot] \/ (SameFile(files[slot], g) /\ NeedsUpload(files[slot]))

\* All steps, by what they do to the names.
LEMMA StepKinds ==
    ASSUME TypeOK, Next
    PROVE  \/ \E n \in Names : Create(n) \/ Unlink(n)
           \/ FileStep \/ Aborts \/ Mount \/ BeginSave \/ SaveStep \/ Commits
           \/ mounted = "saving" /\ Tears
<1>1. ASSUME NEW n \in Names, NEW i \in Slots, Entry(n, i),
             \/ Becomes(i, Written(files[i])) \/ Becomes(i, Cached(files[i]))
             \/ Becomes(i, Emptied(files[i])) \/ Becomes(i, Uploaded(files[i]))
             \/ Becomes(i, [files[i] EXCEPT !.cached = FALSE])
      PROVE  FileStep
  <2>1. files[i] # NULL /\ files[i] \in DfsFiles
    BY <1>1, EntryType DEF Entry, Find, Resolves
  <2>. QED
    BY <1>1, <2>1, HandlersKeepFile DEF FileStep, Entry, SameFile
<1>2. ASSUME NEW n \in Names, Write(n) \/ Read(n) \/ Truncate(n) \/ Clear(n)
      PROVE  FileStep
  BY <1>1, <1>2 DEF Write, Read, Truncate, Clear
<1>3. ASSUME NEW n \in Names, Sync(n) PROVE FileStep \/ Aborts
  BY <1>1, <1>3 DEF Sync, Aborts, Entry
<1>4. CASE SaveSlot
  <2>1. slot \in Slots
    BY <1>4, DirAssumption DEF SaveSlot, TypeOK, Slots
  <2>2. NeedsUpload(files[slot]) => SameFile(files[slot], Uploaded(files[slot]))
    BY <2>1, EntryType, HandlersKeepFile DEF NeedsUpload
  <2>3. mounted = "saving" /\ slot < MaxFile
    BY <1>4 DEF SaveSlot
  <2>4. CASE SaveAs(files[slot], files[slot])
    <3>1. SaveStep
      BY <2>3, <2>4, Zenon DEF SaveStep
    <3>. QED
      BY <3>1
  <2>5. CASE NeedsUpload(files[slot]) /\ SaveAs(files[slot], Uploaded(files[slot]))
    <3>1. SaveStep
      BY <2>2, <2>3, <2>5, Zenon DEF SaveStep
    <3>. QED
      BY <3>1
  <2>6. \/ SaveAs(files[slot], files[slot])
        \/ NeedsUpload(files[slot]) /\ SaveAs(files[slot], Uploaded(files[slot]))
        \/ Tears
    BY <1>4 DEF SaveSlot
  <2>. QED
    BY <2>3, <2>4, <2>5, <2>6
<1>5. CASE Exit
  BY <1>5 DEF Exit, Commits
<1>6. CASE Crash
  BY <1>6 DEF Crash, Aborts
<1>. QED
  BY <1>2, <1>3, <1>4, <1>5, <1>6 DEF Next

(***************************************************************************)
(* What each kind of step does to the slots, under the invariant.          *)
(***************************************************************************)
LEMMA FileStepSlots ==
    ASSUME DirInv, FileStep
    PROVE  /\ SameSlots(files, files') /\ mounted = "up"
           /\ UNCHANGED <<mounted, slot, lines, root_dir, created, hidden>>
<1>1. PICK i \in Slots, g \in DfsFiles :
        /\ mounted = "up" /\ files[i] # NULL /\ files[i].status # "REMOVED"
        /\ SameFile(files[i], g) /\ Becomes(i, g)
  BY DEF FileStep
<1>2. /\ files'[i] = g /\ g # NULL
      /\ \A j \in Slots : j # i => files'[j] = files[j]
  BY <1>1, NullAssumption DEF Becomes, DirInv, TypeOK
<1>3. SameSlots(files, files')
  <2>1. \A j \in Slots : j = i \/ files'[j] = files[j]
    BY <1>2
  <2>. QED
    <3>1. files[i] # NULL /\ files'[i] # NULL
      BY <1>1, <1>2
    <3>2. /\ files'[i].name = files[i].name /\ files'[i].id = files[i].id
          /\ files'[i].status = "REMOVED" <=> files[i].status = "REMOVED"
          /\ files'[i].status = "CREATED" => files[i].status = "CREATED"
      BY <1>1, <1>2 DEF SameFile
    <3>. QED
      BY <2>1, <3>1, <3>2 DEF SameSlots
<1>. QED
  BY <1>1, <1>3 DEF Becomes

LEMMA SaveStepSlots ==
    ASSUME DirInv, SaveStep
    PROVE  /\ SameSlots(files, files') /\ SavesInv(files, lines', slot')
           /\ UNCHANGED <<mounted, root_dir, created, hidden>> /\ mounted = "saving"
<1>1. PICK g :
        /\ mounted = "saving" /\ slot < MaxFile /\ SaveAs(files[slot], g)
        /\ g = files[slot] \/ (SameFile(files[slot], g) /\ NeedsUpload(files[slot]))
  BY DEF SaveStep
<1>2. slot \in Slots
  BY <1>1, DirAssumption DEF DirInv, TypeOK, Slots
<1>3. /\ files'[slot] = g
      /\ \A j \in Slots : j # slot => files'[j] = files[j]
  BY <1>1, <1>2 DEF SaveAs, DirInv, TypeOK
<1>4. NeedsUpload(files[slot]) => files[slot] # NULL
  BY DEF NeedsUpload
<1>5. SameSlots(files, files')
  <2>1. \A j \in Slots : j = slot \/ files'[j] = files[j]
    BY <1>3
  <2>2. CASE g = files[slot]
    BY <1>3, <2>1, <2>2 DEF SameSlots
  <2>3. CASE SameFile(files[slot], g) /\ NeedsUpload(files[slot])
    <3>1. files[slot] # NULL /\ files'[slot] # NULL
      BY <1>3, <1>4, <2>3, NullAssumption DEF SameFile
    <3>2. /\ files'[slot].name = files[slot].name /\ files'[slot].id = files[slot].id
          /\ files'[slot].status = "REMOVED" <=> files[slot].status = "REMOVED"
          /\ files'[slot].status = "CREATED" => files[slot].status = "CREATED"
      BY <1>3, <2>3 DEF SameFile, NeedsUpload
    <3>. QED
      BY <2>1, <3>1, <3>2 DEF SameSlots
  <2>. QED
    BY <1>1, <2>2, <2>3
<1>6. slot' = slot + 1
  BY <1>1 DEF SaveAs
<1>7. CASE IsSaved(files[slot])
  <2>1. files[slot] \in DfsFiles
    BY <1>2, <1>7, EntryType DEF IsSaved, DirInv
  <2>2. slot \in LiveSlots(files)
    BY <1>2, <1>7 DEF LiveSlots, IsSaved
  <2>3. lines' = Append(lines, Line(files[slot]))
    BY <1>1, <1>7 DEF SaveAs
  <2>4. lines \in Seq(Lines) /\ IdsDiffer(files) /\ SavesInv(files, lines, slot)
    BY DEF DirInv, TypeOK, TableInv
  <2>5. SavesInv(files, lines', slot + 1)
    BY <1>2, <2>1, <2>2, <2>3, <2>4, LineType, SavePrints
  <2>. QED
    BY <1>1, <1>5, <1>6, <2>5 DEF SaveAs
<1>8. CASE ~ IsSaved(files[slot])
  <2>1. lines' = lines /\ slot \notin LiveSlots(files) /\ SavesInv(files, lines, slot)
    BY <1>1, <1>8 DEF SaveAs, IsSaved, LiveSlots, DirInv
  <2>2. SavesInv(files, lines, slot + 1)
    BY <1>2, <2>1, SavePasses
  <2>. QED
    BY <1>1, <1>5, <1>6, <2>1, <2>2 DEF SaveAs
<1>. QED
  BY <1>7, <1>8

\* The step that adds a file, if there is a slot for it.
LEMMA CreateSlots ==
    ASSUME DirInv, NEW n \in Names, Create(n)
    PROVE  /\ mounted = "up" /\ UNCHANGED <<mounted, slot, lines, root_dir>>
           /\ \/ UNCHANGED <<files, created, hidden>>
              \/ /\ created' = created + 1 /\ created + 1 \in Ids
                 /\ hidden \subseteq hidden'
                 /\ TableInv(files', hidden', created')
                 /\ \A j \in FoundSlots(files) : files[j].name # n
                 /\ PairsOf(files', LiveSlots(files')) =
                      PairsOf(files, LiveSlots(files)) \cup {<<n, created + 1>>}
                 /\ \/ /\ PairsOf(files', FoundSlots(files')) =
                            PairsOf(files, FoundSlots(files)) \cup {<<n, created + 1>>}
                       /\ HidingNames(files') = HidingNames(files) \ {n}
                    \/ /\ n \in HidingNames(files)
                       /\ PairsOf(files', FoundSlots(files')) = PairsOf(files, FoundSlots(files))
                       /\ HidingNames(files') = HidingNames(files)
<1>. USE DEF Create
<1>1. CASE UNCHANGED <<files, created, hidden>>
  BY <1>1
<1>2. ASSUME NEW i \in Slots, FirstFree(i), files' = [files EXCEPT ![i] = NewFile(n)],
             created' = created + 1,
             hidden' = hidden \cup {id \in {created + 1} : \E j \in Slots : j < i /\ Find(n, j)}
      PROVE  /\ created' = created + 1 /\ created + 1 \in Ids
             /\ hidden \subseteq hidden'
             /\ TableInv(files', hidden', created')
             /\ \A j \in FoundSlots(files) : files[j].name # n
             /\ PairsOf(files', LiveSlots(files')) =
                  PairsOf(files, LiveSlots(files)) \cup {<<n, created + 1>>}
             /\ \/ /\ PairsOf(files', FoundSlots(files')) =
                        PairsOf(files, FoundSlots(files)) \cup {<<n, created + 1>>}
                   /\ HidingNames(files') = HidingNames(files) \ {n}
                \/ /\ n \in HidingNames(files)
                   /\ PairsOf(files', FoundSlots(files')) = PairsOf(files, FoundSlots(files))
                   /\ HidingNames(files') = HidingNames(files)
  <2>1. /\ files'[i] = NewFile(n) /\ files[i] = NULL
        /\ \A j \in Slots : j # i => files'[j] = files[j]
    BY <1>2 DEF DirInv, TypeOK, FirstFree, IsFree
  <2>2. /\ NewFile(n) \in DfsFiles /\ NewFile(n).name = n /\ NewFile(n).id = created + 1
        /\ NewFile(n).status = "CREATED" /\ created \in Nat
    BY NewFileType DEF DirInv, TypeOK
  <2>3. \A j \in Slots : files[j] # NULL => files[j].id \in Nat
    BY EntryType DEF DirInv, DfsFiles, Ids
  <2>4. \A j \in Slots : Resolves(files, j) /\ files[j].name = n => files[j].status = "REMOVED"
    BY DEF Exists, Find
  <2>5. hidden' = hidden \cup HiddenAs(files, n, i, created)
    <3>1. (\E j \in Slots : j < i /\ Find(n, j)) <=>
          (\E j \in Slots : j < i /\ Resolves(files, j) /\ files[j].name = n)
      BY DEF Find
    <3>. QED
      BY <1>2, <3>1 DEF HiddenAs
  <2>6. /\ TableInv(files', hidden', created + 1)
        /\ LiveSlots(files') = LiveSlots(files) \cup {i}
        /\ \A j \in FoundSlots(files) : files[j].name # n
        /\ IsNowFound(files, files', n, i) \/ IsNowHidden(files, files', n)
    <3>1. Adds(files, files', n, i, created)
      BY <2>1, <2>2, <2>3, <2>4, NullAssumption DEF Adds
    <3>2. TableInv(files, hidden, created) /\ created \in Nat
      BY <2>2 DEF DirInv
    <3>3. /\ TableInv(files', hidden \cup HiddenAs(files, n, i, created), created + 1)
          /\ LiveSlots(files') = LiveSlots(files) \cup {i}
          /\ \A j \in FoundSlots(files) : files[j].name # n
          /\ IsNowFound(files, files', n, i) \/ IsNowHidden(files, files', n)
      BY <3>1, <3>2, CreateTable
    <3>. QED
      BY <2>5, <3>3
  <2>7. Pair(files'[i]) = <<n, created + 1>>
    BY <2>1, <2>2 DEF Pair
  <2>8. ASSUME NEW S \in SUBSET LiveSlots(files)
        PROVE  /\ PairsOf(files', S) = PairsOf(files, S)
               /\ PairsOf(files', S \cup {i}) = PairsOf(files, S) \cup {<<n, created + 1>>}
    <3>1. \A j \in S : Pair(files'[j]) = Pair(files[j])
      BY <2>1 DEF LiveSlots, Pair
    <3>. QED
      BY <2>7, <3>1 DEF PairsOf
  <2>9. FoundSlots(files) \in SUBSET LiveSlots(files) /\ LiveSlots(files) \in SUBSET LiveSlots(files)
    BY DEF FoundSlots
  <2>10. created + 1 \in Ids
    BY <2>2, DirAssumption DEF Ids
  <2>. QED
    BY <1>2, <2>6, <2>8, <2>9, <2>10 DEF IsNowFound, IsNowHidden
<1>3. \/ UNCHANGED <<files, created, hidden>>
      \/ \E i \in Slots :
           /\ FirstFree(i) /\ files' = [files EXCEPT ![i] = NewFile(n)]
           /\ created' = created + 1
           /\ hidden' = hidden \cup
                {id \in {created + 1} : \E j \in Slots : j < i /\ Find(n, j)}
  OBVIOUS
<1>. QED
  BY <1>1, <1>2, <1>3

\* The step that takes one away.
LEMMA UnlinkSlots ==
    ASSUME DirInv, NEW n \in Names, Unlink(n)
    PROVE  /\ mounted = "up" /\ UNCHANGED <<mounted, slot, lines, root_dir, created, hidden>>
           /\ TableInv(files', hidden, created)
           /\ HidingNames(files') \in {HidingNames(files), HidingNames(files) \cup {n}}
           /\ \E id \in Ids :
                /\ <<n, id>> \in PairsOf(files, FoundSlots(files))
                /\ PairsOf(files', LiveSlots(files')) =
                     PairsOf(files, LiveSlots(files)) \ {<<n, id>>}
                /\ PairsOf(files', FoundSlots(files')) =
                     PairsOf(files, FoundSlots(files)) \ {<<n, id>>}
<1>1. PICK i \in Slots : Entry(n, i) /\ Becomes(i, Removed(files[i]))
  BY DEF Unlink
<1>2. files[i] # NULL /\ files[i] \in DfsFiles /\ files[i].name = n /\ i \in FoundSlots(files)
  BY <1>1, EntryType DEF Entry, Find, Resolves, DirInv, FoundSlots, LiveSlots
<1>. DEFINE gs == files'
<1>3. /\ gs[i] = Removed(files[i])
      /\ \A j \in Slots : j # i => gs[j] = files[j]
  BY <1>1 DEF Becomes, DirInv, TypeOK
<1>4. \/ gs[i] = NULL /\ files[i].status = "CREATED"
      \/ /\ gs[i] # NULL /\ gs[i].name = files[i].name /\ gs[i].id = files[i].id
         /\ gs[i].status = "REMOVED"
  BY <1>2, <1>3, NullAssumption DEF Removed, DfsFiles, FileStatus
<1>. HIDE DEF gs
<1>5. /\ TableInv(gs, hidden, created)
      /\ LiveSlots(gs) = LiveSlots(files) \ {i}
      /\ FoundSlots(gs) = FoundSlots(files) \ {i}
      /\ HidingNames(gs) \in {HidingNames(files), HidingNames(files) \cup {files[i].name}}
  <2>1. TableInv(files, hidden, created)
    BY DEF DirInv
  <2>. QED
    BY <1>2, <1>3, <1>4, <2>1, UnlinkTable
<1>6. ASSUME NEW S \in SUBSET LiveSlots(files)
      PROVE  PairsOf(gs, S \ {i}) = PairsOf(files, S) \ {Pair(files[i])}
  <2>1. \A j \in S \ {i} : Pair(gs[j]) = Pair(files[j]) /\ Pair(files[j]) # Pair(files[i])
    BY <1>2, <1>3 DEF LiveSlots, Pair, DirInv, TableInv, IdsDiffer
  <2>. QED
    BY <2>1 DEF PairsOf
<1>7. FoundSlots(files) \in SUBSET LiveSlots(files) /\ LiveSlots(files) \in SUBSET LiveSlots(files)
  BY DEF FoundSlots
<1>8. files[i].id \in Ids /\ Pair(files[i]) = <<n, files[i].id>>
  BY <1>2 DEF DfsFiles, Pair
<1>9. Pair(files[i]) \in PairsOf(files, FoundSlots(files))
  BY <1>2 DEF PairsOf
<1>10. \E id \in Ids :
         /\ <<n, id>> \in PairsOf(files, FoundSlots(files))
         /\ PairsOf(gs, LiveSlots(gs)) = PairsOf(files, LiveSlots(files)) \ {<<n, id>>}
         /\ PairsOf(gs, FoundSlots(gs)) = PairsOf(files, FoundSlots(files)) \ {<<n, id>>}
  BY <1>5, <1>6, <1>7, <1>8, <1>9
<1>. QED
  BY <1>1, <1>2, <1>5, <1>10 DEF Becomes, Entry, gs

-----------------------------------------------------------------------------
\* The end of a run leaves lines that save has printed, or the old ones.
LEMMA GoneKeeps ==
    ASSUME DirInv, Gone, mounted' \in {"down", "torn"}, TypeOK',
           LinesInv(root_dir', hidden, created)
    PROVE  DirInv'
<1>1. \A i \in Slots : files'[i] = NULL
  BY DEF Gone, NoFiles
<1>2. TableInv(files', hidden', created')
  BY <1>1, EmptyTable
<1>3. LinesInv(root_dir', hidden', created')
  BY DEF Gone
<1>4. SavesInv(files', lines', slot')
  BY SaveNothing DEF Gone
<1>5. SavingInv'
  BY DEF Gone, SavingInv, NoFiles
<1>. QED
  BY <1>2, <1>3, <1>4, <1>5 DEF DirInv

LEMMA PrintedKeep == DirInv => LinesInv(lines, hidden, created)
BY PrintedLines DEF DirInv

LEMMA DirKeeps == DirInv /\ [Next]_vars => DirInv'
<1>. SUFFICES ASSUME DirInv, [Next]_vars PROVE DirInv'
  OBVIOUS
<1>1. TypeOK'
  BY TypesKeep DEF DirInv
<1>2. /\ TableInv(files, hidden, created) /\ LinesInv(root_dir, hidden, created)
      /\ SavesInv(files, lines, slot) /\ SavingInv
  BY DEF DirInv
<1>3. CASE UNCHANGED vars
  <2>1. UNCHANGED <<mounted, files, slot, lines, root_dir, created, hidden>>
    BY <1>3 DEF vars
  <2>2. /\ TableInv(files', hidden', created') /\ LinesInv(root_dir', hidden', created')
        /\ SavesInv(files', lines', slot')
    BY <1>2, <2>1
  <2>3. SavingInv'
    BY <1>2, <2>1 DEF SavingInv, Ended, NoFiles
  <2>. QED
    BY <1>1, <2>2, <2>3 DEF DirInv
<1>4. ASSUME mounted = "up", UNCHANGED <<mounted, slot, lines, root_dir>>,
             TableInv(files', hidden', created'), LinesInv(root_dir, hidden', created')
      PROVE  DirInv'
  <2>1. lines' = <<>> /\ slot' = 0
    BY <1>2, <1>4 DEF SavingInv
  <2>2. SavesInv(files', lines', slot')
    BY <2>1, SaveNothing
  <2>3. SavingInv'
    BY <1>2, <1>4 DEF SavingInv, Ended
  <2>4. LinesInv(root_dir', hidden', created')
    BY <1>4
  <2>. QED
    BY <1>1, <1>4, <2>2, <2>3, <2>4 DEF DirInv
<1>5. ASSUME NEW n \in Names, Create(n) PROVE DirInv'
  <2>1. CASE UNCHANGED <<files, created, hidden>>
    <3>1. /\ TableInv(files', hidden', created') /\ LinesInv(root_dir, hidden', created')
      BY <1>2, <2>1
    <3>. QED
      BY <1>4, <1>5, <3>1, CreateSlots
  <2>2. CASE /\ created' = created + 1 /\ hidden \subseteq hidden'
             /\ TableInv(files', hidden', created')
    <3>1. \A k \in 1 .. Len(root_dir) : root_dir[k].id \in Nat
      <4>1. \A k \in 1 .. Len(root_dir) : root_dir[k] \in Lines
        BY DEF DirInv, TypeOK
      <4>. QED
        BY <4>1 DEF Lines, Ids
    <3>2. created \in Nat
      BY DEF DirInv, TypeOK
    <3>3. \A k \in 1 .. Len(root_dir) : root_dir[k].id <= created'
      BY <1>2, <2>2, <3>1, <3>2 DEF LinesInv
    <3>4. LinesInv(root_dir, hidden', created')
      BY <1>2, <2>2, <3>3 DEF LinesInv
    <3>. QED
      BY <1>4, <1>5, <2>2, <3>4, CreateSlots
  <2>. QED
    BY <1>5, <2>1, <2>2, CreateSlots
<1>6. ASSUME NEW n \in Names, Unlink(n) PROVE DirInv'
  <2>1. /\ mounted = "up" /\ UNCHANGED <<mounted, slot, lines, root_dir, created, hidden>>
        /\ TableInv(files', hidden, created)
    BY <1>6, UnlinkSlots
  <2>2. TableInv(files', hidden', created') /\ LinesInv(root_dir, hidden', created')
    BY <1>2, <2>1
  <2>. QED
    BY <1>4, <2>1, <2>2
<1>7. CASE FileStep
  <2>1. /\ SameSlots(files, files') /\ mounted = "up"
        /\ UNCHANGED <<mounted, slot, lines, root_dir, created, hidden>>
    BY <1>7, FileStepSlots
  <2>2. TableInv(files', hidden, created)
    BY <1>2, <2>1, SameTable
  <2>3. TableInv(files', hidden', created') /\ LinesInv(root_dir, hidden', created')
    BY <1>2, <2>1, <2>2
  <2>. QED
    BY <1>4, <2>1, <2>3
<1>8. CASE Aborts
  <2>1. LinesInv(root_dir', hidden, created)
    BY <1>2, <1>8 DEF Aborts
  <2>. QED
    BY <1>1, <1>8, <2>1, GoneKeeps DEF Aborts
<1>9. CASE Commits
  <2>1. LinesInv(root_dir', hidden, created)
    BY <1>9, PrintedKeep DEF Commits
  <2>. QED
    BY <1>1, <1>9, <2>1, GoneKeeps DEF Commits
<1>10. CASE Tears
  <2>1. PICK k \in 0 .. Len(lines) : root_dir' = SubSeq(lines, 1, k)
    BY <1>10 DEF Tears
  <2>2. lines \in Seq(Lines) /\ LinesInv(lines, hidden, created)
    BY PrintedKeep DEF DirInv, TypeOK
  <2>3. LinesInv(root_dir', hidden, created)
    BY <2>1, <2>2, SomeLines
  <2>. QED
    BY <1>1, <1>10, <2>3, GoneKeeps DEF Tears
<1>11. CASE SaveStep
  <2>1. /\ SameSlots(files, files') /\ SavesInv(files, lines', slot')
        /\ UNCHANGED <<mounted, root_dir, created, hidden>> /\ mounted = "saving"
    BY <1>11, SaveStepSlots
  <2>2. TableInv(files', hidden, created) /\ SavesInv(files', lines', slot')
    BY <1>2, <2>1, SameTable, SavesSame
  <2>3. TableInv(files', hidden', created') /\ LinesInv(root_dir', hidden', created')
    BY <1>2, <2>1, <2>2
  <2>4. SavingInv'
    BY <1>2, <2>1 DEF SavingInv, Ended
  <2>. QED
    BY <1>1, <2>2, <2>3, <2>4 DEF DirInv
<1>12. CASE BeginSave
  <2>1. /\ mounted' = "saving" /\ slot' = 0 /\ lines' = <<>> /\ root_dir' = <<>>
        /\ UNCHANGED <<files, created, hidden>>
    BY <1>12 DEF BeginSave
  <2>2. /\ TableInv(files', hidden', created') /\ LinesInv(root_dir', hidden', created')
        /\ SavesInv(files', lines', slot')
    BY <1>2, <2>1, NoLines, SaveNothing
  <2>3. SavingInv'
    BY <2>1 DEF SavingInv, Ended
  <2>. QED
    BY <1>1, <2>2, <2>3 DEF DirInv
<1>13. CASE Mount
  <2>1. /\ TableInv(files', hidden, created)
        /\ mounted' = "up" /\ UNCHANGED <<slot, lines, root_dir, created, hidden>>
    BY <1>2, <1>13, MountTable DEF Mount, DirInv, TypeOK
  <2>2. lines' = <<>> /\ slot' = 0
    BY <1>2, <1>13, <2>1 DEF Mount, Ended, SavingInv
  <2>3. /\ TableInv(files', hidden', created') /\ LinesInv(root_dir', hidden', created')
        /\ SavesInv(files', lines', slot')
    BY <1>2, <2>1, <2>2, SaveNothing
  <2>4. SavingInv'
    BY <2>1, <2>2 DEF SavingInv, Ended
  <2>. QED
    BY <1>1, <2>3, <2>4 DEF DirInv
<1>. QED
  BY <1>3, <1>5, <1>6, <1>7, <1>8, <1>9, <1>10, <1>11, <1>12, <1>13, StepKinds DEF DirInv

LEMMA DirInvariant == Spec => []DirInv
BY DirStarts, DirKeeps, PTL DEF Spec

(***************************************************************************)
(* dfs_readdir never lists an entry that dfs_getattr does not lead to, but *)
(* those that were created behind a REMOVED entry: whatever is unlinked    *)
(* and created again, and through saves, mounts and deaths of the program. *)
(***************************************************************************)
THEOREM ListingLeadsToFiles == Spec => []ListingIsLookup
<1>1. DirInv => ListingIsLookup
  BY Views DEF DirInv, TableInv, OthersFound, ListingIsLookup
<1>. QED
  BY DirInvariant, <1>1, PTL

-----------------------------------------------------------------------------
(***************************************************************************)
(* The refinement.  The variables of Namespace, in the views of this       *)
(* module:                                                                 *)
(***************************************************************************)
NsFiles == IF Ended THEN LineFiles(root_dir) ELSE LiveFiles
NsDir == IF Ended THEN FirstLines(root_dir) ELSE FoundFiles
NsSavedFiles == IF mounted = "saving" THEN LiveFiles ELSE LineFiles(root_dir)
NsSaved == IF mounted = "saving" THEN FirstFiles ELSE FirstLines(root_dir)
NsTorn == mounted = "torn"
NsUsed == 1 .. created

NsSame == /\ NsFiles' = NsFiles /\ NsDir' = NsDir /\ NsSavedFiles' = NsSavedFiles
          /\ NsSaved' = NsSaved /\ Unlinked' = Unlinked /\ NsUsed' = NsUsed
          /\ NsTorn' = NsTorn

\* Steps that keep the files, and the state of the program with root.dir.
LEMMA SameImplements ==
    ASSUME SameSlots(files, files'), UNCHANGED <<mounted, root_dir, created>>
    PROVE  NsSame
<1>1. /\ LiveFiles' = LiveFiles /\ FoundFiles' = FoundFiles /\ FirstFiles' = FirstFiles
      /\ Unlinked' = Unlinked
  BY Views, ViewsNext, SameViews
<1>. QED
  BY <1>1 DEF NsSame, NsFiles, NsDir, NsSavedFiles, NsSaved, NsUsed, NsTorn, Ended,
              LineFiles, FirstLines

LEMMA NsStutters == ASSUME NsSame PROVE [NS!Next]_NS!vars
BY DEF NsSame, NS!vars, NsFiles, NsDir, NsSavedFiles, NsSaved, NsUsed, NsTorn

LEMMA UpViews ==
    ASSUME mounted = "up"
    PROVE  /\ NsFiles = LiveFiles /\ NsDir = FoundFiles
           /\ NsSavedFiles = LineFiles(root_dir) /\ NsSaved = FirstLines(root_dir) /\ ~ NsTorn
BY DEF NsFiles, NsDir, NsSavedFiles, NsSaved, NsTorn, Ended

LEMMA SavingViews ==
    ASSUME mounted = "saving"
    PROVE  /\ NsFiles = LiveFiles /\ NsDir = FoundFiles
           /\ NsSavedFiles = LiveFiles /\ NsSaved = FirstFiles /\ ~ NsTorn
BY DEF NsFiles, NsDir, NsSavedFiles, NsSaved, NsTorn, Ended

LEMMA EndedViews ==
    ASSUME Ended
    PROVE  /\ NsFiles = LineFiles(root_dir) /\ NsDir = FirstLines(root_dir)
           /\ NsSavedFiles = LineFiles(root_dir) /\ NsSaved = FirstLines(root_dir)
           /\ NsTorn <=> mounted = "torn"
BY DEF NsFiles, NsDir, NsSavedFiles, NsSaved, NsTorn, Ended

\* The same of the next state.
LEMMA NextViews ==
    /\ mounted' = "up" =>
         /\ NsFiles' = LiveFiles' /\ NsDir' = FoundFiles'
         /\ NsSavedFiles' = LineFiles(root_dir') /\ NsSaved' = FirstLines(root_dir')
         /\ ~ NsTorn'
    /\ mounted' = "saving" =>
         /\ NsFiles' = LiveFiles' /\ NsDir' = FoundFiles'
         /\ NsSavedFiles' = LiveFiles' /\ NsSaved' = FirstFiles' /\ ~ NsTorn'
    /\ mounted' \in {"down", "torn"} =>
         /\ NsFiles' = LineFiles(root_dir') /\ NsDir' = FirstLines(root_dir')
         /\ NsSavedFiles' = LineFiles(root_dir') /\ NsSaved' = FirstLines(root_dir')
         /\ (NsTorn' <=> mounted' = "torn")
BY DEF NsFiles, NsDir, NsSavedFiles, NsSaved, NsTorn, Ended, LineFiles, FirstLines

\* The end of a run.
LEMMA GoneViews ==
    ASSUME Gone, mounted' \in {"down", "torn"}
    PROVE  /\ Unlinked' = {} /\ NsUsed' = NsUsed
           /\ NsFiles' = LineFiles(root_dir') /\ NsDir' = FirstLines(root_dir')
           /\ NsSavedFiles' = LineFiles(root_dir') /\ NsSaved' = FirstLines(root_dir')
<1>1. \A i \in Slots : files'[i] = NULL
  BY DEF Gone, NoFiles
<1>2. Unlinked' = {}
  BY <1>1, ViewsNext, EmptyTable
<1>. QED
  BY <1>2, NextViews DEF Gone, NsUsed

\* Each step is a step of Namespace, or leaves its variables alone.
LEMMA StepsImplement == DirInv /\ DirInv' /\ [Next]_vars => [NS!Next]_NS!vars
<1>. SUFFICES ASSUME DirInv, DirInv', [Next]_vars PROVE [NS!Next]_NS!vars
  OBVIOUS
<1>1. CASE UNCHANGED vars
  <2>1. SameSlots(files, files') /\ UNCHANGED <<mounted, root_dir, created>>
    BY <1>1 DEF vars, SameSlots
  <2>. QED
    BY <2>1, SameImplements, NsStutters
<1>2. CASE FileStep
  BY <1>2, FileStepSlots, SameImplements, NsStutters
<1>3. CASE SaveStep
  BY <1>3, SaveStepSlots, SameImplements, NsStutters
<1>4. ASSUME NEW n \in Names, Create(n) PROVE [NS!Next]_NS!vars
  <2>1. mounted = "up" /\ mounted' = "up" /\ root_dir' = root_dir
    BY <1>4, CreateSlots
  <2>2. CASE UNCHANGED <<files, created, hidden>>
    <3>1. SameSlots(files, files') /\ UNCHANGED <<mounted, root_dir, created>>
      BY <2>1, <2>2 DEF SameSlots
    <3>. QED
      BY <3>1, SameImplements, NsStutters
  <2>3. CASE ~ UNCHANGED <<files, created, hidden>>
    <3>. DEFINE new == <<n, created + 1>>
    <3>1. /\ created' = created + 1 /\ created + 1 \in Ids
          /\ \A j \in FoundSlots(files) : files[j].name # n
          /\ LiveFiles' = LiveFiles \cup {new}
          /\ \/ FoundFiles' = FoundFiles \cup {new} /\ Unlinked' = Unlinked \ {n}
             \/ n \in Unlinked /\ FoundFiles' = FoundFiles /\ Unlinked' = Unlinked
      BY <1>4, <2>3, CreateSlots, Views, ViewsNext
    <3>2. \A id : <<n, id>> \notin FoundFiles
      BY <3>1, Views DEF PairsOf, Pair
    <3>3. created + 1 \notin NsUsed /\ NsUsed' = NsUsed \cup {created + 1}
      <4>1. created \in Nat
        BY DEF DirInv, TypeOK
      <4>. QED
        BY <3>1, <4>1 DEF NsUsed
    <3>4. NS!Create(n)
      <4>1. /\ ~ NsTorn /\ ~ NsTorn' /\ ~ NS!Has(NsDir, n)
            /\ NsFiles' = NsFiles \cup {new}
            /\ \/ NsDir' = NsDir \cup {new} /\ Unlinked' = Unlinked \ {n}
               \/ n \in Unlinked /\ NsDir' = NsDir /\ Unlinked' = Unlinked
            /\ NsSavedFiles' = NsSavedFiles /\ NsSaved' = NsSaved
        BY <2>1, <3>1, <3>2, UpViews, NextViews DEF NS!Has
      <4>. QED
        BY <3>1, <3>3, <4>1
           DEF NS!Create, NsFiles, NsDir, NsSavedFiles, NsSaved, NsUsed, NsTorn
    <3>. QED
      BY <3>4 DEF NS!Next
  <2>. QED
    BY <2>2, <2>3
<1>5. ASSUME NEW n \in Names, Unlink(n) PROVE [NS!Next]_NS!vars
  <2>1. /\ mounted = "up" /\ mounted' = "up" /\ root_dir' = root_dir /\ created' = created
        /\ Unlinked' \in {Unlinked, Unlinked \cup {n}}
    BY <1>5, UnlinkSlots, Views, ViewsNext
  <2>2. PICK id \in Ids : /\ <<n, id>> \in FoundFiles
                          /\ LiveFiles' = LiveFiles \ {<<n, id>>}
                          /\ FoundFiles' = FoundFiles \ {<<n, id>>}
    BY <1>5, UnlinkSlots, Views, ViewsNext
  <2>3. NS!Remove(n)
    <3>1. /\ ~ NsTorn /\ ~ NsTorn' /\ <<n, id>> \in NsDir
          /\ NsFiles' = NsFiles \ {<<n, id>>} /\ NsDir' = NsDir \ {<<n, id>>}
          /\ NsSavedFiles' = NsSavedFiles /\ NsSaved' = NsSaved /\ NsUsed' = NsUsed
      BY <2>1, <2>2, UpViews, NextViews DEF NsUsed
    <3>. QED
      BY <2>1, <3>1 DEF NS!Remove, NsFiles, NsDir, NsSavedFiles, NsSaved, NsUsed, NsTorn
  <2>. QED
    BY <2>3 DEF NS!Next
<1>6. ASSUME Aborts \/ Commits PROVE [NS!Next]_NS!vars
  <2>1. Gone /\ mounted' = "down" /\ mounted \in {"up", "saving"}
    BY <1>6 DEF Aborts, Commits
  <2>2. NsSaved = FirstLines(root_dir') /\ NsSavedFiles = LineFiles(root_dir') /\ ~ NsTorn
    <3>1. CASE Aborts
      BY <3>1, UpViews DEF Aborts
    <3>2. CASE Commits
      <4>1. SavesInv(files, lines, slot)
        BY DEF DirInv
      <4>2. LineFiles(lines) = LiveFiles /\ FirstLines(lines) = FirstFiles
        BY <3>2, <4>1, PrintedFiles, Views DEF Commits
      <4>. QED
        BY <3>2, <4>2, SavingViews DEF Commits
    <3>. QED
      BY <1>6, <3>1, <3>2
  <2>3. NS!Abort
    <3>1. /\ NsDir' = NsSaved /\ NsFiles' = NsSavedFiles /\ Unlinked' = {}
          /\ NsSavedFiles' = NsSavedFiles /\ NsSaved' = NsSaved /\ NsUsed' = NsUsed
          /\ ~ NsTorn'
      BY <2>1, <2>2, GoneViews, NextViews
    <3>. QED
      BY <2>2, <3>1 DEF NS!Abort, NsFiles, NsDir, NsSavedFiles, NsSaved, NsUsed, NsTorn
  <2>. QED
    BY <2>3 DEF NS!Next
<1>7. CASE BeginSave
  <2>1. mounted = "up" /\ mounted' = "saving" /\ UNCHANGED <<files, created>>
    BY <1>7 DEF BeginSave
  <2>2. /\ LiveFiles' = LiveFiles /\ FoundFiles' = FoundFiles /\ FirstFiles' = FirstFiles
        /\ Unlinked' = Unlinked
    BY <2>1, Views, ViewsNext
  <2>3. FoundFiles \subseteq FirstFiles /\ FirstFiles \subseteq LiveFiles
    BY Views, FoundAreFirst DEF FirstSlots, PairsOf
  <2>4. ASSUME NEW n \in Names, NS!Has(LiveFiles, n)
        PROVE  \E id \in Ids : \A other \in Ids : <<n, other>> \in FirstFiles <=> other = id
    <3>1. PICK i \in LiveSlots(files) : files[i].name = n
      BY <2>4, Views DEF NS!Has, PairsOf, Pair
    <3>2. \A j \in LiveSlots(files) : files[j].id \in Ids
      BY EntryType DEF LiveSlots, DfsFiles, DirInv
    <3>. QED
      BY <3>1, <3>2, OneFirst, Views
  <2>5. NS!Commit
    <3>1. /\ ~ NsTorn /\ ~ NsTorn' /\ NsSavedFiles' = NsFiles
          /\ NsDir \subseteq NsSaved' /\ NsSaved' \subseteq NsFiles
          /\ \A n \in Names : NS!Has(NsFiles, n) =>
               \E id \in Ids : \A other \in Ids : <<n, other>> \in NsSaved' <=> other = id
          /\ NsFiles' = NsFiles /\ NsDir' = NsDir /\ Unlinked' = Unlinked
          /\ NsUsed' = NsUsed
      BY <2>1, <2>2, <2>3, <2>4, UpViews, NextViews DEF NsUsed
    <3>. QED
      BY <3>1 DEF NS!Commit, NsFiles, NsDir, NsSavedFiles, NsSaved, NsUsed, NsTorn
  <2>. QED
    BY <2>5 DEF NS!Next
<1>8. CASE mounted = "saving" /\ Tears
  <2>1. Gone /\ mounted' = "torn"
    BY <1>8 DEF Tears
  <2>2. LineFiles(root_dir') \subseteq LiveFiles /\ FirstLines(root_dir') \subseteq FirstFiles
    <3>1. PICK k \in 0 .. Len(lines) : root_dir' = SubSeq(lines, 1, k)
      BY <1>8 DEF Tears
    <3>2. lines \in Seq(Lines) /\ LinesInv(lines, hidden, created)
      BY PrintedKeep DEF DirInv, TypeOK
    <3>3. /\ LineFiles(root_dir') \subseteq LineFiles(lines)
          /\ FirstLines(root_dir') \subseteq FirstLines(lines)
      BY <3>1, <3>2, SomeLines
    <3>4. LineFiles(lines) \subseteq LiveFiles /\ FirstLines(lines) \subseteq FirstFiles
      BY PrintedFiles, Views DEF DirInv
    <3>. QED
      BY <3>3, <3>4
  <2>3. NS!Tear
    <3>1. /\ ~ NsTorn /\ NsTorn' = TRUE
          /\ NsSaved' \subseteq NsSaved /\ NsSavedFiles' \subseteq NsSavedFiles
          /\ NsDir' = NsSaved' /\ NsFiles' = NsSavedFiles' /\ Unlinked' = {}
          /\ NsUsed' = NsUsed
      <4>1. NsTorn' = TRUE
        BY <2>1 DEF NsTorn
      <4>. QED
        BY <1>8, <2>1, <2>2, <4>1, GoneViews, SavingViews
    <3>. QED
      BY <3>1 DEF NS!Tear, NsFiles, NsDir, NsSavedFiles, NsSaved, NsUsed, NsTorn
  <2>. QED
    BY <2>3 DEF NS!Next
<1>9. CASE Mount
  <2>1. /\ Ended /\ mounted' = "up" /\ UNCHANGED <<root_dir, created>>
    BY <1>9 DEF Mount
  <2>2. Unlinked = {}
    <3>1. \A i \in Slots : files[i] = NULL
      BY <2>1 DEF DirInv, SavingInv, NoFiles
    <3>. QED
      BY <3>1, Views, EmptyTable
  <2>3. LiveFiles' = LineFiles(root_dir) /\ FoundFiles' = FirstLines(root_dir) /\ Unlinked' = {}
    BY <1>9, ViewsNext, MountTable DEF Mount, DirInv, TypeOK
  <2>4. /\ NsFiles' = NsFiles /\ NsDir' = NsDir /\ NsSavedFiles' = NsSavedFiles
        /\ NsSaved' = NsSaved /\ Unlinked' = Unlinked /\ NsUsed' = NsUsed /\ ~ NsTorn'
    BY <2>1, <2>2, <2>3, EndedViews, NextViews DEF NsUsed
  <2>5. CASE NsTorn
    <3>1. NS!Restart
      <4>1. NsTorn' = FALSE
        BY <2>1 DEF NsTorn
      <4>. QED
        BY <2>4, <2>5, <4>1
           DEF NS!Restart, NsFiles, NsDir, NsSavedFiles, NsSaved, NsUsed, NsTorn
    <3>. QED
      BY <3>1 DEF NS!Next
  <2>6. CASE ~ NsTorn
    <3>1. NsTorn' = NsTorn
      BY <2>1, <2>6 DEF NsTorn
    <3>. QED
      BY <2>4, <3>1, NsStutters DEF NsSame
  <2>. QED
    BY <2>5, <2>6
<1>. QED
  BY <1>1, <1>2, <1>3, <1>4, <1>5, <1>6, <1>7, <1>8, <1>9, StepKinds DEF DirInv

LEMMA InitImplements == Init => NS!Init
<1>. SUFFICES ASSUME Init PROVE NS!Init
  OBVIOUS
<1>1. Ended /\ mounted # "saving" /\ mounted # "torn"
  BY DEF Init, Ended
<1>2. LineFiles(root_dir) = {} /\ FirstLines(root_dir) = {}
  BY NoLines DEF Init
<1>3. Unlinked = {}
  <2>1. \A i \in Slots : files[i] = NULL
    BY DEF Init, NoFiles
  <2>. QED
    BY <2>1, Views, EmptyTable
<1>4. 1 .. created = {}
  BY DEF Init
<1>. QED
  BY <1>1, <1>2, <1>3, <1>4 DEF NS!Init

(***************************************************************************)
(* The directory implements Namespace, for every number of names, slots    *)
(* and files: a name leads to the file created last under it, an unmount   *)
(* commits exactly the files that exist, a mount finds what was committed, *)
(* a run that dies changes nothing, one that dies in its unmount brings no *)
(* file back, and only a file created behind a REMOVED entry is hidden.    *)
(***************************************************************************)
THEOREM DirectoryIsNamespace == Spec => ImplementsNamespace
<1>1. Init => NS!Init
  BY InitImplements
<1>2. DirInv /\ DirInv' /\ [Next]_vars => [NS!Next]_NS!vars
  BY StepsImplement
<1>3. Spec => []DirInv
  BY DirInvariant
<1>. QED
  BY <1>1, <1>2, <1>3, PTL DEF Spec, ImplementsNamespace, NS!Spec

=============================================================================

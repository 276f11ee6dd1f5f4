------------------------------- MODULE DfsDir -------------------------------
(***************************************************************************)
(* The directory (DfsDir in dfs_file.cpp) with the handlers that look up,  *)
(* make and remove names (dfs_fuse.cpp), the unmount that writes root.dir  *)
(* slot by slot, and the mount that reads it.  Of a file's contents only   *)
(* what decides about its entry is here: whether it is empty, and whether  *)
(* it has cached blocks.                                                   *)
(*                                                                         *)
(* History, which no code reads and root.dir does not hold: id tells the   *)
(* files that had a name one after the other apart, and hidden are those   *)
(* that were put into a slot behind a REMOVED entry of their name.         *)
(***************************************************************************)
EXTENDS Integers, Sequences

CONSTANTS
    NULL,
    Names,           \* what follows the "/" of a path, "dev" excepted
    MaxFile,         \* slots of the directory (100 in dfs_fuse.cpp)
    MaxCreated       \* bound: files created altogether

ASSUME DirAssumption ==
    /\ MaxFile \in Nat \ {0}
    /\ MaxCreated \in Nat

VARIABLES
    mounted,     \* "up", "saving" (in DfsDir::save and the destructors), "down",
                 \* or "torn": the program ended while it was saving
    files,       \* DfsDir::files
    slot,        \* the index i of DfsDir::save
    lines,       \* what save has printed: still in the buffer of its FILE
    root_dir,    \* the lines of root.dir
    created,     \* files created so far
    hidden       \* ids of those that were created behind a REMOVED entry

vars == <<mounted, files, slot, lines, root_dir, created, hidden>>

Slots == 0 .. MaxFile - 1
FileStatus == {"CREATED", "MODIFIED", "SYNCED", "REMOVED"}
Ids == 1 .. MaxCreated
DfsFiles == [name : Names, id : Ids, status : FileStatus,
             empty : BOOLEAN, cached : BOOLEAN]
Lines == [name : Names, id : Ids, empty : BOOLEAN]

ASSUME NullAssumption == NULL \notin DfsFiles

Resolves(fs, i) ==
    /\ fs[i] # NULL
    /\ \A j \in Slots : fs[j] # NULL /\ fs[j].name = fs[i].name => i <= j

\* DfsDir::find: the first entry of the name, REMOVED or not.
Find(n, i) == i \in Slots /\ Resolves(files, i) /\ files[i].name = n

\* is_file_exist(find(n)), which dfs_getattr and with it every lookup of the
\* kernel goes by.
Exists(n) == \E i \in Slots : Find(n, i) /\ files[i].status # "REMOVED"

\* The first free slot of DfsDir::add.
IsFree(i) == files[i] = NULL
FirstFree(i) == i \in Slots /\ IsFree(i) /\ \A j \in Slots : IsFree(j) => i <= j

NewFile(n) == [name |-> n, id |-> created + 1, status |-> "CREATED",
               empty |-> TRUE, cached |-> FALSE]

\* DfsFile(FILE *)
LoadedFile(l) == [name |-> l.name, id |-> l.id, status |-> "SYNCED",
                  empty |-> l.empty, cached |-> FALSE]

\* DfsFile::save
Line(f) == [name |-> f.name, id |-> f.id, empty |-> f.empty]

-----------------------------------------------------------------------------
NoFiles == [i \in Slots |-> NULL]

Init ==
    /\ mounted = "down" /\ files = NoFiles
    /\ slot = 0 /\ lines = <<>> /\ root_dir = <<>>
    /\ created = 0 /\ hidden = {}

Ended == mounted \in {"down", "torn"}

\* dfs_init, DfsDir::load
Mount ==
    /\ Ended /\ mounted' = "up"
    /\ files' = [i \in Slots |-> IF i < Len(root_dir) THEN LoadedFile(root_dir[i + 1])
                                                      ELSE NULL]
    /\ UNCHANGED <<slot, lines, root_dir, created, hidden>>

\* A handler that is given the name n finds the entry i and changes it to f.
Entry(n, i) == mounted = "up" /\ Find(n, i) /\ files[i].status # "REMOVED"
Becomes(i, f) ==
    /\ files' = [files EXCEPT ![i] = f]
    /\ UNCHANGED <<mounted, slot, lines, root_dir, created, hidden>>

\* dfs_create, and dfs_open for writing: the result of add is ignored, and
\* nobody asks whether a REMOVED entry comes before the new one.  Then find
\* does not lead to the new file, and it may be created once more.
Create(n) ==
    /\ mounted = "up" /\ created < MaxCreated
    /\ ~ Exists(n)
    /\ \/ \E i \in Slots :
             /\ FirstFree(i)
             /\ files' = [files EXCEPT ![i] = NewFile(n)]
             /\ created' = created + 1
             /\ hidden' = hidden \cup
                  {id \in {created + 1} : \E j \in Slots : j < i /\ Find(n, j)}
       \/ /\ \A i \in Slots : ~ IsFree(i)
          /\ UNCHANGED <<files, created, hidden>>
    /\ UNCHANGED <<mounted, slot, lines, root_dir>>

\* dfs_write
Written(f) == [f EXCEPT !.status = IF @ = "SYNCED" THEN "MODIFIED" ELSE @,
                        !.empty = FALSE, !.cached = TRUE]
Write(n) == \E i \in Slots : Entry(n, i) /\ Becomes(i, Written(files[i]))

\* dfs_read
Cached(f) == [f EXCEPT !.cached = TRUE]
Read(n) == \E i \in Slots :
    Entry(n, i) /\ ~ files[i].empty /\ Becomes(i, Cached(files[i]))

\* dfs_truncate, to 0 or to another size; the status stays.
Emptied(f) == [f EXCEPT !.cached = TRUE, !.empty = TRUE]
Truncate(n) == \E i \in Slots :
    /\ Entry(n, i)
    /\ Becomes(i, Emptied(files[i])) \/ Becomes(i, Cached(files[i]))

\* DfsFile::upload succeeds, fails or throws; it fails for sure when block 0 is
\* not cached, which also an empty file is expected to have.
MaySucceed(f) == f.cached
MayThrow(f) == f.cached
NeedsUpload(f) == f # NULL /\ f.status \in {"CREATED", "MODIFIED"}
Uploaded(f) == [f EXCEPT !.status = "SYNCED"]

\* The process ends.
Gone ==
    /\ files' = NoFiles
    /\ slot' = 0 /\ lines' = <<>>
    /\ UNCHANGED <<created, hidden>>

\* It ends in save: of the lines that save has printed, the buffers that were
\* full are in root.dir.
Tears ==
    /\ mounted' = "torn" /\ Gone
    /\ \E k \in 0 .. Len(lines) : root_dir' = SubSeq(lines, 1, k)

\* "sync <filename>"; an exception of upload() ends the process.
Sync(n) == \E i \in Slots :
    /\ Entry(n, i) /\ NeedsUpload(files[i])
    /\ \/ MaySucceed(files[i]) /\ Becomes(i, Uploaded(files[i]))
       \/ MayThrow(files[i]) /\ mounted' = "down" /\ Gone /\ UNCHANGED root_dir

\* "clear <filename>"
Clear(n) == \E i \in Slots :
    /\ Entry(n, i) /\ files[i].status = "SYNCED"
    /\ Becomes(i, [files[i] EXCEPT !.cached = FALSE])

\* DfsDir::unlink.  The blocks are deleted, the pointers to them are kept.
Removed(f) == IF f.status = "CREATED" THEN NULL ELSE [f EXCEPT !.status = "REMOVED"]
Unlink(n) == \E i \in Slots : Entry(n, i) /\ Becomes(i, Removed(files[i]))

-----------------------------------------------------------------------------
\* Mutant of BeginSave: root.dir is opened to append.
BeginSaveAppend ==
    /\ mounted = "up" /\ mounted' = "saving"
    /\ slot' = 0 /\ lines' = root_dir
    /\ UNCHANGED <<files, root_dir, created, hidden>>

\* dfs_destroy, DfsDir::save: fopen truncates root.dir.
BeginSave ==
    /\ mounted = "up" /\ mounted' = "saving"
    /\ slot' = 0 /\ lines' = <<>> /\ root_dir' = <<>>
    /\ UNCHANGED <<files, created, hidden>>

\* Mutant of IsSaved: REMOVED entries are saved too.
IsSavedAlways(f) == f # NULL
IsSaved(f) == f # NULL /\ f.status # "REMOVED"

\* One round of the loop of save; it leaves g in the slot.
SaveAs(f, g) ==
    /\ files' = [files EXCEPT ![slot] = g]
    /\ lines' = IF IsSaved(f) THEN Append(lines, Line(f)) ELSE lines
    /\ slot' = slot + 1
    /\ UNCHANGED <<mounted, root_dir, created, hidden>>
SaveSlot ==
    /\ mounted = "saving" /\ slot < MaxFile
    /\ LET f == files[slot]
       IN  \/ SaveAs(f, f)
              \* nothing to upload, or the upload fails
           \/ NeedsUpload(f) /\ MaySucceed(f) /\ SaveAs(f, Uploaded(f))
           \/ NeedsUpload(f) /\ MayThrow(f) /\ Tears

\* main returns, ~DfsDir deletes the files, and only then is the buffer of
\* save flushed: it never closed its FILE.  ~DfsFile deletes the blocks of a
\* file that was unlinked a second time, which may abort the program.
DeletesTwice == \E i \in Slots :
    files[i] # NULL /\ files[i].status = "REMOVED" /\ files[i].cached
Exit ==
    /\ mounted = "saving" /\ slot = MaxFile
    /\ \/ mounted' = "down" /\ root_dir' = lines /\ Gone
       \/ DeletesTwice /\ Tears

\* The process is killed, or dies of a garbage pointer that DfsFile(FILE *) left.
Crash ==
    \/ mounted = "up" /\ mounted' = "down" /\ Gone /\ UNCHANGED root_dir
    \/ mounted = "saving" /\ Tears

Next ==
    \/ \E n \in Names : \/ Create(n) \/ Write(n) \/ Read(n) \/ Truncate(n)
                        \/ Sync(n) \/ Clear(n) \/ Unlink(n)
    \/ Mount \/ BeginSave \/ SaveSlot \/ Exit \/ Crash

Spec == Init /\ [][Next]_vars

-----------------------------------------------------------------------------
(***************************************************************************)
(* Properties.                                                             *)
(***************************************************************************)
\* The tables keep their types; root.dir never has more lines than a mount
\* has slots for.
TypeOK ==
    /\ mounted \in {"up", "saving", "down", "torn"}
    /\ files \in [Slots -> DfsFiles \cup {NULL}]
    /\ slot \in 0 .. MaxFile
    /\ lines \in Seq(Lines) /\ Len(lines) <= slot
    /\ root_dir \in Seq(Lines) /\ Len(root_dir) <= MaxFile
    /\ created \in 0 .. MaxCreated
    /\ hidden \subseteq 1 .. created

Live == {i \in Slots : files[i] # NULL /\ files[i].status # "REMOVED"}

(***************************************************************************)
(* dfs_readdir walks the slots, dfs_getattr goes by the first entry of a   *)
(* name: both show the same files, whatever was unlinked, created again,   *)
(* saved and loaded before, but for a file that was itself created behind  *)
(* a REMOVED entry.  Such a file never comes before another of its name,   *)
(* and a name that is created again in an earlier slot is found.           *)
(***************************************************************************)
ListingIsLookup == \A i \in Live : Resolves(files, i) \/ files[i].id \in hidden

(***************************************************************************)
(* The directory implements Namespace: a name leads to the file that was   *)
(* created last under it until it is unlinked, an unmount saves exactly    *)
(* the files that exist, slot by slot and through REMOVED entries, a mount *)
(* finds them again, a run that is killed changes nothing, one that ends   *)
(* in its unmount loses files but brings none back, and what a user who    *)
(* creates a name again has to expect is a file that this run does not     *)
(* find, and nothing else.                                                 *)
(***************************************************************************)
Pair(f) == <<f.name, f.id>>
LiveFiles == {Pair(files[i]) : i \in Live}
FoundFiles == {Pair(files[i]) : i \in {j \in Live : Resolves(files, j)}}
FirstLive(i) == i \in Live /\ \A j \in Live : files[j].name = files[i].name => i <= j
FirstFiles == {Pair(files[i]) : i \in {j \in Live : FirstLive(j)}}
Unlinked == {n \in Names : \E i \in Slots : Find(n, i) /\ files[i].status = "REMOVED"}

FirstLine(ls, k) == \A h \in 1 .. Len(ls) : ls[h].name = ls[k].name => k <= h
LineFiles(ls) == {Pair(ls[k]) : k \in 1 .. Len(ls)}
FirstLines(ls) == {Pair(ls[k]) : k \in {h \in 1 .. Len(ls) : FirstLine(ls, h)}}

NS == INSTANCE Namespace WITH
    files <- IF Ended THEN LineFiles(root_dir) ELSE LiveFiles,
    dir <- IF Ended THEN FirstLines(root_dir) ELSE FoundFiles,
    saved_files <- IF mounted = "saving" THEN LiveFiles ELSE LineFiles(root_dir),
    saved <- IF mounted = "saving" THEN FirstFiles ELSE FirstLines(root_dir),
    unlinked <- Unlinked,
    used <- 1 .. created,
    torn <- mounted = "torn"

ImplementsNamespace == NS!Spec
=============================================================================

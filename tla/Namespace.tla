----------------------------- MODULE Namespace -----------------------------
(***************************************************************************)
(* What the user of a directory can rely on.  Names lead to files; a file  *)
(* is the identity it got when it was created, and no identity is given    *)
(* out twice.  A run of the program is a transaction: the unmount commits  *)
(* what there is, and a run that dies leaves what the last unmount         *)
(* committed.  Only a run that dies in its unmount is torn: it may lose    *)
(* files, and brings none back.                                            *)
(*                                                                         *)
(* A file is hidden when it exists and its name does not lead to it.  That *)
(* may happen to a file that gets a name which was unlinked in the same    *)
(* run, and to no other.  A later run may find it.                         *)
(***************************************************************************)
CONSTANTS Names, Ids

VARIABLES
    files,         \* the files that exist: pairs of a name and an identity
    dir,           \* those that their names lead to
    saved_files,   \* what the last unmount committed of both
    saved,
    unlinked,      \* names under which this run may hide new files
    used,          \* identities given out
    torn           \* the last run died in its unmount

vars == <<files, dir, saved_files, saved, unlinked, used, torn>>

Has(d, n) == \E id \in Ids : <<n, id>> \in d

Init ==
    /\ files = {} /\ dir = {} /\ saved_files = {} /\ saved = {}
    /\ unlinked = {} /\ used = {} /\ torn = FALSE

Create(n) ==
    /\ ~ torn /\ ~ Has(dir, n)
    /\ \E id \in Ids \ used :
         /\ files' = files \cup {<<n, id>>} /\ used' = used \cup {id}
         /\ \/ dir' = dir \cup {<<n, id>>} /\ unlinked' = unlinked \ {n}
            \/ n \in unlinked /\ UNCHANGED <<dir, unlinked>>
    /\ UNCHANGED <<saved_files, saved, torn>>

Remove(n) ==
    /\ ~ torn
    /\ \E id \in Ids :
         /\ <<n, id>> \in dir
         /\ dir' = dir \ {<<n, id>>} /\ files' = files \ {<<n, id>>}
    /\ unlinked' \in {unlinked, unlinked \cup {n}}
    /\ UNCHANGED <<saved_files, saved, used, torn>>

\* Every file is kept, and each name will lead to one of its files: to the
\* one that it leads to now, if there is one.
Commit ==
    /\ ~ torn
    /\ saved_files' = files
    /\ dir \subseteq saved' /\ saved' \subseteq files
    /\ \A n \in Names : Has(files, n) =>
         \E id \in Ids : \A other \in Ids : <<n, other>> \in saved' <=> other = id
    /\ UNCHANGED <<files, dir, unlinked, used, torn>>

\* The run is over, without a commit or after it.
Abort ==
    /\ ~ torn
    /\ dir' = saved /\ files' = saved_files /\ unlinked' = {}
    /\ UNCHANGED <<saved_files, saved, used, torn>>

Tear ==
    /\ ~ torn /\ torn' = TRUE
    /\ saved' \subseteq saved /\ saved_files' \subseteq saved_files
    /\ dir' = saved' /\ files' = saved_files' /\ unlinked' = {}
    /\ UNCHANGED used

Restart ==
    /\ torn /\ torn' = FALSE
    /\ UNCHANGED <<files, dir, saved_files, saved, unlinked, used>>

Next == (\E n \in Names : Create(n) \/ Remove(n)) \/ Commit \/ Abort \/ Tear \/ Restart

Spec == Init /\ [][Next]_vars
=============================================================================

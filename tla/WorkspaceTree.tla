---------------------------- MODULE WorkspaceTree ----------------------------
(***************************************************************************)
(* The workspace's Cargo inputs while their owner edits them, and the two  *)
(* walks over them: compute_workspace_fingerprint                          *)
(* (src/src/workspace_fingerprint.rs) and WorkspaceSnapshot::create        *)
(* (src/src/workspace_snapshot.rs).                                        *)
(*                                                                         *)
(* A fingerprint is the function from files to contents that was hashed:   *)
(* names and contents go into the hash with their lengths, in the order of *)
(* the sorted paths, so SHA-256 is taken as injective (names are UTF-8: it *)
(* gets others in their lossy form).  Both walks inspect a file without    *)
(* following links and read it in a second call that would follow one;     *)
(* files of a directory come from a listing made earlier.                  *)
(* Nested directories are listed the same way and have no case of their    *)
(* own; a file that is neither regular nor a link is left out by both.     *)
(***************************************************************************)
EXTENDS Operation

CONSTANTS
    RootFiles,      \* Cargo.toml, Cargo.lock, build.rs
    Manifest,       \* Cargo.toml
    SrcFiles,       \* what src may contain
    TestFiles,      \* what tests may contain
    Contents,       \* contents of regular files
    Absent, Link,   \* the entry is missing, or a symbolic link
    Outside,        \* what such a link leads to
    Trees,          \* what the workspace may hold when a call begins
    MaxEdits        \* bounds the owner's edits

VARIABLES
    tree,       \* Files -> Contents \cup {Absent, Link}
    edits,      \* number of edits so far
    todo,       \* files this walk still has to inspect
    listed,     \* how many of the source directories have been listed
    cursor,     \* the file inspected last, to be read next
    found,      \* files the fingerprint has collected
    taken       \* what the walk has read or copied

walkVars == <<todo, listed, cursor, found, taken>>
treeVars == <<tree, edits, walkVars>>

Files == RootFiles \cup SrcFiles \cup TestFiles

ASSUME TreeAssumption ==
    /\ Manifest \in RootFiles
    /\ Trees \subseteq [Files -> Contents \cup {Absent, Link}]

SourceDirectories == <<SrcFiles, TestFiles>>
Nothing == [f \in Files |-> Absent]
NoFile == "none"

WalkStart ==
    /\ todo = RootFiles /\ listed = 0 /\ cursor = NoFile
    /\ found = {} /\ taken = Nothing

(* The next walk begins.                                                   *)
WalkAgain ==
    /\ todo' = RootFiles /\ listed' = 0 /\ cursor' = NoFile
    /\ found' = {} /\ taken' = Nothing

(* The owner replaces, removes or adds a file, or puts a link in its place.*)
EditTree ==
    /\ ~ Answered /\ edits < MaxEdits
    /\ \E f \in Files, e \in Contents \cup {Absent, Link} :
        tree[f] # e /\ tree' = [tree EXCEPT ![f] = e]
    /\ edits' = edits + 1
    /\ UNCHANGED <<callState, walkVars>>

(* read_dir over src once the root files are done, over tests once src is. *)
ListSources ==
    /\ todo = {} /\ listed < 2
    /\ todo' = {f \in SourceDirectories[listed + 1] : tree[f] # Absent}
    /\ listed' = listed + 1
    /\ UNCHANGED <<cursor, found, taken>>

(* A link is refused; a root file may be missing, a listed one may not.    *)
InspectionFails(f) == tree[f] = Link \/ (listed > 0 /\ tree[f] = Absent)

(* Reading follows a link put there since; a file gone since is an error.  *)
ContentRead(f) == IF tree[f] = Link THEN Outside ELSE tree[f]

Skip(f) ==
    /\ todo' = todo \ {f}
    /\ UNCHANGED <<listed, cursor, found, taken>>

-----------------------------------------------------------------------------
(* The fingerprint: first all files are collected ...                      *)
CollectFile(f) ==
    /\ ~ InspectionFails(f)
    /\ IF tree[f] = Absent THEN Skip(f)
       ELSE /\ found' = found \cup {f}
            /\ todo' = todo \ {f}
            /\ UNCHANGED <<listed, cursor, taken>>

(* ... then each is inspected again and read.                              *)
InspectFound(f) ==
    /\ tree[f] \notin {Link, Absent}
    /\ cursor' = f
    /\ UNCHANGED <<todo, listed, found, taken>>

Take(f) ==
    /\ tree[f] # Absent
    /\ taken' = [taken EXCEPT ![f] = ContentRead(f)]
    /\ cursor' = NoFile
    /\ found' = found \ {f}
    /\ UNCHANGED <<todo, listed>>

(* Every file has been collected, and none is being read.                  *)
AllCollected == todo = {} /\ listed = 2 /\ cursor = NoFile

(* compute_workspace_fingerprint, one call of the file system at a time.   *)
(* The digest is `taken`, once everything has been read.  The walk fails   *)
(* where a file has no next step, and whenever a call fails.               *)
FingerprintWalks ==
    \/ \E f \in todo : CollectFile(f)
    \/ ListSources
    \/ AllCollected /\ \E f \in found : InspectFound(f)
    \/ cursor # NoFile /\ Take(cursor)

FingerprintDone == AllCollected /\ found = {}

-----------------------------------------------------------------------------
(* The snapshot: each file is inspected and copied at once.                *)
InspectForCopy(f) ==
    /\ ~ InspectionFails(f)
    /\ IF tree[f] = Absent THEN Skip(f)
       ELSE /\ cursor' = f
            /\ todo' = todo \ {f}
            /\ UNCHANGED <<listed, found, taken>>

(* copy_workspace_inputs and copy_directory.                               *)
SnapshotWalks ==
    \/ cursor = NoFile /\ \E f \in todo : InspectForCopy(f)
    \/ cursor = NoFile /\ ListSources
    \/ cursor # NoFile /\ Take(cursor)

SnapshotDone == todo = {} /\ listed = 2 /\ cursor = NoFile
=============================================================================

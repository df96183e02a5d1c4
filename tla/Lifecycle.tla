------------------------------ MODULE Lifecycle ------------------------------
(***************************************************************************)
(* Start and stop of the gateway process: `main` of src/src/main.rs, with  *)
(* the validation of the operational paths, the anchoring of their parent  *)
(* directory and the listener task of AdminSocket.                         *)
(*                                                                         *)
(* Abstracted: the review state and the audit log are configured in one    *)
(* parent directory.  The configured parent names a directory itself or is *)
(* a link to one; a canonical path is "configured" or, behind a link, the  *)
(* directory's own path.  A directory is told from others by device and    *)
(* inode, whose numbers are not given out again during a start.            *)
(***************************************************************************)
EXTENDS AdminSocket

CONSTANTS
    OutsideDirs, WorkspaceDirs,     \* directories
    MaxMoves,       \* bound: how often somebody replaces the parent
    MaxRuns         \* bound: starts of the process

Dirs == OutsideDirs \cup WorkspaceDirs
Files == {"state", "audit"}

(* A directory lies in the workspace or it does not; no directory has the  *)
(* name of the configured path or of one not looked up yet.                *)
ASSUME DirsAssumption ==
    /\ OutsideDirs \cap WorkspaceDirs = {}
    /\ {"configured", "unknown"} \cap Dirs = {}

(* What the configured parent may be: a directory put there is outside of  *)
(* the workspace by its path, a link leads anywhere.                       *)
Parents ==
    [dir : OutsideDirs, link : BOOLEAN] \cup [dir : WorkspaceDirs, link : {TRUE}]
Unknown == "unknown"
NoDirectories == [file \in Files |-> Unknown]

VARIABLES
    pc,             \* where main is
    checking,       \* the operational file it validates
    run,            \* the number of this process
    exit,           \* how the last process ended
    parent,         \* the operational files' parent directory
    moves,          \* how often it was replaced
    canonical,      \* canonical_parent
    exists,         \* symlink_metadata found the file
    validated,      \* the parent directory's identity as validated, per file
    path,           \* ValidatedOperationalStatePath.path, its directory part
    anchor,         \* the directory the store and the log hold open
    unsteady        \* files whose parent was replaced while validated

pathVars == <<canonical, exists, validated, path, anchor>>
adminVars == <<socketVars, taskVars>>
mainVars == <<pc, checking, run, exit, parent, moves, unsteady>>
vars == <<adminVars, mainVars, pathVars>>

Validation == {"canonicalize", "inspect", "entry", "resolve"}
Guarded == Validation \cup {"anchorAudit", "load", "open"}

Init ==
    /\ AdminInit
    /\ pc = "down" /\ checking = "state" /\ run = 0 /\ exit = "never"
    /\ parent \in Parents /\ moves = 0
    /\ canonical = Unknown /\ exists = FALSE
    /\ validated = NoDirectories /\ path = NoDirectories /\ anchor = NoDirectories
    /\ unsteady = {}

-----------------------------------------------------------------------------
Goto(step) ==
    pc' = step /\ UNCHANGED <<checking, run, exit, parent, moves, unsteady>>

Start ==
    /\ pc = "down" /\ run < MaxRuns
    /\ pc' = "config" /\ run' = run + 1
    /\ UNCHANGED <<exit, parent, moves, unsteady, checking, pathVars, adminVars>>

(* The process is gone: the kernel closes the socket, its file stays.      *)
Ends(how) ==
    /\ pc' = "down" /\ exit' = how
    /\ listening' = NoInode /\ guard' = NoInode /\ waiting' = 0
    /\ task' = "none" /\ aborted' = FALSE
    /\ conn' = NoLine /\ reply' = "none" /\ ran' = NoLine
    /\ checking' = "state" /\ unsteady' = {}
    /\ canonical' = Unknown /\ exists' = FALSE
    /\ validated' = NoDirectories /\ path' = NoDirectories /\ anchor' = NoDirectories
    /\ UNCHANGED <<run, parent, moves, connections, replaced>>

(* Workspace, socket path and configuration, before anything is created.   *)
ReadSettings ==
    /\ pc = "config"
    /\ \/ Goto("bind") /\ UNCHANGED <<adminVars, pathVars>>
       \/ Ends("refused") /\ UNCHANGED <<sock, wronged>>

(* create_admin_listener.                                                  *)
Bind ==
    /\ pc = "bind"
    /\ BindSocket(run)
    /\ Goto("secure")
    /\ UNCHANGED <<taskVars, pathVars>>

BindFails == pc = "bind" /\ Ends("refused") /\ UNCHANGED <<sock, wronged>>

(* set_permissions; when it fails there is no guard yet, and the socket    *)
(* file stays.                                                             *)
Secure ==
    /\ pc = "secure"
    /\ \/ Goto("guard") /\ UNCHANGED <<adminVars, pathVars>>
       \/ Ends("unsecured") /\ UNCHANGED <<sock, wronged>>

(* create_managed_admin_listener: with the guard, or without a listener.   *)
TakeOwnership ==
    /\ pc = "guard"
    /\ TakeGuard
    /\ Goto("canonicalize")
    /\ UNCHANGED <<taskVars, pathVars>>

LoseOwnership ==
    /\ pc = "guard"
    /\ ~ GuardTakes
    /\ RemoveSocket \/ UNCHANGED <<sock, wronged>>
    /\ Ends("refused")

-----------------------------------------------------------------------------
(* validate_operational_state_path, one call of the file system at a time. *)

(* std::fs::canonicalize and the directory at a canonical path.            *)
Canonical == IF parent.link THEN parent.dir ELSE "configured"
DirAt(where) == IF where = "configured" THEN parent.dir ELSE where

Canonicalize ==
    /\ pc = "canonicalize"
    /\ canonical' = Canonical
    /\ Goto("inspect")
    /\ UNCHANGED <<adminVars, exists, validated, path, anchor>>

InspectParent ==
    /\ pc = "inspect"
    /\ validated' = [validated EXCEPT ![checking] = DirAt(canonical)]
    /\ Goto("entry")
    /\ UNCHANGED <<adminVars, exists, canonical, path, anchor>>

(* Neither a link nor anything else than a regular file; else the start    *)
(* fails (StartFails).                                                     *)
InspectEntry ==
    /\ pc = "entry"
    /\ exists' \in BOOLEAN
    /\ Goto("resolve")
    /\ UNCHANGED <<adminVars, canonical, validated, path, anchor>>

(* The file's own canonical path, or the joined one while it is missing,   *)
(* compared with the workspace's by its components.                        *)
Resolved ==
    IF exists /\ canonical = "configured"
    THEN Canonical
    ELSE canonical

ResolveEntry ==
    /\ pc = "resolve"
    /\ Resolved \notin WorkspaceDirs
    /\ path' = [path EXCEPT ![checking] = Resolved]
    /\ IF checking = "state"
       THEN pc' = "canonicalize" /\ checking' = "audit"
       ELSE pc' = "anchorAudit" /\ UNCHANGED checking
    /\ canonical' = Unknown /\ exists' = FALSE
    /\ UNCHANGED <<run, exit, parent, moves, unsteady, adminVars, validated, anchor>>

(* Mutant: the opened directory is not compared with the validated one.    *)
SameDirectoryUnchecked(file) == TRUE

(* from_validated_path, load_from_validated_path: device and inode of the  *)
(* opened directory against the validated ones.                            *)
SameDirectory(file) == DirAt(path[file]) = validated[file]

Anchor(file, next) ==
    /\ SameDirectory(file)
    /\ anchor' = [anchor EXCEPT ![file] = DirAt(path[file])]
    /\ Goto(next)
    /\ UNCHANGED <<adminVars, exists, canonical, validated, path>>

AnchorAudit == pc = "anchorAudit" /\ Anchor("audit", "load")

(* A missing file is an empty store; an unreadable one fails the start.    *)
LoadStore == pc = "load" /\ Anchor("state", "open")

(* FileSystemCapability::try_new, then the listener task is spawned.  What *)
(* the validation found is not read again.                                 *)
Serve ==
    /\ pc = "open"
    /\ Goto("serving")
    /\ canonical' = Unknown /\ exists' = FALSE
    /\ validated' = NoDirectories /\ path' = NoDirectories
    /\ task' = "accept"
    /\ UNCHANGED <<socketVars, aborted, conn, reply, waiting, connections, ran, anchor>>

(* `?` anywhere between: a setting is missing or not absolute, a call      *)
(* fails, a check refuses.  The guard is dropped, then the listener.       *)
StartFails ==
    /\ pc \in Guarded
    /\ Goto("dropping")
    /\ UNCHANGED <<adminVars, pathVars>>

-----------------------------------------------------------------------------
(* The agents' side ends: standard input is closed, or the service fails.  *)
EndService ==
    /\ pc = "serving"
    /\ Goto("stopping")
    /\ UNCHANGED <<adminVars, pathVars>>

(* Mutant: the listener is waited for, but not told to stop.               *)
WaitForTask ==
    /\ pc = "stopping"
    /\ Goto("waiting")
    /\ UNCHANGED <<adminVars, pathVars>>

(* stop_admin_task: abort unless the task has ended ...                    *)
AbortTask ==
    /\ pc = "stopping"
    /\ Goto("waiting")
    /\ aborted' = (~ TaskEnded)
    /\ UNCHANGED <<socketVars, task, conn, reply, waiting, connections, ran, pathVars>>

(* ... then wait for it.  The guard is dropped whether main returns the    *)
(* listener's error, the service's or none.                                *)
JoinTask ==
    /\ pc = "waiting"
    /\ TaskEnded
    /\ Goto("dropping")
    /\ UNCHANGED <<adminVars, pathVars>>

(* Drop for AdminSocketPathGuard: compare, then remove by path.            *)
DropGuard ==
    /\ pc = "dropping"
    /\ IF GuardMatches
       THEN Goto("removing") /\ UNCHANGED <<adminVars, pathVars>>
       ELSE Ends("dropped") /\ UNCHANGED <<sock, wronged>>

RemoveOwnSocket == pc = "removing" /\ RemoveSocket /\ Ends("dropped")

(* lstat or the removal fails: nothing is reported.                        *)
DropFails ==
    /\ pc \in {"dropping", "removing"}
    /\ Ends("unremoved") /\ UNCHANGED <<sock, wronged>>

-----------------------------------------------------------------------------
(* The process dies, by a signal too: nothing handles one.                 *)
Crash ==
    /\ pc # "down"
    /\ Ends("crashed") /\ UNCHANGED <<sock, wronged>>

(* Somebody replaces the parent directory of the operational files.        *)
MoveParent ==
    /\ moves < MaxMoves
    /\ moves' = moves + 1
    /\ parent' \in Parents \ {parent}
    /\ unsteady' = IF pc \in Validation THEN unsteady \cup {checking} ELSE unsteady
    /\ UNCHANGED <<adminVars, pc, checking, run, exit, pathVars>>

(* The guard has recorded the listener's own, still open socket and not    *)
(* yet compared it with the path: what comes there now is another's.       *)
OwnSocketGuarded ==
    guard # NoInode /\ guard = listening /\ pc # "removing"

Main ==
    \/ ReadSettings \/ Bind \/ BindFails \/ Secure \/ TakeOwnership \/ LoseOwnership
    \/ Canonicalize \/ InspectParent \/ InspectEntry \/ ResolveEntry
    \/ AnchorAudit \/ LoadStore \/ Serve \/ StartFails
    \/ AbortTask \/ JoinTask \/ DropGuard \/ RemoveOwnSocket \/ DropFails

(* The listener task runs on a thread of its own.                          *)
Listener ==
    /\ ListenerStep \/ AcceptFails \/ ReadFails \/ ReplyFails
    /\ UNCHANGED <<mainVars, pathVars>>

Others ==
    \/ /\ Connect
       /\ UNCHANGED <<mainVars, pathVars>>
    \/ /\ ReplaceSocket(OwnSocketGuarded)
       /\ UNCHANGED <<taskVars, mainVars, pathVars>>
    \/ MoveParent

Next == Start \/ Main \/ EndService \/ Listener \/ Crash \/ Others

(* Both threads are scheduled, and a client that means to send its line    *)
(* has sent it: the steps that wait for one are enabled by its line.       *)
Fairness ==
    /\ WF_vars(Main)
    /\ WF_vars(ListenerStep /\ UNCHANGED <<mainVars, pathVars>>)

Spec == Init /\ [][Next]_vars /\ Fairness

-----------------------------------------------------------------------------
(* A process that ended with its guard dropped leaves no socket of its own *)
(* at the path (after a crash, a failed chmod or a failed removal it       *)
(* does).  And what others put there while the guard had recorded the open *)
(* listener's socket is never removed; what they put there before that, or *)
(* once the listener is closed, may be (main.rs:1498, 1688).               *)
StopCleansSocket ==
    /\ pc = "down" /\ exit = "dropped" => sock.by # run
    /\ ~ wronged

(* The store and the audit log work in a directory outside of the          *)
(* workspace, whatever becomes of the configured path after its            *)
(* validation.  Exception: the parent was replaced within the validation,  *)
(* whose calls each look the path up again (main.rs:411).                  *)
AnchoredWhereValidated ==
    \A file \in Files \ unsteady : anchor[file] \notin WorkspaceDirs

(* Once the agents' side has ended the process ends, although a client may *)
(* send no line or take no answer.                                         *)
ShutdownEnds == pc = "stopping" ~> pc = "down"

(* Waiting connections are accepted or refused, unless the one in service  *)
(* is stalled by its client; clients of another user cannot stall it.      *)
QueueMoves == waiting > 0 ~> waiting = 0 \/ Stalled
=============================================================================

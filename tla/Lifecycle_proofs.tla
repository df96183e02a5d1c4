-------------------------- MODULE Lifecycle_proofs --------------------------
(***************************************************************************)
(* Proofs about Lifecycle and AdminSocket, for any lines, directories and  *)
(* inode numbers and however often the process is started, the socket path *)
(* changed and the parent directory replaced.                              *)
(*                                                                         *)
(* Three invariants that do not need each other: what the listener task    *)
(* knows of the line it serves, what the guard knows of the object at the  *)
(* socket path, and what a validation that nobody disturbed knows of the   *)
(* parent directory.                                                       *)
(***************************************************************************)
EXTENDS Lifecycle, TLAPS

(* main has not come to the operational files yet.                         *)
Early == {"down", "config", "bind", "secure", "guard"}

(* What the listener task has found out about the line when it gets there. *)
LineInv ==
    /\ task \in {"none", "accept", "read", "command", "reply", "failed",
                 "cancelled"}
    /\ task \in {"read", "command", "reply"} =>
            conn \in Lines /\ conn.uid = "owner"
    /\ task = "command" => LineReturns /\ BytesRead > 0 /\ IsCommand
    /\ ran # NoLine =>
            task = "reply" /\ ran = conn /\ ran.valid /\ ran.len \in 1..MaxLength
    /\ reply # "none" => task = "reply"
    /\ pc \in Early \cup Guarded =>
            task = "none"
    /\ reply = "OK" => ran = conn

-----------------------------------------------------------------------------
(* main holds the guard.                                                   *)
Holding == Guarded \cup {"serving", "stopping", "waiting", "dropping", "removing"}

(* The object of this run is the one the guard names, and what others put  *)
(* at the path under the guard's eyes is not.                              *)
SocketInv ==
    /\ run \in Nat
    /\ sock.by \in 0..run
    /\ pc \in Early \cup Holding
    /\ pc # "down" \/ exit # "never" => run # 0
    /\ pc \in {"config", "bind"} => sock.by # run
    /\ pc \in {"secure", "guard"} => ~ sock.guarded
    /\ pc \in Early => guard = NoInode
    /\ pc \in {"secure", "guard"} \cup Holding => (sock.by = run => sock.socket)
    /\ pc \in Holding => /\ sock.by = run => sock.inode = guard
                         /\ sock.guarded => sock.inode # guard
    /\ pc = "removing" => ~ sock.guarded
    /\ pc = "down" /\ exit = "dropped" => sock.by # run
    /\ ~ wronged

-----------------------------------------------------------------------------
(* The file's validation is over.                                          *)
Checked(file) ==
    \/ pc \in {"anchorAudit", "load", "open"}
    \/ pc \in Validation /\ checking = "audit" /\ file = "state"

(* Until somebody replaces the parent during it, a validation sees one     *)
(* directory; and once it is over, that directory is outside.              *)
DirectoryInv ==
    /\ parent \in Parents
    /\ checking \in Files
    /\ pc \in Early => checking = "state"
    /\ validated = [file \in Files |-> validated[file]]
    /\ path = [file \in Files |-> path[file]]
    /\ anchor = [file \in Files |-> anchor[file]]
    /\ pc \in {"inspect", "entry", "resolve"} /\ checking \notin unsteady =>
            canonical = Canonical
    /\ pc \in {"entry", "resolve"} /\ checking \notin unsteady =>
            validated[checking] = parent.dir
    /\ \A file \in Files \ unsteady :
            /\ Checked(file) => validated[file] \notin WorkspaceDirs
            /\ anchor[file] \notin WorkspaceDirs

-----------------------------------------------------------------------------
(* No line a client sends is the absence of one.                           *)
LEMMA NoLineIsNoLine == NoLine \notin Lines
  <1>1. \A line \in Lines : line.uid \in {"owner", "other"}
    BY LineAssumption DEF Line
  <1>2. NoLine.uid = "nobody"
    BY DEF NoLine
  <1>3. QED
    BY <1>1, <1>2

LEMMA EndsKeepsLine == ASSUME NEW how, Ends(how) PROVE LineInv'
  BY DEF Ends, LineInv, Early

(* The steps of main that are neither the task's start nor the process's   *)
(* end leave the task alone.                                               *)
LEMMA MainLeavesTask ==
    ASSUME Main
    PROVE  \/ \E how : Ends(how)
           \/ Serve
           \/ /\ UNCHANGED <<task, conn, reply, ran>>
              /\ pc' \in Early \cup Guarded =>
                    pc \in Early \cup Guarded
  <1>1. CASE ReadSettings \/ Bind \/ BindFails \/ Secure \/ TakeOwnership
             \/ LoseOwnership
    BY <1>1 DEF ReadSettings, Bind, BindFails, Secure, TakeOwnership, LoseOwnership,
                Goto, adminVars, taskVars, Guarded, Early, Validation
  <1>2. CASE Canonicalize \/ InspectParent \/ InspectEntry \/ ResolveEntry
    BY <1>2 DEF Canonicalize, InspectParent, InspectEntry, ResolveEntry,
                Goto, adminVars, taskVars, Guarded, Early, Validation
  <1>3. CASE AnchorAudit \/ LoadStore \/ StartFails \/ AbortTask \/ JoinTask
    BY <1>3 DEF AnchorAudit, LoadStore, StartFails, AbortTask, JoinTask, Anchor,
                Goto, adminVars, taskVars, Guarded, Early, Validation
  <1>4. CASE DropGuard \/ RemoveOwnSocket \/ DropFails
    BY <1>4 DEF DropGuard, RemoveOwnSocket, DropFails,
                Goto, adminVars, taskVars, Guarded, Early, Validation
  <1>5. QED
    BY <1>1, <1>2, <1>3, <1>4 DEF Main

(* The steps of the listener task.                                         *)
LEMMA ListenerKeepsLine == LineInv /\ Listener => LineInv'
  <1> SUFFICES ASSUME LineInv, Listener PROVE LineInv'
    OBVIOUS
  <1>1. UNCHANGED pc
    BY DEF Listener, mainVars
  <1> USE NoLineIsNoLine, <1>1 DEF LineInv
  <1>2. CASE Accept
    BY <1>2 DEF Accept, VerifyPeer
  <1>3. CASE ReadNothing \/ ReadFails \/ Reply \/ ReplyFails
    BY <1>3 DEF ReadNothing, ReadFails, Reply, ReplyFails, NextConnection
  <1>4. CASE ReadCommand
    <2>1. LineReturns /\ BytesRead > 0 /\ conn' = conn /\ ran' = ran
          /\ task = "read"
      BY <1>4 DEF ReadCommand, Answer
    <2>2. CASE IsCommand
      BY <1>4, <2>1, <2>2 DEF ReadCommand, LineReturns, BytesRead, IsCommand
    <2>3. CASE ~ IsCommand
      BY <1>4, <2>1, <2>3 DEF ReadCommand, Answer
    <2>4. QED
      BY <2>2, <2>3
  <1>5. CASE RunCommand
    <2>1. /\ conn.len \in Nat /\ MaxLength \in Nat
          /\ BytesRead > 0 /\ BytesRead <= MaxLength /\ conn.valid
          /\ conn \in Lines /\ conn.uid = "owner"
      BY <1>5, LineAssumption DEF RunCommand, IsCommand, Line
    <2>2. conn.len \in 1..MaxLength
      BY <2>1 DEF BytesRead, Taken
    <2>3. /\ task = "command" /\ task' = "reply" /\ ran' = conn /\ conn' = conn
          /\ reply' \in {"OK", "ERROR"}
      BY <1>5 DEF RunCommand, Answer, FirstWord
    <2>4. QED
      BY <2>1, <2>2, <2>3
  <1>6. CASE Cancelled \/ AcceptFails
    BY <1>6 DEF Cancelled, AcceptFails, CloseListener
  <1>7. QED
    BY <1>2, <1>3, <1>4, <1>5, <1>6 DEF Listener, ListenerStep

LEMMA NextKeepsLine == LineInv /\ [Next]_vars => LineInv'
  <1> SUFFICES ASSUME LineInv, [Next]_vars PROVE LineInv'
    OBVIOUS
  <1>1. ASSUME UNCHANGED <<task, conn, reply, ran>>,
               pc' \in Early \cup Guarded =>
                  pc \in Early \cup Guarded
        PROVE  LineInv'
    BY <1>1 DEF LineInv, LineReturns, BytesRead, IsCommand
  <1>2. CASE Main
    <2>1. CASE Serve
      BY <2>1 DEF Serve, Goto, LineInv, Guarded, Early, Validation
    <2>2. QED
      BY <1>1, <1>2, <2>1, MainLeavesTask, EndsKeepsLine
  <1>3. CASE Start \/ EndService
    BY <1>1, <1>3 DEF Start, EndService, Goto, adminVars, taskVars, Guarded, Early, Validation
  <1>4. CASE Crash
    BY <1>4, EndsKeepsLine DEF Crash
  <1>5. CASE Others
    BY <1>1, <1>5 DEF Others, Connect, MoveParent, adminVars, taskVars, mainVars
  <1>6. CASE UNCHANGED vars
    BY <1>1, <1>6 DEF vars, adminVars, taskVars, mainVars
  <1>7. QED
    BY <1>2, <1>3, <1>4, <1>5, <1>6, ListenerKeepsLine DEF Next

LEMMA InitLine == Init => LineInv
  BY DEF Init, AdminInit, LineInv

(* A command takes effect only if the gateway's own user sent it as a      *)
(* whole line of an accepted length, and OK is said only of one that did.  *)
THEOREM LifecycleOwnersLines == Spec => []OnlyOwnersLinesTakeEffect
  <1>1. Spec => []LineInv
    BY InitLine, NextKeepsLine, PTL DEF Spec
  <1>2. LineInv => OnlyOwnersLinesTakeEffect
    BY DEF LineInv, OnlyOwnersLinesTakeEffect
  <1>3. QED
    BY <1>1, <1>2, PTL

-----------------------------------------------------------------------------
(* No step of the listener task, and no client, touches the socket path,   *)
(* the guard or main.                                                      *)
LEMMA ListenerLeavesSocket ==
    ASSUME Listener
    PROVE  UNCHANGED <<sock, guard, wronged, pc, run, exit>>
  BY DEF Listener, ListenerStep, Accept, ReadNothing, ReadCommand, RunCommand,
         Reply, Cancelled, AcceptFails, ReadFails, ReplyFails, NextConnection,
         Answer, CloseListener, socketVars, mainVars

(* The steps of main from the validation to the join of the task.          *)
LEMMA ServingLeavesSocket ==
    ASSUME \/ Canonicalize \/ InspectParent \/ InspectEntry \/ ResolveEntry
           \/ AnchorAudit \/ LoadStore \/ Serve \/ StartFails
           \/ EndService \/ AbortTask \/ JoinTask
    PROVE  /\ UNCHANGED <<sock, guard, wronged, run, exit>>
           /\ pc \in Holding \ {"removing"} /\ pc' \in Holding \ {"removing"}
  <1> USE DEF Goto, adminVars, socketVars, Holding, Guarded, Early, Validation
  <1>1. CASE Canonicalize \/ InspectParent \/ InspectEntry \/ ResolveEntry
    BY <1>1 DEF Canonicalize, InspectParent, InspectEntry, ResolveEntry
  <1>2. CASE AnchorAudit \/ LoadStore
    BY <1>2 DEF AnchorAudit, LoadStore, Anchor
  <1>3. CASE Serve \/ StartFails \/ EndService \/ AbortTask \/ JoinTask
    BY <1>3 DEF Serve, StartFails, EndService, AbortTask, JoinTask
  <1>4. QED
    BY <1>1, <1>2, <1>3

(* An end that does not drop the guard's claim.                            *)
LEMMA EndsKeepsSocket ==
    ASSUME SocketInv, NEW how \in {"refused", "unsecured", "unremoved", "crashed"},
           Ends(how), pc # "down",
           sock' = sock \/ sock' = Nothing, wronged' = FALSE
    PROVE  SocketInv'
  BY DEF SocketInv, Ends, Nothing, Object, Holding, Guarded, Early, Validation

LEMMA MainKeepsSocket == SocketInv /\ Main => SocketInv'
  <1> SUFFICES ASSUME SocketInv, Main PROVE SocketInv'
    OBVIOUS
  <1>1. wronged = FALSE
    BY DEF SocketInv
  <1>2. CASE ReadSettings
    <2>1. CASE Ends("refused") /\ UNCHANGED <<sock, wronged>>
      BY <1>1, <1>2, <2>1, EndsKeepsSocket DEF ReadSettings
    <2>2. CASE Goto("bind") /\ UNCHANGED <<adminVars, pathVars>>
      BY <1>2, <2>2 DEF ReadSettings, Goto, adminVars, socketVars, SocketInv,
                        Holding, Guarded, Early, Validation
    <2>3. QED
      BY <1>2, <2>1, <2>2 DEF ReadSettings
  <1>3. CASE Bind
    BY <1>3 DEF Bind, BindSocket, Goto, SocketInv, Object, Holding, Guarded, Early,
                Validation
  <1>4. CASE BindFails
    BY <1>1, <1>4, EndsKeepsSocket DEF BindFails
  <1>5. CASE Secure
    <2>1. CASE Ends("unsecured") /\ UNCHANGED <<sock, wronged>>
      BY <1>1, <1>5, <2>1, EndsKeepsSocket DEF Secure
    <2>2. CASE Goto("guard") /\ UNCHANGED <<adminVars, pathVars>>
      BY <1>5, <2>2 DEF Secure, Goto, adminVars, socketVars, SocketInv,
                        Holding, Guarded, Early, Validation
    <2>3. QED
      BY <1>5, <2>1, <2>2 DEF Secure
  <1>6. CASE TakeOwnership
    BY <1>6 DEF TakeOwnership, TakeGuard, GuardTakes, Goto, SocketInv, Holding,
                Guarded, Early, Validation
  <1>7. CASE LoseOwnership
    <2>1. /\ pc # "down" /\ ~ sock.guarded
          /\ sock' = sock \/ sock' = Nothing
          /\ wronged' = FALSE
      BY <1>1, <1>7 DEF LoseOwnership, RemoveSocket, SocketInv
    <2>2. QED
      BY <1>7, <2>1, EndsKeepsSocket DEF LoseOwnership
  <1>8. CASE DropGuard
    <2>1. CASE GuardMatches
      BY <1>8, <2>1 DEF DropGuard, GuardMatches, Goto, adminVars, socketVars,
                        SocketInv, Holding, Guarded, Early, Validation
    <2>2. CASE ~ GuardMatches
      BY <1>8, <2>2 DEF DropGuard, GuardMatches, Ends, SocketInv, Holding,
                        Guarded, Early, Validation
    <2>3. QED
      BY <2>1, <2>2
  <1>9. CASE RemoveOwnSocket
    <2>1. /\ pc = "removing" /\ pc' = "down" /\ guard' = NoInode
          /\ run \in Nat /\ run # 0 /\ run' = run
          /\ ~ sock.guarded
      BY <1>9 DEF RemoveOwnSocket, Ends, SocketInv
    <2>2. wronged' = FALSE
      BY <1>1, <1>9, <2>1 DEF RemoveOwnSocket, RemoveSocket
    <2>3. sock'.by = 0
      BY <1>9 DEF RemoveOwnSocket, RemoveSocket, Nothing, Object
    <2>4. QED
      BY <2>1, <2>2, <2>3 DEF SocketInv, Holding, Guarded, Early, Validation
  <1>10. CASE DropFails
    BY <1>1, <1>10, EndsKeepsSocket DEF DropFails
  <1>11. CASE \/ Canonicalize \/ InspectParent \/ InspectEntry \/ ResolveEntry
              \/ AnchorAudit \/ LoadStore \/ Serve \/ StartFails
              \/ AbortTask \/ JoinTask
    BY <1>11, ServingLeavesSocket DEF SocketInv, Holding, Guarded, Early, Validation
  <1>12. QED
    BY <1>2, <1>3, <1>4, <1>5, <1>6, <1>7, <1>8, <1>9, <1>10, <1>11 DEF Main

LEMMA OthersKeepSocket == SocketInv /\ Others => SocketInv'
  <1> SUFFICES ASSUME SocketInv, Others PROVE SocketInv'
    OBVIOUS
  <1>1. CASE \E guarded \in {OwnSocketGuarded} : ReplaceSocket(guarded)
                /\ UNCHANGED <<taskVars, mainVars, pathVars>>
    <2>1. /\ UNCHANGED <<guard, wronged, pc, run, exit>>
          /\ sock'.by = 0
          /\ sock'.guarded => OwnSocketGuarded /\ sock'.inode # listening
      BY <1>1 DEF ReplaceSocket, mainVars, Nothing, Object, FreeInodes
    <2>2. sock'.guarded => /\ sock'.inode # guard
                           /\ guard # NoInode
                           /\ pc # "removing"
      BY <2>1 DEF OwnSocketGuarded
    <2>3. QED
      BY <2>1, <2>2 DEF SocketInv, Holding, Guarded, Early, Validation
  <1>2. CASE Connect /\ UNCHANGED <<mainVars, pathVars>>
    BY <1>2 DEF Connect, socketVars, mainVars, SocketInv
  <1>3. CASE MoveParent
    BY <1>3 DEF MoveParent, adminVars, socketVars, SocketInv
  <1>4. QED
    BY <1>1, <1>2, <1>3 DEF Others

LEMMA NextKeepsSocket == SocketInv /\ [Next]_vars => SocketInv'
  <1> SUFFICES ASSUME SocketInv, [Next]_vars PROVE SocketInv'
    OBVIOUS
  <1>1. CASE Start
    BY <1>1 DEF Start, adminVars, socketVars, SocketInv, Holding, Guarded, Early,
                Validation
  <1>2. CASE EndService
    BY <1>2, ServingLeavesSocket DEF SocketInv, Holding, Guarded, Early, Validation
  <1>3. CASE Listener
    BY <1>3, ListenerLeavesSocket DEF SocketInv
  <1>4. CASE Crash
    <2>1. wronged = FALSE
      BY DEF SocketInv
    <2>2. QED
      BY <1>4, <2>1, EndsKeepsSocket DEF Crash
  <1>5. CASE UNCHANGED vars
    BY <1>5 DEF vars, adminVars, socketVars, mainVars, SocketInv
  <1>6. QED
    BY <1>1, <1>2, <1>3, <1>4, <1>5, MainKeepsSocket, OthersKeepSocket DEF Next

LEMMA InitSocket == Init => SocketInv
  BY DEF Init, AdminInit, SocketInv, Nothing, Object, Holding, Guarded, Early, Validation

(* A process that drops its guard leaves no socket of its own, and removes *)
(* nothing that others put at the path while the guard watched it.         *)
THEOREM LifecycleStopCleansSocket == Spec => []StopCleansSocket
  <1>1. Spec => []SocketInv
    BY InitSocket, NextKeepsSocket, PTL DEF Spec
  <1>2. SocketInv => StopCleansSocket
    BY DEF SocketInv, StopCleansSocket
  <1>3. QED
    BY <1>1, <1>2, PTL

-----------------------------------------------------------------------------
(* The directory of a parent that is no link is outside by its path.       *)
LEMMA ParentFacts ==
    ASSUME parent \in Parents
    PROVE  /\ parent.dir \in Dirs
           /\ ~ parent.link => parent.dir \in OutsideDirs
           /\ parent.link \in BOOLEAN
           /\ Canonical \notin WorkspaceDirs => parent.dir \notin WorkspaceDirs
           /\ DirAt(Canonical) = parent.dir
  BY DirsAssumption DEF Parents, Dirs, Canonical, DirAt

LEMMA EndsKeepsDirectory ==
    ASSUME DirectoryInv, NEW how, Ends(how) PROVE DirectoryInv'
  <1>1. Unknown \notin WorkspaceDirs
    BY DirsAssumption DEF Unknown, Dirs
  <1>2. \A file \in Files : NoDirectories[file] \notin WorkspaceDirs
    BY <1>1 DEF NoDirectories
  <1>3. QED
    BY <1>2 DEF Ends, DirectoryInv, NoDirectories, Checked, Validation, Files

(* A step that does not touch the paths, and does not go back to a         *)
(* validation.                                                             *)
LEMMA OtherStepKeepsDirectory ==
    ASSUME DirectoryInv, UNCHANGED <<checking, parent, unsteady, pathVars>>,
           pc' = pc \/ pc' \notin Validation \cup {"anchorAudit", "load", "open"},
           pc' \in Early => pc \in Early
    PROVE  DirectoryInv'
  BY DEF DirectoryInv, pathVars, Checked, Validation, Canonical

LEMMA NextKeepsDirectory == DirectoryInv /\ [Next]_vars => DirectoryInv'
  <1> SUFFICES ASSUME DirectoryInv, [Next]_vars PROVE DirectoryInv'
    OBVIOUS
  <1>1. parent \in Parents /\ checking \in Files
    BY DEF DirectoryInv
  <1>2. CASE \/ Start \/ EndService \/ Listener
             \/ Connect /\ UNCHANGED <<mainVars, pathVars>>
             \/ ReplaceSocket(OwnSocketGuarded) /\ UNCHANGED <<taskVars, mainVars, pathVars>>
             \/ Bind \/ StartFails \/ AbortTask \/ JoinTask
             \/ UNCHANGED vars
    <2>1. /\ UNCHANGED <<checking, parent, unsteady, pathVars>>
          /\ pc' = pc \/ pc' \notin Validation \cup {"anchorAudit", "load", "open"}
          /\ pc' \in Early => pc \in Early
      BY <1>2 DEF Start, EndService, Listener, Bind, StartFails, AbortTask,
                  JoinTask, Goto, mainVars, vars, Validation, Early
    <2>2. QED
      BY <2>1, OtherStepKeepsDirectory
  <1>3. CASE Main
    <2>1. CASE \E how : Ends(how)
      BY <2>1, EndsKeepsDirectory
    <2>2. CASE \/ pc = "config" /\ Goto("bind") /\ UNCHANGED <<adminVars, pathVars>>
               \/ pc = "secure" /\ Goto("guard") /\ UNCHANGED <<adminVars, pathVars>>
               \/ pc = "dropping" /\ Goto("removing") /\ UNCHANGED <<adminVars, pathVars>>
      BY <2>2, OtherStepKeepsDirectory DEF Goto, Validation, Early
    <2>3. CASE TakeOwnership
      <3>1. /\ UNCHANGED <<checking, parent, unsteady, pathVars>>
            /\ pc = "guard" /\ pc' = "canonicalize"
        BY <2>3 DEF TakeOwnership, Goto
      <3>2. QED
        BY <3>1 DEF DirectoryInv, pathVars, Checked, Validation, Canonical, Early
    <2>4. CASE Canonicalize
      <3>1. /\ pc = "canonicalize" /\ pc' = "inspect" /\ canonical' = Canonical
            /\ UNCHANGED <<checking, parent, unsteady, validated, path, anchor>>
        BY <2>4 DEF Canonicalize, Goto
      <3>2. QED
        BY <3>1 DEF DirectoryInv, Checked, Validation, Canonical, Early
    <2>5. CASE InspectParent
      <3>1. /\ pc = "inspect" /\ pc' = "entry"
            /\ validated' = [validated EXCEPT ![checking] = DirAt(canonical)]
            /\ UNCHANGED <<checking, parent, unsteady, canonical, path, anchor>>
        BY <2>5 DEF InspectParent, Goto
      <3>2. /\ validated' = [file \in Files |-> validated'[file]]
            /\ validated'[checking] = DirAt(canonical)
            /\ \A file \in Files \ {checking} : validated'[file] = validated[file]
        BY <1>1, <3>1 DEF DirectoryInv
      <3>3. checking \notin unsteady => validated'[checking] = parent.dir
        BY <1>1, <3>1, <3>2, ParentFacts DEF DirectoryInv
      <3>4. \A file \in Files : Checked(file)' => file # checking /\ Checked(file)
        BY <1>1, <3>1 DEF Checked, Validation, Files
      <3>5. QED
        BY <3>1, <3>2, <3>3, <3>4 DEF DirectoryInv, Canonical, Early
    <2>6. CASE InspectEntry
      <3>1. /\ pc = "entry" /\ pc' = "resolve"
            /\ UNCHANGED <<checking, parent, unsteady, canonical, validated, path,
                           anchor>>
        BY <2>6 DEF InspectEntry, Goto
      <3>2. QED
        BY <3>1 DEF DirectoryInv, Checked, Validation, Canonical, Early
    <2>7. CASE ResolveEntry
      <3>1. /\ pc = "resolve" /\ Resolved \notin WorkspaceDirs
            /\ path' = [path EXCEPT ![checking] = Resolved]
            /\ UNCHANGED <<parent, unsteady, validated, anchor>>
            /\ \/ checking = "state" /\ pc' = "canonicalize" /\ checking' = "audit"
               \/ checking = "audit" /\ pc' = "anchorAudit" /\ checking' = "audit"
        BY <1>1, <2>7 DEF ResolveEntry, Files
      <3>2. checking \notin unsteady => validated[checking] \notin WorkspaceDirs
        BY <3>1, ParentFacts DEF DirectoryInv, Resolved, Canonical
      <3>3. \A file \in Files : Checked(file)' => file = checking \/ Checked(file)
        BY <3>1 DEF Checked, Validation, Files
      <3>4. path' = [file \in Files |-> path'[file]]
        BY <3>1 DEF DirectoryInv
      <3>5. checking' \in Files /\ pc' \notin {"inspect", "entry", "resolve"}
        BY <3>1 DEF Files
      <3>6. QED
        BY <3>1, <3>2, <3>3, <3>4, <3>5 DEF DirectoryInv, Early
    <2>8. CASE AnchorAudit \/ LoadStore
      <3>1. PICK file \in Files :
              /\ SameDirectory(file)
              /\ anchor' = [anchor EXCEPT ![file] = DirAt(path[file])]
              /\ UNCHANGED <<checking, parent, unsteady, canonical, validated, path>>
              /\ pc \in {"anchorAudit", "load"} /\ pc' \in {"load", "open"}
        BY <2>8 DEF AnchorAudit, LoadStore, Anchor, Goto, Files
      <3>2. \A other \in Files : Checked(other) /\ Checked(other)'
        BY <3>1 DEF Checked
      <3>3. anchor'[file] = validated[file]
        BY <3>1 DEF SameDirectory, DirectoryInv
      <3>4. \A other \in Files \ unsteady : anchor'[other] \notin WorkspaceDirs
        BY <3>1, <3>2, <3>3 DEF DirectoryInv
      <3>5. anchor' = [other \in Files |-> anchor'[other]]
        BY <3>1 DEF DirectoryInv
      <3>6. QED
        BY <3>1, <3>2, <3>4, <3>5 DEF DirectoryInv, Early
    <2>9. CASE Serve
      <3>1. /\ pc' = "serving"
            /\ validated' = NoDirectories /\ path' = NoDirectories
            /\ UNCHANGED <<checking, parent, unsteady, anchor>>
        BY <2>9 DEF Serve, Goto
      <3>2. QED
        BY <3>1 DEF DirectoryInv, NoDirectories, Checked, Validation, Early
    <2>10. QED
      BY <1>2, <1>3, <2>1, <2>2, <2>3, <2>4, <2>5, <2>6, <2>7, <2>8, <2>9
         DEF Main, ReadSettings, BindFails, Secure, LoseOwnership, DropGuard,
             RemoveOwnSocket, DropFails
  <1>4. CASE Crash
    BY <1>4, EndsKeepsDirectory DEF Crash
  <1>5. CASE MoveParent
    <2>1. /\ parent' \in Parents
          /\ unsteady \subseteq unsteady'
          /\ pc \in Validation => checking \in unsteady'
          /\ UNCHANGED <<pc, checking, canonical, validated, path, anchor>>
      BY <1>5 DEF MoveParent, pathVars
    <2>2. QED
      BY <2>1 DEF DirectoryInv, Checked, Validation
  <1>6. QED
    BY <1>2, <1>3, <1>4, <1>5 DEF Next, Others

LEMMA InitDirectory == Init => DirectoryInv
  <1>1. Unknown \notin WorkspaceDirs
    BY DirsAssumption DEF Unknown, Dirs
  <1>2. QED
    BY <1>1 DEF Init, DirectoryInv, NoDirectories, Checked, Validation, Files

(* The store and the log work outside of the workspace, unless the parent  *)
(* was replaced within the validation itself.                              *)
THEOREM LifecycleAnchoredWhereValidated == Spec => []AnchoredWhereValidated
  <1>1. Spec => []DirectoryInv
    BY InitDirectory, NextKeepsDirectory, PTL DEF Spec
  <1>2. DirectoryInv => AnchoredWhereValidated
    BY DEF DirectoryInv, AnchoredWhereValidated
  <1>3. QED
    BY <1>1, <1>2, PTL
=============================================================================

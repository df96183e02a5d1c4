------------------------------ MODULE AuditLog ------------------------------
(***************************************************************************)
(* The audit log file (src/src/audit.rs, persist_audit_with_parent) under  *)
(* the audit mutex (src/src/main.rs, persist_audit_locked).                *)
(*                                                                         *)
(* Each writer appends one record.  The file is opened again for every     *)
(* record; `writeln!` on an unbuffered File makes one write for the JSON   *)
(* text and one for the line end.  Any of the calls can fail, a write can  *)
(* stop in the middle, the process can end between two calls, and a power  *)
(* loss keeps the synced part of the file and any prefix beyond it, or no  *)
(* file at all when its directory entry was never synced.                  *)
(*                                                                         *)
(* The records' text, file permissions and the checks of the file's type   *)
(* are left out.  No other file of the directory is synced here (the       *)
(* review store's path is configured independently).                       *)
(***************************************************************************)
EXTENDS Naturals, SequencesExt

CONSTANTS
    Writers,        \* calls of persist_record, one record each
    NoWriter,       \* the mutex is free
    FileExists,     \* the log of an earlier run is there at the beginning
    WriteFaults,    \* calls that may fail in a run
    Outages         \* "crash" and "power" in the runs that have them

Calls == {"open", "secure", "syncNew", "json", "newline", "sync", "syncParent"}

ASSUME NoWriterAssumption == NoWriter \notin Writers
ASSUME FileExistsAssumption == FileExists \in BOOLEAN
ASSUME WriteFaultsAssumption == WriteFaults \subseteq Calls
ASSUME OutagesAssumption == Outages \subseteq {"crash", "power"}

VARIABLES
    lock,           \* audit_lock: Mutex<()>
    pc,             \* the call each writer makes next
    created,        \* newly_created
    exists,         \* the directory names the file
    linked,         \* and that entry is durable
    file,           \* what was appended, a sequence of pieces
    syncedLen       \* how many pieces the last file.sync_all covered

vars == <<lock, pc, created, exists, linked, file, syncedLen>>

(* A piece of the file: a record's text, a beginning of it, a line end.    *)
Json(w) == [kind |-> "json", by |-> w]
Torn(w) == [kind |-> "torn", by |-> w]
LineEnd(w) == [kind |-> "newline", by |-> w]
Pieces == [kind : {"json", "torn", "newline"}, by : Writers]

Init ==
    /\ lock = NoWriter
    /\ pc = [w \in Writers |-> "start"]
    /\ created = [w \in Writers |-> FALSE]
    /\ exists = FileExists
    /\ linked = FileExists
    /\ file = <<>>
    /\ syncedLen = 0

-----------------------------------------------------------------------------
Goto(w, state) == pc' = [pc EXCEPT ![w] = state]

(* Mutant: the mutex is not shared between callers.                        *)
AcquireUnshared(w) ==
    /\ pc[w] = "start"
    /\ lock' = w
    /\ Goto(w, "open")
    /\ UNCHANGED <<created, exists, linked, file, syncedLen>>

Acquire(w) ==
    /\ pc[w] = "start"
    /\ lock = NoWriter
    /\ lock' = w
    /\ Goto(w, "open")
    /\ UNCHANGED <<created, exists, linked, file, syncedLen>>

(* Mutant: a call that fails leaves the mutex taken.                       *)
ReturnLocked(w, result) ==
    /\ Goto(w, result)
    /\ lock' = IF result = "failed" THEN lock ELSE NoWriter

(* The guard is dropped when persist_audit_locked returns.                 *)
Return(w, result) ==
    /\ Goto(w, result)
    /\ lock' = NoWriter

(* A call fails and has changed nothing: `?` returns the error.            *)
Fail(w) ==
    /\ pc[w] \in WriteFaults
    /\ Return(w, "failed")
    /\ UNCHANGED <<created, exists, linked, file, syncedLen>>

(* Mutant: an existing file is truncated instead of appended to.           *)
OpenTruncating(w) ==
    /\ pc[w] = "open"
    /\ created' = [created EXCEPT ![w] = ~ exists]
    /\ exists' = TRUE
    /\ file' = <<>>
    /\ syncedLen' = 0
    /\ Goto(w, "secure")
    /\ UNCHANGED <<lock, linked>>

(* openat with O_CREAT and O_EXCL, then without.                           *)
Open(w) ==
    /\ pc[w] = "open"
    /\ created' = [created EXCEPT ![w] = ~ exists]
    /\ exists' = TRUE
    /\ Goto(w, "secure")
    /\ UNCHANGED <<lock, linked, file, syncedLen>>

(* Metadata and permissions; only a new file is synced with its directory  *)
(* before the record is written.                                           *)
Secure(w) ==
    /\ pc[w] = "secure"
    /\ Goto(w, IF created[w] THEN "syncNew" ELSE "json")
    /\ UNCHANGED <<lock, created, exists, linked, file, syncedLen>>

SyncNew(w) ==
    /\ pc[w] = "syncNew"
    /\ linked' = TRUE
    /\ syncedLen' = Len(file)
    /\ Goto(w, "json")
    /\ UNCHANGED <<lock, created, exists, file>>

WriteJson(w) ==
    /\ pc[w] = "json"
    /\ file' = Append(file, Json(w))
    /\ Goto(w, "newline")
    /\ UNCHANGED <<lock, created, exists, linked, syncedLen>>

(* write_all stops after part of the text, for instance on a full disk.    *)
TearJson(w) ==
    /\ pc[w] = "json"
    /\ "json" \in WriteFaults
    /\ file' = Append(file, Torn(w))
    /\ Return(w, "failed")
    /\ UNCHANGED <<created, exists, linked, syncedLen>>

WriteNewline(w) ==
    /\ pc[w] = "newline"
    /\ file' = Append(file, LineEnd(w))
    /\ Goto(w, "sync")
    /\ UNCHANGED <<lock, created, exists, linked, syncedLen>>

(* Mutant: the record is flushed but not synced.                           *)
SyncSkipped(w) ==
    /\ pc[w] = "sync"
    /\ IF created[w]
       THEN Goto(w, "syncParent") /\ UNCHANGED lock
       ELSE Return(w, "ok")
    /\ UNCHANGED <<created, exists, linked, file, syncedLen>>

(* Mutant: the synced length counts a piece that was never written.        *)
SyncOffByOne(w) ==
    /\ pc[w] = "sync"
    /\ syncedLen' = Len(file) + 1
    /\ IF created[w]
       THEN Goto(w, "syncParent") /\ UNCHANGED lock
       ELSE Return(w, "ok")
    /\ UNCHANGED <<created, exists, linked, file>>

Sync(w) ==
    /\ pc[w] = "sync"
    /\ syncedLen' = Len(file)
    /\ IF created[w]
       THEN Goto(w, "syncParent") /\ UNCHANGED lock
       ELSE Return(w, "ok")
    /\ UNCHANGED <<created, exists, linked, file>>

SyncParent(w) ==
    /\ pc[w] = "syncParent"
    /\ linked' = TRUE
    /\ Return(w, "ok")
    /\ UNCHANGED <<created, exists, file, syncedLen>>

Persist(w) ==
    \/ Fail(w) \/ Open(w) \/ Secure(w) \/ SyncNew(w)
    \/ WriteJson(w) \/ TearJson(w) \/ WriteNewline(w)
    \/ Sync(w) \/ SyncParent(w)

-----------------------------------------------------------------------------
(* Writers in flight are gone, the others call after the next start.       *)
WritersEnd ==
    /\ lock' = NoWriter
    /\ pc' = [w \in Writers |->
                IF pc[w] \in {"start", "ok", "failed"} THEN pc[w] ELSE "dead"]
    /\ UNCHANGED created

Crash ==
    /\ "crash" \in Outages
    /\ lock # NoWriter
    /\ WritersEnd
    /\ UNCHANGED <<exists, linked, file, syncedLen>>

PowerLoss ==
    /\ "power" \in Outages
    /\ WritersEnd
    /\ \/ /\ \E n \in syncedLen .. Len(file) :
                file' = SubSeq(file, 1, n) /\ syncedLen' = n
          /\ linked' = exists
          /\ UNCHANGED exists
       \/ /\ \E n \in syncedLen .. Len(file) - 1 :
                /\ file[n + 1].kind = "json"
                /\ file' = Append(SubSeq(file, 1, n), Torn(file[n + 1].by))
                /\ syncedLen' = n + 1
          /\ linked' = exists
          /\ UNCHANGED exists
       \/ /\ exists /\ ~ linked
          /\ exists' = FALSE
          /\ file' = <<>>
          /\ syncedLen' = 0
          /\ UNCHANGED linked

Next ==
    \/ \E w \in Writers : Acquire(w) \/ Persist(w)
    \/ Crash
    \/ PowerLoss

Spec == Init /\ [][Next]_vars

(* A call into the file system returns, with or without an error; the      *)
(* mutex is granted to whoever waits for it once it is free.               *)
FairSpec ==
    /\ Spec
    /\ \A w \in Writers : WF_vars(Persist(w)) /\ WF_vars(Acquire(w))

-----------------------------------------------------------------------------
TypeOK ==
    /\ lock \in Writers \cup {NoWriter}
    /\ pc \in [Writers -> Calls \cup {"start", "ok", "failed", "dead"}]
    /\ created \in [Writers -> BOOLEAN]
    /\ exists \in BOOLEAN
    /\ linked \in BOOLEAN
    /\ file \in Seq(Pieces)
    /\ syncedLen \in 0 .. Len(file)

(* A record's text is followed by its own line end, unless its writer got  *)
(* an error or died in between: concurrent calls do not interleave         *)
(* (docs/threat-model.md 6.7).                                             *)
LinesDoNotInterleave ==
    \A i \in 1 .. Len(file) - 1 :
        file[i].kind = "json" /\ file[i + 1] # LineEnd(file[i].by) =>
            pc[file[i].by] \in {"failed", "dead"}

(* A record whose write returned Ok is in the synced part of the file with *)
(* its line end, and the file's directory entry is durable, unless the     *)
(* call that created the file did not finish.  The handlers execute on the *)
(* strength of it.                                                         *)
CreationUnfinished ==
    \E v \in Writers : created[v] /\ pc[v] \in {"failed", "dead"}

Durable(w) ==
    \E i \in 1 .. syncedLen - 1 :
        file[i] = Json(w) /\ file[i + 1] = LineEnd(w)

ReportedIsSynced ==
    \A w \in Writers : pc[w] = "ok" =>
        (linked /\ Durable(w)) \/ CreationUnfinished

(* "Newly created audit state is durably synchronized"                     *)
(* (docs/release-checklist.md:260): a record reported Ok survives a power  *)
(* loss.  After a creation that failed before the directory sync, the next *)
(* call finds the file there and never syncs the directory.                *)
ReportedIsDurable ==
    \A w \in Writers : pc[w] = "ok" =>
        \E i \in 1 .. Len(file) - 1 :
            file[i] = Json(w) /\ file[i + 1] = LineEnd(w)

(* Every call gets the mutex and returns, unless the process ends.         *)
CallReturns ==
    \A w \in Writers :
        pc[w] = "start" ~> pc[w] \in {"ok", "failed", "dead"}

(* The file implements the trail the gateway relies on: its records are    *)
(* those whose whole text is in the file.                                  *)
RecordsIn(pieces) == {w \in Writers : Json(w) \in ToSet(pieces)}

Trail == INSTANCE AuditTrail WITH
    log <- RecordsIn(file),
    synced <- IF linked THEN RecordsIn(SubSeq(file, 1, syncedLen)) ELSE {}

ImplementsTrail ==
    Trail!TrailInit /\ [][Trail!TrailNext(Writers)]_(Trail!trailVars)
=============================================================================

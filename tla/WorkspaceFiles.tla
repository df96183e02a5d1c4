--------------------------- MODULE WorkspaceFiles ---------------------------
(***************************************************************************)
(* Reads and reviewed writes of one path in the workspace                  *)
(* (src/src/filesystem.rs), one call of the file system at a time, while   *)
(* the owner replaces files and swaps the parent directory.                *)
(*                                                                         *)
(* The path is "f" or "d/f".  The name d may be a directory, a link to     *)
(* directory e of the workspace, a link to a directory outside, or absent. *)
(* The capability's Dir (cap-std, external) was opened once and resolves   *)
(* every path below it: links are followed only as long as they stay       *)
(* inside, and an opening that follows no link fails on one.  The checks   *)
(* at evaluation go by ambient paths instead.                              *)
(*                                                                         *)
(* A write is modelled from its evaluation to its end: the capture of the  *)
(* target for the review comes first; what happens in between, and the     *)
(* comparison at the approval, is in Gateway.  File modes are left out     *)
(* (only that reading and setting them may fail).                          *)
(***************************************************************************)
EXTENDS Operation

CONSTANTS
    Texts,          \* file contents: size, whether UTF-8, where from
    OutsideText,    \* the content of the file outside
    PayloadSizes,   \* sizes of WriteFileArguments.content
    MaxRead,        \* MAX_READ_BYTES
    MaxWrite,       \* MAX_WRITE_BYTES
    MaxFileEdits    \* bounds the owner's edits

Text(origin) == [size : Nat, utf8 : BOOLEAN, from : {origin}]

ASSUME FilesAssumption ==
    /\ MaxRead \in Nat /\ MaxWrite \in Nat
    /\ PayloadSizes \subseteq Nat
    /\ Texts \subseteq Text("workspace")
    /\ OutsideText \in Text("outside")

VARIABLES
    form,       \* of the path: "relative", "absolute", "parentDir"
    inParent,   \* the path is d/f, not f
    slot,       \* what the name d is: "dir", "linkIn", "linkOut", "absent"
    files,      \* the entry f of each directory
    payload,    \* what is to be written
    temp,       \* the temporary file: its directory, content and sync
    unsynced,   \* what a power loss may bring back after a rename
    fileEdits,  \* edits so far
    swapped     \* the name d has changed since the temporary file was made

fileVars == <<form, inParent, slot, files, payload, temp, unsynced, fileEdits,
              swapped>>

Dirs == {"root", "d", "e", "outside"}
Regular == Texts \cup {OutsideText}
Missing == [entry |-> "missing"]
LinkOut == [entry |-> "link"]
Other == [entry |-> "directory"]
Torn == [entry |-> "torn"]
Entries == Texts \cup {Missing, LinkOut, Other}
NoTempFile == [in |-> "none", content |-> Missing, synced |-> FALSE]
NothingUnsynced == [in |-> "none", old |-> {}]

IsFile(e) == e \notin {Missing, LinkOut, Other}

FilesInit ==
    /\ form = "relative" /\ inParent = FALSE /\ slot = "dir"
    /\ files = [d \in Dirs |-> Missing]
    /\ payload = Missing /\ temp = NoTempFile /\ unsynced = NothingUnsynced
    /\ fileEdits = 0 /\ swapped = FALSE

FilesCalled ==
    /\ form \in {"relative", "absolute", "parentDir"}
    /\ inParent \in BOOLEAN
    /\ slot \in {"dir", "linkIn", "linkOut", "absent"}
    /\ \E target \in Entries :
        files = [d \in Dirs |-> IF d = "outside" THEN OutsideText
                                ELSE IF d = "e" THEN Missing ELSE target]
    /\ payload \in [size : PayloadSizes, utf8 : {TRUE}, from : {"request"}]
    /\ temp = NoTempFile /\ unsynced = NothingUnsynced
    /\ fileEdits = 0 /\ swapped = FALSE

(* Where the path leads when links are followed, as an ambient path does.  *)
Ambient == CASE ~ inParent -> "root"
             [] inParent /\ slot = "dir" -> "d"
             [] inParent /\ slot = "linkIn" -> "e"
             [] inParent /\ slot = "linkOut" -> "outside"
             [] OTHER -> "nowhere"

(* Mutant: files are reached by their ambient paths.                       *)
AmbientLanding == Ambient

(* Where the Dir leads it: it refuses to leave the workspace.              *)
Landing == IF Ambient = "outside" THEN "nowhere" ELSE Ambient

EntryAt(place) == IF place = "nowhere" THEN Missing ELSE files[place]

Next2(step) == Goto(step) /\ UNCHANGED fileVars
Fail(why) == Return(Err(why)) /\ UNCHANGED fileVars

(* validate_relative_path, and the same loop in the other operations.      *)
RelativePath == form = "relative"

-----------------------------------------------------------------------------
(* evaluate_request: resolve_existing_path for a read; for a write         *)
(* resolve_write_target, which wants a regular file or a parent inside.    *)
InScopeForRead ==
    /\ RelativePath
    /\ Ambient \notin {"outside", "nowhere"}
    /\ EntryAt(Ambient) \notin {Missing, LinkOut}

InScopeForWrite ==
    /\ RelativePath
    /\ Ambient \notin {"outside", "nowhere"}
    /\ EntryAt(Ambient) \notin {LinkOut, Other}

Evaluate ==
    /\ pc = "start"
    /\ \/ kind = "read" /\ InScopeForRead /\ Next2("openReadParent")
       \/ kind = "write" /\ InScopeForWrite /\ Next2("captureParent")
       \/ /\ ~ (IF kind = "read" THEN InScopeForRead ELSE InScopeForWrite)
          /\ Fail("out of scope")

(* open_dir_nofollow(parent).                                              *)
ParentOpens == ~ inParent \/ slot = "dir"

-----------------------------------------------------------------------------
(* read_text_file.                                                         *)
OpenReadParent ==
    /\ pc = "openReadParent"
    /\ IF ParentOpens THEN Next2("inspectRead") ELSE Fail("parent")

InspectRead ==
    /\ pc = "inspectRead"
    /\ IF IsFile(EntryAt(Landing)) THEN Next2("read") ELSE Fail("not a file")

(* Opened without following a link; at most MAX_READ_BYTES + 1 are read.   *)
ReadFile ==
    /\ pc = "read"
    /\ LET e == EntryAt(Landing) IN
        \/ ~ IsFile(e) /\ Fail("open")
        \/ IsFile(e) /\ Least(e.size, MaxRead + 1) > MaxRead /\ Fail("size")
        \/ /\ IsFile(e) /\ Least(e.size, MaxRead + 1) <= MaxRead
           /\ IF e.utf8 THEN Return(Ok(e)) /\ UNCHANGED fileVars
              ELSE Fail("UTF-8")

-----------------------------------------------------------------------------
(* revalidate_write_target: the parent, then the target.                   *)
RevalidateParent(step, next) ==
    /\ pc = step
    /\ IF RelativePath /\ ParentOpens THEN Next2(next) ELSE Fail("parent")

RevalidateTarget(step, next) ==
    /\ pc = step
    /\ IF EntryAt(Landing) \in {LinkOut, Other} THEN Fail("target")
       ELSE Next2(next)

(* capture_write_target_state: revalidation, then the target once more.    *)
CaptureTarget ==
    \/ RevalidateParent("captureParent", "captureTarget")
    \/ RevalidateTarget("captureTarget", "inspectCapture")
    \/ /\ pc = "inspectCapture"
       /\ LET e == EntryAt(Landing) IN
            \/ e = Missing /\ Next2("checkContent")
            \/ IsFile(e) /\ Next2("hash")
            \/ e \in {LinkOut, Other} /\ Fail("target")
    \/ /\ pc = "hash"
       /\ IF IsFile(EntryAt(Landing)) THEN Next2("checkContent") ELSE Fail("open")

(* write_text_file begins with the length and the form of the path.        *)
CheckContent ==
    /\ pc = "checkContent"
    /\ IF payload.size > MaxWrite \/ ~ RelativePath THEN Fail("content")
       ELSE Next2("writeParent")

RevalidateWrite ==
    \/ RevalidateParent("writeParent", "writeTarget")
    \/ RevalidateTarget("writeTarget", "permissions")

ReadPermissions ==
    /\ pc = "permissions"
    /\ Next2("createTemp") \/ Fail("metadata")

(* create_new, in the directory the path leads to now.                     *)
CreateTempFile ==
    /\ pc = "createTemp"
    /\ \/ /\ Landing # "nowhere"
          /\ temp' = [NoTempFile EXCEPT !.in = Landing, !.content = Torn]
          /\ swapped' = FALSE
          /\ GotoHolding("fill", held \cup {"temp"})
          /\ UNCHANGED <<form, inParent, slot, files, payload, unsynced, fileEdits>>
       \/ Next2("removeTemp")

(* set_permissions and write_all.                                          *)
FillTempFile ==
    /\ pc = "fill"
    /\ \/ /\ temp' = [temp EXCEPT !.content = payload]
          /\ Goto("syncTemp")
          /\ UNCHANGED <<form, inParent, slot, files, payload, unsynced,
                         fileEdits, swapped>>
       \/ Next2("removeTemp")

(* Mutant: the temporary file is not synced.                               *)
SkipSync == pc = "syncTemp" /\ Next2("rename")

SyncTempFile ==
    /\ pc = "syncTemp"
    /\ \/ /\ temp' = [temp EXCEPT !.synced = TRUE]
          /\ Goto("rename")
          /\ UNCHANGED <<form, inParent, slot, files, payload, unsynced,
                         fileEdits, swapped>>
       \/ Next2("removeTemp")

(* rename resolves both names again: the temporary file must be where the  *)
(* path leads, and a directory is not replaced.  The directory is not      *)
(* synced afterwards.                                                      *)
RenameTempFile ==
    /\ pc = "rename"
    /\ \/ /\ Landing = temp.in /\ files[temp.in] # Other
          /\ unsynced' = [in |-> temp.in,
                          old |-> {files[temp.in]} \cup
                                  (IF temp.synced THEN {} ELSE {Torn})]
          /\ files' = [files EXCEPT ![temp.in] = temp.content]
          /\ pc' = "done" /\ answer' = Ok(payload) /\ held' = held \ {"temp"}
          /\ UNCHANGED <<kind, stuck, form, inParent, slot, payload, temp,
                         fileEdits, swapped>>
       \/ Next2("removeTemp")

(* remove_file after an error: its own error is ignored, and a file that   *)
(* is not where the path leads now is not found.                           *)
RemoveTempFile ==
    /\ pc = "removeTemp"
    /\ IF Landing = temp.in THEN ReturnReleasing(Err("write"), {"temp"})
       ELSE Return(Err("write"))
    /\ UNCHANGED fileVars

FileStep ==
    \/ Evaluate \/ OpenReadParent \/ InspectRead \/ ReadFile
    \/ CaptureTarget \/ CheckContent \/ RevalidateWrite \/ ReadPermissions
    \/ CreateTempFile \/ FillTempFile \/ SyncTempFile \/ RenameTempFile
    \/ RemoveTempFile

-----------------------------------------------------------------------------
(* The owner puts something else at f, or in the place of d.               *)
EditFile ==
    /\ ~ Answered /\ pc # "off" /\ fileEdits < MaxFileEdits
    /\ \E d \in Dirs \ {"outside"}, e \in Entries :
        files[d] # e /\ files' = [files EXCEPT ![d] = e]
    /\ fileEdits' = fileEdits + 1
    /\ UNCHANGED <<callState, form, inParent, slot, payload, temp, unsynced,
                   swapped>>

SwapParent ==
    /\ inParent /\ ~ Answered /\ pc # "off" /\ fileEdits < MaxFileEdits
    /\ slot' \in {"dir", "linkIn", "linkOut", "absent"} \ {slot}
    /\ fileEdits' = fileEdits + 1
    /\ swapped' = TRUE
    /\ UNCHANGED <<callState, form, inParent, files, payload, temp, unsynced>>

(* The power goes, also after the answer: a rename that was not synced may *)
(* be undone, and data that was not synced may be gone.                    *)
LosePower ==
    /\ pc # "off"
    /\ pc' = "off"
    /\ \/ UNCHANGED files
       \/ \E old \in unsynced.old : files' = [files EXCEPT ![unsynced.in] = old]
    /\ UNCHANGED <<kind, answer, held, stuck, form, inParent, slot, payload,
                   temp, unsynced, fileEdits, swapped>>

FilesNext == FileStep \/ EditFile \/ SwapParent \/ LosePower
FilesFairness == WF_<<callState, fileVars>>(kind \in {"read", "write"} /\ FileStep)

-----------------------------------------------------------------------------
(* No read returns what is outside the workspace and no write, and no      *)
(* temporary file, lands there, however the parent directory and the       *)
(* target are swapped between the checks and their use.                    *)
StaysInsideWorkspace ==
    kind \in {"read", "write"} =>
        /\ answer # Ok(OutsideText)
        /\ files["outside"] = OutsideText
        /\ temp.in # "outside"

(* At every instant, and after a power loss at any of them, the target is  *)
(* a whole file: what it was, what was written, or what the owner put      *)
(* there, never a part.  (A power loss may undo a write that was answered  *)
(* Ok: nothing syncs the directory, filesystem.rs:331.)                    *)
TargetIsWhole == kind = "write" => \A d \in Dirs : files[d] # Torn

(* A file is returned whole or not at all, at the limit and above it.      *)
ReadIsWhole ==
    kind = "read" /\ answer.is = "Ok" =>
        answer.value \in Texts \cup {OutsideText} /\ answer.value.size <= MaxRead
=============================================================================

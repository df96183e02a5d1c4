------------------------------ MODULE CargoTest ------------------------------
(***************************************************************************)
(* A reviewed `cargo test` from the fingerprint taken at its approval to   *)
(* its result (src/src/cargo_test.rs), while the owner edits the workspace *)
(* and the test, its descendants and the clock go on by themselves.        *)
(*                                                                         *)
(* The child leads a process group of its own.  What it writes goes to two *)
(* capture files, which are read with the bounded reader after the group   *)
(* is gone: nobody writes to them any more (a process that left the group  *)
(* could; it is not in the model).  The claim and the audits between       *)
(* approval and execution are in Gateway.                                  *)
(***************************************************************************)
EXTENDS WorkspaceTree, BoundedReader

CONSTANTS
    Outputs,        \* what the test may have written to a stream
    MaxOutput       \* max_stdout_bytes, max_stderr_bytes

ASSUME CargoAssumption == MaxOutput \in Nat /\ Outputs \subseteq Seq(Bytes)

VARIABLES
    expected,       \* the fingerprint approved
    snapshot,       \* what the private copy holds
    child,          \* "none", "running", "exited", "killed", "reaped"
    exitOk,         \* the test ended by itself, with status 0
    descendants,    \* other processes of its group are alive
    deadline,       \* started.elapsed() >= timeout
    timedOut,       \* timed_out
    killFailed,     \* killpg failed other than with ESRCH
    label,          \* the capture file at hand
    written,        \* what is in the capture files read so far
    results,        \* stdout_result, stderr_result
    removed         \* no removal has failed

processVars == <<child, exitOk, descendants>>
runVars == <<expected, snapshot, deadline, timedOut, killFailed>>
captureVars == <<label, written, results, removed>>
cargoVars == <<treeVars, processVars, runVars, captureVars>>

CaptureFiles == {"stdout", "stderr"}

CapturesAtRest ==
    /\ label = "stdout"
    /\ written = [f \in CaptureFiles |-> <<>>]
    /\ results = [f \in CaptureFiles |-> NoAnswer]
    /\ removed = TRUE

CargoInit ==
    /\ tree = Nothing /\ edits = 0 /\ WalkStart
    /\ expected = Nothing /\ snapshot = Nothing
    /\ child = "none" /\ exitOk = FALSE /\ descendants = FALSE
    /\ deadline = FALSE /\ timedOut = FALSE /\ killFailed = FALSE
    /\ CapturesAtRest

CargoCalled ==
    /\ tree \in Trees
    /\ edits = 0 /\ WalkStart
    /\ expected = Nothing /\ snapshot = Nothing
    /\ child = "none" /\ exitOk = FALSE /\ descendants = FALSE
    /\ deadline = FALSE /\ timedOut = FALSE /\ killFailed = FALSE
    /\ CapturesAtRest

-----------------------------------------------------------------------------
(* revalidate_pending_request_with_config: the manifest is found inside    *)
(* (a link to a file inside will do), ...                                  *)
ResolveManifest ==
    /\ pc = "start"
    /\ \/ tree[Manifest] # Absent /\ Goto("fingerprint")
       \/ Return(Err("manifest"))
    /\ UNCHANGED <<cargoVars, readerVars>>

(* ... the workspace is fingerprinted, and the fingerprint must be the one *)
(* that was shown for review.                                              *)
ApproveTree ==
    /\ pc = "fingerprint"
    /\ \/ FingerprintWalks /\ Goto(pc) /\ UNCHANGED expected
       \/ Return(Err("fingerprint")) /\ UNCHANGED <<walkVars, expected>>
       \/ FingerprintDone /\ Goto("createSnapshot") /\ WalkAgain
          /\ expected' = taken
    /\ UNCHANGED <<tree, edits, processVars, snapshot, deadline, timedOut,
                   killFailed, captureVars, readerVars>>

(* WorkspaceSnapshot::create: its directory, then the copies; when one     *)
(* fails the directory is removed.                                         *)
CreateSnapshot ==
    /\ pc = "createSnapshot"
    /\ GotoHolding("copy", held \cup {"snapshot"}) \/ Return(Err("snapshot"))
    /\ UNCHANGED <<cargoVars, readerVars>>

CopyWorkspace ==
    /\ pc = "copy"
    /\ \/ SnapshotWalks /\ Goto(pc)
       \/ ~ SnapshotDone /\ ReturnReleasing(Err("snapshot"), {"snapshot"})
          /\ UNCHANGED walkVars
       \/ SnapshotDone /\ Goto("compare") /\ UNCHANGED walkVars
    /\ snapshot' = taken'
    /\ UNCHANGED <<tree, edits, processVars, expected, deadline, timedOut,
                   killFailed, captureVars, readerVars>>

(* Mutant: the workspace is compared instead of its copy.                  *)
CompareWorkspace ==
    /\ pc = "compare"
    /\ IF tree = expected THEN Goto("createStdout")
       ELSE ReturnReleasing(Err("mismatch"), {"snapshot"})
    /\ UNCHANGED <<cargoVars, readerVars>>

(* The copy is fingerprinted; nobody else knows its name.                  *)
CompareSnapshot ==
    /\ pc = "compare"
    /\ \/ snapshot = expected /\ Goto("createStdout")
       \/ snapshot # expected /\ ReturnReleasing(Err("mismatch"), {"snapshot"})
       \/ ReturnReleasing(Err("fingerprint"), {"snapshot"})
    /\ UNCHANGED <<cargoVars, readerVars>>

CreateStdout ==
    /\ pc = "createStdout"
    /\ \/ GotoHolding("createStderr", held \cup {"stdout"})
       \/ ReturnReleasing(Err("capture file"), {"snapshot"})
    /\ UNCHANGED <<cargoVars, readerVars>>

(* Mutant: the first capture file stays when the second is not created.    *)
CreateStderrLeavingStdout ==
    /\ pc = "createStderr"
    /\ \/ GotoHolding("spawn", held \cup {"stderr"})
       \/ ReturnReleasing(Err("capture file"), {"snapshot"})
    /\ UNCHANGED <<cargoVars, readerVars>>

CreateStderr ==
    /\ pc = "createStderr"
    /\ \/ GotoHolding("spawn", held \cup {"stderr"})
       \/ ReturnReleasing(Err("capture file"), {"stdout", "snapshot"})
    /\ UNCHANGED <<cargoVars, readerVars>>

Spawn ==
    /\ pc = "spawn"
    /\ \/ child' = "running" /\ Goto("poll")
       \/ /\ ReturnReleasing(Err("spawn"), CaptureFiles \cup {"snapshot"})
          /\ UNCHANGED child
    /\ UNCHANGED <<treeVars, runVars, exitOk, descendants, captureVars,
                   readerVars>>

(* try_wait.                                                               *)
Poll ==
    /\ pc = "poll"
    /\ \/ child = "exited" /\ child' = "reaped" /\ Goto("settle")
       \/ child = "running" /\ UNCHANGED child /\ Goto("checkTime")
       \/ UNCHANGED child /\ Goto("abandon")
    /\ UNCHANGED <<treeVars, runVars, exitOk, descendants, captureVars,
                   readerVars>>

(* Mutant: the time is not looked at.                                      *)
PollForever ==
    /\ pc = "checkTime"
    /\ Goto("poll")
    /\ UNCHANGED <<cargoVars, readerVars>>

(* The timeout counts from the call of run; else it sleeps for 25 ms.      *)
CheckTime ==
    /\ pc = "checkTime"
    /\ timedOut' = deadline
    /\ Goto(IF deadline THEN "terminate" ELSE "poll")
    /\ UNCHANGED <<treeVars, processVars, expected, snapshot, deadline,
                   killFailed, captureVars, readerVars>>

(* terminate_process_group: SIGKILL for every process of the group; no     *)
(* process left in it (ESRCH) is as good.                                  *)
TerminateProcessGroup ==
    /\ child' = IF child = "running" THEN "killed" ELSE child
    /\ descendants' = FALSE
    /\ UNCHANGED <<exitOk, killFailed>>

TerminationFails ==
    /\ child # "reaped" \/ descendants
    /\ killFailed' = TRUE
    /\ UNCHANGED processVars

TerminateOnTimeout ==
    /\ pc = "terminate"
    /\ \/ TerminateProcessGroup /\ Goto("wait")
       \/ TerminationFails /\ Goto("abandon")
    /\ UNCHANGED <<treeVars, expected, snapshot, deadline, timedOut,
                   captureVars, readerVars>>

(* child.wait.                                                             *)
WaitForChild ==
    /\ pc = "wait"
    /\ \/ child \in {"exited", "killed"} /\ child' = "reaped" /\ Goto("settle")
       \/ UNCHANGED child /\ Goto("abandon")
    /\ UNCHANGED <<treeVars, runVars, exitOk, descendants, captureVars,
                   readerVars>>

(* The error path: terminate, wait as long as it takes, remove the files.  *)
Abandon ==
    /\ pc = "abandon"
    /\ TerminateProcessGroup \/ TerminationFails
    /\ Goto("abandonWait")
    /\ UNCHANGED <<treeVars, expected, snapshot, deadline, timedOut,
                   captureVars, readerVars>>

AbandonWait ==
    /\ pc = "abandonWait"
    /\ child # "running"
    /\ child' = "reaped"
    /\ ReturnReleasing(Err("process"), CaptureFiles \cup {"snapshot"})
    /\ UNCHANGED <<treeVars, runVars, exitOk, descendants, captureVars,
                   readerVars>>

(* A test that ended by itself may have left processes: they are           *)
(* terminated.  When that fails the call returns at once, and the capture  *)
(* files stay (cargo_test.rs:249).                                         *)
Settle ==
    /\ pc = "settle"
    /\ \/ timedOut /\ Goto("open") /\ UNCHANGED <<processVars, killFailed>>
       \/ ~ timedOut /\ TerminateProcessGroup /\ Goto("open")
       \/ /\ ~ timedOut /\ TerminationFails
          /\ ReturnReleasing(Err("terminate"), {"snapshot"})
    /\ UNCHANGED <<treeVars, expected, snapshot, deadline, timedOut,
                   captureVars, readerVars>>

(* The same step with stderr after stdout, then the next one.              *)
NextCapture(step, next) ==
    IF label = "stdout" THEN label' = "stderr" /\ Goto(step)
    ELSE label' = "stdout" /\ Goto(next)

(* read_capture_file, whose error is looked at later.                      *)
CaptureIs(result) ==
    /\ results' = [results EXCEPT ![label] = result]
    /\ NextCapture("open", "remove")

OpenCapture ==
    /\ pc = "open"
    /\ \/ /\ \E s \in Outputs : written' = [written EXCEPT ![label] = s]
          /\ StartReading
          /\ Goto("read")
          /\ UNCHANGED <<label, results>>
       \/ CaptureIs(Err("open")) /\ UNCHANGED <<written, readerVars>>
    /\ UNCHANGED <<treeVars, processVars, runVars, removed>>

ReadCapture ==
    /\ pc = "read"
    /\ \/ ReadSome(written[label], MaxOutput) /\ Goto("read")
          /\ UNCHANGED <<label, results>>
       \/ AllRead(written[label]) /\ CaptureIs(Ok(Output)) /\ UNCHANGED readerVars
       \/ CaptureIs(Err("read")) /\ UNCHANGED readerVars
    /\ UNCHANGED <<treeVars, processVars, runVars, written, removed>>

(* remove_capture_file: a file that is gone already is as good.            *)
RemoveCapture ==
    /\ pc = "remove"
    /\ \/ held' = held \ {label} /\ UNCHANGED <<stuck, removed>>
       \/ stuck' = stuck \cup {label} /\ removed' = FALSE /\ UNCHANGED held
    /\ \/ label = "stdout" /\ pc' = "remove" /\ label' = "stderr"
       \/ label = "stderr" /\ pc' = "result" /\ label' = "stdout"
    /\ UNCHANGED <<kind, answer, treeVars, processVars, runVars, written, results,
                   readerVars>>

(* Only now do the errors count.                                           *)
AllRight == removed /\ \A f \in CaptureFiles : results[f].is = "Ok"

(* Mutant: the status of the child alone is the verdict.                   *)
ReportTrustingStatus ==
    /\ pc = "result"
    /\ ReturnReleasing(IF AllRight
                       THEN Ok([success |-> exitOk, timed_out |-> timedOut,
                                output |-> [f \in CaptureFiles |-> results[f].value]])
                       ELSE Err("output"), {"snapshot"})
    /\ UNCHANGED <<cargoVars, readerVars>>

ReportResult ==
    /\ pc = "result"
    /\ ReturnReleasing(IF AllRight
                       THEN Ok([success |-> exitOk /\ ~ timedOut,
                                timed_out |-> timedOut,
                                output |-> [f \in CaptureFiles |-> results[f].value]])
                       ELSE Err("output"), {"snapshot"})
    /\ UNCHANGED <<cargoVars, readerVars>>

RunCargo ==
    \/ ResolveManifest \/ ApproveTree \/ CreateSnapshot \/ CopyWorkspace \/ CompareSnapshot
    \/ CreateStdout \/ CreateStderr \/ Spawn
    \/ Poll \/ CheckTime \/ TerminateOnTimeout \/ WaitForChild
    \/ Abandon \/ AbandonWait \/ Settle
    \/ OpenCapture \/ ReadCapture \/ RemoveCapture \/ ReportResult

-----------------------------------------------------------------------------
(* The test ends by itself, with processes of its group left or not.       *)
ChildExits ==
    /\ child = "running"
    /\ child' = "exited"
    /\ exitOk' \in BOOLEAN
    /\ descendants' \in BOOLEAN
    /\ UNCHANGED <<callState, treeVars, runVars, captureVars, readerVars>>

DescendantsExit ==
    /\ descendants /\ child # "running"
    /\ descendants' = FALSE
    /\ UNCHANGED <<callState, treeVars, runVars, child, exitOk, captureVars,
                   readerVars>>

(* timeout has passed since run was called.                                *)
DeadlinePasses ==
    /\ child # "none" /\ ~ deadline /\ ~ Answered
    /\ deadline' = TRUE
    /\ UNCHANGED <<callState, treeVars, processVars, expected, snapshot,
                   timedOut, killFailed, captureVars, readerVars>>

Surroundings ==
    \/ EditTree /\ UNCHANGED <<processVars, runVars, captureVars, readerVars>>
    \/ ChildExits \/ DescendantsExit \/ DeadlinePasses

CargoNext == RunCargo \/ Surroundings
CargoFairness == WF_<<callState, cargoVars, readerVars>>(kind = "cargo" /\ RunCargo)
              /\ WF_<<callState, cargoVars, readerVars>>(kind = "cargo" /\ DeadlinePasses)

-----------------------------------------------------------------------------
(* What cargo runs on is, file by file, what the fingerprint approved was  *)
(* taken from, however the workspace changes during the two walks, also    *)
(* when that fingerprint is of a mixture no moment of the workspace had.   *)
TestRunsOnApprovedTree ==
    kind = "cargo" /\ child # "none" => snapshot = expected

(* execute_cargo_test_with_config: the outcome that is audited.            *)
AuditedOutcome(result) ==
    IF result.is = "Ok" /\ result.value.success THEN "Success" ELSE "Failed"

(* A test is reported as passed exactly when it ended by itself with       *)
(* status 0 before the timeout was noticed: an exit between the last poll  *)
(* and the signal (cargo_test.rs:214) is a timeout, never a pass, and a    *)
(* timeout is reported only when the time was over.                        *)
VerdictIsTheTests ==
    /\ kind = "cargo" /\ AuditedOutcome(answer) = "Success" =>
           exitOk /\ ~ answer.value.timed_out
    /\ kind = "cargo" /\ answer.is = "Ok" =>
           /\ answer.value.timed_out => deadline
           /\ ~ answer.value.timed_out => answer.value.success = exitOk

(* A result has both of the test's outputs, each cut at the maximum, over  *)
(* reads of any size; with one of them missing it is an error.             *)
CapturesAreBounded ==
    kind = "cargo" /\ answer.is = "Ok" =>
        \A f \in CaptureFiles :
            IsOutputOf(answer.value.output[f], written[f], MaxOutput)
=============================================================================

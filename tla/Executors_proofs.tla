-------------------------- MODULE Executors_proofs --------------------------
(***************************************************************************)
(* Proofs about Operations: the executors that work on the workspace and   *)
(* what a call leaves behind, for any trees, contents, outputs and limits  *)
(* and however often the owner edits them.                                 *)
(***************************************************************************)
EXTENDS Operations_proofs

(* The steps of a Cargo test before the copy has been compared, and those  *)
(* with a child.                                                           *)
Preparing == {"start", "fingerprint", "createSnapshot", "copy", "compare"}
WithCaptures == {"spawn", "poll", "checkTime", "terminate", "wait", "abandon",
                 "abandonWait", "settle", "open", "read", "remove", "result"}

(* What the call holds when it is about to take a step.                    *)
HoldsAt(step) ==
    IF step \in {"start", "fingerprint", "createSnapshot"} THEN {}
    ELSE IF step \in {"copy", "compare", "createStdout"} THEN {"snapshot"}
    ELSE IF step = "createStderr" THEN {"snapshot", "stdout"}
    ELSE CaptureFiles \cup {"snapshot"}

(* From the comparison on, the copy is what was approved.                   *)
CopyInv ==
    /\ pc \in Preparing \cup {"createStdout", "createStderr", "done"} \cup WithCaptures
    /\ pc \notin Preparing \cup {"done"} => snapshot = expected
    /\ child # "none" => snapshot = expected
    /\ pc \in Preparing \cup {"createStdout", "createStderr", "spawn"} => child = "none"

(* The child, the processes of its group and the clock at each step.       *)
ProcessInv ==
    /\ child \in {"none", "running", "exited", "killed", "reaped"}
    /\ exitOk \in BOOLEAN /\ deadline \in BOOLEAN /\ timedOut \in BOOLEAN
    /\ child \in {"none", "running"} => ~ descendants
    /\ timedOut => deadline
    /\ pc \in Preparing \cup {"createStdout", "createStderr", "spawn", "poll", "checkTime"}
            => ~ timedOut
    /\ pc = "wait" => ~ descendants /\ child # "running"
    /\ pc = "settle" => child = "reaped" /\ (timedOut => ~ descendants)
    /\ pc \in {"open", "read", "remove", "result"} => child = "reaped" /\ ~ descendants
    /\ pc \in {"abandonWait", "done"} =>
            killFailed \/ (child # "running" /\ ~ descendants)

(* What it holds, until the captures are removed one after the other: then *)
(* what it still holds is to be released, or could not be.                 *)
Removing == {"remove", "result", "done"}

HoldsInv ==
    /\ pc # "done" => answer = NoAnswer
    /\ pc \notin Removing => stuck = {} /\ held = HoldsAt(pc)
    /\ pc = "remove" => held \subseteq stuck \cup {"snapshot", "stderr"}
                                        \cup (IF label = "stdout" THEN {"stdout"} ELSE {})
    /\ pc = "result" => held \subseteq stuck \cup {"snapshot"}
    /\ pc = "done" => held \subseteq stuck \cup (IF killFailed THEN CaptureFiles ELSE {})

(* The captures: each is read as the bounded reader does, and its result   *)
(* is made of what is in it.                                               *)
CaptureInv ==
    /\ label \in CaptureFiles
    /\ written \in [CaptureFiles -> Seq(Bytes)]
    /\ results = [f \in CaptureFiles |-> results[f]]
    /\ pc = "read" => ReaderInv(written[label], MaxOutput)
    /\ \A f \in CaptureFiles :
          results[f].is = "Ok" => /\ IsOutputOf(results[f].value, written[f], MaxOutput)
                                  /\ pc \in Removing \/ (f = "stdout" /\ label = "stderr")

VerdictInv ==
    answer.is = "Ok" =>
        /\ child = "reaped"
        /\ answer.value.timed_out = timedOut
        /\ answer.value.success = (exitOk /\ ~ timedOut)
        /\ \A f \in CaptureFiles :
              IsOutputOf(answer.value.output[f], written[f], MaxOutput)

CargoInv == CopyInv /\ ProcessInv /\ HoldsInv /\ VerdictInv /\ CaptureInv

(* Reads and writes: what the directories of the workspace hold, now and   *)
(* after a power loss, is whole, ...                                       *)
Inside == Dirs \ {"outside"}
Whole == Entries \cup {payload}

WholeInv ==
    /\ payload \in Text("request")
    /\ files = [d \in Dirs |-> files[d]]
    /\ files["outside"] = OutsideText
    /\ \A d \in Inside : files[d] \in Whole
    /\ unsynced.in # "outside" /\ unsynced.old \subseteq Whole

(* ... the temporary file is inside, complete and synced in time, ...      *)
TempInv ==
    /\ temp = [in |-> temp.in, content |-> temp.content, synced |-> temp.synced]
    /\ temp.in # "outside"
    /\ pc \in {"fill", "syncTemp", "rename"} => temp.in \in Inside
    /\ pc \in {"syncTemp", "rename"} => temp.content = payload
    /\ pc = "rename" => temp.synced

(* ... it is held until it has been renamed or removed, and found again    *)
(* unless the directory was swapped, ...                                   *)
HeldInv ==
    /\ held \subseteq {"temp"}
    /\ "temp" \in held =>
        /\ \/ pc \in {"fill", "syncTemp", "rename", "removeTemp", "off"}
           \/ pc = "done" /\ ("temp" \in stuck \/ swapped)
        /\ temp.in = Landing \/ swapped

(* ... and the call goes the way of its kind to its answer.                *)
ReadSteps == {"start", "openReadParent", "inspectRead", "read"}
EarlyWriteSteps ==
    {"start", "captureParent", "captureTarget", "inspectCapture", "hash",
     "checkContent", "writeParent", "writeTarget", "permissions", "createTemp"}
LateWriteSteps == {"fill", "syncTemp", "rename", "removeTemp"}

AnswersInv ==
    /\ pc \notin {"done", "off"} => answer = NoAnswer
    /\ kind = "read" =>
        /\ pc \in ReadSteps \cup {"done", "off"}
        /\ \A d \in Inside : files[d] \in Entries
        /\ unsynced.old = {}
        /\ answer.is = "Ok" => answer.value \in Texts /\ answer.value.size <= MaxRead
    /\ kind = "write" =>
        /\ pc \in EarlyWriteSteps \cup LateWriteSteps \cup {"done", "off"}
        /\ answer.is = "Ok" => answer.value = payload

FilesInv == WholeInv /\ TempInv /\ HeldInv /\ AnswersInv

(* What a call of another kind has in place of a test and a timer.         *)
IdleInv ==
    /\ kind \in {"request", "add", "http", "cargo", "read", "write", "git"}
    /\ kind # "add" => timer = "none"
    /\ kind # "cargo" => child = "none" /\ ~ descendants
    /\ kind \in {"request", "http", "git"} => held = {}

ExecutorsInv ==
    /\ CallsInv
    /\ kind = "cargo" => CargoInv
    /\ kind \in {"read", "write"} => FilesInv
    /\ IdleInv

-----------------------------------------------------------------------------
(* What a call that returns has left, when removals may fail.              *)
LEMMA Releases ==
    ASSUME NEW result, NEW things, ReturnReleasing(result, things)
    PROVE  /\ pc' = "done" /\ answer' = result
           /\ held' \subseteq stuck' \cup (held \ things)
BY DEF ReturnReleasing

(* An error at a step where the call holds no more than it releases.       *)
LEMMA FailsReleasing ==
    ASSUME HoldsInv, NEW why, NEW things, pc \notin Removing, HoldsAt(pc) \subseteq things,
           ReturnReleasing(Err(why), things)
    PROVE  pc' = "done" /\ answer'.is = "Err" /\ HoldsInv' /\ VerdictInv'
<1>1. pc' = "done" /\ answer' = Err(why) /\ held' \subseteq stuck' \cup (held \ things)
  BY Releases
<1>2. held = HoldsAt(pc)
  BY DEF HoldsInv
<1>3. held' \subseteq stuck'
  BY <1>1, <1>2
<1>4. answer'.is = "Err"
  BY <1>1, ErrIsNotOk
<1> QED BY <1>1, <1>3, <1>4 DEF HoldsInv, VerdictInv, Removing

LEMMA CargoInvInit ==
    ASSUME Init, kind = "cargo"
    PROVE  CargoInv
<1>1. /\ pc = "start" /\ answer = NoAnswer /\ held = {} /\ stuck = {}
      /\ snapshot = expected /\ child = "none" /\ exitOk = FALSE
      /\ descendants = FALSE /\ deadline = FALSE /\ timedOut = FALSE
      /\ CapturesAtRest
  BY DEF Init, CallInit, CargoCalled
<1>2. CopyInv
  BY <1>1 DEF CopyInv, Preparing
<1>3. ProcessInv
  BY <1>1 DEF Preparing, ProcessInv
<1>4. HoldsInv
  BY <1>1 DEF HoldsInv, HoldsAt, Removing
<1>5. VerdictInv
  BY <1>1 DEF VerdictInv, NoAnswer
<1>6. CaptureInv
  <2>1. written \in [CaptureFiles -> Seq(Bytes)]
    BY <1>1, EmptySeq DEF CapturesAtRest
  <2>2. /\ results = [f \in CaptureFiles |-> results[f]]
        /\ \A f \in CaptureFiles : results[f].is = "none"
    BY <1>1 DEF CapturesAtRest, NoAnswer
  <2> QED BY <1>1, <2>1, <2>2 DEF CaptureInv, CapturesAtRest, CaptureFiles
<1> QED BY <1>2, <1>3, <1>4, <1>5, <1>6 DEF CargoInv

(* A step that keeps or extends what the call holds.                       *)
LEMMA GoesOn ==
    ASSUME HoldsInv, NEW step, pc \notin Removing, step \notin Removing,
           \/ Goto(step) /\ HoldsAt(step) = HoldsAt(pc)
           \/ GotoHolding(step, HoldsAt(step))
    PROVE  pc' = step /\ HoldsInv' /\ VerdictInv'
<1>1. pc' = step /\ answer' = NoAnswer /\ stuck' = {} /\ held' = HoldsAt(step)
  BY DEF HoldsInv, Removing, Goto, GotoHolding
<1> QED BY <1>1 DEF HoldsInv, Removing, VerdictInv, NoAnswer

(* A step that does not touch the captures.                                *)
LEMMA CapturesKept ==
    ASSUME CaptureInv, UNCHANGED <<captureVars, readerVars>>,
           pc' = pc \/ (pc' # "read" /\ (pc \in Removing => pc' \in Removing))
    PROVE  CaptureInv'
BY DEF CaptureInv, ReaderInv, captureVars, readerVars

(* The next step of a capture file, or of the next one.                    *)
LEMMA CaptureGoesOn ==
    ASSUME CaptureInv, NEW step, NEW next, NextCapture(step, next)
    PROVE  /\ label' \in CaptureFiles /\ UNCHANGED <<kind, answer, held, stuck>>
           /\ \/ label = "stdout" /\ label' = "stderr" /\ pc' = step
              \/ label = "stderr" /\ label' = "stdout" /\ pc' = next
BY DEF CaptureInv, CaptureFiles, NextCapture, Goto

LEMMA CaptureInvStep ==
    ASSUME CaptureInv, [Next]_vars, kind = "cargo"
    PROVE  CaptureInv'
<1> USE CargoAssumption
<1>1. ASSUME NEW result, pc \in {"open", "read"}, CaptureIs(result),
             UNCHANGED written,
             result.is = "Ok" => IsOutputOf(result.value, written[label], MaxOutput)
      PROVE  CaptureInv'
  <2>1. /\ label' \in CaptureFiles
        /\ \/ label = "stdout" /\ label' = "stderr" /\ pc' = "open"
           \/ label = "stderr" /\ label' = "stdout" /\ pc' = "remove"
    BY <1>1, CaptureGoesOn DEF CaptureIs
  <2>2. results' = [f \in CaptureFiles |-> IF f = label THEN result ELSE results[f]]
    BY <1>1 DEF CaptureIs, CaptureInv
  <2>3. results' = [f \in CaptureFiles |-> results'[f]]
    BY <2>2
  <2>4. written' \in [CaptureFiles -> Seq(Bytes)] /\ pc' # "read"
    BY <1>1, <2>1 DEF CaptureInv
  <2>5. ASSUME NEW f \in CaptureFiles, results'[f].is = "Ok"
        PROVE  /\ IsOutputOf(results'[f].value, written'[f], MaxOutput)
               /\ pc' \in Removing \/ (f = "stdout" /\ label' = "stderr")
    <3>1. CASE f = label
      BY <1>1, <2>1, <2>2, <2>5, <3>1 DEF Removing
    <3>2. CASE f # label
      <4>1. results[f].is = "Ok" /\ results'[f] = results[f]
        BY <2>2, <2>5, <3>2
      <4>2. pc \notin Removing
        BY <1>1 DEF Removing
      <4> QED BY <1>1, <2>1, <3>2, <4>1, <4>2 DEF CaptureInv, Removing
    <3> QED BY <3>1, <3>2
  <2> QED BY <2>1, <2>3, <2>4, <2>5 DEF CaptureInv
<1>2. CASE OpenCapture
  <2>1. pc = "open"
    BY <1>2 DEF OpenCapture
  <2>2. ASSUME NEW s \in Outputs, written' = [written EXCEPT ![label] = s],
               StartReading, Goto("read"), UNCHANGED <<label, results>>
        PROVE  CaptureInv'
    <3>1. /\ written' \in [CaptureFiles -> Seq(Bytes)] /\ written'[label] = s
          /\ \A f \in CaptureFiles : f # label => written'[f] = written[f]
          /\ s \in Seq(Bytes)
      BY <2>2 DEF CaptureInv
    <3>2. ReadSoFar(s, MaxOutput, 0, <<>>, FALSE)
      BY <3>1, StartsReading
    <3>3. ReaderInv(written[label], MaxOutput)'
      BY <2>2, <3>1, <3>2 DEF StartReading, ReaderInv
    <3>4. ASSUME NEW f \in CaptureFiles, results[f].is = "Ok"
          PROVE  f = "stdout" /\ label = "stderr"
      BY <2>1, <3>4 DEF CaptureInv, Removing
    <3>5. ASSUME NEW f \in CaptureFiles, results'[f].is = "Ok"
          PROVE  /\ IsOutputOf(results'[f].value, written'[f], MaxOutput)
                 /\ f = "stdout" /\ label' = "stderr"
      BY <2>2, <3>1, <3>4, <3>5 DEF CaptureInv
    <3> QED BY <2>2, <3>1, <3>3, <3>5 DEF CaptureInv
  <2>3. ASSUME CaptureIs(Err("open")), UNCHANGED written
        PROVE  CaptureInv'
    BY <1>1, <2>1, <2>3, ErrIsNotOk
  <2> QED BY <1>2, <2>2, <2>3 DEF OpenCapture
<1>3. CASE ReadCapture
  <2>1. /\ pc = "read" /\ UNCHANGED written /\ written[label] \in Seq(Bytes)
        /\ ReaderInv(written[label], MaxOutput)
    BY <1>3 DEF ReadCapture, CaptureInv
  <2>2. CASE /\ ReadSome(written[label], MaxOutput) /\ Goto("read")
             /\ UNCHANGED <<label, results>>
    <3>1. ReadSoFar(written[label], MaxOutput, received', captured', truncated')
      BY <2>1, <2>2, ReadsOn
    <3> QED BY <2>1, <2>2, <3>1 DEF CaptureInv, ReaderInv, Goto
  <2>3. CASE AllRead(written[label]) /\ CaptureIs(Ok(Output))
    <3>1. IsOutputOf(Output, written[label], MaxOutput)
      BY <2>1, <2>3, OutputOfStream
    <3>2. Ok(Output).value = Output
      BY DEF Ok
    <3> QED BY <1>1, <2>1, <2>3, <3>1, <3>2
  <2>4. CASE CaptureIs(Err("read"))
    BY <1>1, <2>1, <2>4, ErrIsNotOk
  <2> QED BY <1>3, <2>2, <2>3, <2>4 DEF ReadCapture
<1>4. CASE RemoveCapture
  <2>1. /\ pc = "remove" /\ pc' \in {"remove", "result"} /\ label' \in CaptureFiles
        /\ UNCHANGED <<written, results, readerVars>>
    BY <1>4 DEF RemoveCapture, CaptureFiles
  <2> QED BY <2>1 DEF CaptureInv, Removing
<1>5. CASE ResolveManifest \/ CreateSnapshot \/ CompareSnapshot \/ CreateStdout \/ CreateStderr
  <2>1. /\ UNCHANGED <<cargoVars, readerVars>> /\ pc \notin Removing
        /\ pc' # "read"
    BY <1>5, Releases DEF ResolveManifest, CreateSnapshot, CompareSnapshot, CreateStdout,
          CreateStderr, Goto, GotoHolding, Return, Removing
  <2> QED BY <2>1, CapturesKept DEF cargoVars
<1>6. CASE ApproveTree \/ CopyWorkspace
  <2>1. /\ UNCHANGED <<captureVars, readerVars>> /\ pc \notin Removing
        /\ pc' # "read"
    BY <1>6, Releases DEF ApproveTree, CopyWorkspace, Goto, Return, Removing
  <2> QED BY <2>1, CapturesKept
<1>7. CASE Spawn \/ Poll \/ CheckTime
  <2>1. /\ UNCHANGED <<captureVars, readerVars>> /\ pc \notin Removing
        /\ pc' # "read"
    BY <1>7, Releases DEF Spawn, Poll, CheckTime, Goto, Removing
  <2> QED BY <2>1, CapturesKept
<1>8. CASE TerminateOnTimeout \/ WaitForChild \/ Abandon
  <2>1. /\ UNCHANGED <<captureVars, readerVars>> /\ pc \notin Removing
        /\ pc' # "read"
    BY <1>8 DEF TerminateOnTimeout, WaitForChild, Abandon, Goto, Removing
  <2> QED BY <2>1, CapturesKept
<1>9. CASE AbandonWait \/ Settle
  <2>1. /\ UNCHANGED <<captureVars, readerVars>> /\ pc \notin Removing
        /\ pc' # "read"
    BY <1>9, Releases DEF AbandonWait, Settle, Goto, Removing
  <2> QED BY <2>1, CapturesKept
<1>10. CASE ReportResult
  <2>1. /\ UNCHANGED <<cargoVars, readerVars>> /\ pc = "result" /\ pc' = "done"
    BY <1>10, Releases DEF ReportResult
  <2> QED BY <2>1, CapturesKept DEF cargoVars, Removing
<1>11. CASE Surroundings
  <2>1. UNCHANGED <<captureVars, readerVars>> /\ pc' = pc
    BY <1>11 DEF Surroundings, EditTree, ChildExits, DescendantsExit, DeadlinePasses, callState
  <2> QED BY <2>1, CapturesKept
<1>12. CASE UNCHANGED vars
  <2>1. UNCHANGED <<captureVars, readerVars>> /\ pc' = pc
    BY <1>12 DEF vars, callState, cargoVars
  <2> QED BY <2>1, CapturesKept
<1> QED
  BY <1>2, <1>3, <1>4, <1>5, <1>6, <1>7, <1>8, <1>9, <1>10, <1>11, <1>12
     DEF Next, CargoNext, RunCargo

LEMMA CargoInvStep ==
    ASSUME CargoInv, [Next]_vars, kind = "cargo"
    PROVE  CargoInv'
<1> SUFFICES CopyInv' /\ ProcessInv' /\ HoldsInv' /\ VerdictInv'
  BY CaptureInvStep DEF CargoInv
<1> USE DEF CargoInv
<1>0. CASE ResolveManifest
  <2>1. /\ pc = "start" /\ UNCHANGED cargoVars
    BY <1>0 DEF ResolveManifest
  <2>2. pc' \in {"fingerprint", "done"} /\ HoldsInv' /\ VerdictInv'
    <3>1. CASE Goto("fingerprint")
      BY <2>1, <3>1, GoesOn DEF HoldsAt, Removing
    <3>2. CASE Return(Err("manifest"))
      BY <2>1, <3>2, FailsReleasing DEF Return, HoldsAt, Removing
    <3> QED BY <1>0, <3>1, <3>2 DEF ResolveManifest
  <2>3. CopyInv'
    BY <2>1, <2>2 DEF CopyInv, Preparing, cargoVars, processVars, runVars
  <2>4. ProcessInv'
    BY <2>1, <2>2 DEF CopyInv, Preparing, ProcessInv, cargoVars, processVars, runVars
  <2> QED BY <2>2, <2>3, <2>4
<1>1. CASE ApproveTree
  <2>1. /\ pc = "fingerprint"
        /\ UNCHANGED <<processVars, snapshot, deadline, timedOut, killFailed>>
    BY <1>1 DEF ApproveTree
  <2>2. pc' \in {"fingerprint", "createSnapshot", "done"} /\ HoldsInv' /\ VerdictInv'
    <3>1. CASE Goto("fingerprint") \/ Goto("createSnapshot")
      BY <2>1, <3>1, GoesOn DEF HoldsAt, Removing
    <3>2. CASE Return(Err("fingerprint"))
      BY <2>1, <3>2, FailsReleasing DEF Return, HoldsAt, Removing
    <3> QED BY <1>1, <2>1, <3>1, <3>2 DEF ApproveTree
  <2>3. CopyInv'
    BY <2>1, <2>2 DEF CopyInv, Preparing, processVars
  <2>4. ProcessInv'
    BY <2>1, <2>2 DEF CopyInv, Preparing, ProcessInv, processVars
  <2> QED BY <2>2, <2>3, <2>4
<1>2. CASE CreateSnapshot
  <2>1. /\ pc = "createSnapshot" /\ UNCHANGED cargoVars
    BY <1>2 DEF CreateSnapshot
  <2>2. pc' \in {"copy", "done"} /\ HoldsInv' /\ VerdictInv'
    <3>1. CASE GotoHolding("copy", held \cup {"snapshot"})
      <4>1. held \cup {"snapshot"} = HoldsAt("copy")
        BY <2>1 DEF HoldsInv, HoldsAt, Removing
      <4> QED BY <2>1, <3>1, <4>1, GoesOn DEF Removing
    <3>2. CASE Return(Err("snapshot"))
      BY <2>1, <3>2, FailsReleasing DEF Return, HoldsAt, Removing
    <3> QED BY <1>2, <3>1, <3>2 DEF CreateSnapshot
  <2>3. CopyInv'
    BY <2>1, <2>2 DEF CopyInv, Preparing, cargoVars, processVars, runVars
  <2>4. ProcessInv'
    BY <2>1, <2>2 DEF CopyInv, Preparing, ProcessInv, cargoVars, processVars, runVars
  <2> QED BY <2>2, <2>3, <2>4
<1>3. CASE CopyWorkspace
  <2>1. /\ pc = "copy" /\ UNCHANGED <<processVars, expected, deadline, timedOut, killFailed>>
    BY <1>3 DEF CopyWorkspace
  <2>2. pc' \in {"copy", "compare", "done"} /\ HoldsInv' /\ VerdictInv'
    <3>1. CASE Goto("copy") \/ Goto("compare")
      BY <2>1, <3>1, GoesOn DEF HoldsAt, Removing
    <3>2. CASE ReturnReleasing(Err("snapshot"), {"snapshot"})
      BY <2>1, <3>2, FailsReleasing DEF HoldsAt, Removing
    <3> QED BY <1>3, <2>1, <3>1, <3>2 DEF CopyWorkspace
  <2>3. CopyInv'
    BY <2>1, <2>2 DEF CopyInv, Preparing, processVars
  <2>4. ProcessInv'
    BY <2>1, <2>2 DEF CopyInv, Preparing, ProcessInv, processVars
  <2> QED BY <2>2, <2>3, <2>4
<1>4. CASE CompareSnapshot
  <2>1. /\ pc = "compare" /\ UNCHANGED cargoVars
    BY <1>4 DEF CompareSnapshot
  <2>2. /\ pc' \in {"createStdout", "done"} /\ HoldsInv' /\ VerdictInv'
        /\ pc' = "createStdout" => snapshot = expected
    <3>1. CASE snapshot = expected /\ Goto("createStdout")
      BY <2>1, <3>1, GoesOn DEF HoldsAt, Removing
    <3>2. ASSUME NEW why, ReturnReleasing(Err(why), {"snapshot"})
          PROVE  pc' = "done" /\ HoldsInv' /\ VerdictInv'
      BY <2>1, <3>2, FailsReleasing DEF HoldsAt, Removing
    <3> QED BY <1>4, <3>1, <3>2 DEF CompareSnapshot
  <2>3. CopyInv'
    BY <2>1, <2>2 DEF CopyInv, Preparing, cargoVars, processVars, runVars
  <2>4. ProcessInv'
    BY <2>1, <2>2 DEF CopyInv, Preparing, ProcessInv, cargoVars, processVars, runVars
  <2> QED BY <2>2, <2>3, <2>4
<1>5. CASE CreateStdout
  <2>1. /\ pc = "createStdout" /\ UNCHANGED cargoVars
    BY <1>5 DEF CreateStdout
  <2>2. pc' \in {"createStderr", "done"} /\ HoldsInv' /\ VerdictInv'
    <3>1. CASE GotoHolding("createStderr", held \cup {"stdout"})
      <4>1. held \cup {"stdout"} = HoldsAt("createStderr")
        BY <2>1 DEF HoldsInv, HoldsAt, Removing
      <4> QED BY <2>1, <3>1, <4>1, GoesOn DEF Removing
    <3>2. CASE ReturnReleasing(Err("capture file"), {"snapshot"})
      BY <2>1, <3>2, FailsReleasing DEF HoldsAt, Removing
    <3> QED BY <1>5, <3>1, <3>2 DEF CreateStdout
  <2>3. CopyInv'
    BY <2>1, <2>2 DEF CopyInv, Preparing, WithCaptures, cargoVars, processVars, runVars
  <2>4. ProcessInv'
    BY <2>1, <2>2 DEF CopyInv, Preparing, ProcessInv, cargoVars, processVars, runVars
  <2> QED BY <2>2, <2>3, <2>4
<1>6. CASE CreateStderr
  <2>1. /\ pc = "createStderr" /\ UNCHANGED cargoVars
    BY <1>6 DEF CreateStderr
  <2>2. pc' \in {"spawn", "done"} /\ HoldsInv' /\ VerdictInv'
    <3>1. CASE GotoHolding("spawn", held \cup {"stderr"})
      <4>1. held \cup {"stderr"} = HoldsAt("spawn")
        BY <2>1 DEF HoldsInv, HoldsAt, CaptureFiles, Removing
      <4> QED BY <2>1, <3>1, <4>1, GoesOn DEF Removing
    <3>2. CASE ReturnReleasing(Err("capture file"), {"stdout", "snapshot"})
      BY <2>1, <3>2, FailsReleasing DEF HoldsAt, Removing
    <3> QED BY <1>6, <3>1, <3>2 DEF CreateStderr
  <2>3. CopyInv'
    BY <2>1, <2>2 DEF CopyInv, Preparing, WithCaptures, cargoVars, processVars, runVars
  <2>4. ProcessInv'
    BY <2>1, <2>2 DEF CopyInv, Preparing, ProcessInv, cargoVars, processVars, runVars
  <2> QED BY <2>2, <2>3, <2>4
<1>7. CASE Spawn
  <2>1. pc = "spawn" /\ UNCHANGED <<treeVars, runVars, exitOk, descendants>>
    BY <1>7 DEF Spawn
  <2>2. /\ HoldsInv' /\ VerdictInv'
        /\ \/ pc' = "poll" /\ child' = "running"
           \/ pc' = "done" /\ child' = child
    <3>1. CASE child' = "running" /\ Goto("poll")
      BY <2>1, <3>1, GoesOn DEF HoldsAt, Removing
    <3>2. CASE /\ ReturnReleasing(Err("spawn"), CaptureFiles \cup {"snapshot"})
               /\ child' = child
      BY <2>1, <3>2, FailsReleasing DEF HoldsAt, Removing
    <3> QED BY <1>7, <3>1, <3>2 DEF Spawn
  <2>3. CopyInv'
    BY <2>1, <2>2 DEF CopyInv, Preparing, WithCaptures, runVars
  <2>4. ProcessInv'
    BY <2>1, <2>2 DEF CopyInv, Preparing, ProcessInv, runVars
  <2> QED BY <2>2, <2>3, <2>4
<1>8. CASE Poll
  <2>1. pc = "poll" /\ UNCHANGED <<treeVars, runVars, exitOk, descendants>>
    BY <1>8 DEF Poll
  <2>2. /\ HoldsInv' /\ VerdictInv'
        /\ \/ pc' = "settle" /\ child = "exited" /\ child' = "reaped"
           \/ pc' = "checkTime" /\ child' = child
           \/ pc' = "abandon" /\ child' = child
        /\ ~ timedOut /\ ~ timedOut'
    <3>1. Goto("settle") \/ Goto("checkTime") \/ Goto("abandon")
      BY <1>8 DEF Poll
    <3>2. HoldsInv' /\ VerdictInv'
      BY <2>1, <3>1, GoesOn DEF HoldsAt, Removing
    <3>3. ~ timedOut /\ ~ timedOut'
      BY <2>1 DEF Preparing, ProcessInv, runVars
    <3> QED BY <1>8, <3>2, <3>3 DEF Poll, Goto
  <2>3. CopyInv'
    BY <2>1, <2>2 DEF CopyInv, Preparing, WithCaptures, runVars
  <2>4. ProcessInv'
    BY <2>1, <2>2 DEF Preparing, ProcessInv, runVars
  <2> QED BY <2>2, <2>3, <2>4
<1>9. CASE CheckTime
  <2>1. /\ pc = "checkTime" /\ timedOut' = deadline
        /\ UNCHANGED <<treeVars, processVars, expected, snapshot, deadline, killFailed>>
        /\ Goto(IF deadline THEN "terminate" ELSE "poll")
    BY <1>9 DEF CheckTime
  <2>2. /\ HoldsInv' /\ VerdictInv'
        /\ pc' = IF deadline THEN "terminate" ELSE "poll"
    BY <2>1, GoesOn DEF HoldsAt, Removing
  <2>3. CopyInv'
    BY <2>1, <2>2 DEF CopyInv, Preparing, WithCaptures, processVars
  <2>4. ProcessInv'
    BY <2>1, <2>2 DEF Preparing, ProcessInv, processVars
  <2> QED BY <2>2, <2>3, <2>4
<1>10. CASE TerminateOnTimeout
  <2>1. pc = "terminate" /\ UNCHANGED <<treeVars, expected, snapshot, deadline, timedOut>>
    BY <1>10 DEF TerminateOnTimeout
  <2>2. /\ HoldsInv' /\ VerdictInv'
        /\ \/ TerminateProcessGroup /\ pc' = "wait"
           \/ TerminationFails /\ pc' = "abandon"
    BY <1>10, <2>1, GoesOn DEF TerminateOnTimeout, HoldsAt, Removing
  <2>3. CopyInv'
    BY <2>1, <2>2 DEF CopyInv, Preparing, WithCaptures, TerminateProcessGroup,
          TerminationFails, processVars
  <2>4. ProcessInv'
    BY <2>1, <2>2 DEF Preparing, ProcessInv, TerminateProcessGroup, TerminationFails, processVars
  <2> QED BY <2>2, <2>3, <2>4
<1>11. CASE WaitForChild
  <2>1. pc = "wait" /\ UNCHANGED <<treeVars, runVars, exitOk, descendants>>
    BY <1>11 DEF WaitForChild
  <2>2. /\ HoldsInv' /\ VerdictInv'
        /\ \/ pc' = "settle" /\ child \in {"exited", "killed"} /\ child' = "reaped"
           \/ pc' = "abandon" /\ child' = child
    BY <1>11, <2>1, GoesOn DEF WaitForChild, HoldsAt, Removing
  <2>3. CopyInv'
    BY <2>1, <2>2 DEF CopyInv, Preparing, WithCaptures, runVars
  <2>4. ProcessInv'
    BY <2>1, <2>2 DEF Preparing, ProcessInv, runVars
  <2> QED BY <2>2, <2>3, <2>4
<1>12. CASE Abandon
  <2>1. pc = "abandon" /\ UNCHANGED <<treeVars, expected, snapshot, deadline, timedOut>>
    BY <1>12 DEF Abandon
  <2>2. /\ HoldsInv' /\ VerdictInv' /\ pc' = "abandonWait"
        /\ TerminateProcessGroup \/ TerminationFails
    BY <1>12, <2>1, GoesOn DEF Abandon, HoldsAt, Removing
  <2>3. CopyInv'
    BY <2>1, <2>2 DEF CopyInv, Preparing, WithCaptures, TerminateProcessGroup,
          TerminationFails, processVars
  <2>4. ProcessInv'
    BY <2>1, <2>2 DEF Preparing, ProcessInv, TerminateProcessGroup, TerminationFails, processVars
  <2> QED BY <2>2, <2>3, <2>4
<1>13. CASE AbandonWait
  <2>1. /\ pc = "abandonWait" /\ child # "running" /\ child' = "reaped"
        /\ ReturnReleasing(Err("process"), CaptureFiles \cup {"snapshot"})
        /\ UNCHANGED <<treeVars, runVars, exitOk, descendants>>
    BY <1>13 DEF AbandonWait
  <2>2. HoldsInv' /\ VerdictInv' /\ pc' = "done"
    BY <2>1, FailsReleasing DEF HoldsAt, Removing
  <2>3. CopyInv'
    BY <2>1, <2>2 DEF CopyInv, Preparing, WithCaptures, runVars
  <2>4. ProcessInv'
    BY <2>1, <2>2 DEF Preparing, ProcessInv, runVars
  <2> QED BY <2>2, <2>3, <2>4
<1>14. CASE Settle
  <2>1. pc = "settle" /\ UNCHANGED <<treeVars, expected, snapshot, deadline, timedOut>>
    BY <1>14 DEF Settle
  <2>2. CASE timedOut /\ Goto("open") /\ UNCHANGED <<processVars, killFailed>>
    <3>1. HoldsInv' /\ VerdictInv' /\ pc' = "open"
      BY <2>1, <2>2, GoesOn DEF HoldsAt, Removing
    <3>2. CopyInv'
      BY <2>1, <2>2, <3>1 DEF CopyInv, Preparing, WithCaptures, processVars
    <3>3. ProcessInv'
      BY <2>1, <2>2, <3>1 DEF Preparing, ProcessInv, processVars
    <3> QED BY <3>1, <3>2, <3>3
  <2>3. CASE ~ timedOut /\ TerminateProcessGroup /\ Goto("open")
    <3>1. HoldsInv' /\ VerdictInv' /\ pc' = "open"
      BY <2>1, <2>3, GoesOn DEF HoldsAt, Removing
    <3>2. CopyInv'
      BY <2>1, <2>3, <3>1 DEF CopyInv, Preparing, WithCaptures, TerminateProcessGroup
    <3>3. ProcessInv'
      BY <2>1, <2>3, <3>1 DEF Preparing, ProcessInv, TerminateProcessGroup
    <3> QED BY <3>1, <3>2, <3>3
  <2>4. CASE /\ ~ timedOut /\ TerminationFails
             /\ ReturnReleasing(Err("terminate"), {"snapshot"})
    <3>1. /\ pc' = "done" /\ answer'.is = "Err" /\ held' \subseteq stuck' \cup CaptureFiles
          /\ killFailed' = TRUE /\ UNCHANGED processVars
      <4>1. /\ pc' = "done" /\ answer' = Err("terminate")
            /\ held' \subseteq stuck' \cup (held \ {"snapshot"})
        BY <2>4, Releases
      <4>2. held = CaptureFiles \cup {"snapshot"}
        BY <2>1 DEF HoldsInv, HoldsAt, Removing
      <4> QED BY <2>4, <4>1, <4>2, ErrIsNotOk DEF TerminationFails
    <3>2. HoldsInv' /\ VerdictInv'
      BY <3>1 DEF HoldsInv, VerdictInv, Removing
    <3>3. CopyInv'
      BY <2>1, <3>1 DEF CopyInv, Preparing, WithCaptures, processVars
    <3>4. ProcessInv'
      BY <2>1, <3>1 DEF Preparing, ProcessInv, processVars
    <3> QED BY <3>2, <3>3, <3>4
  <2> QED BY <1>14, <2>2, <2>3, <2>4 DEF Settle
<1>15. CASE OpenCapture \/ ReadCapture
  <2>1. /\ pc \in {"open", "read"} /\ UNCHANGED <<treeVars, processVars, runVars>>
        /\ UNCHANGED <<kind, answer, held, stuck>>
        /\ \/ pc' \in {"open", "read"}
           \/ pc' = "remove" /\ label' = "stdout"
    BY <1>15, CaptureGoesOn DEF OpenCapture, ReadCapture, CaptureIs, Goto
  <2>2. CopyInv'
    BY <2>1 DEF CopyInv, Preparing, WithCaptures, processVars, runVars
  <2>3. ProcessInv'
    BY <2>1 DEF Preparing, ProcessInv, processVars, runVars
  <2>4. HoldsInv'
    BY <2>1 DEF HoldsInv, HoldsAt, Removing, CaptureFiles
  <2>5. VerdictInv'
    BY <2>1 DEF HoldsInv, VerdictInv, NoAnswer
  <2> QED BY <2>2, <2>3, <2>4, <2>5
<1>16. CASE RemoveCapture
  <2>1. /\ pc = "remove" /\ UNCHANGED <<kind, answer, treeVars, processVars, runVars>>
        /\ \/ held' = held \ {label} /\ stuck' = stuck
           \/ held' = held /\ stuck' = stuck \cup {label}
        /\ \/ label = "stdout" /\ pc' = "remove" /\ label' = "stderr"
           \/ label = "stderr" /\ pc' = "result" /\ label' = "stdout"
    BY <1>16 DEF RemoveCapture
  <2>2. CopyInv'
    BY <2>1 DEF CopyInv, Preparing, WithCaptures, processVars, runVars
  <2>3. ProcessInv'
    BY <2>1 DEF Preparing, ProcessInv, processVars, runVars
  <2>4. HoldsInv'
    BY <2>1 DEF HoldsInv, Removing
  <2>5. VerdictInv'
    BY <2>1 DEF HoldsInv, VerdictInv, NoAnswer
  <2> QED BY <2>2, <2>3, <2>4, <2>5
<1>17. CASE ReportResult
  <2> DEFINE verdict == [success |-> exitOk /\ ~ timedOut, timed_out |-> timedOut,
                         output |-> [f \in CaptureFiles |-> results[f].value]]
  <2>1. /\ pc = "result" /\ UNCHANGED cargoVars
        /\ ReturnReleasing(IF AllRight THEN Ok(verdict) ELSE Err("output"), {"snapshot"})
    BY <1>17 DEF ReportResult
  <2>2. /\ pc' = "done"
        /\ answer' = IF AllRight THEN Ok(verdict) ELSE Err("output")
        /\ held' \subseteq stuck' \cup (held \ {"snapshot"}) /\ stuck \subseteq stuck'
    <3>1. stuck \subseteq stuck'
      BY <2>1 DEF ReturnReleasing
    <3> HIDE DEF verdict
    <3> QED BY <2>1, <3>1, Releases
  <2>3. HoldsInv'
    BY <2>1, <2>2 DEF HoldsInv, Removing
  <2>4. VerdictInv'
    <3>1. CASE AllRight
      <4>1. answer'.value = verdict
        BY <2>2, <3>1 DEF Ok
      <4>2. /\ answer'.value.success = (exitOk /\ ~ timedOut)
            /\ answer'.value.timed_out = timedOut
            /\ \A f \in CaptureFiles : answer'.value.output[f] = results[f].value
        BY <4>1
      <4>3. \A f \in CaptureFiles : IsOutputOf(results[f].value, written[f], MaxOutput)
        BY <3>1 DEF AllRight, CaptureInv
      <4>4. child = "reaped"
        BY <2>1 DEF Preparing, ProcessInv
      <4> HIDE DEF verdict
      <4>5. UNCHANGED <<child, exitOk, timedOut, written>>
        BY <2>1 DEF cargoVars, processVars, runVars, captureVars
      <4> QED BY <4>2, <4>3, <4>4, <4>5 DEF VerdictInv
    <3>2. CASE ~ AllRight
      BY <2>2, <3>2, ErrIsNotOk DEF VerdictInv
    <3> QED BY <3>1, <3>2
  <2>5. CopyInv'
    BY <2>1, <2>2 DEF CopyInv, Preparing, WithCaptures, cargoVars, processVars, runVars
  <2>6. ProcessInv'
    BY <2>1, <2>2 DEF Preparing, ProcessInv, cargoVars, processVars, runVars
  <2> QED BY <2>3, <2>4, <2>5, <2>6
<1>18. CASE EditTree /\ UNCHANGED <<processVars, runVars, captureVars, readerVars>>
  BY <1>18 DEF EditTree, callState, processVars, runVars, captureVars, CopyInv, ProcessInv,
        HoldsInv, VerdictInv
<1>19. CASE ChildExits
  <2>1. /\ child = "running" /\ child' = "exited" /\ exitOk' \in BOOLEAN
        /\ UNCHANGED <<callState, treeVars, runVars, captureVars>>
    BY <1>19 DEF ChildExits
  <2>2. CopyInv'
    BY <2>1 DEF CopyInv, callState, runVars
  <2>3. ProcessInv'
    BY <2>1 DEF Preparing, ProcessInv, callState, runVars
  <2>4. HoldsInv'
    BY <2>1 DEF HoldsInv, callState, runVars, captureVars
  <2>5. VerdictInv'
    BY <2>1 DEF VerdictInv, callState, runVars
  <2> QED BY <2>2, <2>3, <2>4, <2>5
<1>20. CASE DescendantsExit
  BY <1>20 DEF DescendantsExit, callState, runVars, captureVars, CopyInv, ProcessInv, HoldsInv,
        VerdictInv
<1>21. CASE DeadlinePasses
  BY <1>21 DEF DeadlinePasses, callState, processVars, captureVars, CopyInv, ProcessInv, HoldsInv,
        VerdictInv
<1>22. CASE UNCHANGED vars
  BY <1>22 DEF vars, callState, cargoVars, processVars, runVars, captureVars, CopyInv, ProcessInv,
        HoldsInv, VerdictInv
<1> QED
  BY <1>0, <1>1, <1>2, <1>3, <1>4, <1>5, <1>6, <1>7, <1>8, <1>9, <1>10, <1>11, <1>12, <1>13,
     <1>14, <1>15, <1>16, <1>17, <1>18, <1>19, <1>20, <1>21, <1>22
     DEF Next, CargoNext, RunCargo, Surroundings

(* What the invariant says of a call is what is promised of it.            *)
LEMMA PromisedByCargo ==
    ASSUME kind = "cargo" => CargoInv
    PROVE  TestRunsOnApprovedTree /\ VerdictIsTheTests /\ CapturesAreBounded
<1> SUFFICES ASSUME kind = "cargo", CargoInv
             PROVE  TestRunsOnApprovedTree /\ VerdictIsTheTests /\ CapturesAreBounded
  BY DEF TestRunsOnApprovedTree, VerdictIsTheTests, CapturesAreBounded
<1>1. TestRunsOnApprovedTree
  BY DEF CargoInv, CopyInv, TestRunsOnApprovedTree
<1>2. ASSUME AuditedOutcome(answer) = "Success"
      PROVE  exitOk /\ ~ answer.value.timed_out
  BY <1>2 DEF AuditedOutcome, CargoInv, VerdictInv
<1>3. ASSUME answer.is = "Ok"
      PROVE  /\ answer.value.timed_out => deadline
             /\ ~ answer.value.timed_out => answer.value.success = exitOk
  BY <1>3 DEF CargoInv, VerdictInv, ProcessInv
<1>4. CapturesAreBounded
  BY DEF CargoInv, VerdictInv, CapturesAreBounded
<1> QED BY <1>1, <1>2, <1>3, <1>4 DEF VerdictIsTheTests

-----------------------------------------------------------------------------
(* Reads and writes.                                                       *)

(* The path never leads outside.                                           *)
LEMMA LandingIsInside == Landing \in Inside \cup {"nowhere"}
BY DEF Landing, Ambient, Inside, Dirs

LEMMA FilesInvInit ==
    ASSUME Init, kind \in {"read", "write"}
    PROVE  FilesInv
<1>1. /\ CallInit /\ FilesCalled
  BY DEF Init
<1>2. PICK target \in Entries :
         files = [d \in Dirs |-> IF d = "outside" THEN OutsideText
                                 ELSE IF d = "e" THEN Missing ELSE target]
  BY <1>1 DEF FilesCalled
<1>3. WholeInv
  <2>1. payload \in Text("request")
    BY <1>1, FilesAssumption DEF FilesCalled, Text
  <2>2. files = [d \in Dirs |-> files[d]] /\ files["outside"] = OutsideText
    BY <1>2 DEF Dirs
  <2>3. \A d \in Inside : files[d] \in Whole
    BY <1>2 DEF Inside, Dirs, Whole, Entries
  <2>4. unsynced.in # "outside" /\ unsynced.old \subseteq Whole
    BY <1>1 DEF FilesCalled, NothingUnsynced
  <2> QED BY <2>1, <2>2, <2>3, <2>4 DEF WholeInv
<1>4. TempInv
  BY <1>1 DEF FilesCalled, CallInit, NoTempFile, TempInv
<1>5. HeldInv
  BY <1>1 DEF CallInit, HeldInv
<1>6. AnswersInv
  <2>1. pc = "start" /\ answer = NoAnswer /\ answer.is # "Ok"
    BY <1>1 DEF CallInit, NoAnswer
  <2>2. \A d \in Inside : files[d] \in Entries
    BY <1>2 DEF Inside, Dirs, Entries
  <2>3. unsynced.old = {}
    BY <1>1 DEF FilesCalled, NothingUnsynced
  <2> QED BY <2>1, <2>2, <2>3 DEF AnswersInv, ReadSteps, EarlyWriteSteps
<1> QED BY <1>3, <1>4, <1>5, <1>6 DEF FilesInv

(* A step that changes nothing but the program counter, before there is a  *)
(* temporary file or on the way to its removal.                            *)
LEMMA FileGoesOn ==
    ASSUME FilesInv, NEW step, Next2(step), pc \notin {"done", "off"},
           \/ "temp" \notin held /\ kind = "read" /\ step \in ReadSteps
           \/ "temp" \notin held /\ kind = "write" /\ step \in EarlyWriteSteps
           \/ kind = "write" /\ step = "removeTemp"
    PROVE  FilesInv'
<1>1. pc' = step /\ UNCHANGED <<kind, answer, held, stuck, fileVars>>
  BY DEF Next2, Goto
<1>2. step \in ReadSteps \cup EarlyWriteSteps \cup {"removeTemp"}
  OBVIOUS
<1>3. WholeInv'
  BY <1>1 DEF FilesInv, WholeInv, Whole, fileVars
<1>4. TempInv'
  BY <1>1, <1>2 DEF FilesInv, TempInv, fileVars, ReadSteps, EarlyWriteSteps
<1>5. HeldInv'
  <2>1. Landing' = Landing
    BY <1>1 DEF Landing, Ambient, fileVars
  <2> QED BY <1>1, <2>1 DEF FilesInv, HeldInv, fileVars
<1>6. AnswersInv'
  BY <1>1 DEF FilesInv, AnswersInv, fileVars, LateWriteSteps
<1> QED BY <1>3, <1>4, <1>5, <1>6 DEF FilesInv

(* An error while there is no temporary file.                              *)
LEMMA FileFails ==
    ASSUME FilesInv, NEW why, Fail(why), "temp" \notin held
    PROVE  FilesInv'
<1>1. /\ pc' = "done" /\ answer' = Err(why) /\ held' = held
      /\ UNCHANGED <<kind, fileVars>>
  BY Returns DEF Fail, Return, ReturnReleasing
<1>2. answer'.is = "Err"
  BY <1>1, ErrIsNotOk
<1>3. WholeInv'
  BY <1>1 DEF FilesInv, WholeInv, Whole, fileVars
<1>4. TempInv'
  BY <1>1 DEF FilesInv, TempInv, fileVars
<1>5. HeldInv'
  BY <1>1 DEF FilesInv, HeldInv
<1>6. AnswersInv'
  BY <1>1, <1>2 DEF FilesInv, AnswersInv, fileVars
<1> QED BY <1>3, <1>4, <1>5, <1>6 DEF FilesInv

LEMMA FilesInvStep ==
    ASSUME FilesInv, [Next]_vars, kind \in {"read", "write"}
    PROVE  FilesInv'
<1> USE DEF FilesInv
<1>1. ASSUME pc \in ReadSteps \cup EarlyWriteSteps
      PROVE  "temp" \notin held /\ pc \notin {"done", "off"}
  BY <1>1 DEF HeldInv, ReadSteps, EarlyWriteSteps
<1>2. CASE Evaluate
  <2>1. pc = "start"
    BY <1>2 DEF Evaluate
  <2>2. "temp" \notin held
    BY <1>1, <2>1 DEF ReadSteps
  <2> QED BY <1>2, <2>1, <2>2, FileGoesOn, FileFails DEF Evaluate, ReadSteps, EarlyWriteSteps
<1>3. CASE OpenReadParent \/ InspectRead
  <2>1. pc \in {"openReadParent", "inspectRead"}
    BY <1>3 DEF OpenReadParent, InspectRead
  <2>2. kind = "read" /\ "temp" \notin held
    BY <1>1, <2>1 DEF AnswersInv, ReadSteps, EarlyWriteSteps, LateWriteSteps
  <2> QED BY <1>3, <2>1, <2>2, FileGoesOn, FileFails DEF OpenReadParent, InspectRead, ReadSteps
<1>4. CASE ReadFile
  <2>1. pc = "read"
    BY <1>4 DEF ReadFile
  <2>2. kind = "read" /\ "temp" \notin held
    BY <1>1, <2>1 DEF AnswersInv, ReadSteps, EarlyWriteSteps, LateWriteSteps
  <2> DEFINE e == EntryAt(Landing)
  <2>3. ASSUME IsFile(e), Least(e.size, MaxRead + 1) <= MaxRead, Return(Ok(e)), UNCHANGED fileVars
        PROVE  FilesInv'
    <3>1. e \in Texts
      <4>1. Landing \in Inside /\ e = files[Landing]
        BY <2>3, LandingIsInside DEF EntryAt, IsFile
      <4> QED BY <2>2, <2>3, <4>1 DEF AnswersInv, Entries, IsFile
    <3>2. e.size <= MaxRead
      <4>1. e.size \in Nat /\ MaxRead \in Nat
        BY <3>1, FilesAssumption DEF Text
      <4> QED BY <2>3, <4>1 DEF Least
    <3> HIDE DEF e
    <3>3. /\ pc' = "done" /\ answer' = Ok(e) /\ held' = held
          /\ UNCHANGED <<kind, fileVars>>
      BY <2>3, Returns DEF Return, ReturnReleasing
    <3>4. WholeInv'
      BY <3>3 DEF WholeInv, Whole, fileVars
    <3>5. TempInv'
      BY <3>3 DEF TempInv, fileVars
    <3>6. HeldInv'
      BY <2>2, <3>3 DEF HeldInv
    <3>7. AnswersInv'
      <4>1. answer'.value = e
        BY <3>3 DEF Ok
      <4> QED BY <2>2, <3>1, <3>2, <3>3, <4>1 DEF AnswersInv, fileVars
    <3> QED BY <3>4, <3>5, <3>6, <3>7
  <2> QED BY <1>4, <2>2, <2>3, FileFails DEF ReadFile
<1>5. CASE CaptureTarget \/ CheckContent \/ RevalidateWrite \/ ReadPermissions
  <2>1. pc \in EarlyWriteSteps \ {"start", "createTemp"}
    BY <1>5 DEF CaptureTarget, CheckContent, RevalidateWrite, ReadPermissions,
          RevalidateParent, RevalidateTarget, EarlyWriteSteps
  <2>2. kind = "write" /\ "temp" \notin held /\ pc \notin {"done", "off"}
    BY <1>1, <2>1 DEF AnswersInv, ReadSteps, EarlyWriteSteps
  <2>3. ASSUME NEW step \in EarlyWriteSteps, Next2(step)
        PROVE  FilesInv'
    BY <2>2, <2>3, FileGoesOn
  <2>4. ASSUME NEW why, Fail(why)
        PROVE  FilesInv'
    BY <2>2, <2>4, FileFails
  <2>5. CASE CaptureTarget
    BY <2>3, <2>4, <2>5 DEF CaptureTarget, RevalidateParent, RevalidateTarget,
          EarlyWriteSteps
  <2>6. CASE CheckContent
    BY <2>3, <2>4, <2>6 DEF CheckContent, EarlyWriteSteps
  <2>7. CASE RevalidateWrite
    BY <2>3, <2>4, <2>7 DEF RevalidateWrite, RevalidateParent, RevalidateTarget,
          EarlyWriteSteps
  <2>8. CASE ReadPermissions
    BY <2>3, <2>4, <2>8 DEF ReadPermissions, EarlyWriteSteps
  <2> QED BY <1>5, <2>5, <2>6, <2>7, <2>8
<1>6. CASE CreateTempFile
  <2>1. pc = "createTemp"
    BY <1>6 DEF CreateTempFile
  <2>2. kind = "write" /\ "temp" \notin held /\ pc \notin {"done", "off"}
    BY <1>1, <2>1 DEF AnswersInv, ReadSteps, EarlyWriteSteps
  <2>3. CASE Next2("removeTemp")
    BY <2>2, <2>3, FileGoesOn
  <2>4. CASE /\ Landing # "nowhere"
             /\ temp' = [NoTempFile EXCEPT !.in = Landing, !.content = Torn]
             /\ swapped' = FALSE
             /\ GotoHolding("fill", held \cup {"temp"})
             /\ UNCHANGED <<form, inParent, slot, files, payload, unsynced, fileEdits>>
    <3>1. /\ pc' = "fill" /\ held' = {"temp"} /\ UNCHANGED <<kind, answer, stuck>>
      BY <2>2, <2>4 DEF GotoHolding, HeldInv
    <3>2. temp' = [in |-> Landing, content |-> Torn, synced |-> FALSE]
      BY <2>4 DEF NoTempFile
    <3>3. Landing \in Inside /\ Landing' = Landing
      BY <2>4, LandingIsInside DEF Landing, Ambient
    <3>4. WholeInv'
      BY <2>4 DEF WholeInv, Whole
    <3>5. TempInv'
      BY <3>1, <3>2, <3>3 DEF TempInv, Inside
    <3>6. HeldInv'
      BY <3>1, <3>2, <3>3 DEF HeldInv
    <3>7. AnswersInv'
      BY <2>1, <2>2, <2>4, <3>1 DEF AnswersInv, LateWriteSteps
    <3> QED BY <3>4, <3>5, <3>6, <3>7
  <2> QED BY <1>6, <2>3, <2>4 DEF CreateTempFile
<1>7. CASE FillTempFile
  <2>1. pc = "fill" /\ kind = "write"
    BY <1>7 DEF FillTempFile, AnswersInv, ReadSteps
  <2>2. CASE Next2("removeTemp")
    BY <2>1, <2>2, FileGoesOn
  <2>3. CASE /\ temp' = [temp EXCEPT !.content = payload]
             /\ Goto("syncTemp")
             /\ UNCHANGED <<form, inParent, slot, files, payload, unsynced,
                            fileEdits, swapped>>
    <3>1. pc' = "syncTemp" /\ UNCHANGED <<kind, answer, held, stuck>>
      BY <2>3 DEF Goto
    <3>2. temp' = [in |-> temp.in, content |-> payload, synced |-> temp.synced]
      BY <2>3 DEF TempInv
    <3>3. WholeInv'
      BY <2>3 DEF WholeInv, Whole
    <3>4. TempInv'
      BY <2>1, <2>3, <3>1, <3>2 DEF TempInv
    <3>5. HeldInv'
      <4>1. Landing' = Landing /\ temp'.in = temp.in
        BY <2>3, <3>2 DEF Landing, Ambient
      <4> QED BY <2>1, <2>3, <3>1, <4>1 DEF HeldInv
    <3>6. AnswersInv'
      BY <2>1, <2>3, <3>1 DEF AnswersInv, LateWriteSteps
    <3> QED BY <3>3, <3>4, <3>5, <3>6
  <2> QED BY <1>7, <2>2, <2>3 DEF FillTempFile
<1>8. CASE SyncTempFile
  <2>1. pc = "syncTemp" /\ kind = "write"
    BY <1>8 DEF SyncTempFile, AnswersInv, ReadSteps
  <2>2. CASE Next2("removeTemp")
    BY <2>1, <2>2, FileGoesOn
  <2>3. CASE /\ temp' = [temp EXCEPT !.synced = TRUE]
             /\ Goto("rename")
             /\ UNCHANGED <<form, inParent, slot, files, payload, unsynced,
                            fileEdits, swapped>>
    <3>1. pc' = "rename" /\ UNCHANGED <<kind, answer, held, stuck>>
      BY <2>3 DEF Goto
    <3>2. temp' = [in |-> temp.in, content |-> payload, synced |-> TRUE]
      BY <2>1, <2>3 DEF TempInv
    <3>3. WholeInv'
      BY <2>3 DEF WholeInv, Whole
    <3>4. TempInv'
      BY <2>1, <2>3, <3>1, <3>2 DEF TempInv
    <3>5. HeldInv'
      <4>1. Landing' = Landing /\ temp'.in = temp.in
        BY <2>3, <3>2 DEF Landing, Ambient
      <4> QED BY <2>1, <2>3, <3>1, <4>1 DEF HeldInv
    <3>6. AnswersInv'
      BY <2>1, <2>3, <3>1 DEF AnswersInv, LateWriteSteps
    <3> QED BY <3>3, <3>4, <3>5, <3>6
  <2> QED BY <1>8, <2>2, <2>3 DEF SyncTempFile
<1>9. CASE RenameTempFile
  <2>1. pc = "rename" /\ kind = "write" /\ temp.in \in Inside /\ temp.content = payload
    BY <1>9 DEF RenameTempFile, AnswersInv, ReadSteps, TempInv
  <2>2. CASE Next2("removeTemp")
    BY <2>1, <2>2, FileGoesOn
  <2>3. CASE /\ unsynced' = [in |-> temp.in,
                             old |-> {files[temp.in]} \cup
                                     (IF temp.synced THEN {} ELSE {Torn})]
             /\ files' = [files EXCEPT ![temp.in] = temp.content]
             /\ pc' = "done" /\ answer' = Ok(payload) /\ held' = held \ {"temp"}
             /\ UNCHANGED <<kind, stuck, form, inParent, slot, payload, temp,
                            fileEdits, swapped>>
    <3>1. WholeInv'
      <4>1. files' = [d \in Dirs |-> IF d = temp.in THEN payload ELSE files[d]]
        BY <2>1, <2>3 DEF WholeInv
      <4>2. files'["outside"] = OutsideText
        BY <2>1, <4>1 DEF WholeInv, Inside, Dirs
      <4>3. \A d \in Inside : files'[d] \in Whole
        BY <4>1 DEF WholeInv, Whole, Inside
      <4>4. unsynced'.in = temp.in /\ unsynced'.old = {files[temp.in]}
        BY <2>1, <2>3 DEF TempInv
      <4>5. unsynced'.in # "outside" /\ unsynced'.old \subseteq Whole
        BY <2>1, <4>4 DEF WholeInv, Inside
      <4>6. files' = [d \in Dirs |-> files'[d]]
        BY <4>1
      <4> QED BY <2>3, <4>2, <4>3, <4>5, <4>6 DEF WholeInv, Whole
    <3>2. TempInv'
      BY <2>3 DEF TempInv
    <3>3. HeldInv'
      BY <2>3 DEF HeldInv
    <3>4. AnswersInv'
      <4>1. answer'.value = payload
        BY <2>3 DEF Ok
      <4> QED BY <2>1, <2>3, <4>1 DEF AnswersInv
    <3> QED BY <3>1, <3>2, <3>3, <3>4
  <2> QED BY <1>9, <2>2, <2>3 DEF RenameTempFile
<1>10. CASE RemoveTempFile
  <2>1. pc = "removeTemp" /\ UNCHANGED fileVars
    BY <1>10 DEF RemoveTempFile
  <2>2. /\ pc' = "done" /\ answer'.is = "Err" /\ kind' = kind
        /\ held' \subseteq {"temp"} /\ held' \subseteq held
        /\ "temp" \in held' => "temp" \in stuck' \/ swapped
    <3>1. CASE Landing = temp.in /\ ReturnReleasing(Err("write"), {"temp"})
      <4>1. pc' = "done" /\ answer' = Err("write") /\ held' \subseteq stuck' \cup (held \ {"temp"})
        BY <3>1, Releases
      <4>2. held' \subseteq held /\ kind' = kind
        BY <3>1 DEF ReturnReleasing
      <4> QED BY <4>1, <4>2, ErrIsNotOk DEF HeldInv
    <3>2. CASE Landing # temp.in /\ Return(Err("write"))
      <4>1. pc' = "done" /\ answer' = Err("write") /\ held' = held
        BY <3>2, Returns
      <4>2. kind' = kind
        BY <3>2 DEF Return, ReturnReleasing
      <4> QED BY <3>2, <4>1, <4>2, ErrIsNotOk DEF HeldInv
    <3> QED BY <1>10, <3>1, <3>2 DEF RemoveTempFile
  <2>3. WholeInv'
    BY <2>1 DEF WholeInv, Whole, fileVars
  <2>4. TempInv'
    BY <2>1, <2>2 DEF TempInv, fileVars
  <2>5. HeldInv'
    <3>1. Landing' = Landing
      BY <2>1 DEF Landing, Ambient, fileVars
    <3> QED BY <2>1, <2>2, <3>1 DEF HeldInv, fileVars
  <2>6. AnswersInv'
    BY <2>1, <2>2 DEF AnswersInv, fileVars
  <2> QED BY <2>3, <2>4, <2>5, <2>6
<1>11. CASE EditFile
  <2>1. /\ pc \notin {"done", "off"}
        /\ UNCHANGED <<callState, form, inParent, slot, payload, temp, unsynced, swapped>>
    BY <1>11 DEF EditFile, Answered
  <2>2. PICK d \in Inside, e \in Entries : files' = [files EXCEPT ![d] = e]
    BY <1>11 DEF EditFile, Inside
  <2>3. files' = [x \in Dirs |-> IF x = d THEN e ELSE files[x]]
    BY <2>2 DEF WholeInv
  <2>4. WholeInv'
    <3>1. files'["outside"] = OutsideText
      BY <2>3 DEF WholeInv, Inside, Dirs
    <3>2. \A x \in Inside : files'[x] \in Whole
      BY <2>3 DEF WholeInv, Whole, Inside
    <3>3. files' = [x \in Dirs |-> files'[x]]
      BY <2>3
    <3> QED BY <2>1, <3>1, <3>2, <3>3 DEF WholeInv, Whole
  <2>5. TempInv'
    BY <2>1 DEF TempInv, callState
  <2>6. HeldInv'
    <3>1. Landing' = Landing
      BY <2>1 DEF Landing, Ambient
    <3> QED BY <2>1, <3>1 DEF HeldInv, callState
  <2>7. AnswersInv'
    BY <2>1, <2>3 DEF AnswersInv, callState, Inside
  <2> QED BY <2>4, <2>5, <2>6, <2>7
<1>12. CASE SwapParent
  <2>1. /\ pc \notin {"done", "off"} /\ swapped' = TRUE
        /\ UNCHANGED <<callState, form, inParent, files, payload, temp, unsynced>>
    BY <1>12 DEF SwapParent, Answered
  <2>2. WholeInv'
    BY <2>1 DEF WholeInv, Whole
  <2>3. TempInv'
    BY <2>1 DEF TempInv, callState
  <2>4. HeldInv'
    BY <2>1 DEF HeldInv, callState
  <2>5. AnswersInv'
    BY <2>1 DEF AnswersInv, callState
  <2> QED BY <2>2, <2>3, <2>4, <2>5
<1>13. CASE LosePower
  <2>1. /\ pc' = "off"
        /\ UNCHANGED <<kind, answer, held, stuck, form, inParent, slot, payload,
                       temp, unsynced, swapped>>
    BY <1>13 DEF LosePower
  <2>2. /\ WholeInv'
        /\ kind = "read" => files' = files
    <3>1. CASE files' = files
      BY <2>1, <3>1 DEF WholeInv, Whole
    <3>2. ASSUME NEW old \in unsynced.old, files' = [files EXCEPT ![unsynced.in] = old]
          PROVE  WholeInv' /\ kind # "read"
      <4>1. files' = [d \in Dirs |-> IF d = unsynced.in THEN old ELSE files[d]]
        BY <3>2 DEF WholeInv
      <4>2. files'["outside"] = OutsideText
        BY <4>1 DEF WholeInv, Dirs
      <4>3. \A d \in Inside : files'[d] \in Whole
        BY <4>1 DEF WholeInv, Inside
      <4>4. files' = [d \in Dirs |-> files'[d]]
        BY <4>1
      <4>5. WholeInv'
        BY <2>1, <4>2, <4>3, <4>4 DEF WholeInv, Whole
      <4> QED BY <4>5 DEF AnswersInv
    <3> QED BY <1>13, <3>1, <3>2 DEF LosePower
  <2>3. TempInv'
    BY <2>1 DEF TempInv
  <2>4. HeldInv'
    <3>1. Landing' = Landing
      BY <2>1 DEF Landing, Ambient
    <3> QED BY <2>1, <3>1 DEF HeldInv
  <2>5. AnswersInv'
    BY <2>1, <2>2 DEF AnswersInv
  <2> QED BY <2>2, <2>3, <2>4, <2>5
<1>14. CASE UNCHANGED vars
  <2>1. UNCHANGED <<callState, fileVars>>
    BY <1>14 DEF vars
  <2>2. Landing' = Landing
    BY <2>1 DEF Landing, Ambient, fileVars
  <2> QED BY <2>1, <2>2 DEF callState, fileVars, WholeInv, Whole, TempInv, HeldInv, AnswersInv
<1> QED
  BY <1>2, <1>3, <1>4, <1>5, <1>6, <1>7, <1>8, <1>9, <1>10, <1>11, <1>12, <1>13, <1>14
     DEF Next, FilesNext, FileStep

(* What the invariant says of a call is what is promised of it.            *)
LEMMA PromisedByFiles ==
    ASSUME kind \in {"read", "write"} => FilesInv
    PROVE  StaysInsideWorkspace /\ TargetIsWhole /\ ReadIsWhole
<1> USE DEF FilesInv
<1>1. ASSUME kind \in {"read", "write"}
      PROVE  answer # Ok(OutsideText)
  <2>1. CASE kind = "read" /\ answer.is = "Ok"
    <3>1. answer.value \in Text("workspace") /\ OutsideText \in Text("outside")
      BY <2>1, FilesAssumption DEF AnswersInv
    <3> QED BY <3>1 DEF Ok, Text
  <2>2. CASE kind = "write" /\ answer.is = "Ok"
    <3>1. answer.value \in Text("request") /\ OutsideText \in Text("outside")
      BY <2>2, FilesAssumption DEF AnswersInv, WholeInv
    <3> QED BY <3>1 DEF Ok, Text
  <2>3. CASE answer.is # "Ok"
    BY <2>3 DEF Ok
  <2> QED BY <1>1, <2>1, <2>2, <2>3
<1>2. StaysInsideWorkspace
  BY <1>1 DEF StaysInsideWorkspace, WholeInv, TempInv
<1>3. ASSUME kind = "write", NEW d \in Dirs
      PROVE  files[d] # Torn
  <2>1. \A origin : Torn \notin Text(origin)
    BY DEF Torn, Text
  <2>2. OutsideText # Torn /\ payload # Torn /\ Torn \notin Texts
    BY <1>3, <2>1, FilesAssumption DEF WholeInv
  <2>3. Torn \notin {Missing, LinkOut, Other}
    BY DEF Torn, Missing, LinkOut, Other
  <2> QED BY <1>3, <2>2, <2>3 DEF WholeInv, Whole, Entries, Inside
<1>4. ReadIsWhole
  BY DEF ReadIsWhole, AnswersInv
<1> QED BY <1>2, <1>3, <1>4 DEF TargetIsWhole

-----------------------------------------------------------------------------
(* What a call leaves behind.                                              *)
LEMMA IdleInvInit ==
    ASSUME Init
    PROVE  IdleInv
BY DEF Init, CallInit, SandboxInit, CargoInit, IdleInv

LEMMA IdleInvStep ==
    ASSUME IdleInv, [Next]_vars
    PROVE  IdleInv'
<1>1. kind' = kind
  BY KindStays
<1>2. ASSUME kind # "add"
      PROVE  timer' = timer
  BY <1>2 DEF Next, vars, sandboxVars
<1>3. ASSUME kind # "cargo"
      PROVE  child' = child /\ descendants' = descendants
  BY <1>3 DEF Next, vars, cargoVars, processVars
<1>4. ASSUME kind \in {"request", "http", "git"}
      PROVE  held' = held
  <2>1. CASE ConfigNext
    BY <2>1, Returns DEF ConfigNext, ResolveConfig, EvaluateRequest, CheckPurpose, Goto
  <2>2. CASE HttpNext
    BY <2>2, Returns DEF HttpNext, ExecuteHttp, CheckRequest, BuildClientForDestination,
          Connect, Send, ReadResponseBody, SendMore, ChangeName, callState, Goto
  <2>3. CASE GitNext
    BY <2>3, Returns DEF GitNext, OpenRepository, CollectEntry, Goto
  <2>4. CASE UNCHANGED vars
    BY <2>4 DEF vars, callState
  <2> QED BY <1>4, <2>1, <2>2, <2>3, <2>4 DEF Next
<1> QED BY <1>1, <1>2, <1>3, <1>4 DEF IdleInv

LEMMA CleanedUp ==
    ASSUME ExecutorsInv
    PROVE  NothingLeftBehind
<1> SUFFICES ASSUME Answered
             PROVE  /\ held \subseteq stuck
                            \cup (IF killFailed THEN CaptureFiles ELSE {})
                            \cup (IF swapped THEN {"temp"} ELSE {})
                    /\ timer \in {"none", "ended"}
                    /\ ~ killFailed => child # "running" /\ ~ descendants
  BY DEF NothingLeftBehind
<1> USE DEF ExecutorsInv, IdleInv, Answered
<1>1. CASE kind \in {"request", "http", "git"}
  BY <1>1
<1>2. CASE kind = "add"
  BY <1>2 DEF CallsInv, TimerInv
<1>3. CASE kind = "cargo"
  BY <1>3 DEF CargoInv, ProcessInv, HoldsInv
<1>4. CASE kind \in {"read", "write"}
  BY <1>4 DEF FilesInv, HeldInv
<1> QED BY <1>1, <1>2, <1>3, <1>4

-----------------------------------------------------------------------------
(* Each call keeps the invariant of its executor, and the state of the     *)
(* others at rest.                                                         *)
THEOREM ExecutorsInvariant == Spec => []ExecutorsInv
<1>1. Init => ExecutorsInv
  <2>1. Init => CallsInv
    BY ConfigInvInit, TimerInvInit, HttpInvInit, GitInvInit DEF CallsInv
  <2> QED BY <2>1, CargoInvInit, FilesInvInit, IdleInvInit DEF ExecutorsInv
<1>2. ExecutorsInv /\ [Next]_vars => ExecutorsInv'
  <2>1. CallsInv /\ [Next]_vars => CallsInv'
    BY KindStays, ConfigInvStep, TimerInvStep, HttpInvStep, GitInvStep DEF CallsInv
  <2> QED BY <2>1, KindStays, CargoInvStep, FilesInvStep, IdleInvStep DEF ExecutorsInv
<1> QED BY <1>1, <1>2, PTL DEF Spec

(* However often and whenever the owner edits the workspace during the two *)
(* walks, cargo runs only on a copy that is, file by file, what the        *)
(* approved fingerprint was taken from.                                    *)
THEOREM CargoRunsOnApprovedTree == Spec => []TestRunsOnApprovedTree
<1>1. ExecutorsInv => TestRunsOnApprovedTree
  BY PromisedByCargo DEF ExecutorsInv
<1> QED BY <1>1, ExecutorsInvariant, PTL

(* Whenever the test, its group and the clock go on: it is reported as     *)
(* passed only if it ended by itself with status 0 before the timeout was  *)
(* noticed, and as timed out only if the time was over.                    *)
THEOREM CargoVerdictIsTheTests == Spec => []VerdictIsTheTests
<1>1. ExecutorsInv => VerdictIsTheTests
  BY PromisedByCargo DEF ExecutorsInv
<1> QED BY <1>1, ExecutorsInvariant, PTL

(* However the parent directory and the target are swapped between the     *)
(* checks and their use, nothing outside is read, written or littered.     *)
THEOREM FilesStayInsideWorkspace == Spec => []StaysInsideWorkspace
<1>1. ExecutorsInv => StaysInsideWorkspace
  BY PromisedByFiles DEF ExecutorsInv
<1> QED BY <1>1, ExecutorsInvariant, PTL

(* At every instant and after a power loss at any of them, each file of    *)
(* the workspace is a whole one.                                           *)
THEOREM WriteLeavesWholeFiles == Spec => []TargetIsWhole
<1>1. ExecutorsInv => TargetIsWhole
  BY PromisedByFiles DEF ExecutorsInv
<1> QED BY <1>1, ExecutorsInvariant, PTL

(* For any limits, streams, files and listings: a response's body and both *)
(* outputs of a test are the text of the first bytes that fit, marked when *)
(* there were more, and at most three times as long as the limit; a file   *)
(* that is read and a status are whole and within their limits, or the     *)
(* call fails.                                                             *)
THEOREM ExecutorsBoundOutput == Spec => []OutputIsBounded
<1>1. ExecutorsInv => OutputIsBounded
  BY VettedByHttp, PromisedByCargo, PromisedByFiles, WholeByGit
     DEF ExecutorsInv, CallsInv, OutputIsBounded
<1> QED BY <1>1, ExecutorsInvariant, PTL

(* On every path to a result, errors of every step included: no timer, no  *)
(* process and no file of the call stays, except where a removal or killpg *)
(* failed or the directory of the temporary file was moved away.           *)
THEOREM ExecutorsLeaveNothingBehind == Spec => []NothingLeftBehind
<1>1. ExecutorsInv => NothingLeftBehind
  BY CleanedUp
<1> QED BY <1>1, ExecutorsInvariant, PTL
=============================================================================

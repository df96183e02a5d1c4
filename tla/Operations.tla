----------------------------- MODULE Operations -----------------------------
(***************************************************************************)
(* The decision on a request and the executors, side by side: one call of  *)
(* any of them, against its own surroundings (timer thread, name server    *)
(* and server, process group and owner of the workspace, power).           *)
(***************************************************************************)
EXTENDS Configuration, Sandbox, HttpExecution, CargoTest, WorkspaceFiles, GitStatus

vars == <<callState, configVars, sandboxVars, httpVars, cargoVars, readerVars,
          fileVars, gitVars>>

Init ==
    /\ CallInit /\ ReaderInit
    /\ \/ /\ kind = "request" /\ ConfigCalled
          /\ SandboxInit /\ HttpInit /\ CargoInit /\ FilesInit /\ GitInit
       \/ /\ kind = "add" /\ SandboxCalled
          /\ ConfigInit /\ HttpInit /\ CargoInit /\ FilesInit /\ GitInit
       \/ /\ kind = "http" /\ HttpCalled
          /\ ConfigInit /\ SandboxInit /\ CargoInit /\ FilesInit /\ GitInit
       \/ /\ kind = "cargo" /\ CargoCalled
          /\ ConfigInit /\ SandboxInit /\ HttpInit /\ FilesInit /\ GitInit
       \/ /\ kind \in {"read", "write"} /\ FilesCalled
          /\ ConfigInit /\ SandboxInit /\ HttpInit /\ CargoInit /\ GitInit
       \/ /\ kind = "git" /\ GitCalled
          /\ ConfigInit /\ SandboxInit /\ HttpInit /\ CargoInit /\ FilesInit

Next ==
    \/ /\ kind = "request" /\ ConfigNext
       /\ UNCHANGED <<sandboxVars, httpVars, cargoVars, readerVars, fileVars, gitVars>>
    \/ /\ kind = "add" /\ SandboxNext
       /\ UNCHANGED <<configVars, httpVars, cargoVars, readerVars, fileVars, gitVars>>
    \/ /\ kind = "http" /\ HttpNext
       /\ UNCHANGED <<configVars, sandboxVars, cargoVars, fileVars, gitVars>>
    \/ /\ kind = "cargo" /\ CargoNext
       /\ UNCHANGED <<configVars, sandboxVars, httpVars, fileVars, gitVars>>
    \/ /\ kind \in {"read", "write"} /\ FilesNext
       /\ UNCHANGED <<configVars, sandboxVars, httpVars, cargoVars, readerVars, gitVars>>
    \/ /\ kind = "git" /\ GitNext
       /\ UNCHANGED <<configVars, sandboxVars, httpVars, cargoVars, readerVars, fileVars>>

(* The calling thread runs, the timer thread runs, time passes.            *)
Fairness ==
    /\ ConfigFairness /\ SandboxFairness /\ HttpFairness /\ CargoFairness
    /\ FilesFairness /\ GitFairness

Spec == Init /\ [][Next]_vars /\ Fairness

-----------------------------------------------------------------------------
(* What the executors hand to the agent is limited, and says so when       *)
(* something is missing.  http and cargo cut a stream at its maximum and   *)
(* flag it; the text made of the bytes may be longer than the maximum, as  *)
(* each byte that is no part of a character becomes three (http_execution  *)
(* .rs:116, cargo_test.rs:301).  read_file and git_status fail instead.    *)
OutputIsBounded ==
    /\ ResponseIsBounded
    /\ CapturesAreBounded
    /\ ReadIsWhole
    /\ StatusIsWhole

(* A call that has returned leaves nothing of its own behind: no timer     *)
(* thread, no process of the test's group, no snapshot, capture or         *)
(* temporary file, on every error path.  Exceptions: what a removal failed *)
(* to remove; after a failed killpg the processes and, following a normal  *)
(* exit, the capture files (cargo_test.rs:249); and a write's temporary    *)
(* file when its directory was moved away in between (filesystem.rs:337).  *)
NothingLeftBehind ==
    Answered =>
        /\ held \subseteq stuck
                \cup (IF killFailed THEN CaptureFiles ELSE {})
                \cup (IF swapped THEN {"temp"} ELSE {})
        /\ timer \in {"none", "ended"}
        /\ ~ killFailed => child # "running" /\ ~ descendants

(* Every call returns: the addition by its timer or by itself, the test by *)
(* its timeout even if it never ends.  Not when killpg fails, since the    *)
(* executor then waits for the test (cargo_test.rs:238), and not when the  *)
(* power goes; and not while a server keeps sending a body past its        *)
(* maximum: the reader drops it but reads on to its end                    *)
(* (http_execution.rs:95), and the timeout is one for each read.           *)
OperationEnds == <>(Answered \/ killFailed \/ pc = "off") \/ []<>Draining
=============================================================================

# A TLA+ model of the Zyguor Agent Execution Gateway

The gateway stands between agents and a workspace. An agent sends a structured
request (`execute`); the policy allows, blocks, or holds it for a human. A held
request is stored durably; an administrator approves, rejects or acknowledges it
over a Unix socket. Every decision goes to an append-only audit log *before* the
operation it permits. The interesting claims are about what survives: a request
is executed at most once although processes are killed and machines lose power
in the middle; no held request disappears; nothing is executed without a durable
record. These specifications state such claims, TLC checks them on small
instances, and TLAPS proves every safety property among them for any number of
requests, writers and starts, any limits and any contents.

Paths such as `main.rs:1090` are relative to `src/src/`.

## 1. The system

### Components

| component | state | operations | what makes it correct |
|---|---|---|---|
| pending review store (`pending_review.rs`) | maps `reviews`, `claimed_reviews`; the state file | `insert`, `get`, `claim`, `restore_claimed`, `consume_claimed_classified`, `load` | memory agrees with the file after any failure; accepted reviews are not lost; a claim is not undone by a power loss; what it writes it can load |
| request handling (`main.rs`, `execute_request_with_http_runner`) | none of its own; one call per request | evaluate, capture, insert, audit, run, complete | nothing runs unaudited or unallowed; a request told to be held is accounted for |
| approval protocol (`main.rs`, `handle_admin_command_with_http_runner`) | the handler's copy of the claimed review | APPROVE, REJECT, ACK_CLAIMED | one execution per request; a confirmed decision is final; what runs is what was reviewed |
| audit log (`audit.rs`, `persist_audit_locked`) | the file, its directory entry, the audit mutex | `persist_record` | records do not interleave; Ok means durable |
| startup and shutdown (`main.rs`, `main`, `stop_admin_task`) | configuration, socket, listener task, opened directories | load, bind, validate, anchor, serve, stop | the state left by any stop is one the gateway starts from; a stop ends; the directories worked in are those validated |
| operational paths (`main.rs`, `validate_operational_state_path`) | path and identity of a parent directory | validate, compare when opened | state and log are outside of the workspace |
| admin socket and listener (`main.rs`) | socket file, one connection | accept, check the peer, read one line, answer | only whole lines of the owner take effect; the guard removes its own socket only; the queue moves |
| policy and configuration (`policy.rs`, `config.rs`) | the configuration read at start | parse, validate, evaluate | reads are never "review", effects are never "allow"; limits and hosts are the operator's |
| write capability, path confinement (`filesystem.rs`) | workspace files | evaluate, capture, revalidate, write, read | the target is replaced as a whole, was the reviewed one, and is inside |
| workspace fingerprint and snapshot | a private copy of the tree | hash, copy, compare | the test runs on the approved tree |
| cargo test executor (`cargo_test.rs`) | child process group, capture files | spawn, poll, terminate, read, remove | the verdict is the test's; the group ends; output is bounded |
| sandbox (`sandbox.rs`) | Wasm store, timer thread | add | a result or an interruption; fuel and time limits; the call and its timer end |
| HTTP (`http.rs`, `http_execution.rs`) | none | validate destination, resolve, request, bounded body | only vetted addresses of allowed hosts; one delivery; what is kept of the body is bounded; the call ends |
| git status (`git.rs`) | none | open, list | the list is whole or an error |
| request types, MCP transport | none | convert, serve | - |

### Interaction

Agents' calls run concurrently with one administrator command: the listener
serves the next connection only after the handler returned. Both sides share the
store behind one `Mutex` and the log behind another. A handler takes a mutex for
one operation, never both, and keeps a *copy* of the review in between. The
workspace is shared with its owner, who takes no lock. The configuration is read
at the start and does not change while a process runs.

### Hard behaviours

- Handlers interleave between their locked sections: check, claim, audit, audit,
  execute, audit, consume are seven separate steps.
- Persisting has three outcomes, not two: a failure after the rename leaves the
  new state visible and the old one possible after a power loss.
- Crash and power loss can strike between any two steps, and restarts read
  whatever the file then holds, possibly with another configuration.
- Giving a claim back or consuming it can itself fail, in each of these ways.
- A record can be in the log without being durable, or be torn.
- The workspace changes between review, revalidation and execution, and between
  any two calls of the file system within each of them.
- Timers race what they limit: the Wasm call, the test's process group. A timeout
  may be one for each read only, as that of HTTP is.
- Limits are counted in bytes and the result is text: a character is cut, bytes
  that are none are replaced.
- Clients of the socket are silent, too long, foreign or gone; others change what
  is at the socket path; shutdown cancels the listener only where it waits.

The full list, each with its line and the properties that cover it, is under
`hazards` in `PROJECT.json`.

## 2. The modules

| module | models |
|---|---|
| `PendingReviewStore` | the store with its state file, for any caller |
| `AuditTrail` | what the handlers rely on of the audit log (abstract) |
| `AuditLog` | the log file call by call; implements `AuditTrail` |
| `Gateway` | agents' calls and administrator commands over the store and the trail, workspace, configurations, crashes, power losses |
| `StateFile` | how the store reaches its file, call by call; implements `PendingReviewStore` |
| `AdminSocket` | socket path, guard, listener task, clients' lines |
| `Lifecycle` | start and stop of the process, composed with `AdminSocket` |
| `Operation` | what the executors' calls have in common: step, answer, what is held |
| `BoundedReader` | the loop that keeps the first bytes of a stream, and the text made of them; `http_execution.rs` and `cargo_test.rs` each have it |
| `Configuration` | from the operator's file to the decision on a request |
| `Sandbox`, `HttpExecution`, `GitStatus` | one call of each of these executors |
| `WorkspaceFiles` | one read, or one reviewed write from its evaluation |
| `WorkspaceTree`, `CargoTest` | the two walks over the workspace; a reviewed test run |
| `Operations` | the decision and the executors side by side |
| `PendingReviewStore_proofs`, `Gateway_proofs`, `GatewayReview_proofs`, `StateFile_proofs`, `AuditLog_proofs`, `Lifecycle_proofs`, `Operations_proofs`, `Executors_proofs` | theorems about the module of that name; the last two share `Operations` |
| `MCPendingReviewStore`, `MCAuditLog`, `MCGateway`, `MCStateFile`, `MCLifecycle`, `MCOperations` | instances for TLC |

`Gateway` composes the store and the trail; `Lifecycle` composes the process with
its listener; `Operations` only puts the executors next to each other, since each
call is independent of the others. The three meet in what each leaves to the
other: `Gateway` takes a load, a persist, an append and an execution as one step
with their possible results, and the other modules are those steps in detail.

**PendingReviewStore.** `reviews` and `claimed` are the two maps, `disk` is what
a reader of the state file sees and `survivors` the set of contents a power loss
may leave there. `Persist` adds to `survivors` on a rename whose directory sync
failed and collapses it on a success. Each operation is one action because the
store's mutex is held around it; a kill inside an operation leaves the disk as
one of the two failures does, so it is that failure followed by `ProcessCrash`.
Rollbacks put back the same keys the code puts back. Four history variables
(`issued`, `accepted`, `released`, `owned`) say what callers did and were told;
only properties and the fresh-id rule of `StoreNext` read them. A review is
represented by what was captured for it; its request and purpose are fixed by
its id.

**Gateway** extends both. `agent[id]` and `pc` are the program counters of the
calls and of the command handler; `cur` and `copy` the handler's request and its
copy of the review; `outcome` how the operation ended. One action is one locked
section or one unlocked computation:

| action | code |
|---|---|
| `RefuseRequest`, `EvaluateRequest` | `build_execution_request`, `evaluate_request_with_config`, the capture |
| `InsertReview` | `store.insert(pending)?`, then `validate_message` |
| `PreExecutionAudit`, `RunAllowed`, `FinishRequest` | `execute_message_with_audit_id` |
| `Approve`, `Revalidate`, `ClaimApproved` | APPROVE up to the claim |
| `ApprovalAudit`, `ReviewedPreExecutionAudit`, `Execute`, `CompletionAudit`, `ConsumeReview` | `audit_claimed_approval`, `execute_reviewed_action`, `execute_claimed_reviewed_action` |
| `RestoreReview` | the way back after a failed audit |
| `Reject`, `RejectionAudit` | REJECT |
| `Acknowledge`, `ReconciliationAudit` | ACK_CLAIMED |
| `Crash`, `PowerFails`, `Start` | end of the process or machine, `main` |

The workspace is one value: the content of the single target the write requests
share and the fingerprint of the tree. `attempts`, `ranOn` and `told` record
starts of operations, what they took effect on, and answers given; only
properties read them.

**AuditLog** takes one append per writer apart: mutex, open, permissions, the
two syncs of a new file, two writes per record, `sync_all`, directory sync. Each
call can fail, the text can be torn, and a power loss keeps the synced part and
any prefix beyond it, or drops the file when its directory entry was never
synced.

**StateFile** refines the store. `pc` names the call
`save_to_anchored_path_classified` makes next, `progress` how far it came, and
`mayFind` the contents a power loss may leave.

| action | code |
|---|---|
| `Begin` | the lookups and the change of the maps, then the conversion (`serialize_state`) |
| `CreateTemp`, `WriteTemp`, `SyncTemp`, `Rename`, `SyncDirectory`, `UnlinkTemp` | the closure in `save_to_anchored_path_classified` and the clean-up after it |
| `Return` | the caller's treatment of Ok, BeforeCommit, AfterCommit: the rollback by key |
| `Kill`, `Reap`, `PowerLoss`, `Load` | end of the process, end of the power, `load_from_validated_path` |

Its refinement mapping shows the store's variables as they were before the
operation until the call returns or is killed (`Outcome`). A review has its
persisted form here, so `FileIsOldOrNew` also says that what was captured comes
back with the review it was captured for.

**Lifecycle** with **AdminSocket**. `pc` is where `main` is, `task` where the
listener task is; they run concurrently.

| action | code |
|---|---|
| `ReadSettings`, `Bind`, `Secure`, `TakeOwnership`, `LoseOwnership` | `main` up to `create_managed_admin_listener` |
| `Canonicalize`, `InspectParent`, `InspectEntry`, `ResolveEntry` | `validate_operational_state_path`, for the state and for the log |
| `AnchorAudit`, `LoadStore`, `Serve` | opening the validated directories, spawning the task |
| `StartFails` | any `?` in between |
| `EndService`, `AbortTask`, `JoinTask` | end of `service.waiting()`, `stop_admin_task` |
| `DropGuard`, `RemoveOwnSocket`, `DropFails` | `Drop for AdminSocketPathGuard` |
| `Accept`, `AcceptFails` | `run_admin_listener`, `verify_admin_peer` |
| `ReadNothing`, `ReadCommand`, `RunCommand`, `Reply`, ... | `handle_admin_connection` |
| `Cancelled` | the aborted task is dropped where it waits |
| `Connect`, `ReplaceSocket`, `MoveParent`, `Crash` | clients, others, the end of the process |

A connection is the line its client will send, chosen when it is accepted; a
line without an end (`open`) is a client that goes silent. Objects at the socket
path have an inode number, which is free again once nothing names or holds the
object: the guard compares numbers, as the code does.

**Operations.** `kind` says which executor was called; `held` is what it has
created and not released, `stuck` what it tried to remove and could not. In each
module one action is one call into the file system, the process table, Wasmtime
or reqwest, and the surroundings act between any two.

| module | actions of the call | surroundings |
|---|---|---|
| `Configuration` | `ResolveConfig`, `EvaluateRequest`, `CheckPurpose` | - |
| `Sandbox` | `SandboxSetUp`, `StartTimer`, `CallAdd`, `SendCancel`, `JoinTimer` | the timer thread |
| `HttpExecution` | `CheckRequest`, `BuildClientForDestination`, `Connect`, `Send`, `ReadResponseBody` | `ChangeName`, `SendMore` |
| `CargoTest` | `ResolveManifest`, `ApproveTree`, `CreateSnapshot`, `CopyWorkspace`, `CompareSnapshot`, `CreateStdout`, `CreateStderr`, `Spawn`, `Poll`, `CheckTime`, `TerminateOnTimeout`, `WaitForChild`, `Abandon`, `AbandonWait`, `Settle`, `OpenCapture`, `ReadCapture`, `RemoveCapture`, `ReportResult` | `EditTree`, `ChildExits`, `DescendantsExit`, `DeadlinePasses` |
| `WorkspaceFiles` | `Evaluate`, the three calls of a read, `CaptureTarget`, `CheckContent`, `RevalidateWrite`, `ReadPermissions`, the temporary file's four, `RemoveTempFile` | `EditFile`, `SwapParent`, `LosePower` |
| `GitStatus` | `OpenRepository`, `CollectEntry` | - |

## 3. What TLC checks

| run | instance | shows |
|---|---|---|
| `store` | 2 ids, 2 bodies, all persist results, crash, power loss | memory and file agree; own state always loads; accepted reviews stay; a claim is durable |
| `gateway_outages` | a write and a cargo test, all persist results, audit "ok"/"lost", crash, power loss | one execution per request, confirmed rejections and acknowledgements are final, held requests are accounted for |
| `gateway_audit` | a write and an unreviewed read, every result of both files, crash, power loss, fairness | durable records before any effect; every command and call ends; `Gateway` implements `StoreSpec` |
| `gateway_revalidation` | a cargo test and a POST (the POST's purpose invalid), an edited workspace, three configurations, crashes | the test runs on the reviewed tree; a POST needs its host allowed when it is started; an execution leaves a claim or a durable record of its end |
| `audit_log` | 3 writers, new file, every call may fail, crash, power loss, fairness | lines do not interleave, Ok is synced, calls return, `AuditTrail` is implemented |
| `state_file` | 2 ids, 3 kinds of review (one without a persisted form), every call may fail, kill before each, power loss | `StateFile` implements the store; a reader finds the old or the new state; temporary files are removed |
| `operations` | one call of each executor, see the bounds | the eight invariants of decision and executors, and that calls end |
| `lifecycle` | 2 starts, 2 connections out of 10 kinds of line, 2 changes at the socket path, 1 of the parent directory | whose lines take effect, what a stop leaves behind, where state and log are; shutdown ends, the queue moves |
| `policy_restart`, `write_race`, `invalid_purpose`, `audit_created` | one request or two writers each | the findings below |

**Bounds of store, gateway and audit log.** The only bounds are the instances'
sets; no action carries a counter's limit. Two requests suffice for the interference the store allows: all
state is per id except the state file, which every operation on another id
rewrites, and `survivors`, which mixes histories of both ids; a third id adds
another writer of the same kind. Three workspace values separate "as reviewed",
"written by the request" and "changed by somebody else". Three writers let a
record follow a failed creation, and another follow that. Two bodies are used
where the body matters (`store`), with symmetry on ids and bodies, which are
only compared with themselves; the run has no liveness property. `Ids` is used
up and the number of crashes is not limited. Runs stop nowhere without another
possible step (`RefuseCommand` or a start is always possible), except
`AuditLog`, where the writers finish.

**Bounds of `state_file`.** As for the store; the third kind of review is there
for the conversion that fails before a file is touched.

**Bounds of `operations`.** Limits are 2 and what they limit goes from below to
above them. Streams are read up to 2 bytes at a time, so that a read ends before,
at and after the limit; among them are one whose limit falls within a character
of two bytes, ones that are no UTF-8, and a response body that does not end. Its
first bytes stand for all that follow, since what is beyond the limit is dropped.
Longer characters bring no case of their own: what is missing from one is
replaced in the same way. Files have four texts around the limit, one of them not
UTF-8; `MaxFileEdits = 2` lets the owner swap the parent directory away and back
within a call. Three Cargo inputs in the root and the two source directories, two
contents and `MaxEdits = 2` let a walk see a mixture no moment of the workspace
had, and let the owner change back what the other walk will see; the workspace
begins with the first of the two contents, which are only compared. Addresses are
two of IPv4 at the edge of the shared space and two of IPv6. `MaxListed = 3`
exceeds the maximum of git entries by one; entries are changed in both columns,
in one, in none (ignored), or are in conflict besides. Configuration files put
one limit at a bound, or set one policy word, or list up to two hosts of seven
kinds.

**Bounds of `lifecycle`.** `MaxLength = 2` with lines of length 1 to 3, ended by
a newline, by the end of the input, or not at all. `Inodes = {1, 2}` is the
smallest set with which a number is given out again while the guard remembers
it. `MaxRuns = 2`: a start after each kind of stop; `MaxConnections = 2`: one in
service and one waiting; `MaxReplaced = 2`: a file is taken away and another put
there. One replacement of the parent directory falls between any two lookups.

These two runs set `CHECK_DEADLOCK FALSE`: a call that has returned does nothing
more, and the process is not started a third time.

**Results of calls as constants.** `PersistResults`, `AuditResults`,
`WriteFaults` and `Outages` choose the failures of a run, so that a run spends
its states on its question. The theorems hold for every choice.

**Fairness.** `Gateway!FairSpec` asks weak fairness of the command handler and
of each agent's handler, not of calls, edits, crashes or starts. The code
justifies it: handlers are synchronous functions that wait for nothing but the
two mutexes, which are held for one operation each and never nested, and for the
operation itself. Of the operations `OperationEnds` says when they end. Sandbox
and test have a limit for the whole call; HTTP has one for the wait for the
response and for each read of the body (`http_execution.rs:217`), so that its
end also depends on the server. `CommandIsAnswered` and `CallIsAnswered`, and in
`lifecycle` the end of `RunCommand`, are therefore under the assumption that a
response body ends and that a test which could not be killed does. `AuditLog!FairSpec` asks it of every call into the file system and of the
mutex, which a waiting thread gets once it is free.

`Operations!Spec` asks weak fairness of the calling thread, of the timer thread
and of the passing of time in a test run; the test itself, the owner, the name
server and the power owe nothing. `Lifecycle!Spec` asks it of `main`'s steps and
of the listener task's, which the multi-threaded runtime schedules on another
thread; clients, failures and the end of the service owe nothing, and a step that
waits for a client is enabled only by that client's line. `Cancelled` is one of
the task's steps: an aborted task is dropped at an await that waits, and one that
never waits runs into tokio's budget, which makes it wait.

**Exceptions in the properties.** Some properties name a case the code does not
cover, so that the rest can be said of every other case:

- `StopCleansSocket`: after a crash, a failed `chmod` or a failed removal the
  socket file stays; what others put at the path between the guard's comparison
  and its removal is removed (`main.rs:1498`).
- `AnchoredWhereValidated`: the parent directory was replaced within its
  validation, whose calls each look the path up (`main.rs:411`).
- `NothingLeftBehind`: a removal that failed; after a failed `killpg` the
  processes and capture files (`cargo_test.rs:249`); a temporary file whose
  directory was moved away (`filesystem.rs:337`).
- `OperationEnds`: after a failed `killpg` the executor waits for the test as
  long as it takes (`cargo_test.rs:238`). A server that keeps sending its body past
  the limit is read as long as it does so: nothing more is kept, but the loop
  stops at the end of the stream only (`http_execution.rs:95`), and the timeout
  (`:217`) is one for each read, since reqwest's blocking client has one for each
  connect, read and write (external). That is not what
  `docs/threat-model.md:106` asks for ("execution duration must remain
  bounded"): without the disjunct `[]<>Draining` of `OperationEnds` TLC finds the
  endless read as a counterexample.
- `QueueMoves`: a client of the owner's own user may stall the others
  (`main.rs:1613`, `main.rs:1653`).

**EffectLeavesATrace** is stated for runs whose audit writes succeed: when the
completion record cannot be written the code only reports it in the answer and
consumes the review (`main.rs:985`). **AcknowledgedIsFinal** speaks of the
confirmed answer. The code has a separate answer for "durability uncertain", and
rightly: a claim whose own durability was uncertain, acknowledged with the same
uncertainty, can be pending again after a power loss, and be approved then.

### Findings

Each is a run whose property states what a document says; TLC shows the code
does otherwise.

1. `policy_restart`: a held review is approved and executed under a
   configuration that blocks its operation (revalidation does not look at the
   policy, `main.rs:708`).
2. `write_race`: the target is compared before the claim only; an edit after
   that is overwritten (`filesystem.rs:246`).
3. `invalid_purpose`: the review is stored before the purpose is validated; the
   agent gets an error and the review can be approved (`main.rs:1369`).
4. `audit_created`: after a creation that failed before the directory sync no
   later call syncs the directory; records reported Ok can vanish with the file
   (`audit.rs:244`).

## 4. What is proved

Every invariant and action property of the passing runs, and the three
refinements, are theorems. They hold for any set of requests and writers, any
captured states, files, limits and configurations the code accepts, and for any
choice of the failures and outages that happen. What they assume is in the named
`ASSUME`s of the modules, which TLC evaluates in every run, and is of three kinds:
null values are not ordinary values; constants have the types of the variables of
the program they stand for; and

- `ReviewsAssumption` (`StateFile`): a review was built by one of the two
  constructors callers use, `new` and `new_with_workspace_fingerprint`
  (`main.rs:1337`-`1362`); `ContentAssumption`: what is serialized is neither
  a missing nor a torn file;
- `DirsAssumption` (`Lifecycle`): a directory outside of the workspace is not one
  inside;
- `FilesAssumption` (`WorkspaceFiles`): a text of the workspace, of a request and
  of the file outside are told apart by where they come from.

One theorem has a hypothesis more, stated in it:
`GatewayEffectLeavesATrace` holds when audit writes succeed (see above).

Each invariant was checked by TLC on the run's instance before it was proved.
The passing runs show the same properties on small instances, and their mutants
that the properties can fail.

*Store* (`PendingReviewStore_proofs`). Apart from the types none of the five
invariants of the `store` run is inductive: that the file now is right does not
help if an older one may come back. `StoreInv` therefore says of **every**
surviving content that it is `Sound`: no id twice, every accepted and unreleased
review in it, no owned review pending in it, and nothing in it that was never
inserted; and that `disk` is a survivor and memory its copy. `PersistFacts` and
`PersistKeepsSound` reduce each operation to two questions: is the new content
sound, and do the old survivors remain sound when they are kept. The second is
what forces the classification of failures: `owned` may grow only when the old
survivors go.

*Gateway, who owns a request* (`Gateway_proofs`). `GatewayImplementsStore` proves
`Spec => StoreSpec`: the handlers use the store as it may be used (ids are fresh,
a copy given back is the stored one), so the store's theorems hold inside the
gateway (`GatewayReviewsSurvive`). `GatewayInv` adds why an operation starts
once: a started request is owned or was never inserted; a handler between claim
and execution owns a request that has not been started; owned requests are
pending in no surviving content, so no second claim succeeds, before or after a
power loss (`ClaimableIsFree`). From it follow `EffectAtMostOnce`,
`AuditedBeforeEffect` and `RejectedIsNotExecuted`.

*Gateway, what becomes of a review* (`GatewayReview_proofs`). Ownership does not
say *what* is in the contents. `CaptureInv`: every surviving content, and the
handler's copy, have each review as it was captured; hence what cargo runs on.
`HostInv`: from the revalidation to the start the host is allowed, since the
configuration changes only with a restart, which ends the handler. `SettledInv`:
an acknowledged review is in **no** surviving content, which is why only the
confirmed answer is final; a weaker invariant about the visible file fails at the
next power loss. `DecisionInv`: what was consumed has its decision in the durable
part of the log. `TraceInv`, under audit writes that succeed: a started operation
is claimed in every surviving content or traced.

*State file* (`StateFile_proofs`). `FileInv` follows `save` call by call. Up to
the rename the disk is what it was when the operation began (`previous`), and
that is what the operation undone would say (`Undone`), which is why the rollback
by key is right; from the rename on the file is the serialized memory, next to
the earlier contents until the directory is synced. `RoundTrip`, that a content
loads as the maps it was written from, makes the bytes here and the maps of
`PendingReviewStore` the same thing; it rests on what each of the constructors
puts into a review. `StateFileImplementsStore` then maps a return or a kill to
the store's operation with the result that belongs to `progress`, and
`StateFileIsDurable` draws the conclusion for the calls themselves: whichever
fails, no accepted review is lost and no claim comes undone.

*Audit log* (`AuditLog_proofs`). `LogInv` says of the writer at work that it holds
the mutex and that the last pieces of the file are its own; of a text at the
end that its writer will add the line end or is gone (`LastInv`); and of every
piece beyond the synced length that its writer has not returned Ok
(`UnsyncedInv`). The last is needed for the power loss: a cut between a text and
its line end must not hit a record that was reported. `LinkInv` explains a file
without a durable entry: its creation is under way or did not finish, which is
the exception in `ReportedIsSynced` and the finding `audit_created`.
`AuditLogImplementsTrail`: a text is `Audit` with the result "unsynced", a sync
or a power loss is `TrailPowerLoss` with a choice of the unsynced records, the
other calls move nothing. So what `Gateway` takes as one step is what the file
does.

*Start and stop* (`Lifecycle_proofs`). Three independent invariants. `LineInv`:
what the listener knows of the line at each step; `SocketInv`: the guard's
number names this run's socket and nothing others put there under its eyes,
though numbers are given out again; `DirectoryInv`: a validation nobody disturbed
has seen one directory, and that one is outside.

*Decision and executors* (`Operations_proofs`, `Executors_proofs`). `CallsInv` and
`ExecutorsInv` are a conjunction of one invariant per executor, each under the
`kind` of call it is about, with what the other executors' state then is
(`IdleInv`), since the surroundings may act at any time.

- `TimerInv`: the timer is held exactly from its start to its join, and no call
  returns while it waits or is about to interrupt.
- `HttpInv`: addresses are vetted before they are contacted; one delivery. Both
  readers keep `ReadSoFar`: what was kept is the stream's first bytes, as many as
  were received or as fit, and the flag says which (`ReadsOn`). At the end of the
  stream `OutputOfStream` gives the text: a byte comes out as it was unless it is
  part of no character or of one that the limit cuts, and replacements make the
  text at most three times as long as the limit.
- `GitInv`: the entries collected are the first ones listed, within the maximum;
  what a column holds is exactly the changes the flags name, whichever other
  flags there are (`ColumnsKeepFlags`).
- `CargoInv`: `CopyInv` has the copy equal to the approved tree from the
  comparison on, whatever the owner does; `ProcessInv` says at each step of the
  call what the child, its group and the clock can be; `HoldsInv` what is still
  to be removed, capture file by capture file; `CaptureInv` that a result read is
  the output of its file, while the other is still read or removed. That the
  timeout is noticed at one step only had to be said of all steps before it.
- `FilesInv`: what directories hold, now and after a power loss, is whole; the
  temporary file is inside, complete and synced before the rename, and found again
  unless the directory was swapped.

*Only model-checked.* The liveness properties, because liveness under fairness
and `ENABLED` are beyond the prover: `CommandIsAnswered`, `CallIsAnswered`
(`gateway_audit`), `CallReturns` (`audit_log`), `OperationEnds` (`operations`),
`ShutdownEnds`, `QueueMoves` (`lifecycle`); and that no unforeseen state is
without a next step (TLC's deadlock check). The four runs that expect a violation
need TLC's counterexample.

## 5. What is abstracted or not modelled

- Formats, messages, path syntax, permissions and file types. A check that fails
  for such a reason is the refusal the model already has.
- In `Gateway` one `persist` is one action with three results (`StateFile` has its
  steps), and the workspace is read at one moment (`CargoTest` and
  `WorkspaceFiles` have the walks and the lookups). The audit log exists with a
  durable directory entry; its creation is `AuditLog`'s subject. The rename of a
  reviewed write is not undone by a power loss, as it may be
  (`filesystem.rs:331`, in `WorkspaceFiles`).
- In `Gateway` reads (`add`, `read_file`, `git_status`, GET) are one kind, since
  they take the same path through the handler; `Operations` has each of them.
- The torn line of a failed append is continued by the next record
  (`audit.rs:73`). `AuditLog` has the case; no property speaks of it, because
  nothing in the gateway reads the log.
- External code is modelled by what the gateway relies on: Wasmtime checks epoch
  and fuel on entry and adds (the sum is a value of the model), reqwest connects only to the addresses it was given and
  follows no redirect, cap-std does not leave the directory, libgit2 lists
  flags, of ignored entries too, tokio cancels at awaits.
- A process that leaves the test's group (`setsid`): it outlives the group and may
  write to a capture file while that is read.
- Modes of files, environment and arguments of the test, TOML and JSON syntax,
  the branch shown by git status, entries of the workspace that are neither
  files, directories nor links.
- The exit of the runtime after `main` returns, and the blocked reader of standard
  input it may wait for when the service failed.
- Poisoned mutexes: a panic under a lock is not modelled.
- Functions that only tests call (`persist_audit` by path, `evaluate_policy`,
  `evaluate_request`, the sandbox's infinite loop).
- The MCP transport: `rmcp` serves it, and the repository only declares the tool.
  Serialisation of results.

## 6. Plan

What is left, most important first:

1. `ReviewRegistry`: what the gateway promises of one request (held, decided,
   executed once, accounted for) as an abstract specification, `Gateway` shown to
   implement it; the invariants it needs are `GatewayInv` and `ReviewInv`.
2. The composition of the refinements: `Gateway` over `StateFile` and `AuditLog`
   instead of over their specifications. `StateFileImplementsStore` and
   `AuditLogImplementsTrail` say that each may be put in; that both may be at once
   is an argument about their variables being disjoint.
3. For the liveness properties, the safety half as theorems: that the measure each
   rests on (steps left, time left) never grows.

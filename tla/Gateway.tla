------------------------------ MODULE Gateway -------------------------------
(***************************************************************************)
(* Requests, reviews and decisions of the gateway (src/src/main.rs).       *)
(*                                                                         *)
(* Agents call `execute` concurrently; one administrator connection at a   *)
(* time runs a command (run_admin_listener serves the next one only after  *)
(* the handler returned).  Both work on the review store and on the audit  *)
(* log, each behind a mutex that is held for one operation and never       *)
(* together with the other.  So a locked section is one action, and the    *)
(* actions of the handlers interleave between them, with the owner of the  *)
(* workspace, with crashes and with power losses.                          *)
(*                                                                         *)
(* Abstracted:                                                             *)
(*  - the workspace is one value of Contents: the bytes of the one target  *)
(*    of the write requests and the fingerprint of the tree for a cargo    *)
(*    test.  A captured state is that value;                               *)
(*  - git_status, read_file, add and http_get take the same path through   *)
(*    the handler (Allow or Block): they are the kind "read";              *)
(*  - the audit log is the set of its records.  It exists, with its        *)
(*    directory entry durable, before the first start modelled here: what  *)
(*    happens around its creation is AuditLog's subject.                   *)
(*  - a power loss does not undo the rename of a reviewed write;           *)
(*    EditWorkspace covers the file content it may leave.                  *)
(***************************************************************************)
EXTENDS PendingReviewStore, AuditTrail, Naturals

CONSTANTS
    Kind,           \* the operation each request asks for
    Payload,        \* the content a write request writes
    ValidPurpose,   \* requests whose purpose validate_message accepts
    NoId,           \* the handler works on no request
    NoCapture,      \* the body of an http_post review: nothing is captured
    Configs,        \* the configurations the operator may start with
    InitialContent, \* the workspace at the beginning
    EditContents,   \* what the owner of the workspace may turn it into
    AuditResults,   \* the results a run lets an audit write have
    Outages         \* the failures of process and machine a run allows

Contents == Bodies \ {NoCapture}
Kinds == {"write", "cargo", "post", "read"}
Decisions == {"allow", "review", "block"}

(* GatewayConfig::validate refuses `review` for reads and `allow` for the  *)
(* operations with an effect.                                              *)
ValidConfig(config) ==
    /\ config.policy \in [Kinds -> Decisions]
    /\ config.postHost \in BOOLEAN
    /\ config.policy["read"] # "review"
    /\ \A k \in Kinds \ {"read"} : config.policy[k] # "allow"

ASSUME IdAssumption == NoId \notin Ids
ASSUME KindAssumption == Kind \in [Ids -> Kinds]
ASSUME ContentAssumption ==
    /\ NoCapture \in Bodies
    /\ Payload \in [Ids -> Contents]
    /\ InitialContent \in Contents
    /\ EditContents \subseteq Contents
ASSUME ConfigAssumption == \A config \in Configs : ValidConfig(config)
ASSUME FaultAssumption ==
    /\ AuditResults \subseteq AllAuditResults
    /\ Outages \subseteq {"crash", "power"}

VARIABLES
    config,         \* config: Arc<GatewayConfig>, read once at the start
    ws,             \* the workspace
    agent,          \* where each request's `execute` call is
    status,         \* the answer it is heading for, or gave
    capture,        \* the state it captured for the review
    pc,             \* where the administrator's command handler is
    cmd,            \* the command
    cur,            \* its request id
    copy,           \* the handler's own copy of the review
    outcome         \* how the operation ended

(* What happened outside the program, read by properties only.             *)
VARIABLES
    attempts,       \* how often a request's operation was started
    ranOn,          \* the workspace its operation took effect on
    told            \* answers an administrator received

agentVars == <<agent, status, capture>>
adminVars == <<pc, cmd, cur, copy, outcome>>
effectVars == <<ws, attempts, ranOn>>
vars == <<storeVars, config, agentVars, adminVars, trailVars, effectVars, told>>

AgentStates ==
    {"new", "insert", "preAudit", "run", "completionAudit", "done", "lost"}
Statuses == {"none", "error", "held", "blocked", "executed", "failed"}
AdminStates ==
    {"idle", "revalidate", "claim", "approvalAudit", "preAudit", "execute",
     "completionAudit", "consume", "restore", "rejectionAudit",
     "reconciliationAudit"}
Commands == {"none", "approve", "reject", "ack"}
Answers == {"completed", "rejected", "acknowledged", "uncertain"}
Phases ==
    {"Approval", "Rejection", "PreExecution", "Completion", "Reconciliation"}
Outcomes == {"NotExecuted", "Success", "Failed", "Unknown"}

Record(id, phase, how) == [id |-> id, phase |-> phase, outcome |-> how]
Records == [id : Ids, phase : Phases, outcome : Outcomes]

Privileged(id) == Kind[id] # "read"

Init ==
    /\ StoreInit
    /\ config \in Configs
    /\ ws = InitialContent
    /\ TrailInit
    /\ agent = [id \in Ids |-> "new"]
    /\ status = [id \in Ids |-> "none"]
    /\ capture = [id \in Ids |-> NoCapture]
    /\ pc = "idle"
    /\ cmd = "none"
    /\ cur = NoId
    /\ copy = NoCapture
    /\ outcome = "NotExecuted"
    /\ attempts = [id \in Ids |-> 0]
    /\ ranOn = [id \in Ids |-> NoCapture]
    /\ told = {}

-----------------------------------------------------------------------------
(* validate_http_destination: the host is in `allowed_hosts`.              *)
HostAllowed == config.postHost

(* evaluate_operation_with_config; a POST to another host is out of scope. *)
Decision(id) ==
    IF Kind[id] = "post" /\ ~ HostAllowed
    THEN "block"
    ELSE config.policy[Kind[id]]

(* evaluate_request_with_config: a path that does not resolve in the       *)
(* workspace at this moment is out of scope too.                           *)
Evaluations(id) ==
    {Decision(id)} \cup (IF Kind[id] \in {"write", "read"} THEN {"block"} ELSE {})

(* capture_write_target_state and compute_workspace_fingerprint.           *)
Captured(id) == IF Kind[id] \in {"write", "cargo"} THEN ws ELSE NoCapture

-----------------------------------------------------------------------------
(* An agent's call: execute_request_with_http_runner, then                 *)
(* execute_message_with_audit_id.                                          *)

Become(id, state, answer) ==
    /\ agent' = [agent EXCEPT ![id] = state]
    /\ status' = [status EXCEPT ![id] = answer]

Calls(id) == open /\ agent[id] = "new"

(* build_execution_request or the capture of the state fails.              *)
RefuseRequest(id) ==
    /\ Calls(id)
    /\ Become(id, "done", "error")
    /\ UNCHANGED <<storeVars, config, capture, adminVars, trailVars,
                   effectVars, told>>

(* A request for review captures its state and has yet to be inserted; the *)
(* purpose of any other is validated before it has any effect.             *)
EvaluateRequest(id) ==
    /\ Calls(id)
    /\ \E decision \in Evaluations(id) :
        \/ /\ decision = "review"
           /\ Become(id, "insert", "none")
           /\ capture' = [capture EXCEPT ![id] = Captured(id)]
        \/ /\ decision # "review" /\ id \notin ValidPurpose
           /\ Become(id, "done", "error")
           /\ UNCHANGED capture
        \/ /\ decision = "allow" /\ id \in ValidPurpose
           /\ Become(id, "preAudit", "none")
           /\ UNCHANGED capture
        \/ /\ decision = "block" /\ id \in ValidPurpose
           /\ Become(id, "completionAudit", "blocked")
           /\ UNCHANGED capture
    /\ UNCHANGED <<storeVars, config, adminVars, trailVars, effectVars, told>>

(* Mutant: a review whose insertion is uncertain is answered as held.      *)
InsertReviewUncertain(id, result) ==
    /\ agent[id] = "insert"
    /\ Insert(id, capture[id], result)
    /\ IF result # "beforeCommit" /\ id \in ValidPurpose
       THEN Become(id, "completionAudit", "held")
       ELSE Become(id, "done", "error")
    /\ UNCHANGED <<config, capture, adminVars, trailVars, effectVars, told>>

(* Mutant: a failed insertion is tried again under the same id.            *)
InsertReviewRetried(id, result) ==
    /\ agent[id] = "insert"
    /\ Insert(id, capture[id], result)
    /\ IF result = "ok"
       THEN Become(id, "completionAudit", "held")
       ELSE UNCHANGED <<agent, status>>
    /\ UNCHANGED <<config, capture, adminVars, trailVars, effectVars, told>>

(* store.insert(pending)?; validate_message(purpose)?                      *)
InsertReview(id, result) ==
    /\ agent[id] = "insert"
    /\ Insert(id, capture[id], result)
    /\ IF result = "ok" /\ id \in ValidPurpose
       THEN Become(id, "completionAudit", "held")
       ELSE Become(id, "done", "error")
    /\ UNCHANGED <<config, capture, adminVars, trailVars, effectVars, told>>

(* An allowed operation runs only when its record could be written.        *)
PreExecutionAudit(id, result) ==
    /\ agent[id] = "preAudit"
    /\ Audit(Record(id, "PreExecution", "NotExecuted"), result)
    /\ IF result = "ok"
       THEN Become(id, "run", "none")
       ELSE Become(id, "done", "error")
    /\ UNCHANGED <<storeVars, config, capture, adminVars, effectVars, told>>

RunAllowed(id, answer) ==
    /\ agent[id] = "run"
    /\ Become(id, "completionAudit", answer)
    /\ attempts' = [attempts EXCEPT ![id] = @ + 1]
    /\ UNCHANGED <<storeVars, config, capture, adminVars, trailVars, ws,
                   ranOn, told>>

(* Mutant: the record carries the answer instead of the outcome.           *)
ReportedOutcomeAsAnswer(answer) == answer

ReportedOutcome(answer) ==
    CASE answer = "executed" -> "Success"
      [] answer = "failed"   -> "Failed"
      [] OTHER               -> "NotExecuted"

(* The answer is given whether or not the completion record was written.   *)
FinishRequest(id, result) ==
    /\ agent[id] = "completionAudit"
    /\ Audit(Record(id, "Completion", ReportedOutcome(status[id])), result)
    /\ agent' = [agent EXCEPT ![id] = "done"]
    /\ UNCHANGED <<storeVars, config, status, capture, adminVars, effectVars,
                   told>>

AgentCall(id) == RefuseRequest(id) \/ EvaluateRequest(id)

AgentHandler(id) ==
    \/ \E result \in PersistResults : InsertReview(id, result)
    \/ \E result \in AuditResults :
        PreExecutionAudit(id, result) \/ FinishRequest(id, result)
    \/ \E answer \in {"executed", "failed"} : RunAllowed(id, answer)

-----------------------------------------------------------------------------
(* An administrator's command: handle_admin_command_with_http_runner.      *)

Idle == open /\ pc = "idle"

Work(command, id, body, state) ==
    /\ cmd' = command
    /\ cur' = id
    /\ copy' = body
    /\ pc' = state
    /\ outcome' = "NotExecuted"

Continue(state) ==
    /\ pc' = state
    /\ UNCHANGED <<cmd, cur, copy, outcome>>

Rest == Work("none", NoId, NoCapture, "idle")

(* The two ways a handler returns.                                         *)
AnswerError == Rest /\ UNCHANGED told
AnswerOk(answer) == Rest /\ told' = told \cup {<<cur, answer>>}

(* A malformed command, or one whose request is not in the state the       *)
(* command needs, is answered with an error and changes nothing.           *)
RefuseCommand == Idle /\ UNCHANGED vars

(* inspect_pending_request: the handler works on its own copy.             *)
Approve(id) ==
    /\ Idle
    /\ Has(reviews, id)
    /\ Work("approve", id, reviews[id], "revalidate")
    /\ UNCHANGED <<storeVars, config, agentVars, trailVars, effectVars, told>>

(* revalidate_pending_request_with_config compares the target or the       *)
(* workspace with the captured state, and a POST with the allowed hosts.   *)
(* The policy itself is not looked at again.                               *)
(* Mutant: only what was captured is compared.                             *)
AsReviewedWithoutHost ==
    \/ Kind[cur] \in {"write", "cargo"} /\ ws = copy
    \/ Kind[cur] = "post"

AsReviewed ==
    \/ Kind[cur] \in {"write", "cargo"} /\ ws = copy
    \/ Kind[cur] = "post" /\ HostAllowed

Revalidate ==
    /\ pc = "revalidate"
    /\ \/ AsReviewed /\ Continue("claim")
       \/ Rest          \* it differs, or could not be verified
    /\ UNCHANGED <<storeVars, config, agentVars, trailVars, effectVars, told>>

(* Mutant: the handler goes on after a claim whose durability is uncertain. *)
ClaimApprovedUncertain(result) ==
    /\ pc = "claim"
    /\ Claim(cur, result)
    /\ IF result # "beforeCommit"
       THEN Work(cmd, cur, reviews[cur], "approvalAudit")
       ELSE Rest
    /\ UNCHANGED <<config, agentVars, trailVars, effectVars, told>>

ClaimApproved(result) ==
    /\ pc = "claim"
    /\ Claim(cur, result)
    /\ IF result = "ok"
       THEN Work(cmd, cur, reviews[cur], "approvalAudit")
       ELSE Rest
    /\ UNCHANGED <<config, agentVars, trailVars, effectVars, told>>

(* reject_pending_request: a rejection claims the review too.              *)
Reject(id, result) ==
    /\ Idle
    /\ Claim(id, result)
    /\ IF result = "ok"
       THEN Work("reject", id, reviews[id], "rejectionAudit")
       ELSE Rest
    /\ UNCHANGED <<config, agentVars, trailVars, effectVars, told>>

(* get_claimed of an acknowledgement.                                      *)
Acknowledge(id) ==
    /\ Idle
    /\ Has(claimed, id)
    /\ Work("ack", id, claimed[id], "reconciliationAudit")
    /\ UNCHANGED <<storeVars, config, agentVars, trailVars, effectVars, told>>

(* Mutant: a record whose sync failed is good enough.                      *)
AuditClaimedUnsynced(state, phase, next, result) ==
    /\ pc = state
    /\ Audit(Record(cur, phase, "NotExecuted"), result)
    /\ Continue(IF result # "lost" THEN next ELSE "restore")
    /\ UNCHANGED <<storeVars, config, agentVars, effectVars, told>>

(* One audit record of the handler: on failure the claim is given back.    *)
AuditClaimed(state, phase, next, result) ==
    /\ pc = state
    /\ Audit(Record(cur, phase, "NotExecuted"), result)
    /\ Continue(IF result = "ok" THEN next ELSE "restore")
    /\ UNCHANGED <<storeVars, config, agentVars, effectVars, told>>

(* audit_claimed_approval; execute_reviewed_action; audit_claimed_rejection *)
ApprovalAudit(result) ==
    AuditClaimed("approvalAudit", "Approval", "preAudit", result)
ReviewedPreExecutionAudit(result) ==
    AuditClaimed("preAudit", "PreExecution", "execute", result)
RejectionAudit(result) ==
    AuditClaimed("rejectionAudit", "Rejection", "consume", result)

(* A failed reconciliation record leaves the review claimed.               *)
ReconciliationAudit(result) ==
    /\ pc = "reconciliationAudit"
    /\ Audit(Record(cur, "Reconciliation", "Unknown"), result)
    /\ IF result = "ok" THEN Continue("consume") ELSE Rest
    /\ UNCHANGED <<storeVars, config, agentVars, effectVars, told>>

(* Mutant: a rejection is confirmed although its audit failed.             *)
RestoreReviewConfirmed(result) ==
    /\ pc = "restore"
    /\ Restore(cur, copy, result)
    /\ IF cmd = "reject" THEN AnswerOk("rejected") ELSE AnswerError
    /\ UNCHANGED <<config, agentVars, trailVars, effectVars>>

(* Mutant: an approval whose audit failed starts again at its claim.       *)
RestoreReviewRetried(result) ==
    /\ pc = "restore"
    /\ Restore(cur, copy, result)
    /\ IF cmd = "approve" THEN Continue("claim") ELSE Rest
    /\ UNCHANGED <<config, agentVars, trailVars, effectVars, told>>

RestoreReview(result) ==
    /\ pc = "restore"
    /\ Restore(cur, copy, result)
    /\ AnswerError
    /\ UNCHANGED <<config, agentVars, trailVars, effectVars>>

(* write_text_file looks at the type of its target, not at its content.    *)
WriteEffect(how) ==
    /\ Kind[cur] = "write" /\ how = "Success"
    /\ ws' = Payload[cur]
    /\ ranOn' = [ranOn EXCEPT ![cur] = ws]

(* Mutant: the test runs in whatever the workspace has become.             *)
CargoEffectUnchecked ==
    /\ Kind[cur] = "cargo"
    /\ ranOn' = [ranOn EXCEPT ![cur] = ws]
    /\ UNCHANGED ws

(* The test runs on a snapshot taken now, whose fingerprint is compared    *)
(* with the reviewed one.                                                  *)
CargoEffect ==
    /\ Kind[cur] = "cargo" /\ ws = copy
    /\ ranOn' = [ranOn EXCEPT ![cur] = ws]
    /\ UNCHANGED ws

(* A POST validates its destination once more.                             *)
PostEffect ==
    /\ Kind[cur] = "post" /\ HostAllowed
    /\ UNCHANGED <<ws, ranOn>>

(* The operation itself; it may fail without an effect.                    *)
Effect(how) ==
    \/ WriteEffect(how)
    \/ CargoEffect
    \/ PostEffect
    \/ how = "Failed" /\ UNCHANGED <<ws, ranOn>>

(* Mutant: the review is consumed without a completion record.             *)
ExecuteUnrecorded(how) ==
    /\ pc = "execute"
    /\ Effect(how)
    /\ attempts' = [attempts EXCEPT ![cur] = @ + 1]
    /\ pc' = "consume"
    /\ outcome' = how
    /\ UNCHANGED <<cmd, cur, copy>>
    /\ UNCHANGED <<storeVars, config, agentVars, trailVars, told>>

Execute(how) ==
    /\ pc = "execute"
    /\ Effect(how)
    /\ attempts' = [attempts EXCEPT ![cur] = @ + 1]
    /\ pc' = "completionAudit"
    /\ outcome' = how
    /\ UNCHANGED <<cmd, cur, copy>>
    /\ UNCHANGED <<storeVars, config, agentVars, trailVars, told>>

(* The operation is over: a failed completion record is only reported.     *)
CompletionAudit(result) ==
    /\ pc = "completionAudit"
    /\ Audit(Record(cur, "Completion", outcome), result)
    /\ Continue("consume")
    /\ UNCHANGED <<storeVars, config, agentVars, effectVars, told>>

(* Mutant: an uncertain acknowledgement is confirmed like a certain one.   *)
ConsumeReviewConfirmed(result) ==
    /\ pc = "consume"
    /\ Consume(cur, result)
    /\ \/ cmd = "approve" /\ result = "ok" /\ AnswerOk("completed")
       \/ cmd = "reject" /\ result = "ok" /\ AnswerOk("rejected")
       \/ cmd = "ack" /\ result # "beforeCommit" /\ AnswerOk("acknowledged")
       \/ cmd # "ack" /\ result = "afterCommit" /\ AnswerError
       \/ result = "beforeCommit" /\ AnswerError
    /\ UNCHANGED <<config, agentVars, trailVars, effectVars>>

(* Only an acknowledgement has an answer of its own for a consumption      *)
(* whose durability is uncertain; the other commands answer an error.      *)
ConsumeReview(result) ==
    /\ pc = "consume"
    /\ Consume(cur, result)
    /\ \/ cmd = "approve" /\ result = "ok" /\ AnswerOk("completed")
       \/ cmd = "reject" /\ result = "ok" /\ AnswerOk("rejected")
       \/ cmd = "ack" /\ result = "ok" /\ AnswerOk("acknowledged")
       \/ cmd = "ack" /\ result = "afterCommit" /\ AnswerOk("uncertain")
       \/ cmd # "ack" /\ result = "afterCommit" /\ AnswerError
       \/ result = "beforeCommit" /\ AnswerError
    /\ UNCHANGED <<config, agentVars, trailVars, effectVars>>

AdminCommand ==
    \/ RefuseCommand
    \/ \E id \in Ids :
        \/ Approve(id)
        \/ Acknowledge(id)
        \/ \E result \in PersistResults : Reject(id, result)

AdminHandler ==
    \/ Revalidate
    \/ \E result \in PersistResults :
        \/ ClaimApproved(result)
        \/ RestoreReview(result)
        \/ ConsumeReview(result)
    \/ \E result \in AuditResults :
        \/ ApprovalAudit(result)
        \/ ReviewedPreExecutionAudit(result)
        \/ RejectionAudit(result)
        \/ ReconciliationAudit(result)
        \/ CompletionAudit(result)
    \/ \E how \in {"Success", "Failed"} : Execute(how)

-----------------------------------------------------------------------------
(* The workspace belongs to others as well.                                *)
EditWorkspace(content) ==
    /\ ws # content
    /\ ws' = content
    /\ UNCHANGED <<storeVars, config, agentVars, adminVars, trailVars,
                   attempts, ranOn, told>>

(* Handlers in flight end without an answer.                               *)
HandlersEnd ==
    /\ agent' = [id \in Ids |->
                   IF agent[id] \in {"new", "done"} THEN agent[id] ELSE "lost"]
    /\ Rest
    /\ UNCHANGED <<config, status, capture, effectVars, told>>

Crash ==
    /\ "crash" \in Outages
    /\ ProcessCrash
    /\ HandlersEnd
    /\ UNCHANGED trailVars

PowerFails ==
    /\ "power" \in Outages
    /\ PowerLoss
    /\ HandlersEnd
    /\ TrailPowerLoss

(* main: the configuration is read again; claimed reviews are only warned  *)
(* about.                                                                  *)
Start(newConfig) ==
    /\ Load
    /\ config' = newConfig
    /\ UNCHANGED <<agentVars, adminVars, trailVars, effectVars, told>>

Next ==
    \/ \E id \in Ids : AgentCall(id) \/ AgentHandler(id)
    \/ AdminCommand
    \/ AdminHandler
    \/ \E content \in EditContents : EditWorkspace(content)
    \/ Crash
    \/ PowerFails
    \/ \E newConfig \in Configs : Start(newConfig)

Spec == Init /\ [][Next]_vars

(* The handlers are synchronous code that waits for nothing but the two    *)
(* mutexes, each held for one operation, and for the operation itself,     *)
(* which ends as OperationEnds of Operations says: a server that keeps     *)
(* sending a body, and a test nobody could stop, are taken to end some     *)
(* time.  Nobody is obliged to call, to edit, to crash or to restart.      *)
FairSpec ==
    /\ Spec
    /\ WF_vars(AdminHandler)
    /\ \A id \in Ids : WF_vars(AgentHandler(id))

-----------------------------------------------------------------------------
GatewayTypeOK ==
    /\ config \in Configs
    /\ ws \in Contents
    /\ log \subseteq Records
    /\ synced \subseteq Records
    /\ agent \in [Ids -> AgentStates]
    /\ status \in [Ids -> Statuses]
    /\ capture \in [Ids -> Bodies]
    /\ pc \in AdminStates
    /\ cmd \in Commands
    /\ cur \in Ids \cup {NoId}
    /\ copy \in Bodies
    /\ outcome \in Outcomes
    /\ attempts \in [Ids -> Nat]
    /\ ranOn \in [Ids -> Bodies]
    /\ told \subseteq Ids \X Answers

(* No request's operation is started twice: not by a second approval, not  *)
(* after a restart, not when the state file falls back to an older content *)
(* (README.md "Restart-Safe Claimed Requests").                            *)
EffectAtMostOnce == \A id \in Ids : attempts[id] <= 1

(* Whatever has been started has its pre-execution record, and a reviewed  *)
(* operation its approval record, in the part of the log that no power     *)
(* loss can remove (README.md "Audit-Before-Execution").                   *)
AuditedBeforeEffect ==
    \A id \in Ids : attempts[id] > 0 =>
        /\ Record(id, "PreExecution", "NotExecuted") \in synced
        /\ Privileged(id) => Record(id, "Approval", "NotExecuted") \in synced

(* A request whose rejection was answered with OK is not executed: not     *)
(* before the answer, not later, whatever crashes in between.              *)
RejectedIsNotExecuted ==
    \A id \in Ids : <<id, "rejected">> \in told => attempts[id] = 0

(* "It does not replay the original operation" (README.md, ACK_CLAIMED):   *)
(* once an acknowledgement was answered with OK, and not with durability   *)
(* uncertain, the operation is not started any more.                       *)
AcknowledgedIsFinal ==
    [][\A id \in Ids : <<id, "acknowledged">> \in told =>
           attempts'[id] = attempts[id]]_vars

(* A request an agent was told is held for review is found after any       *)
(* crash or power loss: in the store, or decided with a durable record of  *)
(* the decision.  It never disappears silently.                            *)
DecisionRecords(id) ==
    {Record(id, "Rejection", "NotExecuted"),
     Record(id, "PreExecution", "NotExecuted"),
     Record(id, "Reconciliation", "Unknown")}

HeldIsAccountedFor ==
    \A id \in Ids : agent[id] = "done" /\ status[id] = "held" =>
        \/ \A content \in survivors :
              Has(content.pending, id) \/ Has(content.claimed, id)
        \/ DecisionRecords(id) \cap synced # {}

(* A reviewed operation that was started is still claimed, for the         *)
(* operator to reconcile, until a durable record says how it ended.  This  *)
(* holds while audit writes succeed: a completion record that cannot be    *)
(* written is only reported (main.rs:985).                                 *)
EffectLeavesATrace ==
    \A id \in Ids : attempts[id] > 0 /\ Privileged(id) =>
        \/ \A content \in survivors : Has(content.claimed, id)
        \/ \E record \in synced :
              /\ record.id = id
              /\ record.phase \in {"Completion", "Reconciliation"}
              /\ record.outcome # "NotExecuted"

(* A cargo test runs on the tree that was reviewed, whatever happened to   *)
(* the workspace since.                                                    *)
CargoRunsOnReviewedTree ==
    \A id \in Ids : Kind[id] = "cargo" /\ ranOn[id] # NoCapture =>
        ranOn[id] = capture[id]

(* A reviewed POST is started only while the configuration in force allows *)
(* its host, also when it was reviewed under another configuration before  *)
(* a restart.                                                              *)
PostOnlyToAllowedHost ==
    [][\A id \in Ids :
           /\ Kind[id] = "post"
           /\ attempts'[id] > attempts[id]
           => HostAllowed]_vars

(* Every command and every call that got into its handler is answered, or  *)
(* ends with the process.                                                  *)
CommandIsAnswered == pc # "idle" ~> pc = "idle"
CallIsAnswered ==
    \A id \in Ids :
        agent[id] \in AgentStates \ {"new", "done", "lost"}
            ~> agent[id] \in {"done", "lost"}

-----------------------------------------------------------------------------
(* What the documents say of the program, and the code does not keep.      *)

(* "Block: Operation must not execute" (README.md:67).  An approval after  *)
(* a restart does not look at the policy of the configuration in force.    *)
BlockedIsNotExecuted ==
    [][\A id \in Ids : attempts'[id] > attempts[id] =>
           Decision(id) # "block"]_vars

(* "Execution is rejected if the target was modified after review"         *)
(* (docs/security-architecture.md:406).  It is, up to the revalidation.    *)
WriteReplacesReviewedState ==
    \A id \in Ids : Kind[id] = "write" /\ ranOn[id] # NoCapture =>
        ranOn[id] = capture[id]

(* "5. security validation, 6. execution or human-review routing"          *)
(* (docs/threat-model.md:126).  A request for review is routed first.      *)
InvalidIsNotExecuted ==
    \A id \in Ids \ ValidPurpose : attempts[id] = 0
=============================================================================

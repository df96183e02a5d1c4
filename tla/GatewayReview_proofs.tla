------------------------ MODULE GatewayReview_proofs ------------------------
(***************************************************************************)
(* Proofs about what becomes of one review in Gateway: on what it takes    *)
(* effect, where a POST may go, what an answer means, and that nothing     *)
(* disappears silently.                                                    *)
(*                                                                         *)
(* GatewayInv (Gateway_proofs) is about who owns a request.  The facts     *)
(* here are about the contents the state file may come back with, and      *)
(* about what the handler's own copy, its place and the audit log say of   *)
(* the review it works on.                                                 *)
(***************************************************************************)
EXTENDS Gateway_proofs

Named(content, id) == Has(content.pending, id) \/ Has(content.claimed, id)

(* A content lists each review with the state that was captured for it.    *)
AsCaptured(content) ==
    \A id \in Ids :
        /\ Has(content.pending, id) => content.pending[id] = capture[id]
        /\ Has(content.claimed, id) => content.claimed[id] = capture[id]

Decided(id) == DecisionRecords(id) \cap synced # {}

(* The handler has revalidated its request and has not started it.         *)
Revalidated == {"claim", "approvalAudit", "preAudit", "execute"}

(* What is stored, copied and run on is what was captured.                 *)
CaptureInv ==
    /\ \A content \in survivors : AsCaptured(content)
    /\ pc # "idle" => open /\ cur \in issued /\ copy = capture[cur]
    /\ \A id \in Ids : ranOn[id] # NoCapture => id \in issued
    /\ CargoRunsOnReviewedTree

HostInv == pc \in Revalidated /\ Kind[cur] = "post" => HostAllowed

(* An acknowledged review is nowhere any more.                             *)
SettledInv ==
    \A id \in Ids : <<id, "acknowledged">> \in told =>
        /\ id \in issued
        /\ \A content \in survivors : ~ Named(content, id)
        /\ pc # "idle" => cur # id

(* What is held was accepted, and what is consumed was decided.            *)
DecisionInv ==
    /\ pc = "completionAudit" => PreExecuted(cur)
    /\ pc = "consume" => Decided(cur)
    /\ \A id \in released : Decided(id)
    /\ \A id \in Ids : status[id] = "held" => id \in accepted

ReviewInv == CaptureInv /\ HostInv /\ SettledInv /\ DecisionInv

Traced(id) ==
    \E record \in synced :
        /\ record.id = id
        /\ record.phase \in {"Completion", "Reconciliation"}
        /\ record.outcome # "NotExecuted"

(* While audit writes succeed: a started operation is claimed or traced.   *)
TraceInv ==
    /\ pc \in Holding => \A content \in survivors : Has(content.claimed, cur)
    /\ pc = "rejectionAudit" => cmd = "reject"
    /\ pc = "completionAudit" => outcome \in {"Success", "Failed"}
    /\ pc = "consume" /\ cmd # "reject" => Traced(cur)
    /\ \A id \in Ids : attempts[id] > 0 /\ Privileged(id) =>
          Traced(id) \/ \A content \in survivors : Has(content.claimed, id)
-----------------------------------------------------------------------------
(* While a process runs, its maps are a sound surviving content.           *)
LEMMA MemorySurvives ==
    ASSUME StoreInv, open
    PROVE  /\ disk \in survivors /\ Sound(disk)
           /\ disk.pending = reviews /\ disk.claimed = claimed
  BY SerializedIsContent DEF StoreInv, TypeOK, MemoryMatchesDisk

(* An operation on one review keeps all contents as captured, if it writes *)
(* that one as captured.                                                   *)
LEMMA RewriteAsCaptured ==
    ASSUME StoreInv, NEW id \in Ids, NEW new, Rewrites(new, id),
           UNCHANGED capture,
           \A content \in survivors : AsCaptured(content),
           new.pending[id] \in {NoBody, capture[id]},
           new.claimed[id] \in {NoBody, capture[id]}
    PROVE  \A content \in survivors' : AsCaptured(content)'
  <1>1. disk \in survivors /\ AsCaptured(disk)
    BY DEF StoreInv
  <1>2. AsCaptured(new)
    BY <1>1 DEF AsCaptured, Rewrites, Has
  <1>3. QED
    BY <1>2 DEF AsCaptured, Rewrites

(* A stored review carries what was captured.                              *)
LEMMA StoredAsCaptured ==
    ASSUME StoreInv, CaptureInv, NEW id \in Ids
    PROVE  /\ Has(disk.pending, id) => disk.pending[id] = capture[id] /\ id \in issued
           /\ Has(disk.claimed, id) => disk.claimed[id] = capture[id] /\ id \in issued
  BY DEF StoreInv, Sound, CaptureInv, AsCaptured

(* A step that reaches neither the contents nor the handler nor an effect. *)
LEMMA CaptureUndisturbed ==
    ASSUME CaptureInv,
           UNCHANGED <<survivors, capture, open, issued, pc, cur, copy, ranOn>>
    PROVE  CaptureInv'
  BY DEF CaptureInv, AsCaptured, CargoRunsOnReviewedTree

LEMMA AgentKeepsCapture ==
    ASSUME GatewayInv, CaptureInv, NEW id \in Ids,
           AgentCall(id) \/ AgentHandler(id)
    PROVE  CaptureInv'
  <1>1. CASE RefuseRequest(id)
    BY <1>1, CaptureUndisturbed DEF RefuseRequest, storeVars, callVars, adminVars,
       effectVars
  <1>2. CASE EvaluateRequest(id)
    <2>1. /\ UNCHANGED <<survivors, open, issued, pc, cur, copy, ranOn>>
          /\ id \notin issued
      BY <1>2 DEF EvaluateRequest, Calls, GatewayInv, AgentInv, Early, storeVars,
         callVars, adminVars, effectVars
    <2>2. \A other \in issued : capture'[other] = capture[other]
      BY <1>2, <2>1 DEF EvaluateRequest, GatewayInv, GatewayTypeOK, StoreInv, TypeOK
    <2>3. \A content \in survivors : AsCaptured(content)'
      <3>1. \A content \in survivors, other \in Ids :
              Has(content.pending, other) \/ Has(content.claimed, other)
                  => other \in issued
        BY DEF GatewayInv, StoreInv, Sound
      <3>2. QED
        BY <2>2, <3>1 DEF CaptureInv, AsCaptured
    <2>4. QED
      BY <2>1, <2>2, <2>3 DEF CaptureInv, CargoRunsOnReviewedTree
  <1>3. ASSUME NEW result \in PersistResults, InsertReview(id, result)
        PROVE  CaptureInv'
    <2>1. /\ Insert(id, capture[id], result) /\ capture[id] \in Bodies
          /\ UNCHANGED <<capture, open, pc, cur, copy, ranOn>>
          /\ issued' = issued \cup {id}
          /\ ~ Has(disk.claimed, id)
      <3>1. id \notin issued /\ Insert(id, capture[id], result)
        BY <1>3 DEF InsertReview, GatewayInv, AgentInv, Early
      <3>2. ~ Has(disk.claimed, id)
        BY <3>1 DEF GatewayInv, StoreInv, Sound
      <3>3. QED
        BY <1>3, <3>1, <3>2 DEF InsertReview, Insert, GatewayInv, GatewayTypeOK,
           adminVars, effectVars
    <2>2. \A content \in survivors' : AsCaptured(content)'
      BY <2>1, InsertContent, RewriteAsCaptured DEF GatewayInv, CaptureInv, Has
    <2>3. QED
      BY <2>1, <2>2 DEF CaptureInv, CargoRunsOnReviewedTree
  <1>4. ASSUME NEW result, PreExecutionAudit(id, result) \/ FinishRequest(id, result)
        PROVE  CaptureInv'
    BY <1>4, CaptureUndisturbed DEF PreExecutionAudit, FinishRequest, storeVars,
       callVars, adminVars, effectVars
  <1>5. ASSUME NEW answer, RunAllowed(id, answer)
        PROVE  CaptureInv'
    BY <1>5, CaptureUndisturbed DEF RunAllowed, storeVars, callVars, adminVars
  <1>6. QED
    BY <1>1, <1>2, <1>3, <1>4, <1>5 DEF AgentCall, AgentHandler

(* An idle handler has no copy.                                            *)
LEMMA CaptureRests ==
    ASSUME CaptureInv, Rest, UNCHANGED <<issued, capture, ranOn>>,
           \A content \in survivors' : AsCaptured(content)'
    PROVE  CaptureInv'
  BY DEF Rest, Work, CaptureInv, CargoRunsOnReviewedTree

(* A claim, whoever asks for it, is of a review as it was captured.        *)
LEMMA ClaimKeepsCapture ==
    ASSUME GatewayInv, CaptureInv, NEW id \in Ids, NEW result,
           NEW command, NEW state,
           Claim(id, result), UNCHANGED <<capture, ranOn>>,
           Rest \/ Work(command, id, reviews[id], state)
    PROVE  CaptureInv'
  <1>1. /\ open' /\ UNCHANGED issued
        /\ reviews[id] = capture[id] /\ id \in issued
        /\ disk.pending[id] = capture[id]
    BY ClaimContent, MemorySurvives, StoredAsCaptured DEF GatewayInv, Claim
  <1>2. \A content \in survivors' : AsCaptured(content)'
    BY <1>1, ClaimContent, RewriteAsCaptured DEF GatewayInv, CaptureInv
  <1>3. CASE Rest
    BY <1>1, <1>2, <1>3, CaptureRests
  <1>4. CASE Work(command, id, reviews[id], state)
    BY <1>1, <1>2, <1>4 DEF Work, CaptureInv, CargoRunsOnReviewedTree
  <1>5. QED
    BY <1>3, <1>4

LEMMA CommandKeepsCapture ==
    ASSUME GatewayInv, CaptureInv, AdminCommand
    PROVE  CaptureInv'
  <1>1. CASE RefuseCommand
    BY <1>1, CaptureUndisturbed DEF RefuseCommand, vars, storeVars, callVars,
       agentVars, adminVars, effectVars
  <1>2. ASSUME NEW id \in Ids, Approve(id) \/ Acknowledge(id)
        PROVE  CaptureInv'
    <2>1. /\ UNCHANGED <<survivors, capture, open, issued, ranOn>>
          /\ open /\ cur' = id
          /\ \/ Has(reviews, id) /\ copy' = reviews[id]
             \/ Has(claimed, id) /\ copy' = claimed[id]
      BY <1>2 DEF Approve, Acknowledge, Idle, Work, storeVars, callVars, agentVars,
         effectVars
    <2>2. copy' = capture[id] /\ id \in issued
      BY <2>1, MemorySurvives, StoredAsCaptured DEF GatewayInv
    <2>3. QED
      BY <2>1, <2>2 DEF CaptureInv, AsCaptured, CargoRunsOnReviewedTree
  <1>3. ASSUME NEW id \in Ids, NEW result, Reject(id, result)
        PROVE  CaptureInv'
    <2>1. /\ Claim(id, result)
          /\ UNCHANGED <<capture, ranOn>>
          /\ Rest \/ Work("reject", id, reviews[id], "rejectionAudit")
      BY <1>3 DEF Reject, agentVars, effectVars
    <2>2. QED
      BY <2>1, ClaimKeepsCapture
  <1>4. QED
    BY <1>1, <1>2, <1>3 DEF AdminCommand

LEMMA HandlerKeepsCapture ==
    ASSUME GatewayInv, CaptureInv, AdminHandler
    PROVE  CaptureInv'
  <1> USE DEF GatewayInv
  <1>1. CASE Revalidate
    <2>1. UNCHANGED <<survivors, capture, open, issued, ranOn>>
      BY <1>1 DEF Revalidate, storeVars, callVars, agentVars, effectVars
    <2>2. \A content \in survivors' : AsCaptured(content)'
      BY <2>1 DEF CaptureInv, AsCaptured
    <2>3. CASE Rest
      BY <2>1, <2>2, <2>3, CaptureRests
    <2>4. CASE Continue("claim")
      BY <1>1, <2>1, <2>2, <2>4
         DEF Revalidate, Continue, CaptureInv, CargoRunsOnReviewedTree
    <2>5. QED
      BY <1>1, <2>3, <2>4 DEF Revalidate
  <1>2. ASSUME NEW result, ClaimApproved(result)
        PROVE  CaptureInv'
    <2>1. /\ Claim(cur, result) /\ cur \in Ids
          /\ UNCHANGED <<capture, ranOn>>
          /\ Rest \/ Work(cmd, cur, reviews[cur], "approvalAudit")
      BY <1>2 DEF ClaimApproved, HandlerInv, agentVars, effectVars
    <2>2. QED
      BY <2>1, ClaimKeepsCapture
  <1>3. ASSUME NEW result,
               RestoreReview(result) \/ ConsumeReview(result)
        PROVE  CaptureInv'
    <2>1. /\ cur \in Ids /\ pc # "idle" /\ copy = capture[cur] /\ Rest
          /\ UNCHANGED <<capture, issued, ranOn>>
          /\ Restore(cur, copy, result) \/ Consume(cur, result)
      BY <1>3 DEF RestoreReview, ConsumeReview, Restore, Consume, AnswerError,
         AnswerOk, HandlerInv, CaptureInv, agentVars, effectVars
    <2>2. \A content \in survivors' : AsCaptured(content)'
      BY <2>1, RestoreContent, ConsumeContent, RewriteAsCaptured DEF CaptureInv
    <2>3. QED
      BY <2>1, <2>2, CaptureRests
  <1>4. ASSUME NEW result,
               \/ ApprovalAudit(result)
               \/ ReviewedPreExecutionAudit(result)
               \/ RejectionAudit(result)
               \/ ReconciliationAudit(result)
               \/ CompletionAudit(result)
        PROVE  CaptureInv'
    <2>1. /\ UNCHANGED <<survivors, capture, open, issued, ranOn>>
          /\ Rest \/ (pc # "idle" /\ UNCHANGED <<cur, copy>>)
      BY <1>4 DEF ApprovalAudit, ReviewedPreExecutionAudit, RejectionAudit,
         AuditClaimed, ReconciliationAudit, CompletionAudit, Continue, storeVars,
         callVars, agentVars, effectVars
    <2>2. \A content \in survivors' : AsCaptured(content)'
      BY <2>1 DEF CaptureInv, AsCaptured
    <2>3. QED
      BY <2>1, <2>2, CaptureRests DEF CaptureInv, CargoRunsOnReviewedTree
  <1>5. ASSUME NEW how, Execute(how)
        PROVE  CaptureInv'
    <2>1. /\ pc = "execute" /\ cur \in Ids /\ cur \in issued
          /\ copy = capture[cur]
          /\ UNCHANGED <<survivors, capture, open, issued, cur, copy>>
      BY <1>5 DEF Execute, HandlerInv, CaptureInv, storeVars, callVars, agentVars
    <2>2. /\ \A id \in Ids \ {cur} : ranOn'[id] = ranOn[id]
          /\ Kind[cur] = "cargo" => ranOn'[cur] \in {ranOn[cur], copy}
      BY <1>5, <2>1 DEF Execute, Effect, WriteEffect, CargoEffect, PostEffect,
         GatewayTypeOK
    <2>3. CargoRunsOnReviewedTree'
      BY <2>1, <2>2 DEF CaptureInv, CargoRunsOnReviewedTree
    <2>4. \A content \in survivors' : AsCaptured(content)'
      BY <2>1 DEF CaptureInv, AsCaptured
    <2>5. QED
      BY <2>1, <2>2, <2>3, <2>4 DEF CaptureInv
  <1>6. QED
    BY <1>1, <1>2, <1>3, <1>4, <1>5 DEF AdminHandler

(* A power loss reveals a survivor, a start reads what is visible.         *)
LEMMA OutageKeepsCapture ==
    ASSUME GatewayInv, CaptureInv,
           Crash \/ PowerFails \/ \E newConfig \in Configs : Start(newConfig)
    PROVE  CaptureInv'
  <1>1. /\ survivors' \subseteq survivors
        /\ UNCHANGED <<issued, capture, ranOn>>
    BY DEF Crash, PowerFails, Start, ProcessCrash, PowerLoss, Load, HandlersEnd,
       callVars, agentVars, effectVars
  <1>2. \A content \in survivors' : AsCaptured(content)'
    BY <1>1 DEF CaptureInv, AsCaptured
  <1>3. CASE Crash \/ PowerFails
    BY <1>1, <1>2, <1>3, CaptureRests DEF Crash, PowerFails, HandlersEnd
  <1>4. ASSUME NEW newConfig, Start(newConfig)
        PROVE  CaptureInv'
    <2>1. open' /\ UNCHANGED <<pc, cur, copy>>
      BY <1>4 DEF Start, Load, adminVars
    <2>2. QED
      BY <1>1, <1>2, <2>1 DEF CaptureInv, CargoRunsOnReviewedTree
  <1>5. QED
    BY <1>3, <1>4

LEMMA NextKeepsCapture ==
    ASSUME GatewayInv, CaptureInv, [Next]_vars
    PROVE  CaptureInv'
  <1>1. CASE UNCHANGED vars \/ \E content \in EditContents : EditWorkspace(content)
    BY <1>1, CaptureUndisturbed DEF vars, EditWorkspace, storeVars, callVars,
       agentVars, adminVars, effectVars
  <1>2. QED
    BY <1>1, AgentKeepsCapture, CommandKeepsCapture, HandlerKeepsCapture,
       OutageKeepsCapture DEF Next

-----------------------------------------------------------------------------
LEMMA NextKeepsHost ==
    ASSUME GatewayInv, CaptureInv, HostInv, [Next]_vars
    PROVE  HostInv'
  <1> USE DEF HostInv, HostAllowed, Revalidated
  <1>1. CASE \/ UNCHANGED vars
             \/ \E id \in Ids : AgentCall(id) \/ AgentHandler(id)
             \/ \E content \in EditContents : EditWorkspace(content)
    <2>1. UNCHANGED <<config, pc, cur>>
      BY <1>1 DEF vars, AgentCall, RefuseRequest, EvaluateRequest, AgentHandler,
         InsertReview, PreExecutionAudit, FinishRequest, RunAllowed,
         EditWorkspace, adminVars
    <2>2. QED
      BY <2>1
  <1>2. CASE AdminCommand
    BY <1>2 DEF AdminCommand, RefuseCommand, Approve, Acknowledge, Reject, Rest,
       Work, vars, adminVars
  <1>3. CASE AdminHandler
    <2>1. CASE Revalidate
      BY <2>1 DEF Revalidate, AsReviewed, Continue, Rest, Work
    <2>2. CASE \E result \in PersistResults :
                  ClaimApproved(result) \/ RestoreReview(result)
                      \/ ConsumeReview(result)
      BY <2>2 DEF ClaimApproved, RestoreReview, ConsumeReview, AnswerError,
         AnswerOk, Rest, Work
    <2>3. CASE \E result \in AuditResults :
                  \/ ApprovalAudit(result)
                  \/ ReviewedPreExecutionAudit(result)
                  \/ RejectionAudit(result)
                  \/ ReconciliationAudit(result)
                  \/ CompletionAudit(result)
      BY <2>3 DEF ApprovalAudit, ReviewedPreExecutionAudit, RejectionAudit,
         AuditClaimed, ReconciliationAudit, CompletionAudit, Continue, Rest, Work
    <2>4. CASE \E how \in {"Success", "Failed"} : Execute(how)
      BY <2>4 DEF Execute
    <2>5. QED
      BY <1>3, <2>1, <2>2, <2>3, <2>4 DEF AdminHandler
  <1>4. CASE Crash \/ PowerFails
    BY <1>4 DEF Crash, PowerFails, HandlersEnd, Rest, Work
  <1>5. ASSUME NEW newConfig, Start(newConfig)
        PROVE  HostInv'
    BY <1>5 DEF Start, Load, CaptureInv, adminVars
  <1>6. QED
    BY <1>1, <1>2, <1>3, <1>4, <1>5 DEF Next

-----------------------------------------------------------------------------
(* An id that no content names stays so, unless the step writes its entry. *)
LEMMA RewriteLeavesOut ==
    ASSUME StoreInv, NEW id \in Ids, NEW new, Rewrites(new, id),
           NEW other \in Ids \ {id},
           \A content \in survivors : ~ Named(content, other)
    PROVE  \A content \in survivors' : ~ Named(content, other)
  BY DEF StoreInv, Rewrites, Named, Has

(* No operation of the store brings back a review that is in no content.   *)
LEMMA StoreLeavesOut ==
    ASSUME StoreInv, [StoreNext]_storeVars, NEW gone \in Ids, gone \in issued,
           \A content \in survivors : ~ Named(content, gone)
    PROVE  \A content \in survivors' : ~ Named(content, gone)
  <1>1. disk \in survivors /\ ~ Has(disk.pending, gone) /\ ~ Has(disk.claimed, gone)
    BY DEF StoreInv, Named
  <1>2. ASSUME NEW id \in Ids, NEW result, NEW body \in Bodies,
               id \notin issued, Insert(id, body, result)
        PROVE  \A content \in survivors' : ~ Named(content, gone)
    BY <1>2, InsertContent, RewriteLeavesOut
  <1>3. ASSUME NEW id \in Ids, NEW result, NEW body,
               \/ Claim(id, result)
               \/ Restore(id, body, result)
               \/ Consume(id, result)
        PROVE  \A content \in survivors' : ~ Named(content, gone)
    <2>1. id # gone /\ \E new : Rewrites(new, id)
      BY <1>1, <1>3, ClaimContent, RestoreContent, ConsumeContent
    <2>2. QED
      BY <2>1, RewriteLeavesOut
  <1>4. CASE ProcessCrash \/ PowerLoss \/ Load \/ UNCHANGED storeVars
    <2>1. survivors' \subseteq survivors
      BY <1>1, <1>4 DEF ProcessCrash, PowerLoss, Load, storeVars
    <2>2. QED
      BY <2>1
  <1>5. QED
    BY <1>2, <1>3, <1>4 DEF StoreNext

(* The handler takes up what is in the store, so nothing that is gone.     *)
LEMMA HandlerLeavesOut ==
    ASSUME GatewayInv, Next, NEW gone \in Ids,
           \A content \in survivors : ~ Named(content, gone),
           pc # "idle" => cur # gone,
           pc' # "idle"
    PROVE  cur' # gone
  <1> USE DEF GatewayInv
  <1>1. open => ~ Has(reviews, gone) /\ ~ Has(claimed, gone)
    BY MemorySurvives DEF Named
  <1>2. CASE AdminCommand
    BY <1>1, <1>2 DEF AdminCommand, RefuseCommand, Approve, Acknowledge, Reject,
       Claim, Idle, Rest, Work, vars, adminVars
  <1>3. CASE AdminHandler
    <2>1. CASE Revalidate
      BY <2>1 DEF Revalidate, Continue, Rest, Work
    <2>2. CASE \E result \in PersistResults :
                  ClaimApproved(result) \/ RestoreReview(result)
                      \/ ConsumeReview(result)
      BY <2>2 DEF ClaimApproved, RestoreReview, ConsumeReview, AnswerError,
         AnswerOk, Rest, Work
    <2>3. CASE \E result \in AuditResults :
                  \/ ApprovalAudit(result)
                  \/ ReviewedPreExecutionAudit(result)
                  \/ RejectionAudit(result)
                  \/ ReconciliationAudit(result)
                  \/ CompletionAudit(result)
      BY <2>3 DEF ApprovalAudit, ReviewedPreExecutionAudit, RejectionAudit,
         AuditClaimed, ReconciliationAudit, CompletionAudit, Continue, Rest, Work
    <2>4. CASE \E how \in {"Success", "Failed"} : Execute(how)
      BY <2>4 DEF Execute
    <2>5. QED
      BY <1>3, <2>1, <2>2, <2>3, <2>4 DEF AdminHandler
  <1>4. CASE Crash \/ PowerFails
    BY <1>4 DEF Crash, PowerFails, HandlersEnd, Rest, Work
  <1>5. CASE \/ \E id \in Ids : AgentCall(id) \/ AgentHandler(id)
             \/ \E content \in EditContents : EditWorkspace(content)
             \/ \E newConfig \in Configs : Start(newConfig)
    <2>1. UNCHANGED <<pc, cur>>
      BY <1>5 DEF AgentCall, RefuseRequest, EvaluateRequest, AgentHandler,
         InsertReview, PreExecutionAudit, FinishRequest, RunAllowed,
         EditWorkspace, Start, adminVars
    <2>2. QED
      BY <2>1
  <1>6. QED
    BY <1>2, <1>3, <1>4, <1>5 DEF Next

(* Answers are only given by a consumption, and an acknowledgement is      *)
(* confirmed only when the consumption is durable.                         *)
LEMMA AnswersGiven ==
    ASSUME GatewayInv, [Next]_vars
    PROVE  \/ told' = told
           \/ \E result : /\ pc = "consume" /\ pc' = "idle"
                          /\ cur \in Ids /\ Consume(cur, result)
                          /\ \E answer \in Answers :
                                /\ told' = told \cup {<<cur, answer>>}
                                /\ answer = "acknowledged" => result = "ok"
  <1>1. ASSUME NEW result, ConsumeReview(result)
        PROVE  \/ told' = told
               \/ /\ pc = "consume" /\ pc' = "idle"
                  /\ cur \in Ids /\ Consume(cur, result)
                  /\ \E answer \in Answers :
                        /\ told' = told \cup {<<cur, answer>>}
                        /\ answer = "acknowledged" => result = "ok"
    <2>1. pc = "consume" /\ cur \in Ids /\ Consume(cur, result)
      BY <1>1 DEF ConsumeReview, GatewayInv, HandlerInv
    <2>2. QED
      BY <1>1, <2>1 DEF ConsumeReview, AnswerError, AnswerOk, Rest, Work, Answers
  <1>2. CASE AdminHandler
    <2>1. CASE \E result \in PersistResults : ConsumeReview(result)
      BY <1>1, <2>1
    <2>2. CASE Revalidate \/ \E result \in PersistResults :
                  ClaimApproved(result) \/ RestoreReview(result)
      BY <2>2 DEF Revalidate, ClaimApproved, RestoreReview, AnswerError
    <2>3. CASE \/ \E result \in AuditResults :
                     \/ ApprovalAudit(result)
                     \/ ReviewedPreExecutionAudit(result)
                     \/ RejectionAudit(result)
                     \/ ReconciliationAudit(result)
                     \/ CompletionAudit(result)
               \/ \E how \in {"Success", "Failed"} : Execute(how)
      BY <2>3 DEF ApprovalAudit, ReviewedPreExecutionAudit, RejectionAudit,
         AuditClaimed, ReconciliationAudit, CompletionAudit, Execute
    <2>4. QED
      BY <1>2, <2>1, <2>2, <2>3 DEF AdminHandler
  <1>3. CASE \/ UNCHANGED vars
             \/ \E id \in Ids : AgentCall(id) \/ AgentHandler(id)
             \/ AdminCommand
             \/ \E content \in EditContents : EditWorkspace(content)
             \/ Crash \/ PowerFails
             \/ \E newConfig \in Configs : Start(newConfig)
    BY <1>3 DEF vars, AgentCall, RefuseRequest, EvaluateRequest, AgentHandler,
       InsertReview, PreExecutionAudit, FinishRequest, RunAllowed, AdminCommand,
       RefuseCommand, Approve, Acknowledge, Reject, EditWorkspace, Crash,
       PowerFails, HandlersEnd, Start
  <1>4. QED
    BY <1>2, <1>3 DEF Next

LEMMA NextKeepsSettled ==
    ASSUME GatewayInv, SettledInv, [Next]_vars
    PROVE  SettledInv'
  <1>1. CASE UNCHANGED vars
    BY <1>1 DEF SettledInv, Named, vars, storeVars, callVars, adminVars
  <1>2. ASSUME Next, NEW id \in Ids, <<id, "acknowledged">> \in told
        PROVE  /\ id \in issued'
               /\ \A content \in survivors' : ~ Named(content, id)
               /\ pc' # "idle" => cur' # id
    <2>1. /\ id \in issued
          /\ \A content \in survivors : ~ Named(content, id)
          /\ pc # "idle" => cur # id
      BY <1>2 DEF SettledInv
    <2>2. [StoreNext]_storeVars
      BY <1>2, UsesStore DEF GatewayInv
    <2>3. issued \subseteq issued'
      BY <2>2 DEF StoreNext, Insert, Claim, Restore, Consume, ProcessCrash,
         PowerLoss, Load, storeVars, callVars
    <2>4. QED
      BY <1>2, <2>1, <2>2, <2>3, StoreLeavesOut, HandlerLeavesOut DEF GatewayInv
  <1>3. ASSUME NEW id \in Ids, <<id, "acknowledged">> \in told',
               <<id, "acknowledged">> \notin told
        PROVE  /\ id \in issued'
               /\ \A content \in survivors' : ~ Named(content, id)
               /\ pc' # "idle" => cur' # id
    <2>1. pc' = "idle" /\ id = cur /\ Consume(id, "ok")
      BY <1>3, AnswersGiven
    <2>2. id \in issued'
      <3>1. Has(disk.claimed, id) /\ issued' = issued
        BY <2>1, ConsumeContent DEF GatewayInv, Consume
      <3>2. QED
        BY <3>1 DEF GatewayInv, StoreInv, Sound
    <2>3. \A content \in survivors' : ~ Named(content, id)
      BY <2>1, ConsumeContent DEF GatewayInv, Named, Has
    <2>4. QED
      BY <2>1, <2>2, <2>3
  <1>4. CASE Next
    BY <1>2, <1>3, <1>4 DEF SettledInv, Named
  <1>5. QED
    BY <1>1, <1>4

-----------------------------------------------------------------------------
(* What is in the durable part of the log stays there.                     *)
LEMMA SyncedGrows ==
    ASSUME GatewayInv, [Next]_vars
    PROVE  synced \subseteq synced'
  <1>1. CASE \/ UNCHANGED vars
             \/ \E content \in EditContents : EditWorkspace(content)
             \/ \E newConfig \in Configs : Start(newConfig)
    BY <1>1 DEF vars, EditWorkspace, Start, trailVars
  <1>2. QED
    BY <1>1, AgentStepKeepsInv, CommandKeepsInv, HandlerStepKeepsInv,
       OutageKeepsInv DEF Next

LEMMA DecidedLasts ==
    ASSUME synced \subseteq synced'
    PROVE  \A id : /\ Decided(id) => Decided(id)'
                   /\ PreExecuted(id) => PreExecuted(id)'
  BY DEF Decided, DecisionRecords, PreExecuted

(* A step towards the consumption of a review has written its decision.    *)
LEMMA DecisionPrecedesConsume ==
    ASSUME GatewayInv, DecisionInv, Next
    PROVE  /\ pc' = "completionAudit" => PreExecuted(cur)'
           /\ pc' = "consume" => Decided(cur)'
  <1> DEFINE Goal == /\ pc' = "completionAudit" => PreExecuted(cur)'
                     /\ pc' = "consume" => Decided(cur)'
  <1> USE DEF GatewayInv
  <1>1. /\ pc = "completionAudit" => PreExecuted(cur) /\ Decided(cur)
        /\ pc = "execute" => PreExecuted(cur)
        /\ synced \subseteq synced'
    BY SyncedGrows DEF DecisionInv, HandlerInv, Decided, DecisionRecords,
       PreExecuted
  <1>2. CASE UNCHANGED <<pc, cur>>
    BY <1>1, <1>2, DecidedLasts DEF DecisionInv, PreExecuted, Decided,
       DecisionRecords
  <1>3. CASE pc' \notin {"completionAudit", "consume"}
    BY <1>3
  <1>4. ASSUME NEW result, RejectionAudit(result)
        PROVE  Goal
    <2>1. /\ Audit(Record(cur, "Rejection", "NotExecuted"), result) /\ cur' = cur
          /\ pc' = IF result = "ok" THEN "consume" ELSE "restore"
      BY <1>4 DEF RejectionAudit, AuditClaimed, Continue
    <2>2. QED
      BY <2>1, AuditFacts DEF Decided, DecisionRecords
  <1>5. ASSUME NEW result, ReconciliationAudit(result)
        PROVE  Goal
    <2>1. /\ Audit(Record(cur, "Reconciliation", "Unknown"), result)
          /\ \/ result = "ok" /\ cur' = cur /\ pc' = "consume"
             \/ pc' = "idle"
      BY <1>5 DEF ReconciliationAudit, Continue, Rest, Work
    <2>2. QED
      BY <2>1, AuditFacts DEF Decided, DecisionRecords
  <1>6. ASSUME NEW result, CompletionAudit(result)
        PROVE  Goal
    <2>1. pc = "completionAudit" /\ cur' = cur /\ pc' = "consume"
      BY <1>6 DEF CompletionAudit, Continue
    <2>2. QED
      BY <1>1, <2>1, DecidedLasts DEF Decided, DecisionRecords
  <1>7. ASSUME NEW how, Execute(how)
        PROVE  Goal
    BY <1>1, <1>7, DecidedLasts DEF Execute, PreExecuted
  <1>8. CASE AdminHandler
    <2>1. CASE Revalidate
                 \/ \E result \in PersistResults :
                      ClaimApproved(result) \/ RestoreReview(result)
                          \/ ConsumeReview(result)
      BY <1>3, <2>1 DEF Revalidate, ClaimApproved, RestoreReview, ConsumeReview,
         AnswerError, AnswerOk, Continue, Rest, Work
    <2>2. CASE \E result \in AuditResults :
                 ApprovalAudit(result) \/ ReviewedPreExecutionAudit(result)
      BY <1>3, <2>2 DEF ApprovalAudit, ReviewedPreExecutionAudit, AuditClaimed,
         Continue
    <2>3. QED
      BY <1>4, <1>5, <1>6, <1>7, <1>8, <2>1, <2>2 DEF AdminHandler
  <1>9. CASE AdminCommand
    BY <1>2, <1>3, <1>9 DEF AdminCommand, RefuseCommand, Approve, Acknowledge,
       Reject, Rest, Work, vars, adminVars
  <1>10. CASE Crash \/ PowerFails
    BY <1>3, <1>10 DEF Crash, PowerFails, HandlersEnd, Rest, Work
  <1>11. CASE \/ \E id \in Ids : AgentCall(id) \/ AgentHandler(id)
              \/ \E content \in EditContents : EditWorkspace(content)
              \/ \E newConfig \in Configs : Start(newConfig)
    BY <1>2, <1>11 DEF AgentCall, RefuseRequest, EvaluateRequest, AgentHandler,
       InsertReview, PreExecutionAudit, FinishRequest, RunAllowed,
       EditWorkspace, Start, adminVars
  <1>12. QED
    BY <1>8, <1>9, <1>10, <1>11 DEF Next

(* Only the consumption of a decided review releases it.                   *)
LEMMA ReleasedIsDecided ==
    ASSUME GatewayInv, DecisionInv, Next
    PROVE  released' = released \/ (released' = released \cup {cur} /\ Decided(cur))
  <1>1. ASSUME NEW result, ConsumeReview(result)
        PROVE  released' = released \cup {cur} /\ Decided(cur)
    BY <1>1 DEF ConsumeReview, Consume, DecisionInv
  <1>2. CASE AdminHandler
    <2>1. CASE \E result \in PersistResults : ConsumeReview(result)
      BY <1>1, <2>1
    <2>2. CASE \/ Revalidate
               \/ \E result \in PersistResults :
                     ClaimApproved(result) \/ RestoreReview(result)
               \/ \E result \in AuditResults :
                     \/ ApprovalAudit(result)
                     \/ ReviewedPreExecutionAudit(result)
                     \/ RejectionAudit(result)
                     \/ ReconciliationAudit(result)
                     \/ CompletionAudit(result)
               \/ \E how \in {"Success", "Failed"} : Execute(how)
      BY <2>2 DEF Revalidate, ClaimApproved, RestoreReview, Claim, Restore,
         ApprovalAudit, ReviewedPreExecutionAudit, RejectionAudit, AuditClaimed,
         ReconciliationAudit, CompletionAudit, Execute, storeVars, callVars
    <2>3. QED
      BY <1>2, <2>1, <2>2 DEF AdminHandler
  <1>3. CASE \/ \E id \in Ids : AgentCall(id) \/ AgentHandler(id)
             \/ AdminCommand
             \/ \E content \in EditContents : EditWorkspace(content)
             \/ Crash \/ PowerFails
             \/ \E newConfig \in Configs : Start(newConfig)
    BY <1>3 DEF AgentCall, RefuseRequest, EvaluateRequest, AgentHandler,
       InsertReview, PreExecutionAudit, FinishRequest, RunAllowed, Insert, Claim,
       AdminCommand, RefuseCommand, Approve, Acknowledge, Reject, EditWorkspace,
       Crash, PowerFails, ProcessCrash, PowerLoss, Start, Load, vars, storeVars,
       callVars
  <1>4. QED
    BY <1>2, <1>3 DEF Next

(* An agent is told its request is held only after an accepted insertion.  *)
LEMMA HeldIsAccepted ==
    ASSUME GatewayInv, DecisionInv, Next, NEW id \in Ids, status'[id] = "held"
    PROVE  id \in accepted'
  <1>1. ASSUME NEW other \in Ids, AgentCall(other) \/ AgentHandler(other)
        PROVE  id \in accepted'
    <2>1. status \in [Ids -> Statuses]
      BY DEF GatewayInv, GatewayTypeOK
    <2>2. CASE AgentCall(other)
      BY <2>1, <2>2 DEF AgentCall, RefuseRequest, EvaluateRequest, Become,
         DecisionInv, storeVars, callVars
    <2>3. CASE \E result \in PersistResults : InsertReview(other, result)
      BY <2>1, <2>3 DEF InsertReview, Insert, Become, DecisionInv
    <2>4. CASE \/ \E result \in AuditResults :
                     PreExecutionAudit(other, result) \/ FinishRequest(other, result)
               \/ \E answer \in {"executed", "failed"} : RunAllowed(other, answer)
      BY <2>1, <2>4 DEF PreExecutionAudit, FinishRequest, RunAllowed, Become,
         DecisionInv, storeVars, callVars
    <2>5. QED
      BY <1>1, <2>2, <2>3, <2>4 DEF AgentHandler
  <1>2. CASE AdminHandler
    BY <1>2 DEF AdminHandler, Revalidate, ClaimApproved, RestoreReview,
       ConsumeReview, Claim, Restore, Consume, ApprovalAudit,
       ReviewedPreExecutionAudit, RejectionAudit, AuditClaimed,
       ReconciliationAudit, CompletionAudit, Execute, DecisionInv, storeVars,
       callVars, agentVars
  <1>3. CASE \/ AdminCommand
             \/ \E content \in EditContents : EditWorkspace(content)
             \/ Crash \/ PowerFails
             \/ \E newConfig \in Configs : Start(newConfig)
    BY <1>3 DEF AdminCommand, RefuseCommand, Approve, Acknowledge, Reject, Claim,
       EditWorkspace, Crash, PowerFails, HandlersEnd, ProcessCrash, PowerLoss,
       Start, Load, DecisionInv, vars, storeVars, callVars, agentVars
  <1>4. QED
    BY <1>1, <1>2, <1>3 DEF Next

LEMMA NextKeepsDecision ==
    ASSUME GatewayInv, DecisionInv, [Next]_vars
    PROVE  DecisionInv'
  <1>1. CASE UNCHANGED vars
    BY <1>1 DEF DecisionInv, Decided, DecisionRecords, PreExecuted, vars,
       storeVars, callVars, agentVars, adminVars, trailVars
  <1>2. CASE Next
    <2>1. \A id \in released' : Decided(id)'
      BY <1>2, ReleasedIsDecided, SyncedGrows, DecidedLasts DEF DecisionInv
    <2>2. QED
      BY <1>2, <2>1, DecisionPrecedesConsume, HeldIsAccepted DEF DecisionInv
  <1>3. QED
    BY <1>1, <1>2

LEMMA ReviewInit == Init => ReviewInv
  <1> SUFFICES ASSUME Init PROVE ReviewInv
    OBVIOUS
  <1>1. \A content \in survivors : AsCaptured(content)
    BY DEF Init, StoreInit, AsCaptured, Serialized, EmptyMap, Has
  <1>2. QED
    BY <1>1 DEF Init, StoreInit, ReviewInv, CaptureInv, HostInv, SettledInv,
       DecisionInv, Revalidated, CargoRunsOnReviewedTree

(* An operation is started by the agent's own call or by the handler.       *)
LEMMA StartsAnOperation ==
    ASSUME GatewayInv, [Next]_vars, NEW id \in Ids,
           agent[id] # "run", pc = "execute" => cur # id
    PROVE  attempts'[id] = attempts[id]
  <1>1. attempts \in [Ids -> Nat]
    BY DEF GatewayInv, GatewayTypeOK
  <1>2. ASSUME NEW other \in Ids, AgentCall(other) \/ AgentHandler(other)
        PROVE  attempts'[id] = attempts[id]
    BY <1>1, <1>2 DEF AgentCall, RefuseRequest, EvaluateRequest, AgentHandler,
       InsertReview, PreExecutionAudit, FinishRequest, RunAllowed, effectVars
  <1>3. CASE AdminHandler
    BY <1>1, <1>3 DEF AdminHandler, Revalidate, ClaimApproved, RestoreReview,
       ConsumeReview, ApprovalAudit, ReviewedPreExecutionAudit, RejectionAudit,
       AuditClaimed, ReconciliationAudit, CompletionAudit, Execute, effectVars
  <1>4. CASE \/ UNCHANGED vars
             \/ AdminCommand
             \/ \E content \in EditContents : EditWorkspace(content)
             \/ Crash \/ PowerFails
             \/ \E newConfig \in Configs : Start(newConfig)
    BY <1>4 DEF AdminCommand, RefuseCommand, Approve, Acknowledge, Reject,
       EditWorkspace, Crash, PowerFails, HandlersEnd, Start, vars, effectVars
  <1>5. QED
    BY <1>2, <1>3, <1>4 DEF Next

(* The inductive invariant about reviews, on top of GatewayInv.            *)
THEOREM GatewayReviewInvariant == Spec => [](GatewayInv /\ ReviewInv)
  <1>1. Init => GatewayInv /\ ReviewInv
    BY GatewayInit, ReviewInit
  <1>2. GatewayInv /\ ReviewInv /\ [Next]_vars => (GatewayInv /\ ReviewInv)'
    BY GatewayNextKeepsInv, NextKeepsCapture, NextKeepsHost, NextKeepsSettled,
       NextKeepsDecision DEF ReviewInv
  <1>3. QED
    BY <1>1, <1>2, PTL DEF Spec

-----------------------------------------------------------------------------
(* A reviewed cargo test runs on the tree that was captured for review,    *)
(* through claims, restarts and edits of the workspace.                    *)
THEOREM GatewayCargoRunsOnReviewedTree == Spec => []CargoRunsOnReviewedTree
  <1>1. ReviewInv => CargoRunsOnReviewedTree
    BY DEF ReviewInv, CaptureInv
  <1>2. QED
    BY <1>1, GatewayReviewInvariant, PTL

(* A request an agent was told is held is in every surviving content, or   *)
(* the durable part of the log says how it was decided.                    *)
THEOREM GatewayHeldIsAccountedFor == Spec => []HeldIsAccountedFor
  <1>1. GatewayInv /\ ReviewInv => HeldIsAccountedFor
    BY DEF GatewayInv, StoreInv, Sound, ReviewInv, DecisionInv, Decided,
       HeldIsAccountedFor
  <1>2. QED
    BY <1>1, GatewayReviewInvariant, PTL

(* After a confirmed acknowledgement the operation is not started again.   *)
THEOREM GatewayAcknowledgedIsFinal == Spec => AcknowledgedIsFinal
  <1>1. ASSUME GatewayInv, ReviewInv, [Next]_vars,
               NEW id \in Ids, <<id, "acknowledged">> \in told
        PROVE  attempts'[id] = attempts[id]
    <2>1. id \in issued /\ (pc # "idle" => cur # id)
      BY <1>1 DEF ReviewInv, SettledInv
    <2>2. agent[id] # "run" /\ (pc = "execute" => cur # id)
      BY <1>1, <2>1 DEF GatewayInv, AgentInv, Early
    <2>3. QED
      BY <1>1, <2>2, StartsAnOperation
  <1>2. GatewayInv /\ ReviewInv /\ [Next]_vars
          => [\A id \in Ids : <<id, "acknowledged">> \in told =>
                 attempts'[id] = attempts[id]]_vars
    BY <1>1
  <1>3. QED
    BY <1>2, GatewayReviewInvariant, PTL DEF Spec, AcknowledgedIsFinal

(* A reviewed POST starts only while the configuration in force allows its *)
(* host.                                                                   *)
THEOREM GatewayPostsToAllowedHost == Spec => PostOnlyToAllowedHost
  <1>1. ASSUME GatewayInv, ReviewInv, [Next]_vars,
               NEW id \in Ids, Kind[id] = "post", attempts'[id] > attempts[id]
        PROVE  HostAllowed
    <2>1. attempts[id] \in Nat
      BY <1>1 DEF GatewayInv, GatewayTypeOK
    <2>2. agent[id] = "run" \/ (pc = "execute" /\ cur = id)
      BY <1>1, <2>1, StartsAnOperation
    <2>3. agent[id] # "run"
      BY <1>1 DEF GatewayInv, AgentInv, Privileged
    <2>4. QED
      BY <1>1, <2>2, <2>3 DEF ReviewInv, HostInv, Revalidated
  <1>2. GatewayInv /\ ReviewInv /\ [Next]_vars
          => [\A id \in Ids :
                 /\ Kind[id] = "post"
                 /\ attempts'[id] > attempts[id]
                 => HostAllowed]_vars
    BY <1>1
  <1>3. QED
    BY <1>2, GatewayReviewInvariant, PTL DEF Spec, PostOnlyToAllowedHost

-----------------------------------------------------------------------------
(* A review that is claimed in every content stays claimed, unless the     *)
(* handler gives it back or consumes it.                                   *)
LEMMA StaysClaimed ==
    ASSUME GatewayInv, [Next]_vars, NEW id \in Ids,
           \A content \in survivors : Has(content.claimed, id),
           pc \in {"restore", "consume"} /\ cur = id => pc' # "idle"
    PROVE  \A content \in survivors' : Has(content.claimed, id)
  <1> DEFINE Goal == \A content \in survivors' : Has(content.claimed, id)
  <1> USE DEF GatewayInv
  <1>1. disk \in survivors /\ Has(disk.claimed, id)
    BY DEF StoreInv
  <1>2. ASSUME NEW other \in Ids, NEW new, Rewrites(new, other),
               other # id \/ Has(new.claimed, id)
        PROVE  Goal
    BY <1>1, <1>2 DEF Rewrites, Has
  <1>3. ASSUME NEW other \in Ids, NEW result, InsertReview(other, result)
        PROVE  Goal
    <2>1. Insert(other, capture[other], result) /\ capture[other] \in Bodies
      BY <1>3 DEF InsertReview, GatewayTypeOK
    <2>2. QED
      BY <1>1, <1>2, <2>1, InsertContent DEF Has
  <1>4. ASSUME NEW other \in Ids, NEW result, Claim(other, result)
        PROVE  Goal
    BY <1>1, <1>2, <1>4, ClaimContent DEF Has
  <1>5. ASSUME NEW result, RestoreReview(result) \/ ConsumeReview(result)
        PROVE  Goal
    <2>1. /\ cur \in Ids /\ pc \in {"restore", "consume"} /\ pc' = "idle"
          /\ Restore(cur, copy, result) \/ Consume(cur, result)
      BY <1>5 DEF RestoreReview, ConsumeReview, AnswerError, AnswerOk, Rest,
         Work, HandlerInv
    <2>2. cur # id
      BY <2>1
    <2>3. QED
      BY <1>2, <2>1, <2>2, RestoreContent, ConsumeContent
  <1>6. CASE survivors' \subseteq survivors
    BY <1>6
  <1>7. CASE AdminHandler
    <2>1. CASE \E result \in PersistResults : ClaimApproved(result)
      BY <1>4, <2>1 DEF ClaimApproved, HandlerInv
    <2>2. CASE \E result \in PersistResults :
                  RestoreReview(result) \/ ConsumeReview(result)
      BY <1>5, <2>2
    <2>3. CASE \/ Revalidate
               \/ \E result \in AuditResults :
                     \/ ApprovalAudit(result)
                     \/ ReviewedPreExecutionAudit(result)
                     \/ RejectionAudit(result)
                     \/ ReconciliationAudit(result)
                     \/ CompletionAudit(result)
               \/ \E how \in {"Success", "Failed"} : Execute(how)
      BY <1>6, <2>3 DEF Revalidate, ApprovalAudit, ReviewedPreExecutionAudit,
         RejectionAudit, AuditClaimed, ReconciliationAudit, CompletionAudit,
         Execute, storeVars
    <2>4. QED
      BY <1>7, <2>1, <2>2, <2>3 DEF AdminHandler
  <1>8. CASE AdminCommand
    <2>1. CASE \E other \in Ids, result \in PersistResults : Reject(other, result)
      BY <1>4, <2>1 DEF Reject
    <2>2. CASE RefuseCommand \/ \E other \in Ids : Approve(other) \/ Acknowledge(other)
      BY <1>6, <2>2 DEF RefuseCommand, Approve, Acknowledge, vars, storeVars
    <2>3. QED
      BY <1>8, <2>1, <2>2 DEF AdminCommand
  <1>9. ASSUME NEW other \in Ids, AgentCall(other) \/ AgentHandler(other)
        PROVE  Goal
    <2>1. CASE \E result \in PersistResults : InsertReview(other, result)
      BY <1>3, <2>1
    <2>2. CASE ~ \E result \in PersistResults : InsertReview(other, result)
      BY <1>6, <1>9, <2>2 DEF AgentCall, RefuseRequest, EvaluateRequest,
         AgentHandler, PreExecutionAudit, FinishRequest, RunAllowed, storeVars
    <2>3. QED
      BY <2>1, <2>2
  <1>10. CASE \/ UNCHANGED vars
              \/ \E content \in EditContents : EditWorkspace(content)
              \/ Crash \/ PowerFails
              \/ \E newConfig \in Configs : Start(newConfig)
    <2>1. survivors' \subseteq survivors
      BY <1>10 DEF vars, EditWorkspace, Crash, PowerFails, ProcessCrash, PowerLoss,
         Start, Load, storeVars
    <2>2. QED
      BY <1>6, <2>1
  <1>11. QED
    BY <1>7, <1>8, <1>9, <1>10 DEF Next

LEMMA TracedLasts ==
    ASSUME synced \subseteq synced', NEW id, Traced(id)
    PROVE  Traced(id)'
  BY DEF Traced

(* The handler holds a review it has just claimed, or goes on holding one. *)
LEMMA HoldingIsClaimed ==
    ASSUME GatewayInv, TraceInv, [Next]_vars, pc' \in Holding
    PROVE  \A content \in survivors' : Has(content.claimed, cur')
  <1> DEFINE Goal == \A content \in survivors' : Has(content.claimed, cur')
  <1> USE DEF GatewayInv, Holding
  <1>1. CASE pc \in Holding /\ cur' = cur
    <2>1. cur \in Ids /\ \A content \in survivors : Has(content.claimed, cur)
      BY <1>1 DEF TraceInv, HandlerInv
    <2>2. QED
      BY <1>1, <2>1, StaysClaimed
  <1>2. ASSUME NEW id \in Ids, Claim(id, "ok"), cur' = id
        PROVE  Goal
    BY <1>2, ClaimContent DEF Has
  <1>3. CASE AdminHandler
    <2>1. ASSUME NEW result, ClaimApproved(result)
          PROVE  Goal
      <3>1. cur \in Ids /\ Claim(cur, "ok") /\ cur' = cur
        BY <2>1 DEF ClaimApproved, HandlerInv, Rest, Work
      <3>2. QED
        BY <1>2, <3>1
    <2>2. CASE \/ Revalidate
               \/ \E result \in PersistResults :
                     RestoreReview(result) \/ ConsumeReview(result)
               \/ \E how \in {"Success", "Failed"} : Execute(how)
      BY <2>2 DEF Revalidate, RestoreReview, ConsumeReview, Execute, AnswerError,
         AnswerOk, Continue, Rest, Work
    <2>3. CASE \E result \in AuditResults :
                  \/ ApprovalAudit(result)
                  \/ ReviewedPreExecutionAudit(result)
                  \/ RejectionAudit(result)
                  \/ ReconciliationAudit(result)
                  \/ CompletionAudit(result)
      BY <1>1, <2>3 DEF ApprovalAudit, ReviewedPreExecutionAudit, RejectionAudit,
         AuditClaimed, ReconciliationAudit, CompletionAudit, Continue, Rest, Work
    <2>4. QED
      BY <1>3, <2>1, <2>2, <2>3 DEF AdminHandler
  <1>4. CASE AdminCommand
    <2>1. ASSUME NEW id \in Ids, NEW result, Reject(id, result)
          PROVE  Goal
      <3>1. Claim(id, "ok") /\ cur' = id
        BY <2>1 DEF Reject, Rest, Work
      <3>2. QED
        BY <1>2, <3>1
    <2>2. CASE RefuseCommand \/ \E id \in Ids : Approve(id) \/ Acknowledge(id)
      BY <1>1, <2>2 DEF RefuseCommand, Approve, Acknowledge, Work, vars, adminVars
    <2>3. QED
      BY <1>4, <2>1, <2>2 DEF AdminCommand
  <1>5. CASE Crash \/ PowerFails
    BY <1>5 DEF Crash, PowerFails, HandlersEnd, Rest, Work
  <1>6. CASE \/ UNCHANGED vars
             \/ \E id \in Ids : AgentCall(id) \/ AgentHandler(id)
             \/ \E content \in EditContents : EditWorkspace(content)
             \/ \E newConfig \in Configs : Start(newConfig)
    BY <1>1, <1>6 DEF vars, AgentCall, RefuseRequest, EvaluateRequest, AgentHandler,
       InsertReview, PreExecutionAudit, FinishRequest, RunAllowed,
       EditWorkspace, Start, adminVars
  <1>7. QED
    BY <1>3, <1>4, <1>5, <1>6 DEF Next

(* When audit writes succeed, a review that was not rejected is consumed   *)
(* only after its completion or reconciliation is in the log.              *)
LEMMA ConsumeIsTraced ==
    ASSUME AuditResults \subseteq {"ok"}, GatewayInv, TraceInv, [Next]_vars
    PROVE  /\ pc' = "rejectionAudit" => cmd' = "reject"
           /\ pc' = "completionAudit" => outcome' \in {"Success", "Failed"}
           /\ pc' = "consume" /\ cmd' # "reject" => Traced(cur)'
  <1> DEFINE Goal == /\ pc' = "rejectionAudit" => cmd' = "reject"
                     /\ pc' = "completionAudit" => outcome' \in {"Success", "Failed"}
                     /\ pc' = "consume" /\ cmd' # "reject" => Traced(cur)'
  <1> USE DEF GatewayInv
  <1>1. CASE UNCHANGED <<pc, cmd, cur, outcome>>
    BY <1>1, SyncedGrows DEF TraceInv, Traced
  <1>2. CASE pc' \notin {"rejectionAudit", "completionAudit", "consume"}
    BY <1>2
  <1>3. CASE AdminHandler
    <2>1. CASE \/ Revalidate
               \/ \E result \in PersistResults :
                     \/ ClaimApproved(result)
                     \/ RestoreReview(result)
                     \/ ConsumeReview(result)
      BY <1>2, <2>1 DEF Revalidate, ClaimApproved, RestoreReview, ConsumeReview,
         AnswerError, AnswerOk, Continue, Rest, Work
    <2>2. CASE \E result \in AuditResults :
                  ApprovalAudit(result) \/ ReviewedPreExecutionAudit(result)
      BY <1>2, <2>2 DEF ApprovalAudit, ReviewedPreExecutionAudit, AuditClaimed,
         Continue
    <2>3. ASSUME NEW result, RejectionAudit(result)
          PROVE  Goal
      BY <2>3 DEF RejectionAudit, AuditClaimed, Continue, TraceInv
    <2>4. ASSUME NEW result \in AuditResults, ReconciliationAudit(result)
          PROVE  Goal
      <3>1. /\ Record(cur, "Reconciliation", "Unknown") \in synced'
            /\ pc' = "consume" /\ cur' = cur
        BY <2>4, AuditFacts DEF ReconciliationAudit, Continue
      <3>2. Traced(cur)'
        BY <3>1 DEF Traced, Record
      <3>3. QED
        BY <3>1, <3>2
    <2>5. ASSUME NEW result \in AuditResults, CompletionAudit(result)
          PROVE  Goal
      <3>1. /\ Record(cur, "Completion", outcome) \in synced'
            /\ outcome \in {"Success", "Failed"}
            /\ pc' = "consume" /\ cur' = cur
        BY <2>5, AuditFacts DEF CompletionAudit, Continue, TraceInv
      <3>2. Traced(cur)'
        BY <3>1 DEF Traced, Record
      <3>3. QED
        BY <3>1, <3>2
    <2>6. CASE \E how \in {"Success", "Failed"} : Execute(how)
      BY <2>6 DEF Execute
    <2>7. QED
      BY <1>3, <2>1, <2>2, <2>3, <2>4, <2>5, <2>6 DEF AdminHandler
  <1>4. CASE AdminCommand
    BY <1>1, <1>2, <1>4 DEF AdminCommand, RefuseCommand, Approve, Acknowledge,
       Reject, Rest, Work, vars, adminVars
  <1>5. CASE Crash \/ PowerFails
    BY <1>2, <1>5 DEF Crash, PowerFails, HandlersEnd, Rest, Work
  <1>6. CASE \/ UNCHANGED vars
             \/ \E id \in Ids : AgentCall(id) \/ AgentHandler(id)
             \/ \E content \in EditContents : EditWorkspace(content)
             \/ \E newConfig \in Configs : Start(newConfig)
    BY <1>1, <1>6 DEF vars, AgentCall, RefuseRequest, EvaluateRequest, AgentHandler,
       InsertReview, PreExecutionAudit, FinishRequest, RunAllowed,
       EditWorkspace, Start, adminVars
  <1>7. QED
    BY <1>3, <1>4, <1>5, <1>6 DEF Next

LEMMA NextKeepsTrace ==
    ASSUME AuditResults \subseteq {"ok"}, GatewayInv, TraceInv, [Next]_vars
    PROVE  TraceInv'
  <1>1. ASSUME NEW id \in Ids, attempts'[id] > 0, Privileged(id)
        PROVE  Traced(id)' \/ \A content \in survivors' : Has(content.claimed, id)
    <2>1. attempts[id] \in Nat /\ synced \subseteq synced'
      BY SyncedGrows DEF GatewayInv, GatewayTypeOK
    <2>2. CASE Traced(id)
      BY <2>1, <2>2, TracedLasts
    <2>3. CASE attempts[id] > 0 /\ ~ Traced(id)
      <3>1. \A content \in survivors : Has(content.claimed, id)
        BY <1>1, <2>3 DEF TraceInv
      <3>2. ~ (pc \in {"restore", "consume"} /\ cur = id)
        BY <2>1, <2>3 DEF GatewayInv, HandlerInv, Holding, TraceInv
      <3>3. QED
        BY <3>1, <3>2, StaysClaimed
    <2>4. CASE attempts[id] = 0
      <3>1. pc = "execute" /\ cur = id
        BY <1>1, <2>4, StartsAnOperation DEF GatewayInv, AgentInv
      <3>2. \A content \in survivors : Has(content.claimed, id)
        BY <3>1 DEF TraceInv, Holding
      <3>3. QED
        BY <3>1, <3>2, StaysClaimed
    <2>5. QED
      BY <2>1, <2>2, <2>3, <2>4
  <1>2. QED
    BY <1>1, HoldingIsClaimed, ConsumeIsTraced DEF TraceInv, Privileged

(* While audit writes succeed, a reviewed operation that was started is    *)
(* claimed in every surviving content until a durable record says how it   *)
(* ended.  Without that hypothesis it is false: a completion record that   *)
(* cannot be written is only reported (main.rs:985).                       *)
THEOREM GatewayEffectLeavesATrace ==
    ASSUME AuditResults \subseteq {"ok"}
    PROVE  Spec => []EffectLeavesATrace
  <1>1. Init => GatewayInv /\ TraceInv
    <2>1. Init => TraceInv
      BY DEF Init, TraceInv, Holding
    <2>2. QED
      BY <2>1, GatewayInit
  <1>2. GatewayInv /\ TraceInv /\ [Next]_vars => (GatewayInv /\ TraceInv)'
    BY GatewayNextKeepsInv, NextKeepsTrace
  <1>3. TraceInv => EffectLeavesATrace
    BY DEF TraceInv, Traced, EffectLeavesATrace
  <1>4. QED
    BY <1>1, <1>2, <1>3, PTL DEF Spec
=============================================================================

--------------------------- MODULE Gateway_proofs ---------------------------
(***************************************************************************)
(* Proofs about Gateway, for any requests, workspace states,               *)
(* configurations and failures.                                            *)
(*                                                                         *)
(* 1. Gateway uses the review store as PendingReviewStore allows, so the   *)
(*    store's invariant (PendingReviewStore_proofs) holds in it.           *)
(* 2. With it, the inductive invariant of the gateway: a request whose     *)
(*    operation was started is owned, so no content that can come back     *)
(*    shows it as pending; a handler that may still start or give back an  *)
(*    operation owns a request that was not started.                       *)
(***************************************************************************)
EXTENDS Gateway, PendingReviewStore_proofs

(* Answers to a call before its operation can have been started.           *)
Early == {"new", "insert", "preAudit", "run"}

(* The handler has claimed its request and has not started the operation.  *)
Holding == {"approvalAudit", "preAudit", "execute", "rejectionAudit", "restore"}

Approving ==
    {"revalidate", "claim", "approvalAudit", "preAudit", "execute",
     "completionAudit"}

PreExecuted(id) == Record(id, "PreExecution", "NotExecuted") \in synced
Approved(id) == Record(id, "Approval", "NotExecuted") \in synced

AgentInv ==
    \A id \in Ids :
        /\ agent[id] \in Early => id \notin issued /\ attempts[id] = 0
        /\ agent[id] \in {"preAudit", "run"} => ~ Privileged(id)
        /\ agent[id] = "run" => PreExecuted(id)

HandlerInv ==
    /\ pc # "idle" => cur \in Ids
    /\ pc \in Holding =>
          cur \in owned /\ attempts[cur] = 0 /\ <<cur, "rejected">> \notin told
    /\ pc \in {"preAudit", "execute"} => Approved(cur)
    /\ pc = "execute" => PreExecuted(cur)
    /\ pc \in Approving => cmd = "approve"
    /\ pc = "reconciliationAudit" => cmd = "ack"
    /\ pc = "consume" /\ cmd = "reject" => cur \in owned /\ attempts[cur] = 0

EffectInv ==
    \A id \in Ids :
        /\ attempts[id] <= 1
        /\ attempts[id] > 0 =>
              /\ id \in owned \/ id \notin issued
              /\ PreExecuted(id)
              /\ Privileged(id) => Approved(id)
        /\ <<id, "rejected">> \in told => id \in owned /\ attempts[id] = 0

GatewayInv ==
    /\ GatewayTypeOK
    /\ StoreInv
    /\ synced \subseteq log
    /\ AgentInv
    /\ HandlerInv
    /\ EffectInv

-----------------------------------------------------------------------------
LEMMA GatewayInit == Init => GatewayInv
  <1> SUFFICES ASSUME Init PROVE GatewayInv
    OBVIOUS
  <1>1. StoreInv
    BY StoreInitInv DEF Init
  <1>2. GatewayTypeOK
    BY ContentAssumption DEF Init, TrailInit, GatewayTypeOK, AgentStates,
       Statuses, AdminStates, Commands, Outcomes, Contents
  <1>3. QED
    BY <1>1, <1>2 DEF Init, StoreInit, TrailInit, GatewayInv, AgentInv,
       HandlerInv, EffectInv, Holding, Approving

LEMMA TypesKept ==
    ASSUME GatewayTypeOK, StoreInv, HandlerInv, Next
    PROVE  GatewayTypeOK'
  <1> USE DEF GatewayTypeOK
  <1>1. ASSUME NEW id \in Ids, AgentCall(id)
        PROVE  GatewayTypeOK'
    BY <1>1, ContentAssumption DEF AgentCall, RefuseRequest, EvaluateRequest,
       Become, Captured, Contents, AgentStates, Statuses, adminVars, trailVars,
       effectVars
  <1>2. ASSUME NEW id \in Ids, AgentHandler(id)
        PROVE  GatewayTypeOK'
    BY <1>2 DEF AgentHandler, InsertReview, PreExecutionAudit, FinishRequest,
       RunAllowed, Become, Audit, Record, Records, Phases, Outcomes,
       ReportedOutcome, AgentStates, Statuses, adminVars, trailVars, effectVars
  <1>3. CASE AdminCommand
    <2>1. ASSUME NEW id \in Ids, Approve(id) \/ Acknowledge(id)
          PROVE  GatewayTypeOK'
      BY <2>1 DEF Approve, Acknowledge, Work, Has, TypeOK, ReviewMap, StoreInv,
         AdminStates, Commands, Outcomes, agentVars, trailVars, effectVars
    <2>2. ASSUME NEW id \in Ids, NEW result, Reject(id, result)
          PROVE  GatewayTypeOK'
      BY <2>2, ContentAssumption DEF Reject, Claim, Rest, Work, Has, TypeOK,
         ReviewMap, StoreInv, AdminStates, Commands, Outcomes, agentVars,
         trailVars, effectVars
    <2>3. CASE RefuseCommand
      BY <2>3 DEF RefuseCommand, vars, agentVars, adminVars, trailVars, effectVars
    <2>4. QED
      BY <1>3, <2>1, <2>2, <2>3 DEF AdminCommand
  <1>4. CASE AdminHandler
    <2>1. CASE Revalidate
      BY <2>1, ContentAssumption DEF Revalidate, Rest, Work, Continue,
         AdminStates, Commands, Outcomes, agentVars, trailVars, effectVars
    <2>2. ASSUME NEW result, ClaimApproved(result)
          PROVE  GatewayTypeOK'
      BY <2>2, ContentAssumption DEF ClaimApproved, Claim, Rest, Work, Has,
         TypeOK, ReviewMap, StoreInv, HandlerInv, AdminStates, Commands,
         Outcomes, agentVars, trailVars, effectVars
    <2>3. ASSUME NEW result, RestoreReview(result)
          PROVE  GatewayTypeOK'
      BY <2>3, ContentAssumption DEF RestoreReview, AnswerError, Rest, Work,
         AdminStates, Commands, Outcomes, agentVars, trailVars, effectVars
    <2>4. ASSUME NEW result, ConsumeReview(result)
          PROVE  GatewayTypeOK'
      BY <2>4, ContentAssumption DEF ConsumeReview, AnswerError, AnswerOk, Rest,
         Work, HandlerInv, AdminStates, Commands, Outcomes, Answers, agentVars,
         trailVars, effectVars
    <2>5. ASSUME NEW state, NEW phase \in Phases, NEW next \in AdminStates,
                 NEW result, state # "idle",
                 AuditClaimed(state, phase, next, result)
          PROVE  GatewayTypeOK'
      <3>1. Record(cur, phase, "NotExecuted") \in Records
        BY <2>5 DEF AuditClaimed, HandlerInv, Record, Records, Outcomes
      <3>2. QED
        BY <2>5, <3>1 DEF AuditClaimed, Audit, Continue, AdminStates, agentVars,
           trailVars, effectVars
    <2>6. ASSUME NEW result,
                 \/ ApprovalAudit(result)
                 \/ ReviewedPreExecutionAudit(result)
                 \/ RejectionAudit(result)
          PROVE  GatewayTypeOK'
      BY <2>5, <2>6 DEF ApprovalAudit, ReviewedPreExecutionAudit, RejectionAudit,
         Phases, AdminStates
    <2>7. ASSUME NEW result, ReconciliationAudit(result)
          PROVE  GatewayTypeOK'
      <3>1. Record(cur, "Reconciliation", "Unknown") \in Records
        BY <2>7 DEF ReconciliationAudit, HandlerInv, Record, Records, Phases,
           Outcomes
      <3>2. QED
        BY <2>7, <3>1, ContentAssumption DEF ReconciliationAudit, Audit, Continue,
           Rest, Work, AdminStates, Commands, Outcomes, agentVars, trailVars,
           effectVars
    <2>8. ASSUME NEW result, CompletionAudit(result)
          PROVE  GatewayTypeOK'
      <3>1. Record(cur, "Completion", outcome) \in Records
        BY <2>8 DEF CompletionAudit, HandlerInv, Record, Records, Phases
      <3>2. QED
        BY <2>8, <3>1 DEF CompletionAudit, Audit, Continue, AdminStates,
           agentVars, trailVars, effectVars
    <2>9. ASSUME NEW how \in {"Success", "Failed"}, Execute(how)
          PROVE  GatewayTypeOK'
      <3>1. cur \in Ids /\ ws \in Bodies /\ Payload[cur] \in Contents
        BY <2>9, ContentAssumption DEF Execute, HandlerInv, Contents
      <3>2. QED
        BY <2>9, <3>1 DEF Execute, Effect, WriteEffect, CargoEffect,
           PostEffect, AdminStates, Outcomes, agentVars,
           trailVars
    <2>10. QED
      BY <1>4, <2>1, <2>2, <2>3, <2>4, <2>6, <2>7, <2>8, <2>9 DEF AdminHandler
  <1>5. ASSUME NEW content \in EditContents, EditWorkspace(content)
        PROVE  GatewayTypeOK'
    BY <1>5, ContentAssumption DEF EditWorkspace, agentVars, adminVars, trailVars
  <1>6. CASE Crash \/ PowerFails
    BY <1>6, ContentAssumption DEF Crash, PowerFails, HandlersEnd, Rest, Work,
       TrailPowerLoss, AgentStates, AdminStates, Commands, Outcomes, trailVars,
       effectVars
  <1>7. ASSUME NEW newConfig \in Configs, Start(newConfig)
        PROVE  GatewayTypeOK'
    BY <1>7 DEF Start, agentVars, adminVars, trailVars, effectVars
  <1>8. QED
    BY <1>1, <1>2, <1>3, <1>4, <1>5, <1>6, <1>7 DEF Next

-----------------------------------------------------------------------------
(* What the audit log promises an auditing step and a power loss.          *)
LEMMA AuditFacts ==
    ASSUME NEW record, NEW result, synced \subseteq log, Audit(record, result)
    PROVE  /\ synced \subseteq synced'
           /\ synced' \subseteq log'
           /\ result = "ok" => record \in synced'
  BY DEF Audit, trailVars

LEMMA OutageFacts ==
    ASSUME synced \subseteq log, TrailPowerLoss
    PROVE  synced \subseteq synced' /\ synced' \subseteq log'
  BY DEF TrailPowerLoss

(* The gateway calls the store as PendingReviewStore says a caller does:   *)
(* it inserts an id that was never inserted, and hands back what it took.  *)
LEMMA UsesStore ==
    ASSUME GatewayTypeOK, AgentInv, HandlerInv, [Next]_vars
    PROVE  [StoreNext]_storeVars
  <1>1. ASSUME NEW id \in Ids, AgentCall(id)
        PROVE  UNCHANGED storeVars
    BY <1>1 DEF AgentCall, RefuseRequest, EvaluateRequest
  <1>2. ASSUME NEW id \in Ids, AgentHandler(id)
        PROVE  [StoreNext]_storeVars
    <2>1. ASSUME NEW result \in PersistResults, InsertReview(id, result)
          PROVE  StoreNext
      BY <2>1 DEF InsertReview, AgentInv, Early, GatewayTypeOK, StoreNext
    <2>2. ASSUME NEW result \in AuditResults,
                 PreExecutionAudit(id, result) \/ FinishRequest(id, result)
          PROVE  UNCHANGED storeVars
      BY <2>2 DEF PreExecutionAudit, FinishRequest
    <2>3. ASSUME NEW answer, RunAllowed(id, answer)
          PROVE  UNCHANGED storeVars
      BY <2>3 DEF RunAllowed
    <2>4. QED
      BY <1>2, <2>1, <2>2, <2>3 DEF AgentHandler
  <1>3. CASE AdminCommand
    <2>1. ASSUME NEW id \in Ids, NEW result \in PersistResults,
                 Reject(id, result)
          PROVE  StoreNext
      BY <2>1 DEF Reject, StoreNext
    <2>2. ASSUME NEW id \in Ids, Approve(id) \/ Acknowledge(id)
          PROVE  UNCHANGED storeVars
      BY <2>2 DEF Approve, Acknowledge
    <2>3. CASE RefuseCommand
      BY <2>3 DEF RefuseCommand, vars
    <2>4. QED
      BY <1>3, <2>1, <2>2, <2>3 DEF AdminCommand
  <1>4. CASE AdminHandler
    <2>1. ASSUME NEW result \in PersistResults,
                 \/ ClaimApproved(result)
                 \/ RestoreReview(result)
                 \/ ConsumeReview(result)
          PROVE  StoreNext
      BY <2>1 DEF ClaimApproved, RestoreReview, ConsumeReview, HandlerInv,
         GatewayTypeOK, StoreNext
    <2>2. ASSUME NEW result \in AuditResults,
                 \/ ApprovalAudit(result)
                 \/ ReviewedPreExecutionAudit(result)
                 \/ RejectionAudit(result)
                 \/ ReconciliationAudit(result)
                 \/ CompletionAudit(result)
          PROVE  UNCHANGED storeVars
      BY <2>2 DEF ApprovalAudit, ReviewedPreExecutionAudit, RejectionAudit,
         AuditClaimed, ReconciliationAudit, CompletionAudit
    <2>3. CASE Revalidate \/ \E how \in {"Success", "Failed"} : Execute(how)
      BY <2>3 DEF Revalidate, Execute
    <2>4. QED
      BY <1>4, <2>1, <2>2, <2>3 DEF AdminHandler
  <1>5. CASE Crash \/ PowerFails \/ \E newConfig \in Configs : Start(newConfig)
    BY <1>5 DEF Crash, PowerFails, Start, StoreNext
  <1>6. CASE (\E content \in EditContents : EditWorkspace(content))
             \/ UNCHANGED vars
    BY <1>6 DEF EditWorkspace, vars
  <1>7. QED
    BY <1>1, <1>2, <1>3, <1>4, <1>5, <1>6 DEF Next

(* A review that can be claimed was inserted and is not owned.             *)
LEMMA ClaimableIsFree ==
    ASSUME StoreInv, NEW id \in Ids, NEW result, Claim(id, result)
    PROVE  id \in issued /\ id \notin owned
  <1>1. open /\ Has(reviews, id)
    BY DEF Claim
  <1>2. /\ Sound(Serialized(reviews, claimed))
        /\ Serialized(reviews, claimed).pending = reviews
    BY <1>1, MemoryIsSound DEF Serialized
  <1>3. QED
    BY <1>1, <1>2 DEF Sound

(* A step that touches no request's standing keeps what is said of it.     *)
LEMMA QuietStep ==
    ASSUME AgentInv, EffectInv, synced \subseteq synced',
           UNCHANGED <<agent, issued, owned, attempts, told>>
    PROVE  AgentInv' /\ EffectInv'
  BY DEF AgentInv, EffectInv, PreExecuted, Approved, Privileged

(* A step of somebody else keeps what is said of the handler.              *)
LEMMA HandlerUndisturbed ==
    ASSUME HandlerInv, synced \subseteq synced',
           UNCHANGED <<pc, cmd, cur, owned, told>>,
           pc \in Holding \cup {"consume"} /\ cur \in owned =>
               attempts'[cur] = attempts[cur]
    PROVE  HandlerInv'
  BY DEF HandlerInv, PreExecuted, Approved, Holding

-----------------------------------------------------------------------------
LEMMA AgentStepKeepsInv ==
    ASSUME GatewayInv, NEW id \in Ids, AgentCall(id) \/ AgentHandler(id)
    PROVE  /\ synced \subseteq synced' /\ synced' \subseteq log'
           /\ AgentInv' /\ HandlerInv' /\ EffectInv'
  <1> USE DEF GatewayInv
  <1>1. /\ agent \in [Ids -> AgentStates] /\ attempts \in [Ids -> Nat]
        /\ id \in Ids
    BY DEF GatewayTypeOK
  <1>2. CASE RefuseRequest(id)
    <2>1. /\ agent' = [agent EXCEPT ![id] = "done"]
          /\ UNCHANGED <<issued, owned, attempts, told, synced, log, pc, cmd, cur>>
      BY <1>2 DEF RefuseRequest, Become, storeVars, callVars, effectVars,
         trailVars, adminVars
    <2>2. HandlerInv'
      BY <2>1, HandlerUndisturbed
    <2>3. QED
      BY <1>1, <2>1, <2>2 DEF AgentInv, EffectInv, PreExecuted, Approved, Early,
         Privileged
  <1>3. CASE EvaluateRequest(id)
    <2>1. PICK state \in {"insert", "preAudit", "done", "completionAudit"} :
            /\ agent' = [agent EXCEPT ![id] = state]
            /\ state = "preAudit" => Decision(id) = "allow"
      BY <1>3 DEF EvaluateRequest, Evaluations, Become
    <2>2. /\ agent[id] = "new"
          /\ UNCHANGED <<issued, owned, attempts, told, synced, log, pc, cmd, cur>>
      BY <1>3 DEF EvaluateRequest, Calls, storeVars, callVars, effectVars,
         trailVars, adminVars
    <2>3. state = "preAudit" => ~ Privileged(id)
      BY <2>1, ConfigAssumption, KindAssumption DEF GatewayTypeOK, ValidConfig,
         Decision, Privileged
    <2>4. HandlerInv'
      BY <2>2, HandlerUndisturbed
    <2>5. QED
      BY <1>1, <2>1, <2>2, <2>3, <2>4 DEF AgentInv, EffectInv, PreExecuted,
         Approved, Early, Privileged
  <1>4. ASSUME NEW result, InsertReview(id, result)
        PROVE  /\ synced' = synced /\ log' = log
               /\ AgentInv' /\ HandlerInv' /\ EffectInv'
    <2>1. /\ agent[id] = "insert"
          /\ agent' \in {[agent EXCEPT ![id] = "done"],
                         [agent EXCEPT ![id] = "completionAudit"]}
          /\ issued' = issued \cup {id}
          /\ UNCHANGED <<owned, attempts, told, synced, log, pc, cmd, cur>>
      BY <1>4 DEF InsertReview, Insert, Become, effectVars, trailVars, adminVars
    <2>2. attempts[id] = 0 /\ id \notin issued
      BY <2>1 DEF AgentInv, Early
    <2>3. AgentInv'
      BY <1>1, <2>1, <2>2 DEF AgentInv, Early, PreExecuted, Privileged
    <2>4. HandlerInv'
      BY <2>1, HandlerUndisturbed
    <2>5. ASSUME NEW other \in Ids, attempts'[other] > 0
          PROVE  other \in owned' \/ other \notin issued'
      <3>1. other # id
        BY <2>1, <2>2, <2>5
      <3>2. QED
        BY <2>1, <2>5, <3>1 DEF EffectInv
    <2>6. EffectInv'
      BY <2>1, <2>5 DEF EffectInv, PreExecuted, Approved, Privileged
    <2>7. QED
      BY <2>1, <2>3, <2>4, <2>6
  <1>5. ASSUME NEW result, PreExecutionAudit(id, result)
        PROVE  /\ synced \subseteq synced' /\ synced' \subseteq log'
               /\ AgentInv' /\ HandlerInv' /\ EffectInv'
    <2>1. /\ agent[id] = "preAudit"
          /\ Audit(Record(id, "PreExecution", "NotExecuted"), result)
          /\ agent' = [agent EXCEPT ![id] = IF result = "ok" THEN "run" ELSE "done"]
          /\ UNCHANGED <<issued, owned, attempts, told, pc, cmd, cur>>
      BY <1>5 DEF PreExecutionAudit, Become, storeVars, callVars, effectVars,
         adminVars
    <2>2. /\ synced \subseteq synced' /\ synced' \subseteq log'
          /\ result = "ok" => PreExecuted(id)'
      BY <2>1, AuditFacts DEF PreExecuted
    <2>3. AgentInv'
      BY <1>1, <2>1, <2>2 DEF AgentInv, Early, PreExecuted, Privileged
    <2>4. EffectInv'
      BY <2>1, <2>2 DEF EffectInv, PreExecuted, Approved, Privileged
    <2>5. HandlerInv'
      BY <2>1, <2>2, HandlerUndisturbed
    <2>6. QED
      BY <2>2, <2>3, <2>4, <2>5
  <1>6. ASSUME NEW answer, RunAllowed(id, answer)
        PROVE  /\ synced' = synced /\ log' = log
               /\ AgentInv' /\ HandlerInv' /\ EffectInv'
    <2>1. /\ agent[id] = "run"
          /\ agent' = [agent EXCEPT ![id] = "completionAudit"]
          /\ attempts' = [attempts EXCEPT ![id] = @ + 1]
          /\ UNCHANGED <<issued, owned, told, synced, log, pc, cmd, cur>>
      BY <1>6 DEF RunAllowed, Become, storeVars, callVars, trailVars, adminVars
    <2>2. /\ id \notin issued /\ attempts[id] = 0
          /\ ~ Privileged(id) /\ PreExecuted(id)
      BY <2>1 DEF AgentInv, Early
    <2>3. id \notin owned
      BY <2>2 DEF StoreInv
    <2>4. AgentInv'
      BY <1>1, <2>1 DEF AgentInv, Early, PreExecuted, Privileged
    <2>5. /\ attempts'[id] = 1
          /\ \A other \in Ids \ {id} : attempts'[other] = attempts[other]
      BY <1>1, <2>1, <2>2
    <2>6. EffectInv'
      <3>1. <<id, "rejected">> \notin told
        BY <2>3 DEF EffectInv
      <3>2. PreExecuted(id)' /\ attempts'[id] <= 1 /\ id \notin issued'
        BY <2>1, <2>2, <2>5 DEF PreExecuted
      <3>3. \A other \in Ids \ {id} :
              /\ attempts'[other] = attempts[other]
              /\ PreExecuted(other)' <=> PreExecuted(other)
              /\ Approved(other)' <=> Approved(other)
        BY <2>1, <2>5 DEF PreExecuted, Approved
      <3>4. QED
        BY <2>1, <2>2, <3>1, <3>2, <3>3 DEF EffectInv, Privileged
    <2>7. HandlerInv'
      BY <1>1, <2>1, <2>3, HandlerUndisturbed
    <2>8. QED
      BY <2>1, <2>4, <2>6, <2>7
  <1>7. ASSUME NEW result, FinishRequest(id, result)
        PROVE  /\ synced \subseteq synced' /\ synced' \subseteq log'
               /\ AgentInv' /\ HandlerInv' /\ EffectInv'
    <2>1. /\ Audit(Record(id, "Completion", ReportedOutcome(status[id])), result)
          /\ agent' = [agent EXCEPT ![id] = "done"]
          /\ UNCHANGED <<issued, owned, attempts, told, pc, cmd, cur>>
      BY <1>7 DEF FinishRequest, storeVars, callVars, effectVars, adminVars
    <2>2. synced \subseteq synced' /\ synced' \subseteq log'
      BY <2>1, AuditFacts
    <2>3. AgentInv' /\ EffectInv'
      BY <1>1, <2>1, <2>2 DEF AgentInv, EffectInv, Early, PreExecuted, Approved,
         Privileged
    <2>4. HandlerInv'
      BY <2>1, <2>2, HandlerUndisturbed
    <2>5. QED
      BY <2>2, <2>3, <2>4
  <1>8. QED
    BY <1>2, <1>3, <1>4, <1>5, <1>6, <1>7 DEF AgentCall, AgentHandler,
       RefuseRequest, EvaluateRequest, trailVars

(* An idle handler has nothing to be said of.                              *)
LEMMA HandlerRests ==
    ASSUME Rest
    PROVE  HandlerInv'
  BY DEF Rest, Work, HandlerInv, Holding, Approving

(* A claim makes the request owned, and nobody started it before.          *)
LEMMA ClaimOwns ==
    ASSUME GatewayInv, NEW id \in Ids, NEW result, Claim(id, result),
           UNCHANGED <<agent, attempts, told, synced>>
    PROVE  /\ AgentInv' /\ EffectInv'
           /\ result = "ok" =>
                 id \in owned' /\ attempts[id] = 0 /\ <<id, "rejected">> \notin told
  <1> USE DEF GatewayInv
  <1>1. id \in issued /\ id \notin owned
    BY ClaimableIsFree
  <1>2. /\ owned \subseteq owned' /\ issued' = issued
        /\ result = "ok" => id \in owned'
    BY DEF Claim
  <1>3. attempts[id] = 0 /\ <<id, "rejected">> \notin told
    <2>1. attempts[id] \in Nat
      BY DEF GatewayTypeOK
    <2>2. QED
      BY <1>1, <2>1 DEF EffectInv
  <1>4. AgentInv'
    BY <1>2 DEF AgentInv, PreExecuted, Privileged
  <1>5. EffectInv'
    BY <1>2 DEF EffectInv, PreExecuted, Approved, Privileged
  <1>6. QED
    BY <1>2, <1>3, <1>4, <1>5

LEMMA CommandKeepsInv ==
    ASSUME GatewayInv, AdminCommand
    PROVE  /\ synced' = synced /\ log' = log
           /\ AgentInv' /\ HandlerInv' /\ EffectInv'
  <1> USE DEF GatewayInv
  <1>1. CASE RefuseCommand
    BY <1>1, QuietStep, HandlerUndisturbed DEF RefuseCommand, vars, storeVars,
       callVars, agentVars, adminVars, trailVars, effectVars
  <1>2. ASSUME NEW id \in Ids, Approve(id) \/ Acknowledge(id)
        PROVE  /\ synced' = synced /\ log' = log
               /\ AgentInv' /\ HandlerInv' /\ EffectInv'
    <2>1. UNCHANGED <<agent, issued, owned, attempts, told, synced, log>>
      BY <1>2 DEF Approve, Acknowledge, storeVars, callVars, agentVars, trailVars,
         effectVars
    <2>2. HandlerInv'
      BY <1>2 DEF Approve, Acknowledge, Work, HandlerInv, Holding, Approving
    <2>3. QED
      BY <2>1, <2>2, QuietStep
  <1>3. ASSUME NEW id \in Ids, NEW result, Reject(id, result)
        PROVE  /\ synced' = synced /\ log' = log
               /\ AgentInv' /\ HandlerInv' /\ EffectInv'
    <2>1. UNCHANGED <<agent, attempts, told, synced, log>> /\ Claim(id, result)
      BY <1>3 DEF Reject, agentVars, trailVars, effectVars
    <2>2. /\ AgentInv' /\ EffectInv'
          /\ result = "ok" =>
                id \in owned' /\ attempts[id] = 0 /\ <<id, "rejected">> \notin told
      BY <2>1, ClaimOwns
    <2>3. CASE result = "ok"
      <3>1. pc' = "rejectionAudit" /\ cur' = id /\ cmd' = "reject"
        BY <1>3, <2>3 DEF Reject, Work
      <3>2. HandlerInv'
        BY <2>1, <2>2, <2>3, <3>1 DEF HandlerInv, Holding, Approving
      <3>3. QED
        BY <2>1, <2>2, <3>2
    <2>4. CASE result # "ok"
      BY <1>3, <2>1, <2>2, <2>4, HandlerRests DEF Reject
    <2>5. QED
      BY <2>3, <2>4
  <1>4. QED
    BY <1>1, <1>2, <1>3 DEF AdminCommand

(* An auditing step of the handler that goes on in `next`.                 *)
LEMMA AuditStepKeepsInv ==
    ASSUME GatewayInv, NEW record, NEW result, NEW next,
           Audit(record, result), Continue(next), pc # "idle",
           UNCHANGED <<storeVars, agentVars, effectVars, told>>,
           next \in Holding => pc \in Holding,
           next \in {"preAudit", "execute"} => Approved(cur)',
           next = "execute" => PreExecuted(cur)',
           next \in Approving => pc \in Approving,
           next = "reconciliationAudit" => FALSE,
           next = "consume" =>
               pc \in Holding \/ cmd # "reject"
    PROVE  /\ synced \subseteq synced' /\ synced' \subseteq log'
           /\ AgentInv' /\ HandlerInv' /\ EffectInv'
  <1>1. /\ synced \subseteq synced' /\ synced' \subseteq log'
        /\ UNCHANGED <<agent, issued, owned, attempts, told, cur, cmd>>
        /\ pc' = next
    BY AuditFacts DEF GatewayInv, Continue, storeVars, callVars, agentVars,
       effectVars
  <1>2. AgentInv' /\ EffectInv'
    BY <1>1, QuietStep DEF GatewayInv
  <1>3. HandlerInv'
    BY <1>1 DEF GatewayInv, HandlerInv, Holding
  <1>4. QED
    BY <1>1, <1>2, <1>3

LEMMA HandlerStepKeepsInv ==
    ASSUME GatewayInv, AdminHandler
    PROVE  /\ synced \subseteq synced' /\ synced' \subseteq log'
           /\ AgentInv' /\ HandlerInv' /\ EffectInv'
  <1> USE DEF GatewayInv
  <1> DEFINE Kept == /\ synced \subseteq synced' /\ synced' \subseteq log'
                     /\ AgentInv' /\ HandlerInv' /\ EffectInv'
  <1>1. CASE Revalidate
    <2>1. UNCHANGED <<agent, issued, owned, attempts, told, synced, log>>
      BY <1>1 DEF Revalidate, storeVars, callVars, agentVars, trailVars,
         effectVars
    <2>2. HandlerInv'
      BY <1>1, HandlerRests DEF Revalidate, Continue, HandlerInv, Holding,
         Approving
    <2>3. QED
      BY <2>1, <2>2, QuietStep
  <1>2. ASSUME NEW result, ClaimApproved(result)
        PROVE  Kept
    <2>1. /\ UNCHANGED <<agent, attempts, told, synced, log>>
          /\ Claim(cur, result) /\ cur \in Ids /\ cmd = "approve"
      BY <1>2 DEF ClaimApproved, HandlerInv, Approving, agentVars, trailVars,
         effectVars
    <2>2. /\ AgentInv' /\ EffectInv'
          /\ result = "ok" => /\ cur \in owned' /\ attempts[cur] = 0
                              /\ <<cur, "rejected">> \notin told
      BY <2>1, ClaimOwns
    <2>3. HandlerInv'
      <3>1. CASE result = "ok"
        <4>1. pc' = "approvalAudit" /\ cur' = cur /\ cmd' = "approve"
          BY <1>2, <2>1, <3>1 DEF ClaimApproved, Work
        <4>2. QED
          BY <2>1, <2>2, <3>1, <4>1 DEF HandlerInv, Holding, Approving
      <3>2. CASE result # "ok"
        BY <1>2, <3>2, HandlerRests DEF ClaimApproved
      <3>3. QED
        BY <3>1, <3>2
    <2>4. QED
      BY <2>1, <2>2, <2>3
  <1>3. ASSUME NEW result, RestoreReview(result)
        PROVE  Kept
    <2>1. /\ pc = "restore" /\ owned' = owned \ {cur} /\ HandlerInv'
          /\ UNCHANGED <<agent, issued, attempts, told, synced, log>>
      BY <1>3, HandlerRests DEF RestoreReview, AnswerError, Restore, agentVars,
         trailVars, effectVars
    <2>2. /\ cur \in Ids /\ attempts[cur] = 0
          /\ <<cur, "rejected">> \notin told
      BY <2>1 DEF HandlerInv, Holding
    <2>3. AgentInv'
      BY <2>1 DEF AgentInv, PreExecuted, Privileged
    <2>4. ASSUME NEW id \in Ids, attempts[id] > 0 \/ <<id, "rejected">> \in told
          PROVE  id \in owned' <=> id \in owned
      <3>1. id # cur
        BY <2>2, <2>4
      <3>2. QED
        BY <2>1, <3>1
    <2>5. EffectInv'
      BY <2>1, <2>4 DEF EffectInv, PreExecuted, Approved, Privileged
    <2>6. QED
      BY <2>1, <2>3, <2>5
  <1>4. ASSUME NEW result, ConsumeReview(result)
        PROVE  Kept
    <2>1. /\ pc = "consume" /\ HandlerInv'
          /\ told' = told \/ \E answer \in Answers :
                /\ told' = told \cup {<<cur, answer>>}
                /\ answer = "rejected" => cmd = "reject"
          /\ UNCHANGED <<agent, issued, owned, attempts, synced, log>>
      BY <1>4, HandlerRests DEF ConsumeReview, AnswerError, AnswerOk, Answers,
         Consume, agentVars, trailVars, effectVars
    <2>2. \A id \in Ids : <<id, "rejected">> \in told' =>
              <<id, "rejected">> \in told \/ (id = cur /\ cmd = "reject")
      BY <2>1 DEF Answers
    <2>3. cmd = "reject" => cur \in owned /\ attempts[cur] = 0
      BY <2>1 DEF HandlerInv
    <2>4. AgentInv'
      BY <2>1 DEF AgentInv, PreExecuted, Privileged
    <2>5. EffectInv'
      BY <2>1, <2>2, <2>3 DEF EffectInv, PreExecuted, Approved, Privileged
    <2>6. QED
      BY <2>1, <2>4, <2>5
  <1>5. ASSUME NEW result, ApprovalAudit(result)
        PROVE  Kept
    <2>1. /\ pc = "approvalAudit"
          /\ Audit(Record(cur, "Approval", "NotExecuted"), result)
          /\ Continue(IF result = "ok" THEN "preAudit" ELSE "restore")
          /\ UNCHANGED <<storeVars, agentVars, effectVars, told>>
      BY <1>5 DEF ApprovalAudit, AuditClaimed
    <2>2. result = "ok" => Approved(cur)'
      BY <2>1, AuditFacts DEF Approved, Continue
    <2>3. QED
      BY <2>1, <2>2, AuditStepKeepsInv DEF Holding, Approving
  <1>6. ASSUME NEW result, ReviewedPreExecutionAudit(result)
        PROVE  Kept
    <2>1. /\ pc = "preAudit"
          /\ Audit(Record(cur, "PreExecution", "NotExecuted"), result)
          /\ Continue(IF result = "ok" THEN "execute" ELSE "restore")
          /\ UNCHANGED <<storeVars, agentVars, effectVars, told>>
      BY <1>6 DEF ReviewedPreExecutionAudit, AuditClaimed
    <2>2. result = "ok" => PreExecuted(cur)'
      BY <2>1, AuditFacts DEF PreExecuted, Continue
    <2>3. Approved(cur)'
      BY <2>1, AuditFacts DEF HandlerInv, Approved, Continue
    <2>4. QED
      BY <2>1, <2>2, <2>3, AuditStepKeepsInv DEF Holding, Approving
  <1>7. ASSUME NEW result, RejectionAudit(result)
        PROVE  Kept
    <2>1. /\ pc = "rejectionAudit"
          /\ Audit(Record(cur, "Rejection", "NotExecuted"), result)
          /\ Continue(IF result = "ok" THEN "consume" ELSE "restore")
          /\ UNCHANGED <<storeVars, agentVars, effectVars, told>>
      BY <1>7 DEF RejectionAudit, AuditClaimed
    <2>2. QED
      BY <2>1, AuditStepKeepsInv DEF Holding, Approving
  <1>8. ASSUME NEW result, ReconciliationAudit(result)
        PROVE  Kept
    <2>1. /\ pc = "reconciliationAudit" /\ cmd = "ack"
          /\ Audit(Record(cur, "Reconciliation", "Unknown"), result)
          /\ UNCHANGED <<storeVars, agentVars, effectVars, told>>
      BY <1>8 DEF ReconciliationAudit, HandlerInv
    <2>2. CASE result = "ok"
      BY <1>8, <2>1, <2>2, AuditStepKeepsInv DEF ReconciliationAudit, Holding,
         Approving
    <2>3. CASE result # "ok"
      <3>1. Rest /\ UNCHANGED <<agent, issued, owned, attempts, told>>
        BY <1>8, <2>1, <2>3 DEF ReconciliationAudit, storeVars, callVars,
           agentVars, effectVars
      <3>2. QED
        BY <2>1, <3>1, AuditFacts, QuietStep, HandlerRests
    <2>4. QED
      BY <2>2, <2>3
  <1>9. ASSUME NEW result, CompletionAudit(result)
        PROVE  Kept
    <2>1. /\ pc = "completionAudit" /\ cmd = "approve"
          /\ Audit(Record(cur, "Completion", outcome), result)
          /\ Continue("consume")
          /\ UNCHANGED <<storeVars, agentVars, effectVars, told>>
      BY <1>9 DEF CompletionAudit, HandlerInv, Approving
    <2>2. QED
      BY <2>1, AuditStepKeepsInv DEF Holding, Approving
  <1>10. ASSUME NEW how, Execute(how)
         PROVE  Kept
    <2>1. /\ pc = "execute" /\ pc' = "completionAudit"
          /\ attempts' = [attempts EXCEPT ![cur] = @ + 1]
          /\ UNCHANGED <<agent, issued, owned, told, synced, log, cmd, cur>>
      BY <1>10 DEF Execute, storeVars, callVars, agentVars, trailVars
    <2>2. /\ cur \in Ids /\ cur \in owned /\ attempts[cur] = 0
          /\ <<cur, "rejected">> \notin told
          /\ Approved(cur) /\ PreExecuted(cur) /\ cmd = "approve"
      BY <2>1 DEF HandlerInv, Holding, Approving
    <2>3. /\ attempts'[cur] = 1
          /\ \A id \in Ids \ {cur} : attempts'[id] = attempts[id]
      BY <2>1, <2>2 DEF GatewayTypeOK
    <2>4. \A id \in Ids : /\ PreExecuted(id)' <=> PreExecuted(id)
                          /\ Approved(id)' <=> Approved(id)
      BY <2>1 DEF PreExecuted, Approved
    <2>5. cur \in issued
      BY <2>2 DEF StoreInv
    <2>6. AgentInv'
      BY <2>1, <2>2, <2>3, <2>4, <2>5 DEF AgentInv, Privileged
    <2>7. EffectInv'
      <3>1. attempts'[cur] <= 1
        BY <2>3
      <3>2. QED
        BY <2>1, <2>2, <2>3, <2>4, <3>1 DEF EffectInv, Privileged
    <2>8. HandlerInv'
      BY <2>1, <2>2 DEF HandlerInv, Holding, Approving
    <2>9. QED
      BY <2>1, <2>6, <2>7, <2>8
  <1>11. QED
    BY <1>1, <1>2, <1>3, <1>4, <1>5, <1>6, <1>7, <1>8, <1>9, <1>10
       DEF AdminHandler

LEMMA OutageKeepsInv ==
    ASSUME GatewayInv, Crash \/ PowerFails
    PROVE  /\ synced \subseteq synced' /\ synced' \subseteq log'
           /\ AgentInv' /\ HandlerInv' /\ EffectInv'
  <1>1. /\ synced \subseteq synced' /\ synced' \subseteq log'
        /\ UNCHANGED <<issued, owned, attempts, told>>
        /\ HandlersEnd
    BY OutageFacts DEF GatewayInv, Crash, PowerFails, HandlersEnd, ProcessCrash,
       PowerLoss, trailVars, callVars, effectVars
  <1>2. /\ HandlerInv'
        /\ agent' = [id \in Ids |-> IF agent[id] \in {"new", "done"}
                                   THEN agent[id] ELSE "lost"]
    BY <1>1, HandlerRests DEF HandlersEnd
  <1>3. AgentInv'
    BY <1>1, <1>2 DEF GatewayInv, AgentInv, Early, PreExecuted, Privileged
  <1>4. EffectInv'
    BY <1>1 DEF GatewayInv, EffectInv, PreExecuted, Approved, Privileged
  <1>5. QED
    BY <1>1, <1>2, <1>3, <1>4

LEMMA GatewayNextKeepsInv ==
    ASSUME GatewayInv, [Next]_vars
    PROVE  GatewayInv'
  <1>1. StoreInv'
    BY UsesStore, StoreNextKeepsInv DEF GatewayInv
  <1>2. CASE UNCHANGED vars
    BY <1>1, <1>2, QuietStep, HandlerUndisturbed DEF GatewayInv, GatewayTypeOK,
       vars, storeVars, callVars, agentVars, adminVars, trailVars, effectVars
  <1>3. CASE Next
    <2>1. GatewayTypeOK'
      BY <1>3, TypesKept DEF GatewayInv
    <2>2. ASSUME NEW id \in Ids, AgentCall(id) \/ AgentHandler(id)
          PROVE  GatewayInv'
      BY <1>1, <2>1, <2>2, AgentStepKeepsInv DEF GatewayInv
    <2>3. CASE AdminCommand
      BY <1>1, <2>1, <2>3, CommandKeepsInv DEF GatewayInv
    <2>4. CASE AdminHandler
      BY <1>1, <2>1, <2>4, HandlerStepKeepsInv DEF GatewayInv
    <2>5. CASE Crash \/ PowerFails
      BY <1>1, <2>1, <2>5, OutageKeepsInv DEF GatewayInv
    <2>6. CASE \/ \E content \in EditContents : EditWorkspace(content)
               \/ \E newConfig \in Configs : Start(newConfig)
      <3>1. UNCHANGED <<agent, issued, owned, attempts, told, synced, log, pc,
                        cmd, cur>>
        BY <2>6 DEF EditWorkspace, Start, Load, storeVars, callVars, agentVars,
           adminVars, trailVars, effectVars
      <3>2. AgentInv' /\ EffectInv' /\ HandlerInv'
        BY <3>1, QuietStep, HandlerUndisturbed DEF GatewayInv
      <3>3. QED
        BY <1>1, <2>1, <3>1, <3>2 DEF GatewayInv
    <2>7. QED
      BY <1>3, <2>2, <2>3, <2>4, <2>5, <2>6 DEF Next
  <1>4. QED
    BY <1>2, <1>3

(* The inductive invariant holds of every behaviour of the gateway.        *)
THEOREM GatewayInvariant == Spec => []GatewayInv
  <1>1. GatewayInv /\ [Next]_vars => GatewayInv'
    BY GatewayNextKeepsInv
  <1>2. QED
    BY <1>1, GatewayInit, PTL DEF Spec

-----------------------------------------------------------------------------
(* Every variable keeps its type.                                          *)
THEOREM GatewayTypeCorrect == Spec => []GatewayTypeOK
  BY GatewayInvariant, PTL DEF GatewayInv

(* The handlers of main.rs, their interleavings, crashes and restarts      *)
(* included, use the review store as its specification allows.             *)
THEOREM GatewayImplementsStore == Spec => StoreSpec
  <1>1. Init => StoreInit
    BY DEF Init
  <1>2. GatewayInv /\ [Next]_vars => [StoreNext]_storeVars
    BY UsesStore DEF GatewayInv
  <1>3. QED
    BY <1>1, <1>2, GatewayInvariant, PTL DEF Spec, StoreSpec

(* No request's operation is started twice.                                *)
THEOREM GatewayEffectAtMostOnce == Spec => []EffectAtMostOnce
  <1>1. GatewayInv => EffectAtMostOnce
    BY DEF GatewayInv, EffectInv, EffectAtMostOnce
  <1>2. QED
    BY <1>1, GatewayInvariant, PTL

(* What was started has its records in the part of the log that lasts.     *)
THEOREM GatewayAuditsBeforeEffect == Spec => []AuditedBeforeEffect
  <1>1. GatewayInv => AuditedBeforeEffect
    BY DEF GatewayInv, EffectInv, AuditedBeforeEffect, PreExecuted, Approved
  <1>2. QED
    BY <1>1, GatewayInvariant, PTL

(* A request whose rejection was confirmed is never executed.              *)
THEOREM GatewayRejectionIsFinal == Spec => []RejectedIsNotExecuted
  <1>1. GatewayInv => RejectedIsNotExecuted
    BY DEF GatewayInv, EffectInv, RejectedIsNotExecuted
  <1>2. QED
    BY <1>1, GatewayInvariant, PTL

(* In the gateway too, whatever a crash or a power loss leaves in the      *)
(* state file can be loaded, and a confirmed claim outlives it.            *)
THEOREM GatewayReviewsSurvive ==
    Spec => [](OwnStateLoads /\ AcceptedIsNotLost /\ ClaimIsDurable)
  BY GatewayImplementsStore, StoreLoadsOwnState, StoreKeepsAccepted,
     StoreClaimIsDurable, PTL
=============================================================================

------------------------- MODULE Operations_proofs --------------------------
(***************************************************************************)
(* Proofs about Operations: the decision on a request, the timer of an     *)
(* addition, the bounded reader, the HTTP executor and the git status, for *)
(* any configuration files, requests, limits, addresses, streams and       *)
(* listings.                                                               *)
(*                                                                         *)
(* A call touches the state of its own executor only, so each executor has *)
(* an invariant of its own, about the calls of its kind; what it says of a *)
(* step is what the code has established when it gets there.               *)
(***************************************************************************)
EXTENDS Operations, FiniteSetTheorems, SequenceTheorems, TLAPS

(* The decision on a request.  Once there is one, it is the one for the    *)
(* configuration that was validated, and that is the file over defaults.   *)
Validated ==
    /\ config = ParsedConfig
    /\ ValidHosts(config.hosts)
    /\ ValidLimits(config.limits)
    /\ ValidPolicy(config.policy)

ConfigInv ==
    /\ pc \in {"start", "build", "evaluated", "done"}
    /\ pc \in {"start", "build"} => evaluation = NotYet
    /\ pc = "build" => Validated
    /\ evaluation # NotYet =>
        /\ Validated
        /\ params.operation \in Capabilities
        /\ evaluation = IF InScope
                        THEN Evaluation(config.policy[params.operation],
                                        Reason(params.operation))
                        ELSE OutOfScope

(* The addition: its timer, held from its start until it is joined.        *)
TimerInv ==
    /\ pc \in {"start", "startTimer", "call", "cancel", "join", "done"}
    /\ pc \in {"start", "startTimer"} => timer = "none"
    /\ timer \in {"none", "waiting", "expired", "ended"}
    /\ pc = "done" => timer \in {"none", "ended"}
    /\ held = IF pc \in {"call", "cancel", "join"} THEN {"timer"} ELSE {}

(* The bounded reader: the first bytes of what has been read are kept, as  *)
(* many as the maximum allows, and what is beyond it has been noted.       *)
ReadSoFar(stream, maximum, count, bytes, cut) ==
    /\ count \in 0 .. Len(stream)
    /\ bytes = SubSeq(stream, 1, Least(count, maximum))
    /\ cut \in BOOLEAN
    /\ count > maximum => cut
    /\ cut => Len(stream) > maximum

ReaderInv(stream, maximum) ==
    ReadSoFar(stream, maximum, received, captured, truncated)

(* The HTTP executor: the vetted addresses, ...                            *)
AddressesInv ==
    /\ contacted \subseteq pinned
    /\ \A a \in pinned : IsSafeOutboundIp(a)
    /\ pc \in {"start", "resolve"} => contacted = {}
    /\ pc \in {"send", "body"} => contacted # {}

(* ... the one delivery, ...                                               *)
DeliveryInv ==
    /\ pc \in {"start", "resolve", "connect", "send", "body", "done"}
    /\ pc \notin {"start", "done"} => RequestBodyFits
    /\ pc \in {"start", "resolve", "connect", "send"} => delivered = 0
    /\ pc = "body" => delivered = 1
    /\ delivered \in {0, 1}
    /\ delivered = 1 => contacted # {} /\ RequestBodyFits

(* ... the body, as far as it has been read, ...                           *)
BodyInv ==
    /\ response.body.bytes \in Seq(Bytes)
    /\ ~ response.body.ends => Len(response.body.bytes) > MaxResponse
    /\ pc \notin {"body", "done"} => received = 0 /\ captured = <<>> /\ truncated = FALSE
    /\ pc = "body" => ReaderInv(response.body.bytes, MaxResponse)

(* ... and what was answered.                                              *)
AnswerInv ==
    /\ pc # "done" => answer.is # "Ok"
    /\ answer.is = "Ok" =>
        /\ delivered = 1
        /\ IsOutputOf(answer.value.body, response.body.bytes, MaxResponse)

HttpInv == AddressesInv /\ DeliveryInv /\ BodyInv /\ AnswerInv

(* The git status: the entries collected are the first ones listed, each  *)
(* with the changes its flags name.                                        *)
GitInv ==
    /\ pc \in {"start", "collect", "done"}
    /\ listing \in Seq(ListedEntries)
    /\ entries \in Seq([index : SUBSET Changes, worktree : SUBSET Changes])
    /\ Len(entries) <= Len(listing) /\ Len(entries) <= MaxEntries
    /\ \A i \in 1 .. Len(entries) :
          Flagged(entries[i]) = listing[i].flags \cap ColumnFlags
    /\ pc = "collect" => repository.worktreeIsRoot /\ repository.gitDirInside
    /\ pc # "done" => answer.is # "Ok"
    /\ answer.is = "Ok" =>
        /\ repository.worktreeIsRoot /\ repository.gitDirInside
        /\ answer.value = entries /\ Len(entries) = Len(listing)

(* Each of them while a call of its kind is made.                          *)
CallsInv ==
    /\ kind = "request" => ConfigInv
    /\ kind = "add" => TimerInv
    /\ kind = "http" => HttpInv
    /\ kind = "git" => GitInv

-----------------------------------------------------------------------------
(* A call stays of its kind, and touches the state of its own executor.    *)
LEMMA KindStays ==
    ASSUME [Next]_vars
    PROVE  kind' = kind
BY DEF Next, vars, callState, ConfigNext, ResolveConfig, EvaluateRequest, CheckPurpose,
       configVars, SandboxNext, RunAddition, TimerThread, SandboxSetUp, StartTimer,
       CallAdd, SendCancel, JoinTimer, TimerExpires, IncrementEpoch, ReceiveCancel,
       HttpNext, ExecuteHttp, CheckRequest, BuildClientForDestination, Connect, Send,
       ReadResponseBody, SendMore, ChangeName, CargoNext, RunCargo, Surroundings,
       ResolveManifest, ApproveTree, CreateSnapshot, CopyWorkspace, CompareSnapshot,
       CreateStdout, CreateStderr, Spawn, Poll, CheckTime, TerminateOnTimeout,
       WaitForChild, Abandon, AbandonWait, Settle, OpenCapture, ReadCapture,
       RemoveCapture, ReportResult, CaptureIs, NextCapture,
       EditTree, ChildExits, DescendantsExit, DeadlinePasses,
       FilesNext, FileStep, Evaluate, OpenReadParent, InspectRead, ReadFile,
       CaptureTarget, RevalidateParent, RevalidateTarget, CheckContent,
       RevalidateWrite, ReadPermissions, CreateTempFile, FillTempFile, SyncTempFile,
       RenameTempFile, RemoveTempFile, EditFile, SwapParent, LosePower, Next2, Fail,
       GitNext, OpenRepository, CollectEntry, Goto, GotoHolding, Return,
       ReturnReleasing

(* A call that returns gives its result and keeps what it holds; an error  *)
(* is not an answer.                                                       *)
LEMMA Returns ==
    ASSUME NEW result, Return(result)
    PROVE  pc' = "done" /\ answer' = result /\ held' = held /\ stuck' = stuck
BY DEF Return, ReturnReleasing

LEMMA ErrIsNotOk ==
    ASSUME NEW why
    PROVE  Err(why).is = "Err"
BY DEF Err

-----------------------------------------------------------------------------
(* The decision.                                                           *)
LEMMA ConfigInvInit ==
    ASSUME Init, kind = "request"
    PROVE  ConfigInv
BY DEF Init, CallInit, ConfigCalled, ConfigInv, NotYet

LEMMA ConfigInvStep ==
    ASSUME ConfigInv, [Next]_vars, kind = "request"
    PROVE  ConfigInv'
<1>1. CASE ResolveConfig
  <2>1. file' = file /\ params' = params /\ evaluation' = evaluation /\ evaluation = NotYet
    BY <1>1 DEF ResolveConfig, ConfigInv
  <2>2. CASE pc' = "build" /\ config' = ParsedConfig /\ Validated'
    BY <2>1, <2>2 DEF ConfigInv
  <2>3. CASE pc' = "done" /\ config' = config
    BY <2>1, <2>3 DEF ConfigInv
  <2>4. CASE /\ pc' = "build" /\ config' = ParsedConfig
             /\ ValidHosts(ParsedConfig.hosts)
             /\ ValidLimits(ParsedConfig.limits) /\ ValidPolicy(ParsedConfig.policy)
    <3>1. ParsedConfig' = ParsedConfig
      BY <2>1 DEF ParsedConfig, Over, DefaultHosts
    <3> QED BY <2>2, <2>4, <3>1
          DEF Validated, ValidHosts, ValidLimits, ValidPolicy
  <2> QED BY <1>1, <2>3, <2>4 DEF ResolveConfig, Goto, Return, ReturnReleasing
<1>2. CASE EvaluateRequest
  <2>1. file' = file /\ params' = params /\ config' = config
    BY <1>2 DEF EvaluateRequest
  <2>2. Validated' /\ InScope' = InScope
    BY <1>2, <2>1 DEF EvaluateRequest, ConfigInv, Validated, ParsedConfig, Over, InScope,
          ValidDestination
  <2>3. CASE pc' = "evaluated" /\ BuildsRequest
    BY <1>2, <2>1, <2>2, <2>3
       DEF EvaluateRequest, BuildsRequest, ConfigInv, OutOfScope, Return, ReturnReleasing
  <2>4. CASE pc' = "done" /\ evaluation' = evaluation
    BY <1>2, <2>4 DEF EvaluateRequest, ConfigInv
  <2> QED BY <1>2, <2>3, <2>4 DEF EvaluateRequest, Goto, Return, ReturnReleasing
<1>3. CASE UNCHANGED configVars /\ (CheckPurpose \/ UNCHANGED vars)
  <2>1. pc' = pc \/ (pc = "evaluated" /\ pc' = "done")
    BY <1>3 DEF CheckPurpose, Return, ReturnReleasing, vars, callState
  <2>2. Validated' = Validated /\ InScope' = InScope
    BY <1>3 DEF configVars, Validated, ParsedConfig, Over, InScope, ValidDestination
  <2> QED BY <1>3, <2>1, <2>2 DEF ConfigInv, configVars
<1> QED
  BY <1>1, <1>2, <1>3 DEF Next, ConfigNext, CheckPurpose, vars, configVars

(* What the invariant says of a decision is what is promised of it.        *)
LEMMA BackedByConfig ==
    ASSUME kind = "request" => ConfigInv
    PROVE  DecisionIsBacked
<1> SUFFICES ASSUME kind = "request", evaluation # NotYet
             PROVE  DecisionIsBacked
  BY DEF DecisionIsBacked
<1>1. /\ Validated
      /\ params.operation \in Capabilities
      /\ evaluation = IF InScope
                      THEN Evaluation(config.policy[params.operation],
                                      Reason(params.operation))
                      ELSE OutOfScope
  BY DEF ConfigInv
<1>2. evaluation.decision \in {"review", "allow"} =>
        /\ InScope
        /\ evaluation.decision = config.policy[params.operation]
        /\ evaluation.reason = Reason(params.operation)
  BY <1>1 DEF Evaluation, OutOfScope
<1>3. evaluation.decision = "review" => evaluation.reason \in ReviewReasons(params.operation)
  BY <1>1, <1>2 DEF Validated, ValidPolicy, Capabilities, Unreviewable, ReviewOnly, Reason,
        ReviewReasons
<1>4. evaluation.decision = "allow" => params.operation \notin ReviewOnly
  BY <1>1, <1>2 DEF Validated, ValidPolicy
<1>5. ASSUME evaluation.decision # "block", params.operation \in {"http_get", "http_post"}
      PROVE  /\ params.url.scheme = "https" /\ params.url.host.is = "domain"
             /\ IF file.givesHosts
                THEN \E i \in DOMAIN file.hosts : file.hosts[i].name = params.url.host.name
                ELSE params.url.host.name = "api.example.com"
  <2>1. ValidDestination(params.url)
    BY <1>1, <1>5 DEF Evaluation, OutOfScope, InScope
  <2>2. config.hosts = IF file.givesHosts THEN file.hosts ELSE DefaultHosts
    BY <1>1 DEF Validated, ParsedConfig
  <2> QED BY <2>1, <2>2 DEF ValidDestination, EqIgnoreCase, DefaultHosts
<1>6. \A l \in Limits : config.limits[l] > 0 /\ config.limits[l] <= Maximum[l]
  BY <1>1, MaximumAssumption DEF Validated, ValidLimits
<1> QED BY <1>3, <1>4, <1>5, <1>6 DEF DecisionIsBacked

-----------------------------------------------------------------------------
(* The addition.                                                           *)
LEMMA TimerInvInit ==
    ASSUME Init, kind = "add"
    PROVE  TimerInv
BY DEF Init, CallInit, SandboxCalled, TimerInv

LEMMA TimerInvStep ==
    ASSUME TimerInv, [Next]_vars, kind = "add"
    PROVE  TimerInv'
<1>1. CASE SandboxSetUp
  <2>1. UNCHANGED sandboxVars /\ pc = "start"
    BY <1>1 DEF SandboxSetUp
  <2>2. pc' \in {"startTimer", "done"} /\ held' = held
    BY <1>1, Returns DEF SandboxSetUp, Goto
  <2> QED BY <2>1, <2>2 DEF TimerInv, sandboxVars
<1>2. CASE StartTimer
  BY <1>2 DEF StartTimer, GotoHolding, TimerInv
<1>3. CASE CallAdd
  BY <1>3 DEF CallAdd, Goto, TimerInv
<1>4. CASE SendCancel
  BY <1>4 DEF SendCancel, Goto, TimerInv
<1>5. CASE JoinTimer
  BY <1>5 DEF JoinTimer, sandboxVars, TimerInv
<1>6. CASE TimerExpires
  BY <1>6 DEF TimerExpires, callState, TimerInv
<1>7. CASE IncrementEpoch
  BY <1>7 DEF IncrementEpoch, callState, TimerInv
<1>8. CASE ReceiveCancel
  BY <1>8 DEF ReceiveCancel, callState, TimerInv
<1>9. CASE UNCHANGED vars
  BY <1>9 DEF vars, callState, sandboxVars, TimerInv
<1> QED
  BY <1>1, <1>2, <1>3, <1>4, <1>5, <1>6, <1>7, <1>8, <1>9
     DEF Next, SandboxNext, RunAddition, TimerThread

-----------------------------------------------------------------------------
(* The bounded reader.                                                     *)

(* Nothing has been read of a stream, ...                                  *)
LEMMA StartsReading ==
    ASSUME NEW stream \in Seq(Bytes), NEW maximum \in Nat
    PROVE  ReadSoFar(stream, maximum, 0, <<>>, FALSE)
<1>1. Least(0, maximum) = 0 /\ Len(stream) \in Nat
  BY LenProperties DEF Least
<1>2. SubSeq(stream, 1, 0) = <<>>
  BY SubSeqEmpty
<1> QED BY <1>1, <1>2 DEF ReadSoFar

(* ... one turn of the loop reads on, keeping what fits, ...               *)
LEMMA ReadsOn ==
    ASSUME NEW stream \in Seq(Bytes), NEW maximum \in Nat,
           ReaderInv(stream, maximum), ReadSome(stream, maximum)
    PROVE  ReadSoFar(stream, maximum, received', captured', truncated')
<1>1. PICK n \in 1 .. Least(BufferSize, Len(stream) - received) :
         LET turn == Keep(captured, SubSeq(stream, received + 1, received + n), maximum)
         IN  /\ received' = received + n
             /\ captured' = turn.captured
             /\ truncated' = (truncated \/ turn.cut)
  BY DEF ReadSome
<1> DEFINE buffer == SubSeq(stream, received + 1, received + n)
<1> DEFINE have == Least(received, maximum)
<1> DEFINE kept == Least(n, maximum - have)
<1>2. /\ Len(stream) \in Nat /\ received \in 0 .. Len(stream)
      /\ n \in 1 .. Len(stream) - received
  BY <1>1, ReaderAssumption, LenProperties DEF ReaderInv, ReadSoFar, Least
<1>3. /\ have \in 0 .. maximum /\ have <= Len(stream) /\ kept \in 0 .. n
      /\ have + kept = Least(received + n, maximum)
      /\ kept > 0 => have = received
      /\ kept < n <=> received + n > maximum
  BY <1>2 DEF Least
<1>4. Len(captured) = have
  BY <1>2, <1>3, SubSeqProperties DEF ReaderInv, ReadSoFar
<1>5. buffer \in Seq(Bytes) /\ Len(buffer) = n
  <2>1. \A i \in received + 1 .. received + n : stream[i] \in Bytes
    BY <1>2, ElementOfSeq
  <2> QED BY <1>2, <2>1, SubSeqProperties
<1>6. /\ Keep(captured, buffer, maximum).captured = captured \o SubSeq(buffer, 1, kept)
      /\ Keep(captured, buffer, maximum).cut <=> kept < n
  BY <1>4, <1>5 DEF Keep
<1>7. captured \o SubSeq(buffer, 1, kept) = SubSeq(stream, 1, have + kept)
  <2> HIDE DEF have, kept
  <2>1. captured = SubSeq(stream, 1, have)
    BY DEF ReaderInv, ReadSoFar, have
  <2>2. CASE kept = 0
    <3>1. SubSeq(buffer, 1, kept) = <<>>
      BY <2>2, SubSeqEmpty
    <3>2. captured \in Seq(Bytes)
      <4>1. \A i \in 1 .. have : stream[i] \in Bytes
        BY <1>2, <1>3, ElementOfSeq
      <4> QED BY <1>3, <2>1, <4>1, SubSeqProperties
    <3> QED BY <1>3, <2>1, <2>2, <3>1, <3>2, ConcatEmptySeq
  <2>3. CASE kept > 0
    <3>1. have = received /\ kept \in 1 .. n
      BY <1>3, <2>3
    <3>2. SubSeq(buffer, 1, kept) = SubSeq(stream, received + 1, received + kept)
      <4>1. /\ received + 1 \in 1 .. Len(stream) /\ received + n \in 1 .. Len(stream)
            /\ 1 \in 1 .. (received + n) - (received + 1) + 1
            /\ kept \in 1 .. (received + n) - (received + 1) + 1
            /\ (received + 1) + 1 - 1 = received + 1 /\ (received + 1) + kept - 1 = received + kept
        BY <1>2, <3>1
      <4>2. \A i, j \in 1 .. Len(stream) : \A k, l \in 1 .. j - i + 1 :
               SubSeq(SubSeq(stream, i, j), k, l) = SubSeq(stream, i + k - 1, i + l - 1)
        BY SubSeqOfSubSeq
      <4>3. SubSeq(SubSeq(stream, received + 1, received + n), 1, kept)
              = SubSeq(stream, (received + 1) + 1 - 1, (received + 1) + kept - 1)
        BY <4>1, <4>2
      <4> QED BY <4>1, <4>3
    <3>3. /\ 1 \in 1 .. Len(stream) + 1 /\ received \in 1 - 1 .. Len(stream)
          /\ received + kept \in received .. Len(stream)
      BY <1>2, <3>1
    <3>4. SubSeq(stream, 1, received) \o SubSeq(stream, received + 1, received + kept)
            = SubSeq(stream, 1, received + kept)
      BY <3>3, ConcatAdjacentSubSeq
    <3> QED BY <2>1, <3>1, <3>2, <3>4
  <2> QED BY <1>3, <2>2, <2>3
<1>8. /\ received' \in 0 .. Len(stream)
      /\ captured' = SubSeq(stream, 1, Least(received', maximum))
  <2>1. received' = received + n /\ captured' = Keep(captured, buffer, maximum).captured
    BY <1>1
  <2>2. have + kept = Least(received', maximum)
    BY <1>3, <2>1
  <2>3. received' \in 0 .. Len(stream)
    BY <1>2, <2>1
  <2> HIDE DEF buffer, have, kept
  <2>4. captured' = SubSeq(stream, 1, have + kept)
    BY <1>6, <1>7, <2>1, Zenon
  <2> QED BY <2>2, <2>3, <2>4, Zenon
<1>9. truncated' = (truncated \/ Keep(captured, buffer, maximum).cut)
  BY <1>1
<1> HIDE DEF buffer, have, kept
<1>10. truncated' \in BOOLEAN
  BY <1>9, Zenon
<1>11. received' > maximum => truncated'
  <2>1. received' > maximum => kept < n
    BY <1>1, <1>3
  <2> QED BY <1>6, <1>9, <2>1, Zenon
<1>12. truncated' => Len(stream) > maximum
  <2>1. truncated => Len(stream) > maximum
    BY DEF ReaderInv, ReadSoFar
  <2>2. kept < n => Len(stream) > maximum
    BY <1>2, <1>3
  <2> QED BY <1>6, <1>9, <2>1, <2>2, Zenon
<1> QED BY <1>8, <1>10, <1>11, <1>12, Zenon DEF ReadSoFar

(* ... and when all of it has been read, the text made of what was kept is *)
(* what the maximum promises, at most three times as long.                 *)
LEMMA OutputOfStream ==
    ASSUME NEW stream \in Seq(Bytes), NEW maximum \in Nat,
           ReaderInv(stream, maximum), AllRead(stream)
    PROVE  IsOutputOf(Output, stream, maximum)
<1> DEFINE m == Least(Len(stream), maximum)
<1> DEFINE text == FromUtf8Lossy(captured)
<1>1. Len(stream) \in Nat /\ m \in 0 .. maximum /\ m <= Len(stream)
      /\ (m < Len(stream) => m = maximum)
  BY LenProperties DEF Least
<1>2. captured = SubSeq(stream, 1, m)
  BY DEF ReaderInv, ReadSoFar, AllRead
<1> HIDE DEF m
<1>3. Len(captured) = m /\ \A i \in 1 .. m : captured[i] = stream[i]
  <2>1. \A i \in 1 .. m : stream[i] \in Bytes
    BY <1>1, ElementOfSeq
  <2>2. /\ Len(SubSeq(stream, 1, m)) = m
        /\ \A i \in 1 .. m : SubSeq(stream, 1, m)[i] = stream[i]
    BY <1>1, <2>1, SubSeqProperties
  <2> QED BY <1>2, <2>2
<1>4. DOMAIN text = 1 .. m
  BY <1>3 DEF FromUtf8Lossy
<1>5. ASSUME NEW i \in 1 .. m
      PROVE  PartOfCharacter(captured, i)
                <=> PartOfCharacter(stream, i) /\ ~ CutOff(stream, maximum, i)
  <2>1. captured[i] = stream[i] /\ i \in Nat
    BY <1>1, <1>3
  <2>2. i < m => captured[i + 1] = stream[i + 1]
    BY <1>1, <1>3
  <2>3. i > 1 => captured[i - 1] = stream[i - 1]
    BY <1>1, <1>3
  <2>4. i < m <=> i < Len(stream) /\ i # maximum
    BY <1>1
  <2> QED BY <1>3, <2>1, <2>2, <2>3, <2>4 DEF PartOfCharacter, CutOff
<1>6. ASSUME NEW i \in 1 .. m
      PROVE  text[i] = IF PartOfCharacter(stream, i) /\ ~ CutOff(stream, maximum, i)
                       THEN stream[i] ELSE Replaced
  BY <1>3, <1>5 DEF FromUtf8Lossy
<1> HIDE DEF text
<1>7. Size(text) <= 3 * maximum
  <2> DEFINE replaced == {i \in DOMAIN text : text[i] = Replaced}
  <2>1. IsFiniteSet(1 .. m) /\ Cardinality(1 .. m) = m
    BY <1>1, FS_Interval
  <2>2. replaced \subseteq 1 .. m
    BY <1>4
  <2> HIDE DEF replaced
  <2>3. /\ IsFiniteSet(replaced) /\ Cardinality(replaced) \in Nat
        /\ Cardinality(replaced) <= m
    BY <2>1, <2>2, FS_Subset, FS_CardinalityType
  <2>4. Cardinality((1 .. m) \ replaced) = m - Cardinality(replaced)
    <3>1. (1 .. m) \cap replaced = replaced
      BY <2>2
    <3> QED BY <2>1, <3>1, FS_Difference
  <2>5. Size(text) = Cardinality((1 .. m) \ replaced) + 3 * Cardinality(replaced)
    BY <1>4 DEF Size, replaced
  <2> QED BY <1>1, <2>3, <2>4, <2>5
<1>8. truncated <=> Len(stream) > maximum
  BY DEF ReaderInv, ReadSoFar, AllRead
<1>9. Output.text = text /\ Output.truncated = truncated
  BY DEF Output, text
<1> QED BY <1>4, <1>6, <1>7, <1>8, <1>9 DEF IsOutputOf, m

-----------------------------------------------------------------------------
(* The HTTP executor.                                                      *)

LEMMA HttpInvInit ==
    ASSUME Init, kind = "http"
    PROVE  HttpInv
<1>1. /\ pc = "start" /\ contacted = {} /\ pinned = {} /\ delivered = 0
      /\ response = NoResponse
      /\ received = 0 /\ captured = <<>> /\ truncated = FALSE
      /\ answer.is = "none"
  BY DEF Init, CallInit, HttpCalled, ReaderInit, NoAnswer
<1>2. AddressesInv
  BY <1>1 DEF AddressesInv
<1>3. DeliveryInv
  BY <1>1 DEF DeliveryInv
<1>4. BodyInv
  <2>1. response.body.bytes = <<>> /\ response.body.ends = TRUE
    BY <1>1 DEF NoResponse
  <2>2. <<>> \in Seq(Bytes)
    BY EmptySeq
  <2> QED BY <1>1, <2>1, <2>2 DEF BodyInv
<1>5. AnswerInv
  BY <1>1 DEF AnswerInv
<1> QED BY <1>2, <1>3, <1>4, <1>5 DEF HttpInv

LEMMA HttpInvStep ==
    ASSUME HttpInv, [Next]_vars, kind = "http"
    PROVE  HttpInv'
<1> USE HttpAssumption
<1> HttpInv
  OBVIOUS
<1>1. CASE CheckRequest
  <2>1. UNCHANGED <<httpVars, readerVars>> /\ pc = "start"
    BY <1>1 DEF CheckRequest
  <2>2. RequestBodyFits' = RequestBodyFits
    BY <2>1 DEF RequestBodyFits, BodyLength, httpVars
  <2>3. \/ pc' = "resolve" /\ RequestBodyFits /\ answer' = answer
        \/ pc' = "done" /\ answer'.is = "Err"
    <3>1. CASE RequestBodyFits /\ Goto("resolve")
      BY <3>1 DEF Goto
    <3>2. ASSUME NEW why, Return(Err(why))
          PROVE  pc' = "done" /\ answer'.is = "Err"
      BY <3>2, Returns, ErrIsNotOk
    <3> QED BY <1>1, <3>1, <3>2 DEF CheckRequest
  <2>4. AddressesInv'
    BY <2>1, <2>3 DEF HttpInv, AddressesInv, httpVars
  <2>5. DeliveryInv'
    BY <2>1, <2>2, <2>3 DEF HttpInv, DeliveryInv, httpVars
  <2>6. BodyInv'
    BY <2>1, <2>3 DEF HttpInv, BodyInv, httpVars, readerVars
  <2>7. AnswerInv'
    BY <2>1, <2>3 DEF HttpInv, AnswerInv, httpVars
  <2> QED BY <2>4, <2>5, <2>6, <2>7 DEF HttpInv
<1>2. CASE BuildClientForDestination
  <2>1. /\ pc = "resolve"
        /\ UNCHANGED <<method, request, dns, contacted, delivered, response,
                       readerVars>>
    BY <1>2 DEF BuildClientForDestination
  <2>2. RequestBodyFits' = RequestBodyFits
    BY <2>1 DEF RequestBodyFits, BodyLength
  <2>3. \/ ResolvesSafely /\ pinned' = dns /\ pc' = "connect" /\ answer' = answer
        \/ pinned' = pinned /\ pc' = "done" /\ answer'.is = "Err"
    <3>1. CASE ResolvesSafely /\ pinned' = dns /\ Goto("connect")
      BY <3>1 DEF Goto
    <3>2. ASSUME NEW why, Return(Err(why))
          PROVE  pc' = "done" /\ answer'.is = "Err"
      BY <3>2, Returns, ErrIsNotOk
    <3> QED BY <1>2, <3>1, <3>2 DEF BuildClientForDestination
  <2>4. AddressesInv'
    BY <2>1, <2>3 DEF HttpInv, AddressesInv, ResolvesSafely
  <2>5. DeliveryInv'
    BY <2>1, <2>2, <2>3 DEF HttpInv, DeliveryInv
  <2>6. BodyInv'
    BY <2>1, <2>3 DEF HttpInv, BodyInv, readerVars
  <2>7. AnswerInv'
    BY <2>1, <2>3 DEF HttpInv, AnswerInv
  <2> QED BY <2>4, <2>5, <2>6, <2>7 DEF HttpInv
<1>3. CASE Connect
  <2>1. /\ pc = "connect"
        /\ UNCHANGED <<method, request, dns, pinned, delivered, response, readerVars>>
    BY <1>3 DEF Connect
  <2>2. RequestBodyFits' = RequestBodyFits
    BY <2>1 DEF RequestBodyFits, BodyLength
  <2>3. contacted' \subseteq pinned /\ contacted' # {}
    BY <1>3 DEF Connect, HttpInv, AddressesInv
  <2>4. \/ pc' \in {"send", "connect"} /\ answer' = answer
        \/ pc' = "done" /\ answer'.is = "Err"
    <3>1. CASE Goto("send") \/ Goto("connect")
      BY <3>1 DEF Goto
    <3>2. CASE Return(Err("connect"))
      BY <3>2, Returns, ErrIsNotOk
    <3> QED BY <1>3, <3>1, <3>2 DEF Connect
  <2>5. AddressesInv'
    BY <2>1, <2>3, <2>4 DEF HttpInv, AddressesInv
  <2>6. DeliveryInv'
    BY <2>1, <2>2, <2>3, <2>4 DEF HttpInv, DeliveryInv
  <2>7. BodyInv'
    BY <2>1, <2>4 DEF HttpInv, BodyInv, readerVars
  <2>8. AnswerInv'
    BY <2>1, <2>4 DEF HttpInv, AnswerInv
  <2> QED BY <2>5, <2>6, <2>7, <2>8 DEF HttpInv
<1>4. CASE Send
  <2>1. /\ pc = "send"
        /\ UNCHANGED <<method, request, dns, pinned, contacted, readerVars>>
    BY <1>4 DEF Send
  <2>2. RequestBodyFits' = RequestBodyFits
    BY <2>1 DEF RequestBodyFits, BodyLength
  <2>3. delivered = 0 /\ contacted # {} /\ RequestBodyFits
    BY <2>1 DEF HttpInv, AddressesInv, DeliveryInv
  <2>4. \/ /\ delivered' = 1
           /\ response'.body.bytes \in Seq(Bytes)
           /\ ~ response'.body.ends => Len(response'.body.bytes) > MaxResponse
           /\ pc' = "body" /\ answer' = answer
        \/ /\ delivered' \in {0, 1} /\ response' = response
           /\ pc' = "done" /\ answer'.is = "Err"
    <3>1. ASSUME NEW s \in Statuses, NEW b \in ResponseBodies,
                 delivered' = delivered + 1, Goto("body"),
                 response' = [status |-> s, body |-> b]
          PROVE  /\ delivered' = 1
                 /\ response'.body.bytes \in Seq(Bytes)
                 /\ ~ response'.body.ends => Len(response'.body.bytes) > MaxResponse
                 /\ pc' = "body" /\ answer' = answer
      <4>1. response'.body = b
        BY <3>1
      <4>2. delivered' = 1
        BY <2>3, <3>1
      <4> QED BY <3>1, <4>1, <4>2 DEF Goto
    <3>2. ASSUME NEW why, Return(Err(why)), response' = response,
                 delivered' \in {delivered, delivered + 1}
          PROVE  /\ delivered' \in {0, 1} /\ response' = response
                 /\ pc' = "done" /\ answer'.is = "Err"
      <4>1. pc' = "done" /\ answer'.is = "Err"
        BY <3>2, Returns, ErrIsNotOk
      <4>2. delivered' \in {0, 1}
        BY <2>3, <3>2
      <4> QED BY <3>2, <4>1, <4>2
    <3> QED BY <1>4, <3>1, <3>2 DEF Send
  <2>5. AddressesInv'
    BY <2>1, <2>4 DEF HttpInv, AddressesInv
  <2>6. DeliveryInv'
    BY <2>1, <2>2, <2>3, <2>4 DEF DeliveryInv
  <2>7. BodyInv'
    <3>1. received = 0 /\ captured = <<>> /\ truncated = FALSE /\ UNCHANGED readerVars
      BY <2>1 DEF HttpInv, BodyInv
    <3>2. CASE /\ pc' = "body" /\ response'.body.bytes \in Seq(Bytes)
               /\ ~ response'.body.ends => Len(response'.body.bytes) > MaxResponse
      <4>1. ReadSoFar(response'.body.bytes, MaxResponse, 0, <<>>, FALSE)
        BY <3>2, StartsReading
      <4> QED BY <3>1, <3>2, <4>1 DEF BodyInv, ReaderInv, readerVars
    <3>3. CASE pc' = "done" /\ response' = response
      BY <3>3 DEF HttpInv, BodyInv
    <3> QED BY <2>4, <3>2, <3>3
  <2>8. AnswerInv'
    BY <2>1, <2>4 DEF HttpInv, AnswerInv
  <2> QED BY <2>5, <2>6, <2>7, <2>8 DEF HttpInv
<1>5. CASE ReadResponseBody
  <2>1. /\ pc = "body" /\ UNCHANGED httpVars
        /\ response.body.bytes \in Seq(Bytes) /\ ReaderInv(response.body.bytes, MaxResponse)
    BY <1>5 DEF ReadResponseBody, HttpInv, BodyInv
  <2>2. RequestBodyFits' = RequestBodyFits
    BY <2>1 DEF RequestBodyFits, BodyLength, httpVars
  <2>3. pc' \in {"body", "done"}
    BY <1>5, Returns DEF ReadResponseBody, Goto
  <2>4. AddressesInv'
    BY <2>1, <2>3 DEF HttpInv, AddressesInv, httpVars
  <2>5. DeliveryInv'
    BY <2>1, <2>2, <2>3 DEF HttpInv, DeliveryInv, httpVars
  <2>6. ASSUME ReadSome(response.body.bytes, MaxResponse), Goto("body")
        PROVE  BodyInv' /\ AnswerInv'
    <3>1. ReadSoFar(response.body.bytes, MaxResponse, received', captured', truncated')
      BY <2>1, <2>6, ReadsOn
    <3>2. pc' = "body" /\ answer' = answer
      BY <2>6 DEF Goto
    <3>3. BodyInv'
      BY <2>1, <3>1, <3>2 DEF HttpInv, BodyInv, ReaderInv, httpVars
    <3> QED BY <2>1, <3>2, <3>3 DEF HttpInv, AnswerInv
  <2>7. ASSUME AllRead(response.body.bytes),
               Return(Ok([status_code |-> response.status, body |-> Output]))
        PROVE  BodyInv' /\ AnswerInv'
    <3>1. pc' = "done" /\ answer'.value.body = Output
      BY <2>7, Returns DEF Ok
    <3>2. IsOutputOf(Output, response.body.bytes, MaxResponse)
      BY <2>1, <2>7, OutputOfStream
    <3>3. delivered = 1
      BY <2>1 DEF HttpInv, DeliveryInv
    <3>4. AnswerInv'
      BY <2>1, <3>1, <3>2, <3>3 DEF AnswerInv, httpVars
    <3> QED BY <2>1, <3>1, <3>4 DEF HttpInv, BodyInv, httpVars
  <2>8. ASSUME Return(Err("body"))
        PROVE  BodyInv' /\ AnswerInv'
    <3>1. pc' = "done" /\ answer'.is = "Err"
      BY <2>8, Returns, ErrIsNotOk
    <3> QED BY <2>1, <3>1 DEF HttpInv, BodyInv, AnswerInv, httpVars
  <2> QED BY <1>5, <2>4, <2>5, <2>6, <2>7, <2>8 DEF ReadResponseBody, HttpInv
<1>6. CASE SendMore
  <2>1. /\ pc = "body" /\ ~ response.body.ends /\ AllRead(response.body.bytes)
        /\ received' = MaxResponse
        /\ UNCHANGED <<callState, httpVars, captured, truncated>>
    BY <1>6 DEF SendMore
  <2>2. /\ Len(response.body.bytes) > MaxResponse
        /\ ReaderInv(response.body.bytes, MaxResponse)
        /\ Len(response.body.bytes) \in Nat
    BY <2>1, LenProperties DEF HttpInv, BodyInv
  <2>3. ReadSoFar(response.body.bytes, MaxResponse, received', captured', truncated')
    <3>1. Least(received, MaxResponse) = MaxResponse /\ Least(MaxResponse, MaxResponse) = MaxResponse
      BY <2>1, <2>2 DEF AllRead, Least
    <3>2. MaxResponse \in 0 .. Len(response.body.bytes) /\ ~ MaxResponse > MaxResponse
      BY <2>2
    <3> QED BY <2>1, <2>2, <3>1, <3>2 DEF ReaderInv, ReadSoFar
  <2>4. BodyInv'
    BY <2>1, <2>3 DEF HttpInv, BodyInv, ReaderInv, callState, httpVars
  <2> QED BY <2>1, <2>4 DEF HttpInv, AddressesInv, DeliveryInv, AnswerInv, RequestBodyFits,
            BodyLength, callState, httpVars
<1>7. CASE UNCHANGED <<callState, method, request, pinned, contacted, delivered,
                       response, readerVars>>
  BY <1>7 DEF callState, readerVars, HttpInv, AddressesInv, DeliveryInv, BodyInv, AnswerInv,
        ReaderInv, RequestBodyFits, BodyLength
<1> QED
  BY <1>1, <1>2, <1>3, <1>4, <1>5, <1>6, <1>7
     DEF Next, HttpNext, ExecuteHttp, ChangeName, vars, httpVars

(* What the invariant says of a call is what is promised of it.            *)
LEMMA VettedByHttp ==
    ASSUME kind = "http" => HttpInv
    PROVE  ContactsVettedAddress /\ ResponseIsBounded
<1>1. ContactsVettedAddress
  BY DEF HttpInv, AddressesInv, DeliveryInv, AnswerInv, ContactsVettedAddress
<1>2. ResponseIsBounded
  BY DEF HttpInv, AnswerInv, ResponseIsBounded
<1> QED BY <1>1, <1>2

-----------------------------------------------------------------------------
(* The git status.                                                         *)

(* The columns of a listed entry give back the flags they stand for, and   *)
(* drop the others.                                                        *)
LEMMA ColumnsKeepFlags ==
    ASSUME NEW flags
    PROVE  LET entry == [index |-> Column(flags, "INDEX"), worktree |-> Column(flags, "WT")]
           IN  /\ entry \in [index : SUBSET Changes, worktree : SUBSET Changes]
               /\ Flagged(entry) = flags \cap ColumnFlags
<1> DEFINE entry == [index |-> Column(flags, "INDEX"), worktree |-> Column(flags, "WT")]
<1>1. entry \in [index : SUBSET Changes, worktree : SUBSET Changes]
  BY DEF Column
<1>2. ASSUME NEW f
      PROVE  f \in Flagged(entry) <=> f \in flags \cap ColumnFlags
  <2>1. f \in Flagged(entry) <=> \/ \E c \in Column(flags, "INDEX") : f = <<"INDEX", c>>
                                \/ \E c \in Column(flags, "WT") : f = <<"WT", c>>
    BY DEF Flagged
  <2>2. f \in ColumnFlags <=> \E name \in {"INDEX", "WT"}, c \in Changes : f = <<name, c>>
    BY DEF ColumnFlags
  <2> HIDE DEF entry
  <2> QED BY <2>1, <2>2 DEF Column
<1> QED BY <1>1, <1>2

LEMMA GitInvInit ==
    ASSUME Init, kind = "git"
    PROVE  GitInv
<1>1. /\ pc = "start" /\ answer.is = "none" /\ entries = <<>>
      /\ listing \in Seq(ListedEntries) /\ Len(listing) \in Nat
  BY DEF Init, CallInit, GitCalled, NoAnswer
<1>2. entries \in Seq([index : SUBSET Changes, worktree : SUBSET Changes]) /\ Len(entries) = 0
  BY <1>1, EmptySeq
<1> QED BY <1>1, <1>2, GitAssumption DEF GitInv

LEMMA GitInvStep ==
    ASSUME GitInv, [Next]_vars, kind = "git"
    PROVE  GitInv'
<1>1. CASE OpenRepository
  BY <1>1 DEF OpenRepository, gitVars, GitInv, Goto, Return, ReturnReleasing, Err
<1>2. CASE CollectEntry
  <2>1. /\ pc = "collect" /\ UNCHANGED <<repository, listing>>
        /\ repository.worktreeIsRoot /\ repository.gitDirInside
    BY <1>2 DEF CollectEntry, GitInv
  <2>2. CASE /\ Len(entries) = Len(listing) /\ entries' = entries
             /\ pc' = "done" /\ answer' = Ok(entries)
    BY <2>1, <2>2 DEF GitInv, Ok
  <2>3. CASE entries' = entries /\ pc' = "done" /\ answer' = Err("entries")
    BY <2>1, <2>3 DEF GitInv, Err
  <2>4. ASSUME Len(entries) # Len(listing), HasCapacity(Len(entries)),
               entries' = Append(entries,
                    [index |-> Column(listing[Len(entries) + 1].flags, "INDEX"),
                     worktree |-> Column(listing[Len(entries) + 1].flags, "WT")]),
               pc' = "collect", answer' = answer
        PROVE  GitInv'
    <3> DEFINE flags == listing[Len(entries) + 1].flags
    <3> DEFINE collected == [index |-> Column(flags, "INDEX"),
                             worktree |-> Column(flags, "WT")]
    <3>1. Len(entries) + 1 <= Len(listing) /\ Len(entries) + 1 <= MaxEntries
      BY <2>4, GitAssumption DEF GitInv, HasCapacity
    <3>2. /\ collected \in [index : SUBSET Changes, worktree : SUBSET Changes]
          /\ Flagged(collected) = flags \cap ColumnFlags
      BY ColumnsKeepFlags
    <3> HIDE DEF collected
    <3>3. /\ entries' \in Seq([index : SUBSET Changes, worktree : SUBSET Changes])
          /\ Len(entries') = Len(entries) + 1
          /\ entries'[Len(entries) + 1] = collected
          /\ \A i \in 1 .. Len(entries) : entries'[i] = entries[i]
      BY <2>4, <3>2 DEF GitInv, collected
    <3>4. \A i \in 1 .. Len(entries') :
            Flagged(entries'[i]) = listing[i].flags \cap ColumnFlags
      BY <3>2, <3>3 DEF GitInv
    <3> QED BY <2>1, <2>4, <3>1, <3>3, <3>4 DEF GitInv
  <2> QED BY <1>2, <2>2, <2>3, <2>4 DEF CollectEntry, Goto, Return, ReturnReleasing
<1>3. CASE UNCHANGED vars
  BY <1>3 DEF vars, callState, gitVars, GitInv
<1> QED BY <1>1, <1>2, <1>3 DEF Next, GitNext

(* What the invariant says of a call is what is promised of it.            *)
LEMMA WholeByGit ==
    ASSUME kind = "git" => GitInv
    PROVE  StatusIsWhole
BY DEF GitInv, StatusIsWhole

-----------------------------------------------------------------------------
(* Each call keeps the invariant of its executor.                          *)
THEOREM CallsInvariant == Spec => []CallsInv
<1>1. Init => CallsInv
  BY ConfigInvInit, TimerInvInit, HttpInvInit, GitInvInit DEF CallsInv
<1>2. CallsInv /\ [Next]_vars => CallsInv'
  BY KindStays, ConfigInvStep, TimerInvStep, HttpInvStep, GitInvStep DEF CallsInv
<1> QED BY <1>1, <1>2, PTL DEF Spec

(* Whatever the configuration file and the request are, if the gateway     *)
(* starts with the file: what is held for review can be decided, nothing   *)
(* with an effect is allowed unreviewed, an allowed URL is https to a host *)
(* that the file (or the default) names, and every limit is within its     *)
(* bounds.                                                                 *)
THEOREM DecidesWithinTheConfiguration == Spec => []DecisionIsBacked
<1>1. CallsInv => DecisionIsBacked
  BY BackedByConfig DEF CallsInv
<1> QED BY <1>1, CallsInvariant, PTL

(* Whatever the name resolves to before and after it was looked at, only   *)
(* vetted addresses are contacted and the request is delivered at most     *)
(* once.                                                                   *)
THEOREM HttpContactsVettedAddress == Spec => []ContactsVettedAddress
<1>1. CallsInv => ContactsVettedAddress
  BY VettedByHttp DEF CallsInv
<1> QED BY <1>1, CallsInvariant, PTL

(* For any limit, buffer and body, over reads of any size: the body in the *)
(* answer is the text of the first bytes that fit, flagged exactly when    *)
(* there were more; each byte is as the server sent it unless it is part   *)
(* of no character or of one the limit cuts, and with the replacements the *)
(* text is at most three times as long as the limit.                       *)
THEOREM HttpResponseIsBounded == Spec => []ResponseIsBounded
<1>1. CallsInv => ResponseIsBounded
  BY VettedByHttp DEF CallsInv
<1> QED BY <1>1, CallsInvariant, PTL

(* For any sets of flags, those the code does not look at among them: a    *)
(* status that is answered has every entry listed, in the order of the     *)
(* list, with exactly the changes that its flags name, and no more entries *)
(* than the maximum.                                                       *)
THEOREM GitStatusIsWhole == Spec => []StatusIsWhole
<1>1. CallsInv => StatusIsWhole
  BY WholeByGit DEF CallsInv
<1> QED BY <1>1, CallsInvariant, PTL
=============================================================================

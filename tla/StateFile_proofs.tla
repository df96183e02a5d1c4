-------------------------- MODULE StateFile_proofs --------------------------
(***************************************************************************)
(* Proofs about StateFile, for any ids and any reviews its constructors    *)
(* build: what a reader of the state file finds, that temporary files are  *)
(* removed, and that the calls of save implement the store with its three  *)
(* results.                                                                *)
(*                                                                         *)
(* The inductive invariant ties the file to the progress of save.  Until   *)
(* the rename the disk is what it was when the operation began (previous), *)
(* and that is what the operation undone would say (Undone); after it the  *)
(* state file is the serialized memory, beside the earlier contents until  *)
(* the directory is synced.  That the content of the file loads as the     *)
(* maps it was serialized from (RoundTrip) is what makes the two views of  *)
(* the disk, as bytes here and as maps in the store, the same.             *)
(***************************************************************************)
EXTENDS StateFile, TLAPS

ReviewMap == [Ids -> Reviews \cup {NoReview}]

(* No id is pending and claimed at once.                                   *)
Apart(pending, taken) == \A id \in Ids : ~ (Has(pending, id) /\ Has(taken, id))

(* A content the next start can read, and the maps it then has.            *)
Usable(content) ==
    /\ content # Torn
    /\ Loads(content)
    /\ Loaded(content).pending \in ReviewMap
    /\ Loaded(content).claimed \in ReviewMap
    /\ Apart(Loaded(content).pending, Loaded(content).claimed)

(* It names only ids that were given to insert.                            *)
Known(content) ==
    \A id \in Ids \ issued : /\ ~ Has(Loaded(content).pending, id)
                             /\ ~ Has(Loaded(content).claimed, id)

Memory == [pending |-> reviews, claimed |-> claimed]

-----------------------------------------------------------------------------
StateTypeOK ==
    /\ pc \in {"down", "idle", "killed", "create", "write", "sync", "rename",
               "syncDir", "unlink", "return"}
    /\ reviews \in ReviewMap
    /\ claimed \in ReviewMap
    /\ Apart(reviews, claimed)
    /\ progress \in {"none", "renamed", "synced"}

(* What an operation under way has done to the maps.                       *)
OpInv ==
    /\ op \in [name : Operations, id : Ids, review : Reviews]
    /\ op.name = "insert" => /\ op.id \notin issued
                             /\ reviews[op.id] = op.review
    /\ op.name = "claim" => /\ claimed[op.id] = op.review
    /\ op.name = "restore" => /\ reviews[op.id] = op.review
    /\ op.name = "consume" => /\ ~ Has(reviews, op.id)
                              /\ ~ Has(claimed, op.id)

(* The disk when the operation began.                                      *)
PreviousInv ==
    /\ previous.file \in previous.mayFind
    /\ \A content \in previous.mayFind : Usable(content) /\ Known(content)
    /\ Loaded(previous.file) = Undone(op)

(* The disk as far as save came.                                           *)
ProgressInv ==
    \/ /\ progress = "none"
       /\ pc # "syncDir"
       /\ stateFile = previous.file /\ mayFind = previous.mayFind
    \/ /\ progress = "renamed"
       /\ pc \in {"syncDir", "unlink", "return"}
       /\ Serializable(reviews, claimed)
       /\ stateFile = Serialized(reviews, claimed)
       /\ mayFind = previous.mayFind \cup {stateFile}
    \/ /\ progress = "synced"
       /\ pc = "return"
       /\ Serializable(reviews, claimed)
       /\ stateFile = Serialized(reviews, claimed)
       /\ mayFind = {stateFile}

(* The temporary file along the calls of save.                             *)
TempInv ==
    /\ temp = [is |-> temp.is, content |-> temp.content, synced |-> temp.synced]
    /\ pc \in {"sync", "rename", "syncDir"} =>
            temp.content = Serialized(reviews, claimed)
    /\ pc \in {"rename", "syncDir"} => temp.synced
    /\ pc = "syncDir" => temp.is = "renamed"
    /\ pc = "return" => temp.is # "present"

(* The inductive invariant.                                                *)
FileInv ==
    /\ StateTypeOK
    /\ stateFile \in mayFind
    /\ \A content \in mayFind : Usable(content)
    /\ ~ Busy => \A content \in mayFind : Known(content)
    /\ pc = "idle" => Loaded(stateFile) = Memory
    /\ pc = "down" => reviews = EmptyMap /\ claimed = EmptyMap
    /\ pc = "killed" => Loaded(stateFile) = Outcome
    /\ Busy => OpInv /\ PreviousInv /\ ProgressInv
    /\ pc \in {"create", "write", "sync", "rename", "syncDir"} =>
            Serializable(reviews, claimed)
    /\ TempInv

-----------------------------------------------------------------------------
(* What a review's persisted form keeps of it: everything.                 *)
LEMMA ReviewRoundTrip ==
    ASSUME NEW review \in Reviews, Persistable(review), NEW id, NEW status
    PROVE  FromPersisted(ToPersisted(id, review, status)) = review
  <1> DEFINE persisted == ToPersisted(id, review, status)
  <1>1. CASE review.request = "WriteFile"
    <2>1. review = NewWithWriteTargetState("WriteFile", review.write_target_state)
      BY <1>1, ReviewsAssumption
         DEF New, NewWithWorkspaceFingerprint, NewWithWriteTargetState, Persistable
    <2>2. /\ persisted.type = "WriteFile"
          /\ persisted.captured = review.write_target_state
      BY <1>1 DEF ToPersisted
    <2>3. QED
      BY <2>1, <2>2 DEF FromPersisted
  <1>2. CASE review.request = "RunCargoTest"
    <2>1. review = NewWithWorkspaceFingerprint("RunCargoTest",
                                               review.workspace_fingerprint)
      BY <1>2, ReviewsAssumption
         DEF New, NewWithWorkspaceFingerprint, NewWithWriteTargetState, Persistable
    <2>2. /\ persisted.type = "RunCargoTest"
          /\ persisted.captured = review.workspace_fingerprint
      BY <1>2 DEF ToPersisted
    <2>3. QED
      BY <2>1, <2>2 DEF FromPersisted
  <1>3. CASE review.request = "HttpPost"
    <2>1. review = New("HttpPost")
      BY <1>3, ReviewsAssumption
         DEF New, NewWithWorkspaceFingerprint, NewWithWriteTargetState
    <2>2. persisted.type = "HttpPost"
      BY <1>3 DEF ToPersisted
    <2>3. QED
      BY <2>1, <2>2 DEF FromPersisted
  <1>4. QED
    BY <1>1, <1>2, <1>3 DEF Persistable

(* The entries of a map with a status, and the map that is read from them. *)
LEMMA MapRoundTrip ==
    ASSUME NEW map \in ReviewMap, NEW status, NEW content,
           content \notin {Missing, Torn},
           \A id \in Ids : Has(map, id) => Persistable(map[id]),
           \A id \in Ids :
              {p \in content.reviews : p.request_id = id /\ p.status = status} =
                IF Has(map, id) THEN {ToPersisted(id, map[id], status)} ELSE {}
    PROVE  LoadedMap(content, status) = map
  <1> DEFINE found(id) ==
        {p \in content.reviews : p.request_id = id /\ p.status = status}
  <1> DEFINE read(id) == IF found(id) = {} THEN NoReview
                         ELSE FromPersisted(CHOOSE p \in found(id) : TRUE)
  <1>1. LoadedMap(content, status) = [id \in Ids |-> read(id)]
    BY DEF LoadedMap
  <1>2. ASSUME NEW id \in Ids
        PROVE  read(id) = map[id]
    <2>1. CASE Has(map, id)
      <3>1. found(id) = {ToPersisted(id, map[id], status)}
        BY <2>1
      <3>2. (CHOOSE p \in found(id) : TRUE) = ToPersisted(id, map[id], status)
        BY <3>1
      <3>3. map[id] \in Reviews
        BY <2>1 DEF ReviewMap, Has
      <3>4. QED
        BY <2>1, <3>1, <3>2, <3>3, ReviewRoundTrip
    <2>2. CASE ~ Has(map, id)
      BY <2>2 DEF Has
    <2>3. QED
      BY <2>1, <2>2
  <1> HIDE DEF read
  <1>3. QED
    BY <1>1, <1>2 DEF ReviewMap

(* What is written can be read, and is what was in memory.                 *)
LEMMA RoundTrip ==
    ASSUME NEW pending \in ReviewMap, NEW taken \in ReviewMap,
           Serializable(pending, taken), Apart(pending, taken)
    PROVE  /\ Loaded(Serialized(pending, taken)) =
                  [pending |-> pending, claimed |-> taken]
           /\ Usable(Serialized(pending, taken))
  <1> DEFINE content == Serialized(pending, taken)
  <1>1. content \notin {Missing, Torn}
    BY ContentAssumption DEF ReviewMap
  <1>2. \A p \in content.reviews :
            \E id \in Ids :
                \/ Has(pending, id) /\ p = ToPersisted(id, pending[id], "pending")
                \/ Has(taken, id) /\ p = ToPersisted(id, taken[id], "claimed")
    BY DEF Serialized
  <1>3. ASSUME NEW id, NEW review, NEW status
        PROVE  /\ ToPersisted(id, review, status).request_id = id
               /\ ToPersisted(id, review, status).status = status
    BY DEF ToPersisted
  <1>4. \A id \in Ids :
            {p \in content.reviews : p.request_id = id /\ p.status = "pending"} =
              IF Has(pending, id) THEN {ToPersisted(id, pending[id], "pending")}
              ELSE {}
    BY <1>3 DEF Serialized
  <1>5. \A id \in Ids :
            {p \in content.reviews : p.request_id = id /\ p.status = "claimed"} =
              IF Has(taken, id) THEN {ToPersisted(id, taken[id], "claimed")}
              ELSE {}
    BY <1>3 DEF Serialized
  <1>6. LoadedMap(content, "pending") = pending
    BY <1>1, <1>4, MapRoundTrip DEF Serializable
  <1>7. LoadedMap(content, "claimed") = taken
    BY <1>1, <1>5, MapRoundTrip DEF Serializable
  <1>8. content.version = Version
    BY DEF Serialized
  <1>9. \A p, q \in content.reviews : p.request_id = q.request_id => p = q
    BY <1>2, <1>3 DEF Apart
  <1>10. Loads(content)
    BY <1>1, <1>8, <1>9 DEF Loads
  <1>11. QED
    BY <1>1, <1>6, <1>7, <1>10 DEF Loaded, Usable

LEMMA MissingIsUsable ==
    /\ Loaded(Missing) = [pending |-> EmptyMap, claimed |-> EmptyMap]
    /\ Usable(Missing)
  <1>1. EmptyMap \in ReviewMap /\ Apart(EmptyMap, EmptyMap)
    BY DEF EmptyMap, ReviewMap, Apart, Has
  <1>2. \A status : LoadedMap(Missing, status) = EmptyMap
    BY DEF LoadedMap, EmptyMap
  <1>3. QED
    BY <1>1, <1>2, ContentAssumption DEF Loaded, Usable, Loads

-----------------------------------------------------------------------------
(* The maps an operation begins with are typed, and undoing what it did to *)
(* them gives back exactly those.                                          *)
LEMMA ChangesAreUndone ==
    ASSUME StateTypeOK, \A id \in Ids \ issued : ~ Has(reviews, id) /\ ~ Has(claimed, id),
           NEW name \in Operations, NEW id \in Ids, NEW review \in Reviews,
           Changes(name, id, review),
           op' = [name |-> name, id |-> id, review |-> review],
           UNCHANGED issued
    PROVE  /\ reviews' \in ReviewMap
           /\ claimed' \in ReviewMap
           /\ Apart(reviews, claimed)'
           /\ Undone(op)' = Memory
           /\ OpInv'
  <1> USE NoReviewAssumption DEF StateTypeOK, ReviewMap, Apart, Has, With, Without
  <1>1. /\ op' \in [name : Operations, id : Ids, review : Reviews]
        /\ op'.name = name /\ op'.id = id /\ op'.review = review
    OBVIOUS
  <1>2. CASE name = "insert"
    <2>1. /\ reviews' = [reviews EXCEPT ![id] = review]
          /\ claimed' = claimed
          /\ id \notin issued /\ reviews[id] = NoReview
      BY <1>2 DEF Changes
    <2>2. [reviews' EXCEPT ![id] = NoReview] = reviews
      BY <2>1
    <2>3. Undone(op)' = Memory
      BY <1>1, <1>2, <2>1, <2>2 DEF Undone, Memory
    <2>4. QED
      BY <1>1, <1>2, <2>1, <2>3 DEF OpInv
  <1>3. CASE name = "claim"
    <2>1. /\ reviews' = [reviews EXCEPT ![id] = NoReview]
          /\ claimed' = [claimed EXCEPT ![id] = review]
          /\ reviews[id] = review /\ claimed[id] = NoReview
      BY <1>3 DEF Changes
    <2>2. /\ [reviews' EXCEPT ![id] = review] = reviews
          /\ [claimed' EXCEPT ![id] = NoReview] = claimed
      BY <2>1
    <2>3. Undone(op)' = Memory
      BY <1>1, <1>3, <2>1, <2>2 DEF Undone, Memory
    <2>4. QED
      BY <1>1, <1>3, <2>1, <2>3 DEF OpInv
  <1>4. CASE name = "restore"
    <2>1. /\ claimed' = [claimed EXCEPT ![id] = NoReview]
          /\ reviews' = [reviews EXCEPT ![id] = review]
          /\ claimed[id] = review /\ reviews[id] = NoReview
      BY <1>4 DEF Changes
    <2>2. /\ [reviews' EXCEPT ![id] = NoReview] = reviews
          /\ [claimed' EXCEPT ![id] = review] = claimed
      BY <2>1
    <2>3. Undone(op)' = Memory
      BY <1>1, <1>4, <2>1, <2>2 DEF Undone, Memory
    <2>4. QED
      BY <1>1, <1>4, <2>1, <2>3 DEF OpInv
  <1>5. CASE name = "consume"
    <2>1. /\ claimed' = [claimed EXCEPT ![id] = NoReview]
          /\ reviews' = reviews
          /\ claimed[id] = review /\ reviews[id] = NoReview
      BY <1>5 DEF Changes
    <2>2. [claimed' EXCEPT ![id] = review] = claimed
      BY <2>1
    <2>3. Undone(op)' = Memory
      BY <1>1, <1>5, <2>1, <2>2 DEF Undone, Memory
    <2>4. QED
      BY <1>1, <1>5, <2>1, <2>3 DEF OpInv
  <1>6. QED
    BY <1>2, <1>3, <1>4, <1>5 DEF Operations

LEMMA BeginKeepsInv == FileInv /\ Begin => FileInv'
  <1> SUFFICES ASSUME FileInv, Begin PROVE FileInv'
    OBVIOUS
  <1>1. PICK name \in Operations, id \in Ids, review \in Reviews :
            /\ Changes(name, id, review)
            /\ op' = [name |-> name, id |-> id, review |-> review]
    BY DEF Begin
  <1>2. /\ pc = "idle" /\ ~ Busy
        /\ UNCHANGED <<stateFile, mayFind, issued>>
        /\ progress' = "none" /\ temp' = NoTemp
        /\ previous' = [file |-> stateFile, mayFind |-> mayFind]
        /\ pc' \in {"create", "return"}
        /\ pc' = "create" => Serializable(reviews', claimed')
    BY DEF Begin, disk, callVars, Busy
  <1>3. /\ StateTypeOK
        /\ Loaded(stateFile) = Memory
        /\ stateFile \in mayFind
        /\ \A content \in mayFind : Usable(content) /\ Known(content)
    BY <1>2 DEF FileInv
  <1>4. \A i \in Ids \ issued : ~ Has(reviews, i) /\ ~ Has(claimed, i)
    BY <1>3 DEF Known, Memory
  <1>5. /\ reviews' \in ReviewMap
        /\ claimed' \in ReviewMap
        /\ Apart(reviews, claimed)'
        /\ Undone(op)' = Memory
        /\ OpInv'
    BY <1>1, <1>2, <1>3, <1>4, ChangesAreUndone
  <1>6. Serializable(reviews, claimed)' = Serializable(reviews', claimed')
    BY DEF Serializable
  <1>7. StateTypeOK'
    BY <1>2, <1>5 DEF StateTypeOK
  <1>8. PreviousInv' /\ ProgressInv'
    BY <1>2, <1>3, <1>5 DEF PreviousInv, ProgressInv, Known
  <1>9. TempInv'
    BY <1>2 DEF TempInv, NoTemp
  <1>10. Busy'
    BY <1>2 DEF Busy
  <1>11. QED
    BY <1>2, <1>3, <1>5, <1>6, <1>7, <1>8, <1>9, <1>10 DEF FileInv

-----------------------------------------------------------------------------
(* The calls of save change neither the maps nor what they are compared    *)
(* with.                                                                   *)
SaveStep == CreateTemp \/ WriteTemp \/ SyncTemp \/ Rename \/ SyncDirectory
            \/ UnlinkTemp

LEMMA SaveFrame ==
    ASSUME SaveStep
    PROVE  /\ Busy /\ Busy'
           /\ pc # "return"
           /\ UNCHANGED <<reviews, claimed, op, issued, accepted, released,
                          owned, previous>>
  BY DEF SaveStep, CreateTemp, WriteTemp, SyncTemp, Rename, SyncDirectory,
         UnlinkTemp, Fails, Busy, memory, callVars

LEMMA SaveKeepsInv == FileInv /\ SaveStep => FileInv'
  <1> SUFFICES ASSUME FileInv, SaveStep PROVE FileInv'
    OBVIOUS
  <1>1. /\ Busy /\ Busy'
        /\ pc # "return"
        /\ UNCHANGED <<reviews, claimed, op, issued, accepted, released,
                       owned, previous>>
    BY SaveFrame
  <1>2. OpInv /\ PreviousInv /\ ProgressInv /\ StateTypeOK /\ TempInv
    BY <1>1 DEF FileInv
  <1>3. /\ Undone(op)' = Undone(op)
        /\ Serialized(reviews, claimed)' = Serialized(reviews, claimed)
        /\ Serializable(reviews, claimed)' = Serializable(reviews, claimed)
        /\ Apart(reviews, claimed)' = Apart(reviews, claimed)
    BY <1>1 DEF Undone, Serialized, Serializable, Apart
  <1>4. OpInv' /\ PreviousInv'
    BY <1>1, <1>2, <1>3 DEF OpInv, PreviousInv, Known
  <1>5. Serializable(reviews, claimed) => Usable(Serialized(reviews, claimed))
    BY <1>2, RoundTrip DEF StateTypeOK
  <1>6. /\ StateTypeOK' /\ ProgressInv' /\ TempInv'
        /\ stateFile' \in mayFind'
        /\ \A content \in mayFind' : Usable(content)
        /\ pc' \in {"create", "write", "sync", "rename", "syncDir"} =>
              Serializable(reviews, claimed)
    <2> USE <1>1, <1>2, <1>3 DEF StateTypeOK, ProgressInv, TempInv
    <2>1. CASE CreateTemp
      BY <2>1 DEF CreateTemp, Fails, FileInv, NoTemp, disk
    <2>2. CASE WriteTemp
      BY <2>2 DEF WriteTemp, Fails, FileInv, NoTemp, disk
    <2>3. CASE SyncTemp
      BY <2>3 DEF SyncTemp, Fails, FileInv, NoTemp, disk
    <2>4. CASE Rename
      <3>1. CASE Fails
        BY <2>4, <3>1 DEF Rename, Fails, FileInv, NoTemp, disk
      <3>2. CASE ~ Fails
        <4>1. /\ pc = "rename" /\ pc' = "syncDir"
              /\ progress' = "renamed"
              /\ stateFile' = temp.content
              /\ mayFind' = mayFind \cup Found(temp)
              /\ temp' = [temp EXCEPT !.is = "renamed"]
          BY <2>4, <3>2 DEF Rename
        <4>2. /\ temp.content = Serialized(reviews, claimed)
              /\ Found(temp) = {temp.content}
              /\ Serializable(reviews, claimed)
          BY <4>1 DEF FileInv, Found
        <4>3. mayFind = previous.mayFind
          BY <4>1
        <4>4. /\ temp'.is = "renamed"
              /\ temp'.content = temp.content
              /\ temp'.synced = temp.synced
          BY <4>1
        <4>5. QED
          BY <4>1, <4>2, <4>3, <4>4, <1>5 DEF FileInv
      <3>3. QED
        BY <3>1, <3>2
    <2>5. CASE SyncDirectory
      BY <2>5, <1>5 DEF SyncDirectory, Fails, FileInv, NoTemp, disk, Found
    <2>6. CASE UnlinkTemp
      BY <2>6 DEF UnlinkTemp, FileInv, NoTemp, disk
    <2>7. QED
      BY <2>1, <2>2, <2>3, <2>4, <2>5, <2>6 DEF SaveStep
  <1>7. QED
    BY <1>1, <1>3, <1>4, <1>6 DEF FileInv, Busy

-----------------------------------------------------------------------------
(* What the end of an operation, by its answer or by a kill, leaves as the *)
(* result: the earlier maps before the rename, the new ones after it.      *)
Kept(result) == IF result = "beforeCommit" THEN Undone(op) ELSE Memory

(* The result that belongs to the progress of save.                        *)
Fitting(result) ==
    /\ result \in {"ok", "beforeCommit", "afterCommit"}
    /\ result = "ok" <=> progress = "synced"
    /\ result = "afterCommit" <=> progress = "renamed"

(* Once the caller is told, every id on the disk was given to insert, and  *)
(* the state file reads as the maps that are kept.                         *)
LEMMA EndOfOperation ==
    ASSUME FileInv, Busy, NEW result, Fitting(result), Account(result)
    PROVE  /\ Loaded(stateFile) = Kept(result)
           /\ Usable(stateFile)
           /\ \A content \in mayFind : Known(content)'
           /\ result = "beforeCommit" =>
                 /\ Loaded(stateFile) = Loaded(previous.file)
                 /\ mayFind = previous.mayFind
           /\ result # "beforeCommit" =>
                 /\ stateFile = Serialized(reviews, claimed)
                 /\ Loaded(stateFile) = Memory
           /\ result = "ok" => mayFind = {stateFile}
           /\ result = "afterCommit" =>
                 mayFind = previous.mayFind \cup {stateFile}
  <1>1. OpInv /\ PreviousInv /\ ProgressInv /\ StateTypeOK
    BY DEF FileInv
  <1>2. /\ op.id \in Ids /\ op.name \in Operations /\ op.review \in Reviews
        /\ issued \subseteq issued'
        /\ op.name = "insert" => op.id \in issued'
    BY <1>1 DEF OpInv, Account
  <1>3. Serializable(reviews, claimed) => Loaded(Serialized(reviews, claimed)) = Memory
    BY <1>1, RoundTrip DEF StateTypeOK, Memory
  <1>4. \A id \in Ids \ issued : /\ ~ Has(Undone(op).pending, id)
                                 /\ ~ Has(Undone(op).claimed, id)
    BY <1>1 DEF PreviousInv, Known
  <1>5. \A id \in Ids \ issued' : ~ Has(reviews, id) /\ ~ Has(claimed, id)
    <2> SUFFICES ASSUME NEW id \in Ids \ issued'
                 PROVE  ~ Has(reviews, id) /\ ~ Has(claimed, id)
      OBVIOUS
    <2>1. ~ Has(Undone(op).pending, id) /\ ~ Has(Undone(op).claimed, id)
      BY <1>2, <1>4
    <2>2. CASE id = op.id
      BY <1>1, <1>2, <2>1, <2>2, NoReviewAssumption
         DEF Undone, Has, With, Without, Operations, StateTypeOK, ReviewMap
    <2>3. CASE id # op.id
      BY <1>1, <1>2, <2>1, <2>3
         DEF Undone, Has, With, Without, Operations, StateTypeOK, ReviewMap
    <2>4. QED
      BY <2>2, <2>3
  <1>6. \A content : Loaded(content) = Memory => Known(content)'
    BY <1>5 DEF Known, Memory
  <1>7. \A content \in previous.mayFind : Known(content)'
    BY <1>1, <1>2 DEF PreviousInv, Known
  <1>8. /\ Loaded(stateFile) = Kept(result)
        /\ result = "beforeCommit" =>
                 /\ Loaded(stateFile) = Loaded(previous.file)
                 /\ mayFind = previous.mayFind
        /\ result # "beforeCommit" =>
                 /\ stateFile = Serialized(reviews, claimed)
                 /\ Loaded(stateFile) = Memory
        /\ result = "ok" => mayFind = {stateFile}
        /\ result = "afterCommit" =>
                 mayFind = previous.mayFind \cup {stateFile}
    BY <1>1, <1>3 DEF Fitting, ProgressInv, PreviousInv, Kept
  <1>9. Usable(stateFile)
    BY DEF FileInv
  <1>10. \A content \in mayFind : Known(content)'
    <2>1. CASE result = "beforeCommit"
      BY <2>1, <1>7, <1>8
    <2>2. CASE result # "beforeCommit"
      <3>1. \A content : content = stateFile => Known(content)'
        BY <2>2, <1>6, <1>8
      <3>2. QED
        BY <3>1, <2>2, <1>7, <1>8 DEF Fitting
    <2>3. QED
      BY <2>1, <2>2
  <1>11. QED
    BY <1>8, <1>9, <1>10

LEMMA ResultFits == FileInv /\ pc = "return" => Fitting(Result)
  BY DEF FileInv, StateTypeOK, Fitting, Result

LEMMA ReturnKeepsInv == FileInv /\ Return => FileInv'
  <1> SUFFICES ASSUME FileInv, Return PROVE FileInv'
    OBVIOUS
  <1>1. /\ pc = "return" /\ pc' = "idle" /\ Busy /\ ~ Busy'
        /\ reviews' = Kept(Result).pending
        /\ claimed' = Kept(Result).claimed
        /\ progress' = "none" /\ temp' = NoTemp
        /\ UNCHANGED <<stateFile, mayFind>>
        /\ Account(Result)
    BY DEF Return, Busy, Kept, Memory, disk
  <1>2. /\ Loaded(stateFile) = Kept(Result)
        /\ Usable(stateFile)
        /\ \A content \in mayFind : Known(content)'
    BY <1>1, ResultFits, EndOfOperation
  <1>3. Kept(Result) = [pending |-> reviews', claimed |-> claimed']
    BY <1>1 DEF Kept, Undone, Memory
  <1>4. /\ reviews' \in ReviewMap /\ claimed' \in ReviewMap
        /\ Apart(reviews', claimed')
        /\ Loaded(stateFile) = Memory'
    BY <1>2, <1>3 DEF Usable, Memory
  <1>5. StateTypeOK'
    BY <1>1, <1>4 DEF StateTypeOK, Apart
  <1>6. TempInv'
    BY <1>1 DEF TempInv, NoTemp
  <1>7. QED
    BY <1>1, <1>2, <1>4, <1>5, <1>6 DEF FileInv

LEMMA KillKeepsInv == FileInv /\ Kill => FileInv'
  <1> SUFFICES ASSUME FileInv, Kill PROVE FileInv'
    OBVIOUS
  <1> DEFINE result == IF progress = "none" THEN "beforeCommit" ELSE "afterCommit"
  <1>1. /\ Busy /\ pc # "return" /\ pc' = "killed" /\ ~ Busy'
        /\ Account(result)
        /\ UNCHANGED <<reviews, claimed, op, progress, temp, stateFile, mayFind>>
    BY DEF Kill, Busy, memory, disk
  <1>2. Fitting(result)
    BY <1>1 DEF FileInv, ProgressInv, Fitting
  <1>3. /\ Loaded(stateFile) = Kept(result)
        /\ \A content \in mayFind : Known(content)'
    BY <1>1, <1>2, EndOfOperation
  <1>4. Outcome' = Kept(result)
    BY <1>1 DEF Outcome, InFlight, Kept, Undone, Memory
  <1>5. StateTypeOK' /\ TempInv'
    BY <1>1 DEF FileInv, StateTypeOK, TempInv, Apart
  <1>6. QED
    BY <1>1, <1>3, <1>4, <1>5 DEF FileInv

-----------------------------------------------------------------------------
LEMMA StopKeepsInv == FileInv /\ (Reap \/ PowerLoss) => FileInv'
  <1>1. EmptyMap \in ReviewMap /\ Apart(EmptyMap, EmptyMap)
    BY DEF EmptyMap, ReviewMap, Apart, Has
  <1>2. ASSUME FileInv, Reap PROVE FileInv'
    <2>1. /\ ~ Busy /\ ~ Busy' /\ pc' = "down"
          /\ UNCHANGED <<stateFile, mayFind, issued>>
          /\ reviews' = EmptyMap /\ claimed' = EmptyMap
          /\ progress' = "none" /\ temp' = NoTemp
      BY <1>2 DEF Reap, Busy, disk, callVars
    <2>2. StateTypeOK' /\ TempInv'
      BY <2>1, <1>1 DEF StateTypeOK, TempInv, NoTemp, Apart
    <2>3. QED
      BY <1>2, <2>1, <2>2 DEF FileInv, Known
  <1>3. ASSUME FileInv, PowerLoss PROVE FileInv'
    <2>1. /\ ~ Busy /\ ~ Busy' /\ pc = "down" /\ pc' = "down"
          /\ stateFile' \in mayFind /\ mayFind' = {stateFile'}
          /\ UNCHANGED <<reviews, claimed, progress, temp, issued>>
      BY <1>3 DEF PowerLoss, Busy, memory, callVars
    <2>2. StateTypeOK' /\ TempInv'
      BY <1>3, <2>1 DEF FileInv, StateTypeOK, TempInv, Apart
    <2>3. QED
      BY <1>3, <2>1, <2>2 DEF FileInv, Known
  <1>4. QED
    BY <1>2, <1>3

LEMMA LoadKeepsInv == FileInv /\ Load => FileInv'
  <1> SUFFICES ASSUME FileInv, Load PROVE FileInv'
    OBVIOUS
  <1>1. /\ ~ Busy /\ ~ Busy' /\ pc' = "idle"
        /\ UNCHANGED <<stateFile, mayFind, issued, progress, temp>>
        /\ reviews' = Loaded(stateFile).pending
        /\ claimed' = Loaded(stateFile).claimed
    BY DEF Load, Busy, disk, callVars
  <1>2. Usable(stateFile)
    BY DEF FileInv
  <1>3. Loaded(stateFile) = Memory'
    BY <1>1 DEF Loaded, Memory
  <1>4. StateTypeOK' /\ TempInv'
    BY <1>1, <1>2 DEF FileInv, StateTypeOK, TempInv, Usable, Apart
  <1>5. QED
    BY <1>1, <1>3, <1>4 DEF FileInv, Known

LEMMA FileInit == Init => FileInv
  <1> SUFFICES ASSUME Init PROVE FileInv
    OBVIOUS
  <1>1. /\ reviews \in ReviewMap /\ claimed \in ReviewMap
        /\ Apart(reviews, claimed)
    BY DEF Init, EmptyMap, ReviewMap, Apart, Has
  <1>2. Known(Missing)
    BY MissingIsUsable DEF Known, EmptyMap, Has
  <1>3. QED
    BY <1>1, <1>2, MissingIsUsable
       DEF Init, FileInv, StateTypeOK, TempInv, NoTemp, Memory, Busy

LEMMA FileStutter == FileInv /\ UNCHANGED vars => FileInv'
  BY DEF FileInv, vars, memory, disk, callVars, StateTypeOK, Known, Memory,
         Outcome, InFlight, Undone, Busy, OpInv, PreviousInv, ProgressInv,
         TempInv, Serialized, Serializable, Apart

LEMMA NextKeepsInv == FileInv /\ [Next]_vars => FileInv'
  BY BeginKeepsInv, SaveKeepsInv, ReturnKeepsInv, KillKeepsInv, StopKeepsInv,
     LoadKeepsInv, FileStutter
     DEF Next, SaveStep

-----------------------------------------------------------------------------
(* The invariant holds of every reachable state.                           *)
THEOREM StateFileInvariant == Spec => []FileInv
  BY FileInit, NextKeepsInv, PTL DEF Spec

(* A reader finds the whole state before the operation or the whole state  *)
(* after it, whichever call of save failed or was never made.              *)
THEOREM StateFileOldOrNew == Spec => []FileIsOldOrNew
  <1>1. FileInv => FileIsOldOrNew
    <2> SUFFICES ASSUME FileInv, Running PROVE FileIsOldOrNew
      BY DEF FileIsOldOrNew
    <2>1. Usable(stateFile)
      BY DEF FileInv
    <2>2. CASE Busy
      <3>1. PreviousInv /\ ProgressInv /\ StateTypeOK
        BY <2>2 DEF FileInv
      <3>2. Serializable(reviews, claimed) =>
                Loaded(Serialized(reviews, claimed)) = Memory
        BY <3>1, RoundTrip DEF StateTypeOK, Memory
      <3>3. Loaded(stateFile) \in {Memory, Undone(op)}
        BY <3>1, <3>2 DEF PreviousInv, ProgressInv
      <3>4. QED
        BY <2>1, <2>2, <3>3 DEF FileIsOldOrNew, Usable, Memory
    <2>3. CASE pc = "idle"
      BY <2>1, <2>3 DEF FileIsOldOrNew, Usable, FileInv, Memory
    <2>4. QED
      BY <2>2, <2>3 DEF Running
  <1>2. QED
    BY <1>1, StateFileInvariant, PTL

(* No early return of save leaves its temporary file behind.               *)
THEOREM StateFileCleansUp == Spec => []TemporaryFilesAreRemoved
  <1>1. FileInv => TemporaryFilesAreRemoved
    BY DEF FileInv, TempInv, TemporaryFilesAreRemoved
  <1>2. QED
    BY <1>1, StateFileInvariant, PTL

-----------------------------------------------------------------------------
(* The refinement: which step of the store each step here is.              *)
Survivors(contents) == {Loaded(content) : content \in contents}

(* The store's variables while an operation is under way, and after it.    *)
LEMMA StoreView ==
    /\ Busy => /\ Outcome = Undone(op)
               /\ Loaded(IF InFlight THEN previous.file ELSE stateFile) =
                    Loaded(previous.file)
               /\ {Loaded(c) : c \in IF InFlight THEN previous.mayFind
                                     ELSE mayFind} =
                    Survivors(previous.mayFind)
    /\ ~ Busy => /\ Loaded(IF InFlight THEN previous.file ELSE stateFile) =
                      Loaded(stateFile)
                 /\ {Loaded(c) : c \in IF InFlight THEN previous.mayFind
                                       ELSE mayFind} =
                      Survivors(mayFind)
    /\ pc = "idle" \/ pc = "down" => Outcome = Memory
  BY DEF Outcome, InFlight, Survivors, Memory, Busy

(* Opening a case of the store's persist: memory is the new content.       *)
LEMMA EndPersists ==
    ASSUME FileInv, Busy, ~ Busy', NEW result, Fitting(result), Account(result),
           UNCHANGED <<stateFile, mayFind>>
    PROVE  Store!Persist(Memory, result)
  <1>1. /\ Loaded(previous.file) = Undone(op)
        /\ result = "beforeCommit" =>
              /\ Loaded(stateFile) = Loaded(previous.file)
              /\ mayFind = previous.mayFind
        /\ result # "beforeCommit" => Loaded(stateFile) = Memory
        /\ result = "ok" => mayFind = {stateFile}
        /\ result = "afterCommit" =>
              mayFind = previous.mayFind \cup {stateFile}
    BY EndOfOperation DEF FileInv, PreviousInv
  <1>2. /\ Loaded(IF InFlight THEN previous.file ELSE stateFile) =
             Loaded(previous.file)
        /\ {Loaded(c) : c \in IF InFlight THEN previous.mayFind ELSE mayFind} =
             Survivors(previous.mayFind)
    BY StoreView
  <1>3. /\ Loaded(IF InFlight THEN previous.file ELSE stateFile)' =
             Loaded(stateFile)
        /\ {Loaded(c) : c \in IF InFlight THEN previous.mayFind ELSE mayFind}' =
             Survivors(mayFind)
    BY DEF InFlight, Survivors
  <1>4. /\ result = "ok" => Survivors(mayFind) = {Memory}
        /\ result = "afterCommit" =>
             Survivors(mayFind) = Survivors(previous.mayFind) \cup {Memory}
        /\ result = "beforeCommit" =>
             Survivors(mayFind) = Survivors(previous.mayFind)
    BY <1>1 DEF Survivors
  <1>5. result \in {"ok", "beforeCommit", "afterCommit"}
    BY DEF Fitting
  <1>6. QED
    BY <1>1, <1>2, <1>3, <1>4, <1>5 DEF Store!Persist

(* An operation that ends, by its answer or by a kill, is that operation   *)
(* of the store with the result that belongs to its progress.              *)
LEMMA EndIsStoreStep ==
    ASSUME FileInv, Busy, ~ Busy', pc' # "down",
           NEW result, Fitting(result), Account(result),
           UNCHANGED <<stateFile, mayFind>>, Outcome' = Kept(result)
    PROVE  Store!StoreNext
  <1>1. /\ OpInv
        /\ StateTypeOK
        /\ Loaded(previous.file) = Undone(op)
        /\ Usable(previous.file)
    BY DEF FileInv, PreviousInv
  <1>2. /\ op.id \in Ids /\ op.review \in Reviews /\ op.name \in Operations
        /\ result \in {"ok", "beforeCommit", "afterCommit"}
        /\ op.review # NoReview
    BY <1>1, NoReviewAssumption DEF OpInv, Fitting
  <1>3. Store!Persist([pending |-> reviews, claimed |-> claimed], result)
    BY EndPersists DEF Memory
  <1>4. /\ Outcome = Undone(op)
        /\ Outcome' = IF result = "beforeCommit" THEN Undone(op) ELSE Memory
        /\ (pc # "down") /\ (pc # "down")'
    BY StoreView DEF Kept, Busy
  <1>5. reviews \in ReviewMap /\ claimed \in ReviewMap /\ Apart(reviews, claimed)
    BY <1>1 DEF StateTypeOK
  <1> USE DEF ReviewMap, Apart, Has, With, Without, Memory, Account
  <1> USE DEF Store!Has, Store!Without, Store!Serialized, Store!RolledBack
  <1>6. CASE op.name = "insert"
    <2>1. Undone(op) = [pending |-> [reviews EXCEPT ![op.id] = NoReview],
                        claimed |-> claimed]
      BY <1>6 DEF Undone
    <2>2. /\ reviews[op.id] = op.review /\ op.id \notin issued
          /\ [[reviews EXCEPT ![op.id] = NoReview]
                EXCEPT ![op.id] = op.review] = reviews
      BY <1>1, <1>2, <1>5, <1>6 DEF OpInv
    <2>3. ~ Store!Has(Outcome.pending, op.id)
      BY <1>2, <1>4, <1>5, <2>1
    <2>4. /\ issued' = issued \cup {op.id}
          /\ accepted' = IF result = "ok" THEN accepted \cup {op.id} ELSE accepted
          /\ released' = released /\ owned' = owned
      BY <1>6
    <2>5. /\ Outcome.claimed = claimed /\ Outcome'.claimed = claimed
          /\ [Outcome.pending EXCEPT ![op.id] = op.review] = reviews
      BY <1>4, <2>1, <2>2
    <2>6. Outcome'.pending = IF result = "beforeCommit"
                             THEN [reviews EXCEPT ![op.id] = NoReview]
                             ELSE reviews
      BY <1>4, <2>1
    <2>7. Store!Insert(op.id, op.review, result)
      BY <1>3, <1>4, <2>3, <2>4, <2>5, <2>6 DEF Store!Insert
    <2>8. QED
      BY <1>2, <2>2, <2>7 DEF Store!StoreNext
  <1>7. CASE op.name = "claim"
    <2>1. Undone(op) = [pending |-> [reviews EXCEPT ![op.id] = op.review],
                        claimed |-> [claimed EXCEPT ![op.id] = NoReview]]
      BY <1>7 DEF Undone
    <2>2. /\ claimed[op.id] = op.review /\ reviews[op.id] = NoReview
          /\ [[reviews EXCEPT ![op.id] = op.review]
                EXCEPT ![op.id] = NoReview] = reviews
          /\ [[claimed EXCEPT ![op.id] = NoReview]
                EXCEPT ![op.id] = op.review] = claimed
          /\ [reviews EXCEPT ![op.id] = op.review][op.id] = op.review
      BY <1>1, <1>2, <1>5, <1>7 DEF OpInv
    <2>3. ~ Store!Has(Outcome.claimed, op.id) /\ Store!Has(Outcome.pending, op.id)
      BY <1>2, <1>4, <1>5, <2>1
    <2>4. /\ issued' = issued /\ accepted' = accepted /\ released' = released
          /\ owned' = IF result = "ok" THEN owned \cup {op.id} ELSE owned
      BY <1>7
    <2>5. /\ Outcome.pending[op.id] = op.review
          /\ [Outcome.pending EXCEPT ![op.id] = NoReview] = reviews
          /\ [Outcome.claimed EXCEPT ![op.id] = op.review] = claimed
      BY <1>4, <2>1, <2>2
    <2>6. /\ Outcome'.pending = IF result = "beforeCommit"
                                THEN [reviews EXCEPT ![op.id] = op.review]
                                ELSE reviews
          /\ Outcome'.claimed = IF result = "beforeCommit"
                                THEN [claimed EXCEPT ![op.id] = NoReview]
                                ELSE claimed
      BY <1>4, <2>1
    <2>7. Store!Claim(op.id, result)
      BY <1>3, <1>4, <2>3, <2>4, <2>5, <2>6 DEF Store!Claim
    <2>8. QED
      BY <1>2, <2>7 DEF Store!StoreNext
  <1>8. CASE op.name = "restore"
    <2>1. Undone(op) = [pending |-> [reviews EXCEPT ![op.id] = NoReview],
                        claimed |-> [claimed EXCEPT ![op.id] = op.review]]
      BY <1>8 DEF Undone
    <2>2. /\ reviews[op.id] = op.review /\ claimed[op.id] = NoReview
          /\ [[claimed EXCEPT ![op.id] = op.review]
                EXCEPT ![op.id] = NoReview] = claimed
          /\ [[reviews EXCEPT ![op.id] = NoReview]
                EXCEPT ![op.id] = op.review] = reviews
      BY <1>1, <1>2, <1>5, <1>8 DEF OpInv
    <2>3. /\ ~ Store!Has(Outcome.pending, op.id)
          /\ Store!Has(Outcome.claimed, op.id)
          /\ Outcome.claimed[op.id] = op.review
      BY <1>2, <1>4, <1>5, <2>1
    <2>4. /\ issued' = issued /\ accepted' = accepted /\ released' = released
          /\ owned' = owned \ {op.id}
      BY <1>8
    <2>5. /\ [Outcome.claimed EXCEPT ![op.id] = NoReview] = claimed
          /\ [Outcome.pending EXCEPT ![op.id] = op.review] = reviews
      BY <1>4, <2>1, <2>2
    <2>6. /\ Outcome'.pending = IF result = "beforeCommit"
                                THEN [reviews EXCEPT ![op.id] = NoReview]
                                ELSE reviews
          /\ Outcome'.claimed = IF result = "beforeCommit"
                                THEN [claimed EXCEPT ![op.id] = op.review]
                                ELSE claimed
      BY <1>4, <2>1
    <2>7. Store!Restore(op.id, op.review, result)
      BY <1>3, <1>4, <2>3, <2>4, <2>5, <2>6 DEF Store!Restore
    <2>8. QED
      BY <1>2, <2>7 DEF Store!StoreNext
  <1>9. CASE op.name = "consume"
    <2>1. Undone(op) = [pending |-> reviews,
                        claimed |-> [claimed EXCEPT ![op.id] = op.review]]
      BY <1>9 DEF Undone
    <2>2. /\ claimed[op.id] = NoReview
          /\ [[claimed EXCEPT ![op.id] = op.review]
                EXCEPT ![op.id] = NoReview] = claimed
      BY <1>1, <1>2, <1>5, <1>9 DEF OpInv
    <2>3. /\ Store!Has(Outcome.claimed, op.id)
          /\ Outcome.claimed[op.id] = op.review
      BY <1>2, <1>4, <1>5, <2>1
    <2>4. /\ issued' = issued /\ accepted' = accepted /\ owned' = owned
          /\ released' = released \cup {op.id}
      BY <1>9
    <2>5. [Outcome.claimed EXCEPT ![op.id] = NoReview] = claimed
      BY <1>4, <2>1, <2>2
    <2>6. /\ Outcome.pending = reviews /\ Outcome'.pending = reviews
          /\ Outcome'.claimed = IF result = "beforeCommit"
                                THEN [claimed EXCEPT ![op.id] = op.review]
                                ELSE claimed
      BY <1>4, <2>1
    <2>7. Store!Consume(op.id, result)
      BY <1>3, <1>4, <2>3, <2>4, <2>5, <2>6 DEF Store!Consume
    <2>8. QED
      BY <1>2, <2>7 DEF Store!StoreNext
  <1>10. QED
    BY <1>2, <1>6, <1>7, <1>8, <1>9 DEF Operations

-----------------------------------------------------------------------------
(* A call of save, and the change to the maps before it, are nothing the   *)
(* store can see.                                                          *)
LEMMA SaveIsHidden ==
    ASSUME FileInv, FileInv', Begin \/ SaveStep
    PROVE  UNCHANGED Store!storeVars
  <1>1. CASE SaveStep
    <2>1. /\ Busy /\ Busy'
          /\ UNCHANGED <<reviews, claimed, op, issued, accepted, released,
                         owned, previous>>
      BY <1>1, SaveFrame
    <2>2. Outcome' = Outcome
      BY <2>1 DEF Outcome, InFlight, Undone
    <2>3. (pc # "down")' = (pc # "down")
      BY <2>1 DEF Busy
    <2>4. QED
      BY <2>1, <2>2, <2>3 DEF Store!storeVars, Store!callVars, InFlight
  <1>2. CASE Begin
    <2>1. /\ pc = "idle" /\ ~ Busy /\ Busy'
          /\ previous' = [file |-> stateFile, mayFind |-> mayFind]
          /\ UNCHANGED <<issued, accepted, released, owned>>
      BY <1>2 DEF Begin, Busy, callVars
    <2>2. Outcome = Loaded(stateFile)
      BY <2>1, StoreView DEF FileInv
    <2>3. Outcome' = Loaded(previous.file)'
      BY <2>1 DEF FileInv, PreviousInv, Outcome, InFlight
    <2>4. Loaded(previous.file)' = Loaded(stateFile)
      BY <2>1
    <2>5. (pc # "down")' = (pc # "down")
      BY <2>1 DEF Busy
    <2>6. QED
      BY <2>1, <2>2, <2>3, <2>4, <2>5
         DEF Store!storeVars, Store!callVars, InFlight
  <1>3. QED
    BY <1>1, <1>2

(* Every step implements one of the store's.                               *)
LEMMA NextImplementsStore ==
    ASSUME FileInv, FileInv', [Next]_vars
    PROVE  [Store!StoreNext]_(Store!storeVars)
  <1>1. CASE Begin \/ SaveStep
    BY <1>1, SaveIsHidden
  <1>2. CASE Return
    <2>1. /\ pc = "return" /\ pc' = "idle" /\ Busy /\ ~ Busy'
          /\ reviews' = Kept(Result).pending
          /\ claimed' = Kept(Result).claimed
          /\ UNCHANGED <<stateFile, mayFind>>
          /\ Account(Result)
      BY <1>2 DEF Return, Busy, Kept, Memory, disk
    <2>2. Fitting(Result)
      BY <2>1, ResultFits
    <2>3. Outcome' = Kept(Result)
      <3>1. Outcome' = [pending |-> reviews', claimed |-> claimed']
        BY <2>1 DEF Outcome, InFlight
      <3>2. Kept(Result) = [pending |-> Kept(Result).pending,
                            claimed |-> Kept(Result).claimed]
        BY DEF Kept, Undone, Memory
      <3>3. QED
        BY <2>1, <3>1, <3>2
    <2>4. QED
      BY <2>1, <2>2, <2>3, EndIsStoreStep
  <1>3. CASE Kill
    <2> DEFINE result == IF progress = "none" THEN "beforeCommit"
                         ELSE "afterCommit"
    <2>1. /\ Busy /\ pc # "return" /\ pc' = "killed" /\ ~ Busy'
          /\ Account(result)
          /\ UNCHANGED <<reviews, claimed, op, progress, stateFile, mayFind>>
      BY <1>3 DEF Kill, Busy, memory, disk
    <2>2. Fitting(result)
      BY <2>1 DEF FileInv, ProgressInv, Fitting
    <2>3. Outcome' = Kept(result)
      BY <2>1 DEF Outcome, InFlight, Kept, Undone, Memory
    <2>4. QED
      BY <2>1, <2>2, <2>3, EndIsStoreStep
  <1>4. CASE Reap
    <2>1. /\ ~ Busy /\ ~ Busy' /\ pc' = "down"
          /\ reviews' = EmptyMap /\ claimed' = EmptyMap
          /\ UNCHANGED <<stateFile, mayFind, issued, accepted, released, owned>>
      BY <1>4 DEF Reap, Busy, disk, callVars
    <2>2. Outcome' = [pending |-> EmptyMap, claimed |-> EmptyMap]
      BY <2>1 DEF Outcome, InFlight
    <2>3. (pc # "down") /\ (pc # "down")' = FALSE
      BY <1>4, <2>1 DEF Reap
    <2>4. Store!ProcessCrash
      BY <2>1, <2>2, <2>3
         DEF Store!ProcessCrash, Store!EmptyMap, EmptyMap, Store!callVars, InFlight
    <2>5. QED
      BY <2>4 DEF Store!StoreNext
  <1>5. CASE PowerLoss
    <2>1. /\ pc = "down" /\ pc' = "down" /\ ~ Busy /\ ~ Busy'
          /\ stateFile' \in mayFind /\ mayFind' = {stateFile'}
          /\ UNCHANGED <<reviews, claimed, issued, accepted, released, owned>>
      BY <1>5 DEF PowerLoss, Busy, memory, callVars
    <2>2. /\ reviews = EmptyMap /\ claimed = EmptyMap
          /\ Outcome' = [pending |-> EmptyMap, claimed |-> EmptyMap]
      BY <2>1 DEF FileInv, Outcome, InFlight
    <2>3. /\ (pc # "down")' = FALSE
          /\ Loaded(stateFile)' \in Survivors(mayFind)
          /\ Survivors(mayFind)' = {Loaded(stateFile)'}
      BY <2>1 DEF Survivors
    <2>4. Store!PowerLoss
      BY <2>1, <2>2, <2>3
         DEF Store!PowerLoss, Store!EmptyMap, EmptyMap, Store!callVars,
             InFlight, Survivors
    <2>5. QED
      BY <2>4 DEF Store!StoreNext
  <1>6. CASE Load
    <2>1. /\ pc = "down" /\ pc' = "idle" /\ ~ Busy /\ ~ Busy'
          /\ reviews' = Loaded(stateFile).pending
          /\ claimed' = Loaded(stateFile).claimed
          /\ UNCHANGED <<stateFile, mayFind, issued, accepted, released, owned>>
      BY <1>6 DEF Load, Busy, disk, callVars
    <2>2. /\ Outcome'.pending = Loaded(stateFile).pending
          /\ Outcome'.claimed = Loaded(stateFile).claimed
      BY <2>1 DEF Outcome, InFlight
    <2>3. Store!Loadable(Loaded(stateFile))
      BY DEF FileInv, Usable, Apart, Has, Store!Loadable, Store!Has
    <2>4. Store!Load
      BY <2>1, <2>2, <2>3 DEF Store!Load, Store!callVars, InFlight
    <2>5. QED
      BY <2>4 DEF Store!StoreNext
  <1>7. CASE UNCHANGED vars
    BY <1>7 DEF vars, memory, disk, callVars, Outcome, InFlight, Busy, Undone,
                Store!storeVars, Store!callVars
  <1>8. QED
    BY <1>1, <1>2, <1>3, <1>4, <1>5, <1>6, <1>7 DEF Next, SaveStep

(* The calls of save, with a kill before each of them, are the store with  *)
(* its three results: everything proved of the store holds of them.        *)
THEOREM StateFileImplementsStore == Spec => ImplementsStore
  <1>1. Init => Store!StoreInit
    <2> SUFFICES ASSUME Init PROVE Store!StoreInit
      OBVIOUS
    <2>1. /\ pc = "idle" /\ ~ Busy /\ stateFile = Missing /\ mayFind = {Missing}
          /\ Memory = [pending |-> EmptyMap, claimed |-> EmptyMap]
      BY DEF Init, Busy, Memory
    <2>2. Outcome = Memory
      BY <2>1, StoreView
    <2>3. QED
      BY <2>1, <2>2, MissingIsUsable
         DEF Init, Store!StoreInit, Store!EmptyMap, Store!Serialized, EmptyMap,
             InFlight
  <1>2. QED
    BY <1>1, NextImplementsStore, StateFileInvariant, PTL
       DEF Spec, ImplementsStore, Store!StoreSpec

(* The theorems about the store, read with the store's variables as they   *)
(* are here.                                                               *)
Proved == INSTANCE PendingReviewStore_proofs WITH
    Bodies <- Reviews,
    NoBody <- NoReview,
    PersistResults <- {"ok", "beforeCommit", "afterCommit"},
    open <- pc # "down",
    reviews <- Outcome.pending,
    claimed <- Outcome.claimed,
    disk <- Loaded(IF InFlight THEN previous.file ELSE stateFile),
    survivors <- {Loaded(c) : c \in IF InFlight THEN previous.mayFind ELSE mayFind}

(* So, whichever call fails and before whichever call the process is       *)
(* killed: what a power loss may then leave in the state file can be       *)
(* loaded, still has every review whose insert was answered with Ok, and   *)
(* does not make a claimed review pending again.                           *)
THEOREM StateFileIsDurable ==
    Spec => [](Store!OwnStateLoads /\ Store!AcceptedIsNotLost /\ Store!ClaimIsDurable)
  <1>1. Store!StoreInit => Proved!StoreInit
    BY DEF Store!StoreInit, Proved!StoreInit, Store!EmptyMap, Proved!EmptyMap,
           Store!Serialized, Proved!Serialized
  <1>2. [Store!StoreNext]_(Store!storeVars) =>
            [Proved!StoreNext]_(Proved!storeVars)
    BY DEF Store!StoreNext, Store!Insert, Store!Claim, Store!Restore,
           Store!Consume, Store!ProcessCrash, Store!PowerLoss, Store!Load,
           Store!Persist, Store!Has, Store!Without, Store!Serialized,
           Store!Loadable, Store!RolledBack, Store!EmptyMap, Store!storeVars,
           Store!callVars, Proved!StoreNext, Proved!Insert, Proved!Claim,
           Proved!Restore, Proved!Consume, Proved!ProcessCrash,
           Proved!PowerLoss, Proved!Load, Proved!Persist, Proved!Has,
           Proved!Without, Proved!Serialized, Proved!Loadable,
           Proved!RolledBack, Proved!EmptyMap, Proved!storeVars,
           Proved!callVars
  <1>3. Spec => Proved!StoreSpec
    BY <1>1, <1>2, StateFileImplementsStore, PTL
       DEF ImplementsStore, Store!StoreSpec, Proved!StoreSpec
  <1>4. NoReview \notin Reviews
    BY NoReviewAssumption
  <1>5. {"ok", "beforeCommit", "afterCommit"} \subseteq Proved!Results
    BY DEF Proved!Results
  <1>6. /\ Proved!OwnStateLoads <=> Store!OwnStateLoads
        /\ Proved!AcceptedIsNotLost <=> Store!AcceptedIsNotLost
        /\ Proved!ClaimIsDurable <=> Store!ClaimIsDurable
    BY DEF Proved!OwnStateLoads, Store!OwnStateLoads, Proved!Loadable,
           Store!Loadable, Proved!AcceptedIsNotLost, Store!AcceptedIsNotLost,
           Proved!ClaimIsDurable, Store!ClaimIsDurable, Proved!Has, Store!Has
  <1>7. QED
    BY <1>3, <1>4, <1>5, <1>6, Proved!StoreLoadsOwnState,
       Proved!StoreKeepsAccepted, Proved!StoreClaimIsDurable, PTL
=============================================================================

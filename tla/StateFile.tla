------------------------------ MODULE StateFile ------------------------------
(***************************************************************************)
(* How the review store reaches its state file, one file system call at a  *)
(* time (src/src/pending_review.rs).                                       *)
(*                                                                         *)
(* PendingReviewStore takes an operation with its persistence as one step  *)
(* with one of three results.  Here the maps are changed first, the state  *)
(* is converted and written to a temporary file, that file is synced,      *)
(* renamed over the state file, and the parent directory is synced; every  *)
(* call may fail, and the process may be killed before each of them.  The  *)
(* results, the rollback by key and what a crash leaves on disk then       *)
(* follow, and ImplementsStore says that they are those three.             *)
(*                                                                         *)
(* The caller holds the store's mutex from the call to the answer, so one  *)
(* operation is under way at a time.  A review here has the parts its      *)
(* persisted form has, but the request is only its kind and what was       *)
(* captured for it one value; the path, content, url, body and purpose are *)
(* copied as they are.  The checks of parent and file type are in          *)
(* module Lifecycle.                                                       *)
(***************************************************************************)
EXTENDS FiniteSets

CONSTANTS
    Ids,        \* request ids, drawn by Uuid::new_v4
    Reviews,    \* the PendingReviews given to insert
    None,       \* Option::None
    NoReview,   \* "the map has no entry for this id"
    Missing,    \* there is no state file
    Torn        \* a file whose data was not synced before the power went

VARIABLES
    pc,         \* "down", "idle", "killed", or the call save makes next
    reviews,    \* reviews: HashMap<Uuid, PendingReview>
    claimed,    \* claimed_reviews
    op,         \* the operation under way: its name, id and review
    progress,   \* how far save came: "none", "renamed", "synced"
    temp,       \* the temporary file of this save, under a name of its own
    stateFile,  \* the content a reader of the state file sees
    mayFind     \* the contents a power loss may leave in the state file

(* Not in the code: what callers did and were told, what the disk was when *)
(* the operation under way began.                                          *)
VARIABLES issued, accepted, released, owned, previous

memory == <<reviews, claimed>>
disk == <<stateFile, mayFind>>
callVars == <<issued, accepted, released, owned>>
vars == <<pc, memory, op, progress, temp, disk, callVars, previous>>

EmptyMap == [id \in Ids |-> NoReview]
Has(map, id) == map[id] # NoReview
Without(map, id) == [map EXCEPT ![id] = NoReview]
With(map, id, review) == [map EXCEPT ![id] = review]

-----------------------------------------------------------------------------
(* The three constructors of PendingReview.                                *)
New(request) ==
    [request |-> request, workspace_fingerprint |-> None,
     write_target_state |-> None]
NewWithWorkspaceFingerprint(request, fingerprint) ==
    [New(request) EXCEPT !.workspace_fingerprint = fingerprint]
NewWithWriteTargetState(request, state) ==
    [New(request) EXCEPT !.write_target_state = state]

(* What main.rs:1337-1362 passes to insert: a review is built by one of the *)
(* constructors, and what a constructor captures goes with one request.    *)
ASSUME ReviewsAssumption ==
    \A review \in Reviews :
        \/ review = New(review.request)
        \/ review = NewWithWorkspaceFingerprint(
                        "RunCargoTest", review.workspace_fingerprint)
        \/ review = NewWithWriteTargetState(
                        "WriteFile", review.write_target_state)
ASSUME NoReviewAssumption == NoReview \notin Reviews

(* TryFrom<&PendingReview>: which reviews have a persisted form.           *)
Persistable(review) ==
    \/ review.request = "WriteFile" /\ review.write_target_state # None
    \/ review.request = "RunCargoTest" /\ review.workspace_fingerprint # None
    \/ review.request = "HttpPost"

ToPersisted(id, review, status) ==
    [request_id |-> id, status |-> status,
     type |-> review.request,
     captured |-> CASE review.request = "WriteFile" -> review.write_target_state
                    [] review.request = "RunCargoTest" ->
                            review.workspace_fingerprint
                    [] OTHER -> None]

(* Mutant: the fingerprint is not taken over from the file.                *)
FromPersistedWithoutFingerprint(persisted) ==
    IF persisted.type = "WriteFile"
    THEN NewWithWriteTargetState(persisted.type, persisted.captured)
    ELSE New(persisted.type)

(* TryFrom<PersistedPendingReview>.                                        *)
FromPersisted(persisted) ==
    CASE persisted.type = "WriteFile" ->
            NewWithWriteTargetState(persisted.type, persisted.captured)
      [] persisted.type = "RunCargoTest" ->
            NewWithWorkspaceFingerprint(persisted.type, persisted.captured)
      [] OTHER -> New(persisted.type)

Version == 3

(* serialize_state, when every review has a persisted form.                *)
Serialized(pending, taken) ==
    [version |-> Version,
     reviews |->
        {ToPersisted(id, pending[id], "pending") :
            id \in {i \in Ids : Has(pending, i)}} \cup
        {ToPersisted(id, taken[id], "claimed") :
            id \in {i \in Ids : Has(taken, i)}}]

(* No file and a torn file are no serialized state.                        *)
ASSUME ContentAssumption ==
    /\ Missing # Torn
    /\ \A pending, taken \in [Ids -> Reviews \cup {NoReview}] :
            Serialized(pending, taken) \notin {Missing, Torn}

Serializable(pending, taken) ==
    \A id \in Ids : /\ Has(pending, id) => Persistable(pending[id])
                    /\ Has(taken, id) => Persistable(taken[id])

(* from_serialized_state: a version of its own and every id once.          *)
Loads(content) ==
    content # Missing =>
        /\ content # Torn
        /\ content.version = Version
        /\ \A p, q \in content.reviews : p.request_id = q.request_id => p = q

(* The map of the reviews with that status; a missing file has none.       *)
LoadedMap(content, status) ==
    [id \in Ids |->
        LET found == IF content \in {Missing, Torn} THEN {}
                     ELSE {p \in content.reviews :
                              p.request_id = id /\ p.status = status}
        IN IF found = {} THEN NoReview
           ELSE FromPersisted(CHOOSE p \in found : TRUE)]

Loaded(content) ==
    [pending |-> LoadedMap(content, "pending"),
     claimed |-> LoadedMap(content, "claimed")]

-----------------------------------------------------------------------------
Operations == {"insert", "claim", "restore", "consume"}
NoOp == [name |-> "none"]
NoTemp == [is |-> "none", content |-> Torn, synced |-> FALSE]
NoFiles == [file |-> Missing, mayFind |-> {Missing}]
Busy == pc \in {"create", "write", "sync", "rename", "syncDir", "unlink",
                "return"}
Running == pc = "idle" \/ Busy

Init ==
    /\ pc = "idle"
    /\ reviews = EmptyMap /\ claimed = EmptyMap
    /\ op = NoOp /\ progress = "none" /\ temp = NoTemp
    /\ stateFile = Missing /\ mayFind = {Missing}
    /\ issued = {} /\ accepted = {} /\ released = {} /\ owned = {}
    /\ previous = NoFiles

(* The change an operation makes to the maps before it persists them.      *)
(* Calls its lookups refuse change nothing and persist nothing.            *)
Changes(name, id, review) ==
    \/ /\ name = "insert"
       /\ id \notin issued      \* main.rs draws a new UUID for every insert
       /\ ~ Has(reviews, id)
       /\ reviews' = With(reviews, id, review)
       /\ UNCHANGED claimed
    \/ /\ name = "claim"
       /\ ~ Has(claimed, id) /\ Has(reviews, id)
       /\ reviews[id] = review
       /\ reviews' = Without(reviews, id)
       /\ claimed' = With(claimed, id, review)
    \/ /\ name = "restore"
       /\ ~ Has(reviews, id) /\ Has(claimed, id)
       /\ claimed[id] = review
       /\ claimed' = Without(claimed, id)
       /\ reviews' = With(reviews, id, review)
    \/ /\ name = "consume"
       /\ Has(claimed, id)
       /\ claimed[id] = review
       /\ claimed' = Without(claimed, id)
       /\ UNCHANGED reviews

(* The rollback of an operation whose persistence failed before the commit: *)
(* the entry of its id alone, in both maps.                                *)
Undone(o) ==
    [pending |-> CASE o.name \in {"insert", "restore"} -> Without(reviews, o.id)
                   [] o.name = "claim" -> With(reviews, o.id, o.review)
                   [] OTHER -> reviews,
     claimed |-> CASE o.name = "claim" -> Without(claimed, o.id)
                   [] o.name \in {"restore", "consume"} ->
                            With(claimed, o.id, o.review)
                   [] OTHER -> claimed]

(* persist begins: the state is converted before a file is touched.        *)
Begin ==
    /\ pc = "idle"
    /\ \E name \in Operations, id \in Ids, review \in Reviews :
        /\ Changes(name, id, review)
        /\ op' = [name |-> name, id |-> id, review |-> review]
    /\ progress' = "none" /\ temp' = NoTemp
    /\ previous' = [file |-> stateFile, mayFind |-> mayFind]
    /\ pc' = IF Serializable(reviews', claimed') THEN "create" ELSE "return"
    /\ UNCHANGED <<disk, callVars>>

(* Mutant: an error leaves save without a visit to unlinkat.               *)
FailsWithoutUnlink ==
    /\ pc' = "return"
    /\ UNCHANGED <<memory, op, progress, temp, disk, callVars, previous>>

(* Any call that fails leaves the closure; unlinkat comes next.            *)
Fails ==
    /\ pc' = "unlink"
    /\ temp' = [NoTemp EXCEPT !.is = temp.is]
    /\ UNCHANGED <<memory, op, progress, disk, callVars, previous>>

(* openat with O_EXCL and a name drawn for this save.                      *)
CreateTemp ==
    /\ pc = "create"
    /\ \/ /\ temp' = [NoTemp EXCEPT !.is = "present"]
          /\ pc' = "write"
          /\ UNCHANGED <<memory, op, progress, disk, callVars, previous>>
       \/ Fails

WriteTemp ==
    /\ pc = "write"
    /\ \/ /\ temp' = [temp EXCEPT !.content = Serialized(reviews, claimed)]
          /\ pc' = "sync"
          /\ UNCHANGED <<memory, op, progress, disk, callVars, previous>>
       \/ Fails

SyncTemp ==
    /\ pc = "sync"
    /\ \/ /\ temp' = [temp EXCEPT !.synced = TRUE]
          /\ pc' = "rename"
          /\ UNCHANGED <<memory, op, progress, disk, callVars, previous>>
       \/ Fails

(* What a power loss may leave of a file that has been given the name.     *)
Found(file) == {file.content} \cup (IF file.synced THEN {} ELSE {Torn})

(* renameat: readers see the new state; the directory is not synced yet.   *)
Rename ==
    /\ pc = "rename"
    /\ \/ /\ stateFile' = temp.content
          /\ mayFind' = mayFind \cup Found(temp)
          /\ temp' = [temp EXCEPT !.is = "renamed"]
          /\ progress' = "renamed"
          /\ pc' = "syncDir"
          /\ UNCHANGED <<memory, op, callVars, previous>>
       \/ Fails

SyncDirectory ==
    /\ pc = "syncDir"
    /\ \/ /\ mayFind' = Found(temp)
          /\ progress' = "synced"
          /\ pc' = "return"
          /\ UNCHANGED <<memory, op, temp, stateFile, callVars, previous>>
       \/ Fails

(* unlinkat; its own failure is ignored.                                   *)
UnlinkTemp ==
    /\ pc = "unlink"
    /\ \/ temp' = NoTemp
       \/ temp.is = "present" /\ temp' = [NoTemp EXCEPT !.is = "stuck"]
    /\ pc' = "return"
    /\ UNCHANGED <<memory, op, progress, disk, callVars, previous>>

(* Ok, AfterCommit, BeforeCommit.                                          *)
Result == CASE progress = "synced"  -> "ok"
            [] progress = "renamed" -> "afterCommit"
            [] OTHER                -> "beforeCommit"

(* What the caller has asked for and been told, with that result.          *)
Account(result) ==
    /\ issued' = IF op.name = "insert" THEN issued \cup {op.id} ELSE issued
    /\ accepted' = IF op.name = "insert" /\ result = "ok"
                   THEN accepted \cup {op.id} ELSE accepted
    /\ released' = IF op.name = "consume" THEN released \cup {op.id}
                   ELSE released
    /\ owned' = CASE op.name = "claim" /\ result = "ok" -> owned \cup {op.id}
                  [] op.name = "restore" -> owned \ {op.id}
                  [] OTHER -> owned

(* Mutant: memory is put back after every failure.                         *)
ReturnRollingBack ==
    /\ pc = "return"
    /\ reviews' = IF Result = "ok" THEN reviews ELSE Undone(op).pending
    /\ claimed' = IF Result = "ok" THEN claimed ELSE Undone(op).claimed
    /\ Account(Result)
    /\ pc' = "idle" /\ op' = NoOp /\ progress' = "none" /\ temp' = NoTemp
    /\ previous' = NoFiles
    /\ UNCHANGED disk

(* insert, claim, restore_claimed, consume_claimed_classified: memory is   *)
(* put back only when the rename did not happen.                           *)
Return ==
    /\ pc = "return"
    /\ reviews' = IF Result = "beforeCommit" THEN Undone(op).pending ELSE reviews
    /\ claimed' = IF Result = "beforeCommit" THEN Undone(op).claimed ELSE claimed
    /\ Account(Result)
    /\ pc' = "idle" /\ op' = NoOp /\ progress' = "none" /\ temp' = NoTemp
    /\ previous' = NoFiles
    /\ UNCHANGED disk

-----------------------------------------------------------------------------
(* The process is killed inside an operation (a kill at "return" is one    *)
(* after Return).  Its temporary file stays, and nothing ever reads it.    *)
(* The memory is dropped by Reap, a step of its own for the sake of the    *)
(* abstract store.                                                         *)
Kill ==
    /\ Busy /\ pc # "return"
    /\ pc' = "killed"
    /\ Account(IF progress = "none" THEN "beforeCommit" ELSE "afterCommit")
    /\ previous' = NoFiles
    /\ UNCHANGED <<memory, op, progress, temp, disk>>

Reap ==
    /\ pc \in {"killed", "idle"}
    /\ pc' = "down"
    /\ reviews' = EmptyMap /\ claimed' = EmptyMap
    /\ op' = NoOp /\ progress' = "none" /\ temp' = NoTemp
    /\ UNCHANGED <<disk, callVars, previous>>

(* The power goes, with the process (after its Reap) or later: the state   *)
(* file is one of those that may be found.                                 *)
PowerLoss ==
    /\ pc = "down"
    /\ stateFile' \in mayFind
    /\ mayFind' = {stateFile'}
    /\ UNCHANGED <<pc, memory, op, progress, temp, callVars, previous>>

(* load_from_validated_path on a later start.                              *)
Load ==
    /\ pc = "down"
    /\ Loads(stateFile)
    /\ pc' = "idle"
    /\ reviews' = Loaded(stateFile).pending
    /\ claimed' = Loaded(stateFile).claimed
    /\ UNCHANGED <<op, progress, temp, disk, callVars, previous>>

Next ==
    \/ Begin
    \/ CreateTemp \/ WriteTemp \/ SyncTemp \/ Rename \/ SyncDirectory
    \/ UnlinkTemp
    \/ Return
    \/ Kill \/ Reap \/ PowerLoss \/ Load

Spec == Init /\ [][Next]_vars

-----------------------------------------------------------------------------
(* The state file a reader finds, in the middle of an operation as between *)
(* two of them, is the whole state before the operation or the whole state *)
(* after it, down to what was captured for each review; and between two    *)
(* operations it is exactly what the process has in memory.                *)
FileIsOldOrNew ==
    Running =>
        /\ Loads(stateFile)
        /\ Loaded(stateFile) \in
            {[pending |-> reviews, claimed |-> claimed]} \cup
            (IF Busy THEN {Undone(op)} ELSE {})

(* An operation that gives its answer has left no temporary file behind,   *)
(* whichever call failed, unless unlinkat itself failed: the clean-up      *)
(* after the closure (pending_review.rs:643) runs for all the early        *)
(* returns in it.                                                          *)
TemporaryFilesAreRemoved == pc = "return" => temp.is # "present"

(* The store that PendingReviewStore describes: an operation happens when  *)
(* its call returns, or when the process is killed inside it.              *)
InFlight == Busy
Outcome == IF InFlight \/ (pc = "killed" /\ progress = "none")
           THEN Undone(op)
           ELSE [pending |-> reviews, claimed |-> claimed]

Store == INSTANCE PendingReviewStore WITH
    Bodies <- Reviews,
    NoBody <- NoReview,
    PersistResults <- {"ok", "beforeCommit", "afterCommit"},
    open <- pc # "down",
    reviews <- Outcome.pending,
    claimed <- Outcome.claimed,
    disk <- Loaded(IF InFlight THEN previous.file ELSE stateFile),
    survivors <- {Loaded(c) : c \in IF InFlight THEN previous.mayFind ELSE mayFind}

(* Every step is an operation of that store with one of its three results, *)
(* its crash, its power loss, its load, or nothing it can see.             *)
ImplementsStore == Store!StoreSpec
=============================================================================

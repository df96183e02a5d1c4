------------------------- MODULE PendingReviewStore -------------------------
(***************************************************************************)
(* The durable store of human reviews (src/src/pending_review.rs).         *)
(*                                                                         *)
(* Two maps in memory, `reviews` and `claimed_reviews`, and one state file *)
(* that is replaced as a whole: temporary file, write, fsync, rename,      *)
(* fsync of the parent directory.  Every operation runs under the mutex    *)
(* that main.rs keeps around the store, so an operation with its           *)
(* persistence is one action here, with one of three results:              *)
(*   "ok"            renamed and the directory synced;                     *)
(*   "beforeCommit"  failed before the rename: nothing on disk changed;    *)
(*   "afterCommit"   renamed, but the directory sync failed: the new state *)
(*                   is what a reader of the file sees, while a power loss *)
(*                   may still bring an older state back.                  *)
(* A process killed inside an operation leaves the disk as one of the two  *)
(* failures does, so it is one of them followed by ProcessCrash.           *)
(*                                                                         *)
(* Abstracted: a review is the state captured for it (its body); the       *)
(* request and purpose stored beside it are fixed by its id.  Parsing,     *)
(* paths, file types and the version number are left out.                  *)
(***************************************************************************)
EXTENDS FiniteSets

CONSTANTS
    Ids,            \* request ids, drawn by Uuid::new_v4
    Bodies,         \* what a PendingReview may carry
    NoBody,         \* "the map has no entry for this id"
    PersistResults  \* the results a run lets persist() have

Results == {"ok", "beforeCommit", "afterCommit"}

ASSUME NoBodyAssumption == NoBody \notin Bodies
ASSUME PersistResultsAssumption == PersistResults \subseteq Results

VARIABLES
    open,           \* a process runs and holds the store
    reviews,        \* reviews: HashMap<Uuid, PendingReview>
    claimed,        \* claimed_reviews
    disk,           \* the content a reader of the state file sees
    survivors       \* the contents a power loss may leave in the state file

(* What callers did and were told: not in the code, read by properties.    *)
VARIABLES
    issued,         \* ids passed to insert
    accepted,       \* ids whose insert returned Ok
    released,       \* ids handed to consume_claimed
    owned           \* ids whose claim returned Ok and was not given back

callVars == <<issued, accepted, released, owned>>
storeVars == <<open, reviews, claimed, disk, survivors, callVars>>

ReviewMap == [Ids -> Bodies \cup {NoBody}]
Content == [pending : ReviewMap, claimed : ReviewMap]
EmptyMap == [id \in Ids |-> NoBody]

Has(map, id) == map[id] # NoBody
Without(map, id) == [map EXCEPT ![id] = NoBody]

(* serialize_state: both maps in one list, each entry with its status.     *)
Serialized(pending, taken) == [pending |-> pending, claimed |-> taken]

(* from_serialized_state refuses a file that names an id twice.            *)
Loadable(content) ==
    \A id \in Ids : ~ (Has(content.pending, id) /\ Has(content.claimed, id))

(* A missing file loads as an empty store.                                 *)
StoreInit ==
    /\ open = TRUE
    /\ reviews = EmptyMap
    /\ claimed = EmptyMap
    /\ disk = Serialized(EmptyMap, EmptyMap)
    /\ survivors = {disk}
    /\ issued = {}
    /\ accepted = {}
    /\ released = {}
    /\ owned = {}

-----------------------------------------------------------------------------
(* Mutant: the parent directory is not synced after the rename.            *)
PersistWithoutDirectorySync(content, result) ==
    \/ /\ result \in {"ok", "afterCommit"}
       /\ disk' = content
       /\ survivors' = survivors \cup {content}
    \/ /\ result = "beforeCommit"
       /\ UNCHANGED <<disk, survivors>>

(* save_to_anchored_path_classified.  A directory sync makes every earlier *)
(* rename in that directory durable too.                                   *)
Persist(content, result) ==
    \/ /\ result = "ok"
       /\ disk' = content
       /\ survivors' = {content}
    \/ /\ result = "afterCommit"
       /\ disk' = content
       /\ survivors' = survivors \cup {content}
    \/ /\ result = "beforeCommit"
       /\ UNCHANGED <<disk, survivors>>

(* Mutant: memory is rolled back on every failure.                         *)
RolledBackOnAnyFailure(result) == result # "ok"

(* The uncommitted change is undone by key, as the code does it.           *)
RolledBack(result) == result = "beforeCommit"

(* insert.  It looks for the id in `reviews` only.                         *)
Insert(id, body, result) ==
    LET added == [reviews EXCEPT ![id] = body] IN
    /\ open
    /\ ~ Has(reviews, id)
    /\ Persist(Serialized(added, claimed), result)
    /\ reviews' = IF RolledBack(result) THEN Without(added, id) ELSE added
    /\ issued' = issued \cup {id}
    /\ accepted' = IF result = "ok" THEN accepted \cup {id} ELSE accepted
    /\ UNCHANGED <<open, claimed, released, owned>>

(* Mutant: an uncertain commit counts as a claim.                          *)
ClaimDespiteUncertainty(id, result) ==
    LET body    == reviews[id]
        removed == Without(reviews, id)
        taken   == [claimed EXCEPT ![id] = body]
    IN
    /\ open
    /\ ~ Has(claimed, id)
    /\ Has(reviews, id)
    /\ Persist(Serialized(removed, taken), result)
    /\ claimed' = IF RolledBack(result) THEN Without(taken, id) ELSE taken
    /\ reviews' = IF RolledBack(result)
                  THEN [removed EXCEPT ![id] = body] ELSE removed
    /\ owned' = IF RolledBack(result) THEN owned ELSE owned \cup {id}
    /\ UNCHANGED <<open, issued, accepted, released>>

(* Mutant: the review is copied to `claimed_reviews` and stays pending.    *)
ClaimByCopy(id, result) ==
    LET taken == [claimed EXCEPT ![id] = reviews[id]] IN
    /\ open
    /\ ~ Has(claimed, id)
    /\ Has(reviews, id)
    /\ Persist(Serialized(reviews, taken), result)
    /\ claimed' = IF RolledBack(result) THEN Without(taken, id) ELSE taken
    /\ owned' = IF result = "ok" THEN owned \cup {id} ELSE owned
    /\ UNCHANGED <<open, reviews, issued, accepted, released>>

(* claim: a review moves from `reviews` to `claimed_reviews`.              *)
Claim(id, result) ==
    LET body    == reviews[id]
        removed == Without(reviews, id)
        taken   == [claimed EXCEPT ![id] = body]
    IN
    /\ open
    /\ ~ Has(claimed, id)
    /\ Has(reviews, id)
    /\ Persist(Serialized(removed, taken), result)
    /\ claimed' = IF RolledBack(result) THEN Without(taken, id) ELSE taken
    /\ reviews' = IF RolledBack(result)
                  THEN [removed EXCEPT ![id] = body] ELSE removed
    /\ owned' = IF result = "ok" THEN owned \cup {id} ELSE owned
    /\ UNCHANGED <<open, issued, accepted, released>>

(* restore_claimed: the caller hands its copy of the claimed review back.  *)
(* A copy that differs from the stored review is refused.                  *)
Restore(id, body, result) ==
    LET removed  == Without(claimed, id)
        restored == [reviews EXCEPT ![id] = body]
    IN
    /\ open
    /\ ~ Has(reviews, id)
    /\ Has(claimed, id)
    /\ claimed[id] = body
    /\ Persist(Serialized(restored, removed), result)
    /\ reviews' = IF RolledBack(result) THEN Without(restored, id) ELSE restored
    /\ claimed' = IF RolledBack(result)
                  THEN [removed EXCEPT ![id] = body] ELSE removed
    /\ owned' = owned \ {id}
    /\ UNCHANGED <<open, issued, accepted, released>>

(* Mutant: the id, not the review, is put back.                            *)
ConsumeRestoringId(id, result) ==
    LET removed == Without(claimed, id) IN
    /\ open
    /\ Has(claimed, id)
    /\ Persist(Serialized(reviews, removed), result)
    /\ claimed' = IF RolledBack(result)
                  THEN [removed EXCEPT ![id] = id] ELSE removed
    /\ released' = released \cup {id}
    /\ UNCHANGED <<open, reviews, issued, accepted, owned>>

(* consume_claimed_classified: NotCommitted puts the review back,          *)
(* DurabilityUncertain does not.                                           *)
Consume(id, result) ==
    LET body    == claimed[id]
        removed == Without(claimed, id)
    IN
    /\ open
    /\ Has(claimed, id)
    /\ Persist(Serialized(reviews, removed), result)
    /\ claimed' = IF RolledBack(result)
                  THEN [removed EXCEPT ![id] = body] ELSE removed
    /\ released' = released \cup {id}
    /\ UNCHANGED <<open, reviews, issued, accepted, owned>>

-----------------------------------------------------------------------------
(* The process ends: memory is gone, the state file stays as readers saw   *)
(* it, and what was not synced is still not synced.                        *)
ProcessCrash ==
    /\ open
    /\ open' = FALSE
    /\ reviews' = EmptyMap
    /\ claimed' = EmptyMap
    /\ UNCHANGED <<disk, survivors, callVars>>

(* The machine ends, with the process or after it: one of the surviving    *)
(* contents is the one found at the next start.                            *)
PowerLoss ==
    /\ open' = FALSE
    /\ reviews' = EmptyMap
    /\ claimed' = EmptyMap
    /\ disk' \in survivors
    /\ survivors' = {disk'}
    /\ UNCHANGED callVars

(* load_from_validated_path: a file with a duplicate id stops the start.   *)
Load ==
    /\ ~ open
    /\ Loadable(disk)
    /\ open' = TRUE
    /\ reviews' = disk.pending
    /\ claimed' = disk.claimed
    /\ UNCHANGED <<disk, survivors, callVars>>

-----------------------------------------------------------------------------
(* Any caller: insert is only ever given a fresh UUID (main.rs:1327), the  *)
(* other calls come in any order, with any copy handed back.               *)
StoreNext ==
    \/ \E id \in Ids, result \in PersistResults :
        \/ \E body \in Bodies : id \notin issued /\ Insert(id, body, result)
        \/ Claim(id, result)
        \/ \E body \in Bodies : Restore(id, body, result)
        \/ Consume(id, result)
    \/ ProcessCrash
    \/ PowerLoss
    \/ Load

StoreSpec == StoreInit /\ [][StoreNext]_storeVars

-----------------------------------------------------------------------------
TypeOK ==
    /\ open \in BOOLEAN
    /\ reviews \in ReviewMap
    /\ claimed \in ReviewMap
    /\ disk \in Content
    /\ survivors \subseteq Content
    /\ issued \subseteq Ids
    /\ accepted \subseteq Ids
    /\ released \subseteq Ids
    /\ owned \subseteq Ids

(* While a process runs, its two maps are what the state file says, after  *)
(* any mix of successes, rollbacks and uncertain commits: a failure before *)
(* the commit leaves memory not advanced, one after it not rolled back     *)
(* (README.md "Crash-Safe Persistence").                                   *)
MemoryMatchesDisk == open => disk = Serialized(reviews, claimed)

(* Whatever a crash or a power loss leaves behind can be loaded: the       *)
(* gateway's own writes never make it refuse to start with "duplicate      *)
(* pending review request ID" (pending_review.rs:369).                     *)
OwnStateLoads == \A content \in survivors \cup {disk} : Loadable(content)

(* A review whose insert returned Ok and that nobody began to consume is   *)
(* in the store, pending or claimed, in every state a power loss can       *)
(* reveal: no failed or uncertain operation on another review loses it.    *)
AcceptedIsNotLost ==
    \A id \in accepted \ released : \A content \in survivors :
        Has(content.pending, id) \/ Has(content.claimed, id)

(* Once claim has returned Ok, and until the claim is given back, no crash *)
(* and no power loss makes the review pending again, so it cannot be       *)
(* claimed a second time.  This is what makes an approved side effect      *)
(* happen at most once.                                                    *)
ClaimIsDurable ==
    \A id \in owned : \A content \in survivors : ~ Has(content.pending, id)

=============================================================================

--------------------- MODULE PendingReviewStore_proofs ----------------------
(***************************************************************************)
(* Proofs about PendingReviewStore, for any ids, bodies and persist        *)
(* results.                                                                *)
(*                                                                         *)
(* The safety invariants say something of every surviving content, so the  *)
(* inductive invariant says all of it of each of them at once (Sound).     *)
(* A step either keeps a subset of the survivors or adds the content it    *)
(* serializes from memory, and memory is the visible content, itself a     *)
(* survivor.                                                               *)
(***************************************************************************)
EXTENDS PendingReviewStore, TLAPS

(* What every content that may come back must satisfy.                     *)
Sound(content) ==
    /\ Loadable(content)
    /\ \A id \in accepted \ released :
          Has(content.pending, id) \/ Has(content.claimed, id)
    /\ \A id \in owned : ~ Has(content.pending, id)
    /\ \A id \in Ids \ issued :
          ~ Has(content.pending, id) /\ ~ Has(content.claimed, id)

StoreInv ==
    /\ TypeOK
    /\ MemoryMatchesDisk
    /\ disk \in survivors
    /\ accepted \subseteq issued
    /\ owned \subseteq issued
    /\ \A content \in survivors : Sound(content)

-----------------------------------------------------------------------------
(* What persist does to the file, whatever it is given: the survivors are  *)
(* the old ones, the new content or both, and only the new one when it     *)
(* returns Ok; the visible content is a survivor.                          *)
LEMMA PersistFacts ==
    ASSUME NEW content, NEW result, disk \in survivors, Persist(content, result)
    PROVE  /\ disk' \in survivors'
           /\ survivors' \subseteq survivors \cup {content}
           /\ result = "ok" => survivors' = {content}
           /\ ~ RolledBack(result) => disk' = content
           /\ RolledBack(result) => disk' = disk
  BY DEF Persist, RolledBack

(* A step that persists a well-formed content keeps the file's part of the *)
(* invariant, if the content and the earlier survivors are sound after it. *)
LEMMA PersistKeepsSound ==
    ASSUME NEW content \in Content, NEW result,
           disk \in survivors, survivors \subseteq Content, disk \in Content,
           Persist(content, result),
           Sound(content)',
           result # "ok" => \A old \in survivors : Sound(old)'
    PROVE  /\ disk' \in survivors'
           /\ disk' \in Content
           /\ survivors' \subseteq Content
           /\ \A old \in survivors' : Sound(old)'
  <1>1. /\ disk' \in survivors'
        /\ survivors' \subseteq survivors \cup {content}
        /\ result = "ok" => survivors' = {content}
    BY PersistFacts
  <1>2. survivors' \subseteq Content
    BY <1>1
  <1>3. ASSUME NEW old \in survivors'
        PROVE  Sound(old)'
    <2>1. CASE result = "ok"
      BY <1>1, <2>1
    <2>2. CASE result # "ok"
      BY <1>1, <2>2
    <2>3. QED
      BY <2>1, <2>2
  <1>4. QED
    BY <1>1, <1>2, <1>3

-----------------------------------------------------------------------------
(* While the process runs, memory is a sound content itself.               *)
LEMMA MemoryIsSound ==
    ASSUME StoreInv, open
    PROVE  /\ disk = Serialized(reviews, claimed)
           /\ Sound(Serialized(reviews, claimed))
  BY DEF StoreInv, MemoryMatchesDisk

LEMMA SerializedIsContent ==
    ASSUME NEW pending \in ReviewMap, NEW taken \in ReviewMap
    PROVE  /\ Serialized(pending, taken) \in Content
           /\ Serialized(pending, taken).pending = pending
           /\ Serialized(pending, taken).claimed = taken
  BY DEF Serialized, Content

LEMMA MapUpdate ==
    ASSUME NEW map \in ReviewMap, NEW id \in Ids, NEW body \in Bodies
    PROVE  /\ [map EXCEPT ![id] = body] \in ReviewMap
           /\ Without(map, id) \in ReviewMap
           /\ Has([map EXCEPT ![id] = body], id)
           /\ ~ Has(Without(map, id), id)
           /\ \A other \in Ids \ {id} :
                 /\ Has([map EXCEPT ![id] = body], other) <=> Has(map, other)
                 /\ Has(Without(map, id), other) <=> Has(map, other)
           /\ map[id] = body => [Without(map, id) EXCEPT ![id] = body] = map
           /\ ~ Has(map, id) => Without(map, id) = map
           /\ ~ Has(map, id) => Without([map EXCEPT ![id] = body], id) = map
  BY NoBodyAssumption DEF ReviewMap, Has, Without

LEMMA StoreInitInv == StoreInit => StoreInv
  <1> SUFFICES ASSUME StoreInit PROVE StoreInv
    OBVIOUS
  <1>1. EmptyMap \in ReviewMap
    BY DEF EmptyMap, ReviewMap
  <1>2. disk \in Content
    BY <1>1 DEF StoreInit, Serialized, Content
  <1>3. \A id \in Ids : ~ Has(disk.pending, id) /\ ~ Has(disk.claimed, id)
    BY DEF StoreInit, Serialized, EmptyMap, Has
  <1>4. Sound(disk)
    BY <1>3 DEF StoreInit, Sound, Loadable
  <1>5. QED
    BY <1>1, <1>2, <1>4 DEF StoreInit, StoreInv, TypeOK, MemoryMatchesDisk

LEMMA InsertKeepsInv ==
    ASSUME StoreInv, NEW id \in Ids \ issued, NEW body \in Bodies, NEW result,
           Insert(id, body, result)
    PROVE  StoreInv'
  <1> DEFINE added == [reviews EXCEPT ![id] = body]
  <1>1. /\ reviews \in ReviewMap /\ claimed \in ReviewMap
        /\ open /\ ~ Has(reviews, id)
    BY DEF StoreInv, TypeOK, Insert
  <1>2. /\ added \in ReviewMap /\ Has(added, id)
        /\ \A other \in Ids \ {id} : Has(added, other) <=> Has(reviews, other)
        /\ Without(added, id) = reviews
    BY <1>1, MapUpdate
  <1>3. PICK new \in Content : /\ new = Serialized(added, claimed)
                               /\ new.pending = added
                               /\ new.claimed = claimed
    BY <1>1, <1>2, SerializedIsContent
  <1>4. /\ disk = Serialized(reviews, claimed)
        /\ Sound(Serialized(reviews, claimed))
    BY <1>1, MemoryIsSound
  <1>5. /\ Serialized(reviews, claimed).pending = reviews
        /\ Serialized(reviews, claimed).claimed = claimed
    BY <1>1, SerializedIsContent
  <1>6. ~ Has(claimed, id)
    BY <1>4, <1>5 DEF Sound
  <1>7. /\ issued' = issued \cup {id} /\ released' = released /\ owned' = owned
        /\ accepted' = IF result = "ok" THEN accepted \cup {id} ELSE accepted
        /\ open' = open /\ claimed' = claimed
        /\ reviews' = IF RolledBack(result) THEN reviews ELSE added
        /\ Persist(new, result)
    BY <1>2, <1>3 DEF Insert
  <1>8. Sound(new)'
    <2>1. Loadable(new)
      BY <1>2, <1>3, <1>4, <1>5, <1>6 DEF Sound, Loadable
    <2>2. ASSUME NEW j \in accepted' \ released'
          PROVE  Has(new.pending, j) \/ Has(new.claimed, j)
      <3>1. CASE j = id
        BY <1>2, <1>3, <3>1
      <3>2. CASE j # id
        <4>1. j \in accepted \ released /\ j \in Ids
          BY <1>7, <3>2 DEF StoreInv, TypeOK
        <4>2. Has(reviews, j) \/ Has(claimed, j)
          BY <1>4, <1>5, <4>1 DEF Sound
        <4>3. QED
          BY <1>2, <1>3, <3>2, <4>1, <4>2
      <3>3. QED
        BY <3>1, <3>2
    <2>3. ASSUME NEW j \in owned'
          PROVE  ~ Has(new.pending, j)
      BY <1>2, <1>3, <1>4, <1>5, <1>7 DEF Sound, StoreInv, TypeOK
    <2>4. ASSUME NEW j \in Ids \ issued'
          PROVE  ~ Has(new.pending, j) /\ ~ Has(new.claimed, j)
      BY <1>2, <1>3, <1>4, <1>5, <1>7 DEF Sound
    <2>5. QED
      BY <2>1, <2>2, <2>3, <2>4 DEF Sound, Loadable
  <1>9. ASSUME result # "ok", NEW old \in survivors
        PROVE  Sound(old)'
    BY <1>7, <1>9 DEF StoreInv, Sound, Loadable
  <1>10. /\ disk' \in survivors' /\ disk' \in Content
         /\ survivors' \subseteq Content
         /\ \A old \in survivors' : Sound(old)'
    BY <1>3, <1>7, <1>8, <1>9, PersistKeepsSound DEF StoreInv, TypeOK
  <1>11. MemoryMatchesDisk'
    BY <1>3, <1>4, <1>7, PersistFacts DEF StoreInv, MemoryMatchesDisk, Serialized
  <1>12. TypeOK'
    BY <1>1, <1>2, <1>7, <1>10 DEF StoreInv, TypeOK
  <1>13. QED
    BY <1>7, <1>10, <1>11, <1>12 DEF StoreInv

LEMMA ClaimKeepsInv ==
    ASSUME StoreInv, NEW id \in Ids, NEW result, Claim(id, result)
    PROVE  StoreInv'
  <1> DEFINE body    == reviews[id]
             removed == Without(reviews, id)
             taken   == [claimed EXCEPT ![id] = body]
  <1>1. /\ reviews \in ReviewMap /\ claimed \in ReviewMap /\ open
        /\ ~ Has(claimed, id) /\ Has(reviews, id) /\ body \in Bodies
    BY DEF StoreInv, TypeOK, Claim, Has, ReviewMap
  <1>2. /\ removed \in ReviewMap /\ taken \in ReviewMap
        /\ ~ Has(removed, id) /\ Has(taken, id)
        /\ \A other \in Ids \ {id} :
              /\ Has(removed, other) <=> Has(reviews, other)
              /\ Has(taken, other) <=> Has(claimed, other)
        /\ Without(taken, id) = claimed
        /\ [removed EXCEPT ![id] = body] = reviews
    BY <1>1, MapUpdate
  <1>3. PICK new \in Content : /\ new = Serialized(removed, taken)
                               /\ new.pending = removed
                               /\ new.claimed = taken
    BY <1>2, SerializedIsContent
  <1>4. /\ disk = Serialized(reviews, claimed)
        /\ Sound(Serialized(reviews, claimed))
        /\ Serialized(reviews, claimed).pending = reviews
        /\ Serialized(reviews, claimed).claimed = claimed
    BY <1>1, MemoryIsSound, SerializedIsContent
  <1>5. /\ issued' = issued /\ accepted' = accepted /\ released' = released
        /\ owned' = IF result = "ok" THEN owned \cup {id} ELSE owned
        /\ open' = open
        /\ claimed' = IF RolledBack(result) THEN claimed ELSE taken
        /\ reviews' = IF RolledBack(result) THEN reviews ELSE removed
        /\ Persist(new, result)
    BY <1>2, <1>3 DEF Claim
  <1>6. id \in issued
    BY <1>1, <1>4 DEF Sound
  <1>7. Sound(new)'
    <2>1. Loadable(new)
      BY <1>2, <1>3, <1>4 DEF Sound, Loadable
    <2>2. ASSUME NEW j \in accepted' \ released'
          PROVE  Has(new.pending, j) \/ Has(new.claimed, j)
      <3>1. j \in Ids /\ (Has(reviews, j) \/ Has(claimed, j))
        BY <1>4, <1>5 DEF Sound, StoreInv, TypeOK
      <3>2. QED
        BY <1>2, <1>3, <3>1
    <2>3. ASSUME NEW j \in owned'
          PROVE  ~ Has(new.pending, j)
      <3>1. CASE j = id
        BY <1>2, <1>3, <3>1
      <3>2. CASE j # id
        BY <1>2, <1>3, <1>4, <1>5, <3>2 DEF Sound, StoreInv, TypeOK
      <3>3. QED
        BY <3>1, <3>2
    <2>4. ASSUME NEW j \in Ids \ issued'
          PROVE  ~ Has(new.pending, j) /\ ~ Has(new.claimed, j)
      BY <1>2, <1>3, <1>4, <1>5, <1>6 DEF Sound
    <2>5. QED
      BY <2>1, <2>2, <2>3, <2>4 DEF Sound, Loadable
  <1>8. ASSUME result # "ok", NEW old \in survivors
        PROVE  Sound(old)'
    BY <1>5, <1>8 DEF StoreInv, Sound, Loadable
  <1>9. /\ disk' \in survivors' /\ disk' \in Content
        /\ survivors' \subseteq Content
        /\ \A old \in survivors' : Sound(old)'
    BY <1>5, <1>7, <1>8, PersistKeepsSound DEF StoreInv, TypeOK
  <1>10. MemoryMatchesDisk'
    BY <1>3, <1>4, <1>5, PersistFacts DEF StoreInv, MemoryMatchesDisk
  <1>11. TypeOK'
    BY <1>1, <1>2, <1>5, <1>9 DEF StoreInv, TypeOK
  <1>12. QED
    BY <1>5, <1>6, <1>9, <1>10, <1>11 DEF StoreInv

LEMMA RestoreKeepsInv ==
    ASSUME StoreInv, NEW id \in Ids, NEW body \in Bodies, NEW result,
           Restore(id, body, result)
    PROVE  StoreInv'
  <1> DEFINE removed  == Without(claimed, id)
             restored == [reviews EXCEPT ![id] = body]
  <1>1. /\ reviews \in ReviewMap /\ claimed \in ReviewMap /\ open
        /\ ~ Has(reviews, id) /\ Has(claimed, id) /\ claimed[id] = body
    BY DEF StoreInv, TypeOK, Restore
  <1>2. /\ removed \in ReviewMap /\ restored \in ReviewMap
        /\ ~ Has(removed, id) /\ Has(restored, id)
        /\ \A other \in Ids \ {id} :
              /\ Has(removed, other) <=> Has(claimed, other)
              /\ Has(restored, other) <=> Has(reviews, other)
        /\ Without(restored, id) = reviews
        /\ [removed EXCEPT ![id] = body] = claimed
    BY <1>1, MapUpdate
  <1>3. PICK new \in Content : /\ new = Serialized(restored, removed)
                               /\ new.pending = restored
                               /\ new.claimed = removed
    BY <1>2, SerializedIsContent
  <1>4. /\ disk = Serialized(reviews, claimed)
        /\ Sound(Serialized(reviews, claimed))
        /\ Serialized(reviews, claimed).pending = reviews
        /\ Serialized(reviews, claimed).claimed = claimed
    BY <1>1, MemoryIsSound, SerializedIsContent
  <1>5. /\ issued' = issued /\ accepted' = accepted /\ released' = released
        /\ owned' = owned \ {id}
        /\ open' = open
        /\ claimed' = IF RolledBack(result) THEN claimed ELSE removed
        /\ reviews' = IF RolledBack(result) THEN reviews ELSE restored
        /\ Persist(new, result)
    BY <1>2, <1>3 DEF Restore
  <1>6. id \in issued
    BY <1>1, <1>4 DEF Sound
  <1>7. Sound(new)'
    <2>1. Loadable(new)
      BY <1>2, <1>3, <1>4 DEF Sound, Loadable
    <2>2. ASSUME NEW j \in accepted' \ released'
          PROVE  Has(new.pending, j) \/ Has(new.claimed, j)
      <3>1. j \in Ids /\ (Has(reviews, j) \/ Has(claimed, j))
        BY <1>4, <1>5 DEF Sound, StoreInv, TypeOK
      <3>2. QED
        BY <1>2, <1>3, <3>1
    <2>3. ASSUME NEW j \in owned'
          PROVE  ~ Has(new.pending, j)
      BY <1>2, <1>3, <1>4, <1>5 DEF Sound, StoreInv, TypeOK
    <2>4. ASSUME NEW j \in Ids \ issued'
          PROVE  ~ Has(new.pending, j) /\ ~ Has(new.claimed, j)
      BY <1>2, <1>3, <1>4, <1>5, <1>6 DEF Sound
    <2>5. QED
      BY <2>1, <2>2, <2>3, <2>4 DEF Sound, Loadable
  <1>8. ASSUME result # "ok", NEW old \in survivors
        PROVE  Sound(old)'
    BY <1>5, <1>8 DEF StoreInv, Sound, Loadable
  <1>9. /\ disk' \in survivors' /\ disk' \in Content
        /\ survivors' \subseteq Content
        /\ \A old \in survivors' : Sound(old)'
    BY <1>5, <1>7, <1>8, PersistKeepsSound DEF StoreInv, TypeOK
  <1>10. MemoryMatchesDisk'
    BY <1>3, <1>4, <1>5, PersistFacts DEF StoreInv, MemoryMatchesDisk
  <1>11. TypeOK'
    BY <1>1, <1>2, <1>5, <1>9 DEF StoreInv, TypeOK
  <1>12. QED
    BY <1>5, <1>9, <1>10, <1>11 DEF StoreInv

LEMMA ConsumeKeepsInv ==
    ASSUME StoreInv, NEW id \in Ids, NEW result, Consume(id, result)
    PROVE  StoreInv'
  <1> DEFINE body    == claimed[id]
             removed == Without(claimed, id)
  <1>1. /\ reviews \in ReviewMap /\ claimed \in ReviewMap /\ open
        /\ Has(claimed, id) /\ body \in Bodies
    BY DEF StoreInv, TypeOK, Consume, Has, ReviewMap
  <1>2. /\ removed \in ReviewMap /\ ~ Has(removed, id)
        /\ \A other \in Ids \ {id} : Has(removed, other) <=> Has(claimed, other)
        /\ [removed EXCEPT ![id] = body] = claimed
    BY <1>1, MapUpdate
  <1>3. PICK new \in Content : /\ new = Serialized(reviews, removed)
                               /\ new.pending = reviews
                               /\ new.claimed = removed
    BY <1>1, <1>2, SerializedIsContent
  <1>4. /\ disk = Serialized(reviews, claimed)
        /\ Sound(Serialized(reviews, claimed))
        /\ Serialized(reviews, claimed).pending = reviews
        /\ Serialized(reviews, claimed).claimed = claimed
    BY <1>1, MemoryIsSound, SerializedIsContent
  <1>5. /\ issued' = issued /\ accepted' = accepted
        /\ released' = released \cup {id} /\ owned' = owned
        /\ open' = open /\ reviews' = reviews
        /\ claimed' = IF RolledBack(result) THEN claimed ELSE removed
        /\ Persist(new, result)
    BY <1>2, <1>3 DEF Consume
  <1>6. Sound(new)'
    <2>1. Loadable(new)
      BY <1>2, <1>3, <1>4 DEF Sound, Loadable
    <2>2. ASSUME NEW j \in accepted' \ released'
          PROVE  Has(new.pending, j) \/ Has(new.claimed, j)
      <3>1. j \in Ids \ {id} /\ (Has(reviews, j) \/ Has(claimed, j))
        BY <1>4, <1>5 DEF Sound, StoreInv, TypeOK
      <3>2. QED
        BY <1>2, <1>3, <3>1
    <2>3. ASSUME NEW j \in owned'
          PROVE  ~ Has(new.pending, j)
      BY <1>3, <1>4, <1>5 DEF Sound
    <2>4. ASSUME NEW j \in Ids \ issued'
          PROVE  ~ Has(new.pending, j) /\ ~ Has(new.claimed, j)
      BY <1>2, <1>3, <1>4, <1>5 DEF Sound
    <2>5. QED
      BY <2>1, <2>2, <2>3, <2>4 DEF Sound, Loadable
  <1>7. ASSUME result # "ok", NEW old \in survivors
        PROVE  Sound(old)'
    BY <1>5, <1>7 DEF StoreInv, Sound, Loadable
  <1>8. /\ disk' \in survivors' /\ disk' \in Content
        /\ survivors' \subseteq Content
        /\ \A old \in survivors' : Sound(old)'
    BY <1>5, <1>6, <1>7, PersistKeepsSound DEF StoreInv, TypeOK
  <1>9. MemoryMatchesDisk'
    BY <1>3, <1>4, <1>5, PersistFacts DEF StoreInv, MemoryMatchesDisk
  <1>10. TypeOK'
    BY <1>1, <1>2, <1>5, <1>8 DEF StoreInv, TypeOK
  <1>11. QED
    BY <1>5, <1>8, <1>9, <1>10 DEF StoreInv

LEMMA CrashKeepsInv ==
    ASSUME StoreInv, ProcessCrash \/ PowerLoss
    PROVE  StoreInv'
  <1>1. EmptyMap \in ReviewMap
    BY DEF EmptyMap, ReviewMap
  <1>2. CASE ProcessCrash
    BY <1>1, <1>2 DEF StoreInv, ProcessCrash, TypeOK, MemoryMatchesDisk, Sound,
       Loadable, callVars
  <1>3. CASE PowerLoss
    BY <1>1, <1>3 DEF StoreInv, PowerLoss, TypeOK, MemoryMatchesDisk, Sound,
       Loadable, callVars
  <1>4. QED
    BY <1>2, <1>3

LEMMA LoadKeepsInv ==
    ASSUME StoreInv, Load
    PROVE  StoreInv'
  <1>1. /\ disk.pending \in ReviewMap /\ disk.claimed \in ReviewMap
        /\ disk = Serialized(disk.pending, disk.claimed)
    BY DEF StoreInv, TypeOK, Content, Serialized
  <1>2. QED
    BY <1>1 DEF StoreInv, Load, TypeOK, MemoryMatchesDisk, Sound, Loadable,
       callVars

LEMMA StoreNextKeepsInv ==
    ASSUME StoreInv, [StoreNext]_storeVars
    PROVE  StoreInv'
  <1>1. CASE \E id \in Ids, result \in PersistResults, body \in Bodies :
                id \notin issued /\ Insert(id, body, result)
    BY <1>1, InsertKeepsInv
  <1>2. CASE \E id \in Ids, result \in PersistResults : Claim(id, result)
    BY <1>2, ClaimKeepsInv
  <1>3. CASE \E id \in Ids, result \in PersistResults, body \in Bodies :
                Restore(id, body, result)
    BY <1>3, RestoreKeepsInv
  <1>4. CASE \E id \in Ids, result \in PersistResults : Consume(id, result)
    BY <1>4, ConsumeKeepsInv
  <1>5. CASE ProcessCrash \/ PowerLoss
    BY <1>5, CrashKeepsInv
  <1>6. CASE Load
    BY <1>6, LoadKeepsInv
  <1>7. CASE UNCHANGED storeVars
    BY <1>7 DEF StoreInv, TypeOK, MemoryMatchesDisk, Sound, Loadable,
       storeVars, callVars
  <1>8. QED
    BY <1>1, <1>2, <1>3, <1>4, <1>5, <1>6, <1>7 DEF StoreNext

(* The inductive invariant holds of every behaviour of the store.          *)
THEOREM StoreInvariant == StoreSpec => []StoreInv
  <1>1. StoreInit => StoreInv
    BY StoreInitInv
  <1>2. StoreInv /\ [StoreNext]_storeVars => StoreInv'
    BY StoreNextKeepsInv
  <1>3. QED
    BY <1>1, <1>2, PTL DEF StoreSpec

-----------------------------------------------------------------------------
(* Every variable keeps its type.                                          *)
THEOREM StoreTypeCorrect == StoreSpec => []TypeOK
  BY StoreInvariant, PTL DEF StoreInv

(* However operations fail, the two maps of a running process are what the *)
(* state file says.                                                        *)
THEOREM StoreMemoryMatchesDisk == StoreSpec => []MemoryMatchesDisk
  BY StoreInvariant, PTL DEF StoreInv

(* The gateway can always load what it has written itself.                 *)
THEOREM StoreLoadsOwnState == StoreSpec => []OwnStateLoads
  <1>1. StoreInv => OwnStateLoads
    BY DEF StoreInv, Sound, OwnStateLoads
  <1>2. QED
    BY <1>1, StoreInvariant, PTL

(* An accepted review is in every surviving content until it is consumed.  *)
THEOREM StoreKeepsAccepted == StoreSpec => []AcceptedIsNotLost
  <1>1. StoreInv => AcceptedIsNotLost
    BY DEF StoreInv, Sound, AcceptedIsNotLost
  <1>2. QED
    BY <1>1, StoreInvariant, PTL

(* A claim that returned Ok is not undone by any crash or power loss.      *)
THEOREM StoreClaimIsDurable == StoreSpec => []ClaimIsDurable
  <1>1. StoreInv => ClaimIsDurable
    BY DEF StoreInv, Sound, ClaimIsDurable
  <1>2. QED
    BY <1>1, StoreInvariant, PTL
-----------------------------------------------------------------------------
(* What one operation may leave in the file, for a reader of one review:   *)
(* the contents that were there, and the visible one with the entry of     *)
(* that review changed.                                                    *)
Rewrites(new, id) ==
    /\ survivors' \subseteq survivors \cup {new}
    /\ \A other \in Ids \ {id} :
          /\ new.pending[other] = disk.pending[other]
          /\ new.claimed[other] = disk.claimed[other]

LEMMA InsertContent ==
    ASSUME StoreInv, NEW id \in Ids, NEW body \in Bodies, NEW result,
           Insert(id, body, result)
    PROVE  \E new :
              /\ Rewrites(new, id)
              /\ new.pending[id] = body
              /\ new.claimed[id] = disk.claimed[id]
  <1> DEFINE added == [reviews EXCEPT ![id] = body]
             new   == Serialized(added, claimed)
  <1>1. /\ reviews \in ReviewMap /\ claimed \in ReviewMap
        /\ disk.pending = reviews /\ disk.claimed = claimed
        /\ disk \in survivors
    BY MemoryIsSound, SerializedIsContent DEF StoreInv, TypeOK, Insert
  <1>2. new.pending = added /\ new.claimed = claimed
    BY DEF Serialized
  <1>3. survivors' \subseteq survivors \cup {new}
    BY <1>1, PersistFacts DEF Insert
  <1> HIDE DEF new
  <1>4. QED
    BY <1>1, <1>2, <1>3 DEF Rewrites, ReviewMap

LEMMA ClaimContent ==
    ASSUME StoreInv, NEW id \in Ids, NEW result, Claim(id, result)
    PROVE  /\ Has(disk.pending, id)
           /\ \E new :
                 /\ Rewrites(new, id)
                 /\ new.pending[id] = NoBody
                 /\ new.claimed[id] = disk.pending[id]
                 /\ result = "ok" => survivors' = {new}
  <1> DEFINE removed == Without(reviews, id)
             taken   == [claimed EXCEPT ![id] = reviews[id]]
             new     == Serialized(removed, taken)
  <1>1. /\ reviews \in ReviewMap /\ claimed \in ReviewMap
        /\ disk.pending = reviews /\ disk.claimed = claimed
        /\ disk \in survivors /\ Has(reviews, id)
    BY MemoryIsSound, SerializedIsContent DEF StoreInv, TypeOK, Claim
  <1>2. new.pending = removed /\ new.claimed = taken
    BY DEF Serialized
  <1>3. /\ survivors' \subseteq survivors \cup {new}
        /\ result = "ok" => survivors' = {new}
    BY <1>1, PersistFacts DEF Claim
  <1> HIDE DEF new
  <1>4. QED
    BY <1>1, <1>2, <1>3 DEF Rewrites, ReviewMap, Without

LEMMA RestoreContent ==
    ASSUME StoreInv, NEW id \in Ids, NEW body, NEW result,
           Restore(id, body, result)
    PROVE  /\ Has(disk.claimed, id) /\ disk.claimed[id] = body
           /\ \E new :
                 /\ Rewrites(new, id)
                 /\ new.pending[id] = body
                 /\ new.claimed[id] = NoBody
  <1> DEFINE removed  == Without(claimed, id)
             restored == [reviews EXCEPT ![id] = body]
             new      == Serialized(restored, removed)
  <1>1. /\ reviews \in ReviewMap /\ claimed \in ReviewMap
        /\ disk.pending = reviews /\ disk.claimed = claimed
        /\ disk \in survivors /\ Has(claimed, id) /\ claimed[id] = body
    BY MemoryIsSound, SerializedIsContent DEF StoreInv, TypeOK, Restore
  <1>2. new.pending = restored /\ new.claimed = removed
    BY DEF Serialized
  <1>3. survivors' \subseteq survivors \cup {new}
    BY <1>1, PersistFacts DEF Restore
  <1> HIDE DEF new
  <1>4. QED
    BY <1>1, <1>2, <1>3 DEF Rewrites, ReviewMap, Without

LEMMA ConsumeContent ==
    ASSUME StoreInv, NEW id \in Ids, NEW result, Consume(id, result)
    PROVE  /\ Has(disk.claimed, id) /\ ~ Has(disk.pending, id)
           /\ \E new :
                 /\ Rewrites(new, id)
                 /\ new.pending[id] = NoBody
                 /\ new.claimed[id] = NoBody
                 /\ result = "ok" => survivors' = {new}
  <1> DEFINE removed == Without(claimed, id)
             new     == Serialized(reviews, removed)
  <1>1. /\ reviews \in ReviewMap /\ claimed \in ReviewMap
        /\ disk.pending = reviews /\ disk.claimed = claimed
        /\ disk \in survivors /\ Has(claimed, id) /\ ~ Has(reviews, id)
    BY MemoryIsSound, SerializedIsContent
       DEF StoreInv, TypeOK, Consume, Sound, Loadable
  <1>2. new.pending = reviews /\ new.claimed = removed
    BY DEF Serialized
  <1>3. /\ survivors' \subseteq survivors \cup {new}
        /\ result = "ok" => survivors' = {new}
    BY <1>1, PersistFacts DEF Consume
  <1> HIDE DEF new
  <1>4. QED
    BY <1>1, <1>2, <1>3 DEF Rewrites, ReviewMap, Without, Has
=============================================================================

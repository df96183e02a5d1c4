--------------------------- MODULE AuditLog_proofs ---------------------------
(***************************************************************************)
(* Proofs about AuditLog, for any number of writers, any calls that fail,  *)
(* crashes and power losses, and a log that exists at the beginning or     *)
(* does not: records do not interleave, an Ok means synced, and the file   *)
(* implements AuditTrail.                                                  *)
(***************************************************************************)
EXTENDS AuditLog, TLAPS

(* Whoever is between the mutex and its release holds it, and the file is  *)
(* there once it was opened.                                               *)
MutexInv ==
    \A w \in Writers : pc[w] \in Calls =>
        /\ lock = w
        /\ pc[w] # "open" => exists

(* What the writer at work has written last.                               *)
WritingInv ==
    \A w \in Writers :
        /\ pc[w] = "newline" => Len(file) >= 1 /\ file[Len(file)] = Json(w)
        /\ pc[w] = "sync" =>
            /\ Len(file) >= 2
            /\ file[Len(file) - 1] = Json(w)
            /\ file[Len(file)] = LineEnd(w)

(* A text at the end of the file is still to get its line end, or its      *)
(* writer is gone.                                                         *)
LastInv ==
    Len(file) >= 1 /\ file[Len(file)].kind = "json" =>
        pc[file[Len(file)].by] \in {"newline", "failed", "dead"}

(* What is not synced is of a writer that has not returned Ok.             *)
UnsyncedInv ==
    \A i \in syncedLen + 1 .. Len(file) :
        pc[file[i].by] \in {"newline", "sync", "failed", "dead"}

(* A file whose directory entry is not durable is being created, or its    *)
(* creation was not finished; without an entry nothing is left of it.      *)
LinkInv ==
    /\ linked => exists
    /\ ~ exists => file = <<>>
    /\ exists /\ ~ linked =>
        \/ CreationUnfinished
        \/ \E v \in Writers : created[v] /\ pc[v] \in {"secure", "syncNew"}
    /\ \A w \in Writers :
        /\ created[w] /\ pc[w] \in {"json", "newline", "sync"} => linked
        /\ pc[w] = "syncParent" => linked

(* The record of a call that has synced it.                                *)
SyncedInv ==
    \A w \in Writers : pc[w] \in {"ok", "syncParent"} =>
        (linked /\ Durable(w)) \/ CreationUnfinished

LogInv ==
    /\ TypeOK /\ MutexInv /\ WritingInv /\ LastInv /\ LinesDoNotInterleave
    /\ UnsyncedInv /\ LinkInv /\ SyncedInv

-----------------------------------------------------------------------------
(* What Append and SubSeq give, piece by piece.                            *)
LEMMA AppendKeeps ==
    ASSUME NEW S, NEW s \in Seq(S), NEW e \in S
    PROVE  /\ Append(s, e) \in Seq(S)
           /\ Len(Append(s, e)) = Len(s) + 1
           /\ Append(s, e)[Len(s) + 1] = e
           /\ \A i \in 1 .. Len(s) : Append(s, e)[i] = s[i]
    BY SMT

LEMMA PrefixKeeps ==
    ASSUME NEW S, NEW s \in Seq(S), NEW n \in 0 .. Len(s)
    PROVE  /\ SubSeq(s, 1, n) \in Seq(S)
           /\ Len(SubSeq(s, 1, n)) = n
           /\ \A i \in 1 .. n : SubSeq(s, 1, n)[i] = s[i]
    BY SMT

(* The three kinds of pieces differ.                                       *)
LEMMA PiecesDiffer ==
    ASSUME NEW v \in Writers, NEW w \in Writers
    PROVE  /\ Json(v) \in Pieces /\ Torn(v) \in Pieces /\ LineEnd(v) \in Pieces
           /\ Json(v).kind = "json" /\ Torn(v).kind = "torn"
           /\ LineEnd(v).kind = "newline"
           /\ Json(v).by = v /\ Torn(v).by = v /\ LineEnd(v).by = v
           /\ Json(v) # LineEnd(w) /\ Torn(v) # LineEnd(w) /\ Json(v) # Torn(w)
    BY DEF Json, Torn, LineEnd, Pieces

LEMMA PieceOf ==
    ASSUME NEW p \in Pieces
    PROVE  /\ p.by \in Writers
           /\ p.kind \in {"json", "torn", "newline"}
           /\ p.kind = "json" => p = Json(p.by)
    BY DEF Json, Pieces

LEMMA LogInit == Init => LogInv
<1> SUFFICES ASSUME Init PROVE LogInv
    OBVIOUS
<1>1. TypeOK
    BY FileExistsAssumption DEF Init, TypeOK
<1>2. MutexInv /\ WritingInv /\ SyncedInv
    BY DEF Init, MutexInv, WritingInv, SyncedInv, Calls
<1>3. LastInv /\ LinesDoNotInterleave /\ UnsyncedInv
    BY DEF Init, LastInv, LinesDoNotInterleave, UnsyncedInv
<1>4. LinkInv
    BY FileExistsAssumption DEF Init, LinkInv
<1> QED
    BY <1>1, <1>2, <1>3, <1>4 DEF LogInv

(* One lemma per action, one step per part of the invariant.               *)
LEMMA AcquireKeeps ==
    ASSUME LogInv, NEW w \in Writers, Acquire(w)
    PROVE  LogInv'
<1> USE DEF LogInv
<1>1. TypeOK'
    BY DEF Acquire, Goto, TypeOK, Calls
<1>2. MutexInv'
    BY NoWriterAssumption DEF Acquire, Goto, TypeOK, MutexInv, Calls
<1>3. WritingInv'
    BY DEF Acquire, Goto, TypeOK, WritingInv
<1>4. LastInv'
    BY DEF Acquire, Goto, TypeOK, LastInv, Pieces
<1>5. LinesDoNotInterleave'
    BY DEF Acquire, Goto, TypeOK, LinesDoNotInterleave, Pieces
<1>6. UnsyncedInv'
    BY DEF Acquire, Goto, TypeOK, UnsyncedInv, Pieces
<1>7. LinkInv'
    BY DEF Acquire, Goto, TypeOK, LinkInv, CreationUnfinished
<1>8. SyncedInv'
    BY DEF Acquire, Goto, TypeOK, SyncedInv, CreationUnfinished, Durable
<1> QED
    BY <1>1, <1>2, <1>3, <1>4, <1>5, <1>6, <1>7, <1>8

LEMMA FailKeeps ==
    ASSUME LogInv, NEW w \in Writers, Fail(w)
    PROVE  LogInv'
<1> USE DEF LogInv
<1>1. TypeOK'
    BY WriteFaultsAssumption DEF Fail, Return, Goto, TypeOK, Calls
<1>2. MutexInv'
    BY NoWriterAssumption, WriteFaultsAssumption DEF Fail, Return, Goto, TypeOK, MutexInv, Calls
<1>3. WritingInv'
    BY DEF Fail, Return, Goto, TypeOK, WritingInv
<1>4. LastInv'
    BY DEF Fail, Return, Goto, TypeOK, LastInv, Pieces
<1>5. LinesDoNotInterleave'
    BY DEF Fail, Return, Goto, TypeOK, LinesDoNotInterleave, Pieces
<1>6. UnsyncedInv'
    BY DEF Fail, Return, Goto, TypeOK, UnsyncedInv, Pieces
<1>7. LinkInv'
    BY WriteFaultsAssumption DEF Fail, Return, Goto, TypeOK, MutexInv, LinkInv, CreationUnfinished, Calls
<1>8. SyncedInv'
    BY WriteFaultsAssumption DEF Fail, Return, Goto, TypeOK, MutexInv, LinkInv, SyncedInv, CreationUnfinished, Durable, Calls
<1> QED
    BY <1>1, <1>2, <1>3, <1>4, <1>5, <1>6, <1>7, <1>8

LEMMA OpenKeeps ==
    ASSUME LogInv, NEW w \in Writers, Open(w)
    PROVE  LogInv'
<1> USE DEF LogInv
<1>1. TypeOK'
    BY DEF Open, Goto, TypeOK, Calls
<1>2. MutexInv'
    BY NoWriterAssumption DEF Open, Goto, TypeOK, MutexInv, Calls
<1>3. WritingInv'
    BY DEF Open, Goto, TypeOK, WritingInv
<1>4. LastInv'
    BY DEF Open, Goto, TypeOK, LastInv, Pieces
<1>5. LinesDoNotInterleave'
    BY DEF Open, Goto, TypeOK, LinesDoNotInterleave, Pieces
<1>6. UnsyncedInv'
    BY DEF Open, Goto, TypeOK, UnsyncedInv, Pieces
<1>7. LinkInv'
    BY DEF Open, Goto, TypeOK, MutexInv, LinkInv, CreationUnfinished, Calls
<1>8. SyncedInv'
    BY DEF Open, Goto, TypeOK, MutexInv, LinkInv, SyncedInv, CreationUnfinished, Durable, Calls
<1> QED
    BY <1>1, <1>2, <1>3, <1>4, <1>5, <1>6, <1>7, <1>8

LEMMA SecureKeeps ==
    ASSUME LogInv, NEW w \in Writers, Secure(w)
    PROVE  LogInv'
<1> USE DEF LogInv
<1>1. TypeOK'
    BY DEF Secure, Goto, TypeOK, Calls
<1>2. MutexInv'
    BY NoWriterAssumption DEF Secure, Goto, TypeOK, MutexInv, Calls
<1>3. WritingInv'
    BY DEF Secure, Goto, TypeOK, WritingInv
<1>4. LastInv'
    BY DEF Secure, Goto, TypeOK, LastInv, Pieces
<1>5. LinesDoNotInterleave'
    BY DEF Secure, Goto, TypeOK, LinesDoNotInterleave, Pieces
<1>6. UnsyncedInv'
    BY DEF Secure, Goto, TypeOK, UnsyncedInv, Pieces
<1>7. LinkInv'
    BY DEF Secure, Goto, TypeOK, MutexInv, LinkInv, CreationUnfinished, Calls
<1>8. SyncedInv'
    BY DEF Secure, Goto, TypeOK, MutexInv, LinkInv, SyncedInv, CreationUnfinished, Durable, Calls
<1> QED
    BY <1>1, <1>2, <1>3, <1>4, <1>5, <1>6, <1>7, <1>8

LEMMA SyncNewKeeps ==
    ASSUME LogInv, NEW w \in Writers, SyncNew(w)
    PROVE  LogInv'
<1> USE DEF LogInv
<1>1. TypeOK'
    BY DEF SyncNew, Goto, TypeOK, Calls
<1>2. MutexInv'
    BY NoWriterAssumption DEF SyncNew, Goto, TypeOK, MutexInv, Calls
<1>3. WritingInv'
    BY DEF SyncNew, Goto, TypeOK, WritingInv
<1>4. LastInv'
    BY DEF SyncNew, Goto, TypeOK, LastInv, Pieces
<1>5. LinesDoNotInterleave'
    BY DEF SyncNew, Goto, TypeOK, LinesDoNotInterleave, Pieces
<1>6. UnsyncedInv'
    BY DEF SyncNew, Goto, TypeOK, UnsyncedInv, Pieces
<1>7. LinkInv'
    BY DEF SyncNew, Goto, TypeOK, MutexInv, LinkInv, CreationUnfinished, Calls
<1>8. SyncedInv'
    BY DEF SyncNew, Goto, TypeOK, MutexInv, LinkInv, SyncedInv, CreationUnfinished, Durable, Calls
<1> QED
    BY <1>1, <1>2, <1>3, <1>4, <1>5, <1>6, <1>7, <1>8

LEMMA SyncKeeps ==
    ASSUME LogInv, NEW w \in Writers, Sync(w)
    PROVE  LogInv'
<1> USE DEF LogInv
<1>0. /\ pc[w] = "sync" /\ lock = w /\ exists
      /\ pc' = [pc EXCEPT ![w] = IF created[w] THEN "syncParent" ELSE "ok"]
      /\ lock' = IF created[w] THEN lock ELSE NoWriter
      /\ UNCHANGED <<created, exists, linked, file>>
      /\ syncedLen' = Len(file)
    BY DEF Sync, Return, Goto, MutexInv, Calls
<1>1. TypeOK'
    BY <1>0 DEF TypeOK, Calls
<1>2. MutexInv'
    BY <1>0, NoWriterAssumption DEF TypeOK, MutexInv, Calls
<1>3. WritingInv'
    BY <1>0 DEF TypeOK, WritingInv
<1>4. LastInv'
    BY <1>0 DEF TypeOK, LastInv, Pieces
<1>5. LinesDoNotInterleave'
    BY <1>0 DEF TypeOK, LinesDoNotInterleave, Pieces
<1>6. UnsyncedInv'
    BY <1>0 DEF TypeOK, UnsyncedInv
<1>7. LinkInv'
    BY <1>0 DEF TypeOK, LinkInv, CreationUnfinished, Calls
<1>8. SyncedInv'
  <2>1. CreationUnfinished => CreationUnfinished'
    BY <1>0 DEF TypeOK, CreationUnfinished
  <2>2. Durable(w)'
    BY <1>0 DEF TypeOK, WritingInv, Durable
  <2>3. ASSUME NEW v \in Writers PROVE Durable(v) => Durable(v)'
    BY <1>0 DEF TypeOK, Durable
  <2>4. linked \/ CreationUnfinished
    <3>1. ASSUME ~ linked, NEW v \in Writers, created[v],
                 pc[v] \in {"secure", "syncNew"}
          PROVE  FALSE
        BY <1>0, <3>1 DEF MutexInv, Calls
    <3> QED
        BY <1>0, <3>1 DEF LinkInv
  <2>5. ASSUME NEW v \in Writers, pc'[v] \in {"ok", "syncParent"}
        PROVE  (linked /\ Durable(v))' \/ CreationUnfinished'
    <3>1. CASE v = w
        BY <3>1, <2>1, <2>2, <2>4, <1>0
    <3>2. CASE v # w
      <4>1. pc[v] = pc'[v]
        BY <3>2, <1>0 DEF TypeOK
      <4> QED
        BY <4>1, <2>5, <2>1, <2>3, <1>0 DEF SyncedInv
    <3> QED
        BY <3>1, <3>2
  <2> QED
    BY <2>5 DEF SyncedInv
<1> QED
    BY <1>1, <1>2, <1>3, <1>4, <1>5, <1>6, <1>7, <1>8

LEMMA SyncParentKeeps ==
    ASSUME LogInv, NEW w \in Writers, SyncParent(w)
    PROVE  LogInv'
<1> USE DEF LogInv
<1>1. TypeOK'
    BY DEF SyncParent, Return, Goto, TypeOK, Calls
<1>2. MutexInv'
    BY NoWriterAssumption DEF SyncParent, Return, Goto, TypeOK, MutexInv, Calls
<1>3. WritingInv'
    BY DEF SyncParent, Return, Goto, TypeOK, WritingInv
<1>4. LastInv'
    BY DEF SyncParent, Return, Goto, TypeOK, LastInv, Pieces
<1>5. LinesDoNotInterleave'
    BY DEF SyncParent, Return, Goto, TypeOK, LinesDoNotInterleave, Pieces
<1>6. UnsyncedInv'
    BY DEF SyncParent, Return, Goto, TypeOK, UnsyncedInv, Pieces
<1>7. LinkInv'
    BY DEF SyncParent, Return, Goto, TypeOK, MutexInv, LinkInv, CreationUnfinished, Calls
<1>8. SyncedInv'
    BY DEF SyncParent, Return, Goto, TypeOK, MutexInv, LinkInv, SyncedInv, CreationUnfinished, Durable, Calls
<1> QED
    BY <1>1, <1>2, <1>3, <1>4, <1>5, <1>6, <1>7, <1>8

LEMMA WriteJsonKeeps ==
    ASSUME LogInv, NEW w \in Writers, WriteJson(w)
    PROVE  LogInv'
<1> USE DEF LogInv
<1>0. /\ pc[w] = "json" /\ lock = w /\ exists
      /\ pc' = [pc EXCEPT ![w] = "newline"]
      /\ lock' = lock
      /\ UNCHANGED <<created, exists, linked, syncedLen>>
      /\ file' = Append(file, Json(w))
    BY DEF WriteJson, Goto, MutexInv, Calls
<1>a. /\ Json(w) \in Pieces /\ Json(w).by = w
      /\ Json(w).kind = "json"
      /\ \A v \in Writers : Json(v) # LineEnd(w) /\ Torn(w) # LineEnd(v)
    BY PiecesDiffer
<1>b. /\ file \in Seq(Pieces) /\ file' \in Seq(Pieces)
      /\ Len(file) \in Nat /\ Len(file') = Len(file) + 1
      /\ file'[Len(file) + 1] = Json(w)
      /\ \A i \in 1 .. Len(file) : file'[i] = file[i]
      /\ \A i \in 1 .. Len(file) : file[i] \in Pieces /\ file[i].by \in Writers
  <2>1. file \in Seq(Pieces) /\ Len(file) \in Nat
    BY DEF TypeOK
  <2>2. \A i \in 1 .. Len(file) : file[i] \in Pieces
    BY <2>1
  <2>3. \A p \in Pieces : p.by \in Writers
    BY PieceOf
  <2> QED
    BY <2>1, <2>2, <2>3, <1>0, <1>a, AppendKeeps
<1>c. \A v \in Writers : v # w => pc'[v] = pc[v] /\ pc[v] \notin Calls
    BY <1>0 DEF TypeOK, MutexInv
<1>d. pc'[w] = "newline"
    BY <1>0 DEF TypeOK
<1>1. TypeOK'
    BY <1>0, <1>b DEF TypeOK, Calls
<1>2. MutexInv'
    BY <1>0, NoWriterAssumption DEF TypeOK, MutexInv, Calls
<1>3. WritingInv'
    BY <1>0, <1>a, <1>b, <1>c, <1>d DEF WritingInv, Calls
<1>4. LastInv'
    BY <1>a, <1>b, <1>d DEF LastInv
<1>5. LinesDoNotInterleave'
  <2> SUFFICES ASSUME NEW i \in 1 .. Len(file), file'[i].kind = "json",
                      file'[i + 1] # LineEnd(file'[i].by)
               PROVE  pc'[file'[i].by] \in {"failed", "dead"}
    BY <1>b DEF LinesDoNotInterleave
  <2>1. CASE i = Len(file)
    BY <2>1, <1>0, <1>a, <1>b, <1>c, <1>d DEF LastInv, Calls
  <2>2. CASE i < Len(file)
    BY <2>2, <1>0, <1>b, <1>c, <1>d DEF LinesDoNotInterleave
  <2> QED
    BY <2>1, <2>2, <1>b
<1>6. UnsyncedInv'
    BY <1>0, <1>a, <1>b, <1>c, <1>d DEF TypeOK, UnsyncedInv
<1>7. LinkInv'
    BY <1>0, <1>c, <1>d DEF TypeOK, LinkInv, CreationUnfinished
<1>8. SyncedInv'
  <2>1. CreationUnfinished => CreationUnfinished'
    BY <1>0, <1>c DEF CreationUnfinished
  <2>2. ASSUME NEW v \in Writers, Durable(v) PROVE Durable(v)'
    <3>1. PICK i \in 1 .. syncedLen - 1 :
            file[i] = Json(v) /\ file[i + 1] = LineEnd(v)
        BY <2>2 DEF Durable
    <3>2. i \in 1 .. syncedLen' - 1 /\ i \in 1 .. Len(file) /\ i + 1 \in 1 .. Len(file)
        BY <1>0, <1>b DEF TypeOK
    <3>3. file'[i] = Json(v) /\ file'[i + 1] = LineEnd(v)
        BY <3>1, <3>2, <1>b
    <3> QED
        BY <3>2, <3>3 DEF Durable, Json, LineEnd
  <2> QED
    BY <2>1, <2>2, <1>0, <1>c, <1>d DEF SyncedInv
<1> QED
    BY <1>1, <1>2, <1>3, <1>4, <1>5, <1>6, <1>7, <1>8

LEMMA TearJsonKeeps ==
    ASSUME LogInv, NEW w \in Writers, TearJson(w)
    PROVE  LogInv'
<1> USE DEF LogInv
<1>0. /\ pc[w] = "json" /\ lock = w /\ exists
      /\ pc' = [pc EXCEPT ![w] = "failed"]
      /\ lock' = NoWriter
      /\ UNCHANGED <<created, exists, linked, syncedLen>>
      /\ file' = Append(file, Torn(w))
    BY DEF TearJson, Return, Goto, MutexInv, Calls
<1>a. /\ Torn(w) \in Pieces /\ Torn(w).by = w
      /\ Torn(w).kind = "torn"
      /\ \A v \in Writers : Json(v) # LineEnd(w) /\ Torn(w) # LineEnd(v)
    BY PiecesDiffer
<1>b. /\ file \in Seq(Pieces) /\ file' \in Seq(Pieces)
      /\ Len(file) \in Nat /\ Len(file') = Len(file) + 1
      /\ file'[Len(file) + 1] = Torn(w)
      /\ \A i \in 1 .. Len(file) : file'[i] = file[i]
      /\ \A i \in 1 .. Len(file) : file[i] \in Pieces /\ file[i].by \in Writers
  <2>1. file \in Seq(Pieces) /\ Len(file) \in Nat
    BY DEF TypeOK
  <2>2. \A i \in 1 .. Len(file) : file[i] \in Pieces
    BY <2>1
  <2>3. \A p \in Pieces : p.by \in Writers
    BY PieceOf
  <2> QED
    BY <2>1, <2>2, <2>3, <1>0, <1>a, AppendKeeps
<1>c. \A v \in Writers : v # w => pc'[v] = pc[v] /\ pc[v] \notin Calls
    BY <1>0 DEF TypeOK, MutexInv
<1>d. pc'[w] = "failed"
    BY <1>0 DEF TypeOK
<1>1. TypeOK'
    BY <1>0, <1>b DEF TypeOK, Calls
<1>2. MutexInv'
    BY <1>0, NoWriterAssumption DEF TypeOK, MutexInv, Calls
<1>3. WritingInv'
    BY <1>0, <1>a, <1>b, <1>c, <1>d DEF WritingInv, Calls
<1>4. LastInv'
    BY <1>a, <1>b, <1>d DEF LastInv
<1>5. LinesDoNotInterleave'
  <2> SUFFICES ASSUME NEW i \in 1 .. Len(file), file'[i].kind = "json",
                      file'[i + 1] # LineEnd(file'[i].by)
               PROVE  pc'[file'[i].by] \in {"failed", "dead"}
    BY <1>b DEF LinesDoNotInterleave
  <2>1. CASE i = Len(file)
    BY <2>1, <1>0, <1>a, <1>b, <1>c, <1>d DEF LastInv, Calls
  <2>2. CASE i < Len(file)
    BY <2>2, <1>0, <1>b, <1>c, <1>d DEF LinesDoNotInterleave
  <2> QED
    BY <2>1, <2>2, <1>b
<1>6. UnsyncedInv'
    BY <1>0, <1>a, <1>b, <1>c, <1>d DEF TypeOK, UnsyncedInv
<1>7. LinkInv'
    BY <1>0, <1>c, <1>d DEF TypeOK, LinkInv, CreationUnfinished
<1>8. SyncedInv'
  <2>1. CreationUnfinished => CreationUnfinished'
    BY <1>0, <1>c DEF CreationUnfinished
  <2>2. ASSUME NEW v \in Writers, Durable(v) PROVE Durable(v)'
    <3>1. PICK i \in 1 .. syncedLen - 1 :
            file[i] = Json(v) /\ file[i + 1] = LineEnd(v)
        BY <2>2 DEF Durable
    <3>2. i \in 1 .. syncedLen' - 1 /\ i \in 1 .. Len(file) /\ i + 1 \in 1 .. Len(file)
        BY <1>0, <1>b DEF TypeOK
    <3>3. file'[i] = Json(v) /\ file'[i + 1] = LineEnd(v)
        BY <3>1, <3>2, <1>b
    <3> QED
        BY <3>2, <3>3 DEF Durable, Json, LineEnd
  <2> QED
    BY <2>1, <2>2, <1>0, <1>c, <1>d DEF SyncedInv
<1> QED
    BY <1>1, <1>2, <1>3, <1>4, <1>5, <1>6, <1>7, <1>8

LEMMA WriteNewlineKeeps ==
    ASSUME LogInv, NEW w \in Writers, WriteNewline(w)
    PROVE  LogInv'
<1> USE DEF LogInv
<1>0. /\ pc[w] = "newline" /\ lock = w /\ exists
      /\ pc' = [pc EXCEPT ![w] = "sync"]
      /\ lock' = lock
      /\ UNCHANGED <<created, exists, linked, syncedLen>>
      /\ file' = Append(file, LineEnd(w))
    BY DEF WriteNewline, Goto, MutexInv, Calls
<1>a. /\ LineEnd(w) \in Pieces /\ LineEnd(w).by = w
      /\ LineEnd(w).kind = "newline"
      /\ \A v \in Writers : Json(v) # LineEnd(w) /\ Torn(w) # LineEnd(v)
    BY PiecesDiffer
<1>b. /\ file \in Seq(Pieces) /\ file' \in Seq(Pieces)
      /\ Len(file) \in Nat /\ Len(file') = Len(file) + 1
      /\ file'[Len(file) + 1] = LineEnd(w)
      /\ \A i \in 1 .. Len(file) : file'[i] = file[i]
      /\ \A i \in 1 .. Len(file) : file[i] \in Pieces /\ file[i].by \in Writers
  <2>1. file \in Seq(Pieces) /\ Len(file) \in Nat
    BY DEF TypeOK
  <2>2. \A i \in 1 .. Len(file) : file[i] \in Pieces
    BY <2>1
  <2>3. \A p \in Pieces : p.by \in Writers
    BY PieceOf
  <2> QED
    BY <2>1, <2>2, <2>3, <1>0, <1>a, AppendKeeps
<1>c. \A v \in Writers : v # w => pc'[v] = pc[v] /\ pc[v] \notin Calls
    BY <1>0 DEF TypeOK, MutexInv
<1>d. pc'[w] = "sync"
    BY <1>0 DEF TypeOK
<1>1. TypeOK'
    BY <1>0, <1>b DEF TypeOK, Calls
<1>2. MutexInv'
    BY <1>0, NoWriterAssumption DEF TypeOK, MutexInv, Calls
<1>3. WritingInv'
    BY <1>0, <1>a, <1>b, <1>c, <1>d DEF WritingInv, Calls
<1>4. LastInv'
    BY <1>a, <1>b, <1>d DEF LastInv
<1>5. LinesDoNotInterleave'
  <2> SUFFICES ASSUME NEW i \in 1 .. Len(file), file'[i].kind = "json",
                      file'[i + 1] # LineEnd(file'[i].by)
               PROVE  pc'[file'[i].by] \in {"failed", "dead"}
    BY <1>b DEF LinesDoNotInterleave
  <2>1. CASE i = Len(file)
    <3>1. file'[i] = Json(w) /\ file'[i + 1] = LineEnd(w) /\ Json(w).by = w
        BY <2>1, <1>0, <1>b, PiecesDiffer DEF WritingInv
    <3> QED
        BY <3>1
  <2>2. CASE i < Len(file)
    BY <2>2, <1>0, <1>b, <1>c, <1>d DEF LinesDoNotInterleave
  <2> QED
    BY <2>1, <2>2, <1>b
<1>6. UnsyncedInv'
    BY <1>0, <1>a, <1>b, <1>c, <1>d DEF TypeOK, UnsyncedInv
<1>7. LinkInv'
    BY <1>0, <1>c, <1>d DEF TypeOK, LinkInv, CreationUnfinished
<1>8. SyncedInv'
  <2>1. CreationUnfinished => CreationUnfinished'
    BY <1>0, <1>c DEF CreationUnfinished
  <2>2. ASSUME NEW v \in Writers, Durable(v) PROVE Durable(v)'
    <3>1. PICK i \in 1 .. syncedLen - 1 :
            file[i] = Json(v) /\ file[i + 1] = LineEnd(v)
        BY <2>2 DEF Durable
    <3>2. i \in 1 .. syncedLen' - 1 /\ i \in 1 .. Len(file) /\ i + 1 \in 1 .. Len(file)
        BY <1>0, <1>b DEF TypeOK
    <3>3. file'[i] = Json(v) /\ file'[i + 1] = LineEnd(v)
        BY <3>1, <3>2, <1>b
    <3> QED
        BY <3>2, <3>3 DEF Durable, Json, LineEnd
  <2> QED
    BY <2>1, <2>2, <1>0, <1>c, <1>d DEF SyncedInv
<1> QED
    BY <1>1, <1>2, <1>3, <1>4, <1>5, <1>6, <1>7, <1>8

(* The writers in flight are dead and no call is under way.                *)
LEMMA WritersEndFacts ==
    ASSUME TypeOK, WritersEnd
    PROVE  /\ lock' = NoWriter /\ created' = created
           /\ pc' \in [Writers -> {"start", "ok", "failed", "dead"}]
           /\ \A v \in Writers :
                /\ pc[v] \in {"start", "ok", "failed", "dead"} => pc'[v] = pc[v]
                /\ pc[v] \in Calls => pc'[v] = "dead"
    BY DEF TypeOK, WritersEnd, Calls

LEMMA CrashKeeps ==
    ASSUME LogInv, Crash
    PROVE  LogInv'
<1> USE DEF LogInv
<1>0. UNCHANGED <<exists, linked, file, syncedLen>>
    BY DEF Crash
<1>a. /\ lock' = NoWriter /\ created' = created
      /\ pc' \in [Writers -> {"start", "ok", "failed", "dead"}]
      /\ \A v \in Writers :
            /\ pc[v] \in {"start", "ok", "failed", "dead"} => pc'[v] = pc[v]
            /\ pc[v] \in Calls => pc'[v] = "dead"
    BY WritersEndFacts DEF Crash
<1>b. \A i \in 1 .. Len(file) : file[i].by \in Writers
  <2>1. \A p \in Pieces : p.by \in Writers
    BY PieceOf
  <2> QED
    BY <2>1 DEF TypeOK
<1>1. TypeOK'
    BY <1>0, <1>a DEF TypeOK, Calls
<1>2. MutexInv' /\ WritingInv'
    BY <1>a DEF MutexInv, WritingInv, Calls
<1>4. LastInv'
    BY <1>0, <1>a, <1>b DEF TypeOK, LastInv, Calls
<1>5. LinesDoNotInterleave'
    BY <1>0, <1>a, <1>b DEF TypeOK, LinesDoNotInterleave
<1>6. UnsyncedInv'
    BY <1>0, <1>a, <1>b DEF TypeOK, UnsyncedInv, Calls
<1>7. LinkInv'
    BY <1>0, <1>a DEF LinkInv, CreationUnfinished, Calls
<1>8. SyncedInv'
    BY <1>0, <1>a DEF TypeOK, SyncedInv, CreationUnfinished, Durable, Calls
<1> QED
    BY <1>1, <1>2, <1>4, <1>5, <1>6, <1>7, <1>8

(* A power loss keeps n pieces, no fewer than are synced, and perhaps the  *)
(* beginning of the next record.                                           *)
KeepsPieces(n) ==
    /\ n \in syncedLen .. Len(file)
    /\ file' \in Seq(Pieces)
    /\ Len(file') \in {n, n + 1}
    /\ \A i \in 1 .. n : file'[i] = file[i]
    /\ Len(file') = n + 1 =>
        /\ n < Len(file)
        /\ file[n + 1].kind = "json"
        /\ file'[n + 1] = Torn(file[n + 1].by)
    /\ syncedLen' = Len(file')
    /\ linked' = exists
    /\ UNCHANGED exists

LEMMA PowerLossCases ==
    ASSUME TypeOK, PowerLoss
    PROVE  \/ \E n \in 0 .. Len(file) : KeepsPieces(n)
           \/ /\ exists /\ ~ linked /\ exists' = FALSE
              /\ file' = <<>> /\ syncedLen' = 0 /\ UNCHANGED linked
<1>t. file \in Seq(Pieces) /\ Len(file) \in Nat /\ syncedLen \in 0 .. Len(file)
    BY DEF TypeOK
<1>1. ASSUME NEW n \in syncedLen .. Len(file), file' = SubSeq(file, 1, n),
             syncedLen' = n, linked' = exists, UNCHANGED exists
      PROVE  \E m \in 0 .. Len(file) : KeepsPieces(m)
  <2>1. n \in 0 .. Len(file)
    BY <1>t
  <2>2. file' \in Seq(Pieces) /\ Len(file') = n /\ \A i \in 1 .. n : file'[i] = file[i]
    BY <1>t, <1>1, <2>1, PrefixKeeps
  <2> QED
    BY <2>1, <2>2, <1>1 DEF KeepsPieces
<1>2. ASSUME NEW n \in syncedLen .. Len(file) - 1, file[n + 1].kind = "json",
             file' = Append(SubSeq(file, 1, n), Torn(file[n + 1].by)),
             syncedLen' = n + 1, linked' = exists, UNCHANGED exists
      PROVE  \E m \in 0 .. Len(file) : KeepsPieces(m)
  <2>1. n \in 0 .. Len(file) /\ n < Len(file) /\ n + 1 \in 1 .. Len(file)
    BY <1>t
  <2>2. /\ SubSeq(file, 1, n) \in Seq(Pieces) /\ Len(SubSeq(file, 1, n)) = n
        /\ \A i \in 1 .. n : SubSeq(file, 1, n)[i] = file[i]
    BY <1>t, <2>1, PrefixKeeps
  <2>3. file[n + 1] \in Pieces
    BY <1>t, <2>1
  <2>4. Torn(file[n + 1].by) \in Pieces
    BY <2>3, PieceOf, PiecesDiffer
  <2>5. /\ file' \in Seq(Pieces) /\ Len(file') = n + 1
        /\ file'[n + 1] = Torn(file[n + 1].by)
        /\ \A i \in 1 .. n : file'[i] = SubSeq(file, 1, n)[i]
    BY <2>2, <2>4, <1>2, AppendKeeps
  <2> QED
    BY <2>1, <2>2, <2>5, <1>2, <1>t DEF KeepsPieces
<1> QED
    BY <1>1, <1>2 DEF PowerLoss

(* What is lost was not synced, so its writer had not returned.            *)
LEMMA PowerLossKeeps ==
    ASSUME LogInv, PowerLoss
    PROVE  LogInv'
<1> USE DEF LogInv
<1>a. /\ lock' = NoWriter /\ created' = created
      /\ pc' \in [Writers -> {"start", "ok", "failed", "dead"}]
      /\ \A v \in Writers :
            /\ pc[v] \in {"start", "ok", "failed", "dead"} => pc'[v] = pc[v]
            /\ pc[v] \in Calls => pc'[v] = "dead"
    BY WritersEndFacts DEF PowerLoss
<1>b. \A i \in 1 .. Len(file) : file[i] \in Pieces /\ file[i].by \in Writers
  <2>1. \A p \in Pieces : p.by \in Writers
    BY PieceOf
  <2> QED
    BY <2>1 DEF TypeOK
<1>c. Len(file) \in Nat /\ syncedLen \in 0 .. Len(file)
    BY DEF TypeOK
<1>1. MutexInv' /\ WritingInv'
    BY <1>a DEF MutexInv, WritingInv, Calls
<1>2. CreationUnfinished => CreationUnfinished'
    BY <1>a DEF CreationUnfinished
<1>3. exists /\ ~ linked => CreationUnfinished'
  <2>1. ASSUME NEW v \in Writers, created[v], pc[v] \in {"secure", "syncNew"}
        PROVE  CreationUnfinished'
    BY <2>1, <1>a DEF CreationUnfinished, Calls
  <2> QED
    BY <2>1, <1>2 DEF LinkInv
<1>4. \A v \in Writers : pc'[v] \in {"ok", "syncParent"} => pc[v] = "ok"
    BY <1>a DEF TypeOK, Calls
<1>5. ASSUME NEW n \in 0 .. Len(file), KeepsPieces(n)
      PROVE  LogInv'
  <2>0. /\ n \in syncedLen .. Len(file)
        /\ file' \in Seq(Pieces) /\ Len(file') \in {n, n + 1}
        /\ \A i \in 1 .. n : file'[i] = file[i]
        /\ syncedLen' = Len(file')
        /\ linked' = exists /\ exists' = exists
    BY <1>5 DEF KeepsPieces
  <2>t. ASSUME Len(file') = n + 1
        PROVE  /\ n < Len(file) /\ file[n + 1].kind = "json"
               /\ file'[n + 1].kind = "torn"
               /\ \A v \in Writers : file[n + 1] # LineEnd(v)
    BY <2>t, <1>5, <1>b, <1>c, PiecesDiffer DEF KeepsPieces
  <2>1. TypeOK'
    BY <2>0, <1>a DEF TypeOK
  <2>2. LastInv'
    <3> SUFFICES ASSUME Len(file') >= 1, file'[Len(file')].kind = "json"
                 PROVE  pc'[file'[Len(file')].by] \in {"failed", "dead"}
        BY DEF LastInv
    <3>1. Len(file') = n /\ n >= 1 /\ file'[n] = file[n]
        BY <2>0, <2>t, <1>c
    <3>2. CASE n = Len(file)
        BY <3>1, <3>2, <1>a, <1>b DEF LastInv, Calls
    <3>3. CASE n < Len(file) /\ file[n + 1] # LineEnd(file[n].by)
        BY <3>1, <3>3, <1>a, <1>b DEF LinesDoNotInterleave
    <3>4. CASE n < Len(file) /\ file[n + 1] = LineEnd(file[n].by)
      <4>1. n + 1 \in syncedLen + 1 .. Len(file) /\ file[n] \in Pieces
        BY <3>4, <3>1, <2>0, <1>b, <1>c
      <4>2. file[n + 1].by = file[n].by /\ file[n].by \in Writers
        BY <3>4, <4>1, PieceOf, PiecesDiffer
      <4>3. pc[file[n].by] \in {"newline", "sync", "failed", "dead"}
        BY <4>1, <4>2 DEF UnsyncedInv
      <4> QED
        BY <3>1, <4>2, <4>3, <1>a DEF Calls
    <3> QED
        BY <3>2, <3>3, <3>4, <1>c
  <2>3. LinesDoNotInterleave'
    <3> SUFFICES ASSUME NEW i \in 1 .. Len(file') - 1, file'[i].kind = "json",
                        file'[i + 1] # LineEnd(file'[i].by)
                 PROVE  pc'[file'[i].by] \in {"failed", "dead"}
        BY DEF LinesDoNotInterleave
    <3>1. file'[i] = file[i] /\ i \in 1 .. Len(file) - 1 /\ file[i].by \in Writers
        BY <2>0, <2>t, <1>b, <1>c
    <3>2. file[i + 1] # LineEnd(file[i].by)
      <4>1. CASE i + 1 <= n
        BY <4>1, <3>1, <2>0
      <4>2. CASE i + 1 = n + 1
        BY <4>2, <3>1, <2>0, <2>t
      <4> QED
        BY <4>1, <4>2, <2>0
    <3> QED
        BY <3>1, <3>2, <1>a DEF LinesDoNotInterleave
  <2>4. UnsyncedInv'
    BY <2>0 DEF UnsyncedInv
  <2>5. LinkInv'
    <3>1. ~ exists => file' = <<>>
      <4>1. ~ exists => Len(file) = 0
        BY DEF LinkInv
      <4>2. ~ exists => Len(file') = 0
        BY <4>1, <2>0, <2>t, <1>c
      <4> QED
        BY <4>2, <2>0
    <3>2. \A v \in Writers : pc'[v] \notin {"json", "newline", "sync", "syncParent"}
        BY <1>a
    <3> QED
        BY <3>1, <3>2, <2>0 DEF LinkInv
  <2>6. SyncedInv'
    <3>1. ASSUME NEW v \in Writers, Durable(v) PROVE Durable(v)'
      <4>1. PICK i \in 1 .. syncedLen - 1 :
                file[i] = Json(v) /\ file[i + 1] = LineEnd(v)
        BY <3>1 DEF Durable
      <4>2. i \in 1 .. syncedLen' - 1 /\ i \in 1 .. n /\ i + 1 \in 1 .. n
        BY <2>0, <1>c
      <4>3. file'[i] = Json(v) /\ file'[i + 1] = LineEnd(v)
        BY <4>1, <4>2, <2>0
      <4> QED
        BY <4>2, <4>3 DEF Durable, Json, LineEnd
    <3>2. linked => linked'
        BY <2>0 DEF LinkInv
    <3> QED
        BY <3>1, <3>2, <1>2, <1>4 DEF SyncedInv
  <2> QED
    BY <2>1, <2>2, <2>3, <2>4, <2>5, <2>6, <1>1
<1>6. ASSUME exists, ~ linked, exists' = FALSE, file' = <<>>, syncedLen' = 0,
             UNCHANGED linked
      PROVE  LogInv'
  <2>1. TypeOK'
    <3>1. file' \in Seq(Pieces) /\ syncedLen' \in 0 .. Len(file')
        BY <1>6
    <3>2. linked' \in BOOLEAN /\ exists' \in BOOLEAN
        BY <1>6 DEF TypeOK
    <3> QED
        BY <3>1, <3>2, <1>a DEF TypeOK
  <2>2. LastInv' /\ LinesDoNotInterleave' /\ UnsyncedInv'
    BY <1>6 DEF LastInv, LinesDoNotInterleave, UnsyncedInv
  <2>3. LinkInv'
    BY <1>6, <1>a DEF LinkInv
  <2>4. SyncedInv'
    BY <1>6, <1>3 DEF SyncedInv
  <2> QED
    BY <2>1, <2>2, <2>3, <2>4, <1>1
<1> QED
    BY <1>5, <1>6, PowerLossCases

(* Every step keeps the invariant.                                         *)
LEMMA LogNext == LogInv /\ [Next]_vars => LogInv'
<1> SUFFICES ASSUME LogInv, [Next]_vars
             PROVE  LogInv'
    OBVIOUS
<1>1. ASSUME NEW w \in Writers, Acquire(w) \/ Persist(w)
      PROVE  LogInv'
    BY <1>1, AcquireKeeps, FailKeeps, OpenKeeps, SecureKeeps, SyncNewKeeps,
       WriteJsonKeeps, TearJsonKeeps, WriteNewlineKeeps, SyncKeeps, SyncParentKeeps
       DEF Persist
<1>2. CASE Crash
    BY <1>2, CrashKeeps
<1>3. CASE PowerLoss
    BY <1>3, PowerLossKeeps
<1>4. CASE UNCHANGED vars
    BY <1>4 DEF vars, LogInv, TypeOK, MutexInv, WritingInv, LastInv,
       LinesDoNotInterleave, UnsyncedInv, LinkInv, SyncedInv, CreationUnfinished,
       Durable
<1> QED
    BY <1>1, <1>2, <1>3, <1>4 DEF Next

-----------------------------------------------------------------------------
(* Where a record is found in a sequence of pieces, and in a prefix of it. *)
LEMMA RecordIsAPiece ==
    ASSUME NEW s \in Seq(Pieces), NEW w \in Writers
    PROVE  w \in RecordsIn(s) <=> \E i \in 1 .. Len(s) : s[i] = Json(w)
    BY DEF RecordsIn, ToSet

LEMMA RecordInPrefix ==
    ASSUME NEW s \in Seq(Pieces), NEW n \in 0 .. Len(s), NEW w \in Writers
    PROVE  w \in RecordsIn(SubSeq(s, 1, n)) <=> \E i \in 1 .. n : s[i] = Json(w)
<1>1. /\ SubSeq(s, 1, n) \in Seq(Pieces) /\ Len(SubSeq(s, 1, n)) = n
      /\ \A i \in 1 .. n : SubSeq(s, 1, n)[i] = s[i]
    BY PrefixKeeps
<1> QED
    BY <1>1, RecordIsAPiece

LEMMA WholeFile ==
    ASSUME NEW s \in Seq(Pieces)
    PROVE  RecordsIn(SubSeq(s, 1, Len(s))) = RecordsIn(s)
<1>1. \A w \in Writers :
        w \in RecordsIn(SubSeq(s, 1, Len(s))) <=> w \in RecordsIn(s)
    BY RecordIsAPiece, RecordInPrefix
<1> QED
    BY <1>1 DEF RecordsIn

LEMMA EmptyFile == RecordsIn(<<>>) = {}
<1>1. \A w \in Writers : Json(w) \notin ToSet(<<>>)
    BY DEF ToSet
<1> QED
    BY <1>1 DEF RecordsIn

(* The abstract state of the trail.                                        *)
InLog == RecordsIn(file)
InSynced == IF linked THEN RecordsIn(SubSeq(file, 1, syncedLen)) ELSE {}

LEMMA SyncedIsLogged == TypeOK => InSynced \subseteq InLog
<1> SUFFICES ASSUME TypeOK, NEW w \in InSynced PROVE w \in InLog
    OBVIOUS
<1>1. w \in Writers /\ w \in RecordsIn(SubSeq(file, 1, syncedLen))
    BY DEF InSynced, RecordsIn
<1>2. file \in Seq(Pieces) /\ syncedLen \in 0 .. Len(file)
    BY DEF TypeOK
<1>3. PICK i \in 1 .. syncedLen : file[i] = Json(w)
    BY <1>1, <1>2, RecordInPrefix
<1> QED
    BY <1>1, <1>2, <1>3, RecordIsAPiece DEF InLog

(* The ways the trail can move.                                            *)
LEMMA TrailMoves ==
    /\ InLog' = InLog /\ InSynced' = InSynced => UNCHANGED Trail!trailVars
    /\ InSynced' = InLog' /\ InSynced \subseteq InLog' /\ InLog' \subseteq InLog
        => Trail!TrailPowerLoss
    /\ \A w \in Writers :
        InLog' = InLog \cup {w} /\ InSynced' = InSynced => Trail!Audit(w, "unsynced")
<1>1. ASSUME InSynced' = InLog', InSynced \subseteq InLog', InLog' \subseteq InLog
      PROVE  Trail!TrailPowerLoss
  <2>1. InLog' = InSynced \cup (InLog' \ InSynced) /\ InLog' \ InSynced \in SUBSET (InLog \ InSynced)
    BY <1>1
  <2> QED
    BY <1>1, <2>1 DEF Trail!TrailPowerLoss, InLog, InSynced
<1> QED
    BY <1>1 DEF Trail!trailVars, Trail!Audit, InLog, InSynced

(* A text is a record written but not synced; a sync brings what is in the *)
(* log under synced; the other calls move nothing.                         *)
LEMMA WriteStep ==
    ASSUME LogInv, TypeOK', NEW w \in Writers, Persist(w)
    PROVE  [Trail!TrailNext(Writers)]_(Trail!trailVars)
<1>t. /\ file \in Seq(Pieces) /\ syncedLen \in 0 .. Len(file) /\ Len(file) \in Nat
      /\ file' \in Seq(Pieces)
    BY DEF LogInv, TypeOK
<1>s. InSynced \subseteq InLog
    BY SyncedIsLogged DEF LogInv
<1>1. CASE UNCHANGED <<file, linked, syncedLen>>
    BY <1>1, TrailMoves DEF InLog, InSynced
<1>2. ASSUME UNCHANGED file, syncedLen' = Len(file), linked'
      PROVE  Trail!TrailPowerLoss
  <2>1. InLog' = InLog /\ InSynced' = RecordsIn(SubSeq(file, 1, Len(file)))
    BY <1>2 DEF InLog, InSynced
  <2>2. InSynced' = InLog'
    BY <2>1, <1>t, WholeFile DEF InLog
  <2> QED
    BY <2>1, <2>2, <1>s, TrailMoves
<1>3. ASSUME NEW p \in Pieces, file' = Append(file, p), UNCHANGED <<linked, syncedLen>>
      PROVE  /\ InSynced' = InSynced
             /\ \A v \in Writers : v \in InLog' <=> v \in InLog \/ p = Json(v)
  <2>1. /\ Len(file') = Len(file) + 1 /\ file'[Len(file) + 1] = p
        /\ \A i \in 1 .. Len(file) : file'[i] = file[i]
    BY <1>3, <1>t, AppendKeeps
  <2>2. \A v \in Writers : v \in InLog' <=> v \in InLog \/ p = Json(v)
    <3>1. ASSUME NEW v \in Writers
          PROVE  (\E i \in 1 .. Len(file') : file'[i] = Json(v))
                    <=> (\E i \in 1 .. Len(file) : file[i] = Json(v)) \/ p = Json(v)
        BY <2>1, <1>t
    <3> QED
        BY <3>1, <1>t, RecordIsAPiece DEF InLog
  <2>3. \A v \in Writers :
            v \in RecordsIn(SubSeq(file', 1, syncedLen))
                <=> v \in RecordsIn(SubSeq(file, 1, syncedLen))
    <3>1. syncedLen \in 0 .. Len(file') /\ \A i \in 1 .. syncedLen : file'[i] = file[i]
        BY <2>1, <1>t
    <3> QED
        BY <3>1, <1>t, RecordInPrefix
  <2>4. RecordsIn(SubSeq(file', 1, syncedLen)) = RecordsIn(SubSeq(file, 1, syncedLen))
    BY <2>3 DEF RecordsIn
  <2> QED
    BY <2>2, <2>4, <1>3 DEF InSynced
<1>r. InLog \subseteq Writers /\ InLog' \subseteq Writers
    BY DEF InLog, RecordsIn
<1>4. CASE WriteJson(w)
  <2>1. /\ InSynced' = InSynced
        /\ \A v \in Writers : v \in InLog' <=> v \in InLog \/ Json(w) = Json(v)
    BY <1>4, <1>3, PiecesDiffer DEF WriteJson
  <2>2. InLog' = InLog \cup {w}
    BY <2>1, <1>r, PiecesDiffer
  <2>3. Trail!Audit(w, "unsynced")
    BY <2>1, <2>2, TrailMoves
  <2> QED
    BY <2>3 DEF Trail!TrailNext, Trail!AllAuditResults
<1>5. CASE TearJson(w) \/ WriteNewline(w)
  <2>1. PICK p \in Pieces : /\ file' = Append(file, p) /\ \A v \in Writers : p # Json(v)
                            /\ UNCHANGED <<linked, syncedLen>>
    BY <1>5, PiecesDiffer DEF TearJson, WriteNewline, Torn, LineEnd, Json
  <2>2. /\ InSynced' = InSynced
        /\ \A v \in Writers : v \in InLog' <=> v \in InLog
    BY <2>1, <1>3
  <2>3. InLog' = InLog
    BY <2>2, <1>r
  <2> QED
    BY <2>2, <2>3, TrailMoves
<1>6. CASE SyncNew(w)
    BY <1>6, <1>2 DEF SyncNew, Trail!TrailNext
<1>7. CASE Sync(w)
  <2>1. CASE linked
    BY <2>1, <1>7, <1>2 DEF Sync, Trail!TrailNext
  <2>2. CASE ~ linked
    BY <2>2, <1>7, TrailMoves DEF Sync, InLog, InSynced
  <2> QED
    BY <2>1, <2>2
<1>8. CASE SyncParent(w)
  <2>1. UNCHANGED <<file, linked, syncedLen>>
    BY <1>8 DEF SyncParent, LogInv, LinkInv, TypeOK
  <2> QED
    BY <2>1, <1>1
<1>9. CASE Fail(w) \/ Open(w) \/ Secure(w)
    BY <1>9, <1>1 DEF Fail, Open, Secure
<1> QED
    BY <1>4, <1>5, <1>6, <1>7, <1>8, <1>9 DEF Persist

(* A power loss keeps what is synced and some of the rest.                 *)
LEMMA PowerLossStep ==
    ASSUME LogInv, TypeOK', LinkInv', PowerLoss
    PROVE  Trail!TrailPowerLoss
<1>t. /\ file \in Seq(Pieces) /\ syncedLen \in 0 .. Len(file) /\ Len(file) \in Nat
      /\ file' \in Seq(Pieces)
    BY DEF LogInv, TypeOK
<1>1. ASSUME NEW n \in 0 .. Len(file), KeepsPieces(n)
      PROVE  Trail!TrailPowerLoss
  <2>0. /\ n \in syncedLen .. Len(file) /\ Len(file') \in {n, n + 1}
        /\ \A i \in 1 .. n : file'[i] = file[i]
        /\ syncedLen' = Len(file') /\ linked' = exists /\ exists' = exists
    BY <1>1 DEF KeepsPieces
  <2>1. ASSUME Len(file') = n + 1, NEW v \in Writers PROVE file'[n + 1] # Json(v)
    <3>1. n + 1 \in 1 .. Len(file)
        BY <2>1, <1>1, <1>t DEF KeepsPieces
    <3>2. file[n + 1] \in Pieces
        BY <3>1, <1>t
    <3> QED
        BY <2>1, <1>1, <3>2, PieceOf, PiecesDiffer DEF KeepsPieces
  <2>2. InSynced' = InLog'
    <3>1. CASE exists
        BY <3>1, <2>0, <1>t, WholeFile DEF InSynced, InLog
    <3>2. CASE ~ exists
      <4>1. file' = <<>> /\ ~ linked'
        BY <3>2, <2>0 DEF LinkInv
      <4> QED
        BY <4>1, EmptyFile DEF InSynced, InLog
    <3> QED
        BY <3>1, <3>2
  <2>3. InSynced \subseteq InLog'
    <3> SUFFICES ASSUME NEW v \in InSynced PROVE v \in InLog'
        OBVIOUS
    <3>1. v \in Writers /\ v \in RecordsIn(SubSeq(file, 1, syncedLen))
        BY DEF InSynced, RecordsIn
    <3>2. PICK i \in 1 .. syncedLen : file[i] = Json(v)
        BY <3>1, <1>t, RecordInPrefix
    <3>3. i \in 1 .. Len(file') /\ file'[i] = Json(v)
        BY <3>2, <2>0, <1>t
    <3> QED
        BY <3>1, <3>3, <1>t, RecordIsAPiece DEF InLog
  <2>4. InLog' \subseteq InLog
    <3> SUFFICES ASSUME NEW v \in InLog' PROVE v \in InLog
        OBVIOUS
    <3>1. v \in Writers
        BY DEF InLog, RecordsIn
    <3>2. PICK i \in 1 .. Len(file') : file'[i] = Json(v)
        BY <3>1, <1>t, RecordIsAPiece DEF InLog
    <3>3. i \in 1 .. Len(file) /\ file[i] = Json(v)
        BY <3>1, <3>2, <2>0, <2>1, <1>t
    <3> QED
        BY <3>1, <3>3, <1>t, RecordIsAPiece DEF InLog
  <2> QED
    BY <2>2, <2>3, <2>4, TrailMoves
<1>2. ASSUME ~ linked, file' = <<>>, UNCHANGED linked
      PROVE  Trail!TrailPowerLoss
  <2>1. InLog' = {} /\ InSynced' = {} /\ InSynced = {}
    BY <1>2, EmptyFile DEF InLog, InSynced
  <2> QED
    BY <2>1, TrailMoves
<1>3. TypeOK
    BY DEF LogInv
<1> QED
    BY <1>1, <1>2, <1>3, PowerLossCases

(* Every step is one of the trail's or none.                               *)
LEMMA TrailStep ==
    LogInv /\ [Next]_vars => [Trail!TrailNext(Writers)]_(Trail!trailVars)
<1> SUFFICES ASSUME LogInv, [Next]_vars
             PROVE  [Trail!TrailNext(Writers)]_(Trail!trailVars)
    OBVIOUS
<1>0. TypeOK' /\ LinkInv'
    BY LogNext DEF LogInv
<1>1. ASSUME UNCHANGED <<file, linked, syncedLen>>
      PROVE  UNCHANGED Trail!trailVars
    BY <1>1, TrailMoves DEF InLog, InSynced
<1>2. ASSUME NEW w \in Writers, Acquire(w)
      PROVE  UNCHANGED Trail!trailVars
    BY <1>1, <1>2 DEF Acquire
<1>3. ASSUME NEW w \in Writers, Persist(w)
      PROVE  [Trail!TrailNext(Writers)]_(Trail!trailVars)
    BY <1>3, <1>0, WriteStep
<1>4. CASE Crash
    BY <1>1, <1>4 DEF Crash
<1>5. CASE PowerLoss
    BY <1>0, <1>5, PowerLossStep DEF Trail!TrailNext
<1>6. CASE UNCHANGED vars
    BY <1>1, <1>6 DEF vars
<1> QED
    BY <1>2, <1>3, <1>4, <1>5, <1>6 DEF Next

-----------------------------------------------------------------------------
(* The inductive invariant: the mutex gives the file to one writer, what   *)
(* it wrote last is at the end, and what is not synced belongs to no       *)
(* writer that has returned Ok.                                            *)
THEOREM AuditLogInvariant == Spec => []LogInv
    BY LogInit, LogNext, PTL DEF Spec

(* Types, and no more of the file is synced than was written.              *)
THEOREM AuditLogTypes == Spec => []TypeOK
<1>1. LogInv => TypeOK
    BY DEF LogInv
<1> QED
    BY <1>1, AuditLogInvariant, PTL

(* Records of concurrent calls do not interleave: under audit_lock every   *)
(* text is followed by its own line end, unless its writer got an error or *)
(* died, through any crash and power loss.                                 *)
THEOREM AuditLogLinesDoNotInterleave == Spec => []LinesDoNotInterleave
<1>1. LogInv => LinesDoNotInterleave
    BY DEF LogInv
<1> QED
    BY <1>1, AuditLogInvariant, PTL

(* persist_record's Ok, on the strength of which the handlers act: the     *)
(* record is in the synced part of a file whose directory entry is         *)
(* durable, or the call that created the file did not finish.              *)
THEOREM AuditLogReportedIsSynced == Spec => []ReportedIsSynced
<1>1. LogInv => ReportedIsSynced
    BY DEF LogInv, SyncedInv, ReportedIsSynced
<1> QED
    BY <1>1, AuditLogInvariant, PTL

(* The file with its calls, crashes and power losses implements the trail  *)
(* that Gateway's audit calls are made of.                                 *)
THEOREM AuditLogImplementsTrail == Spec => ImplementsTrail
<1>1. Init => Trail!TrailInit
  <2> SUFFICES ASSUME Init PROVE Trail!TrailInit
    OBVIOUS
  <2>1. InLog = {}
    BY EmptyFile DEF Init, InLog
  <2>2. InSynced = {}
    BY <2>1, SyncedIsLogged, LogInit DEF LogInv
  <2> QED
    BY <2>1, <2>2 DEF Trail!TrailInit, InLog, InSynced
<1> QED
    BY <1>1, TrailStep, AuditLogInvariant, PTL DEF Spec, ImplementsTrail
=============================================================================

------------------------ MODULE DuckDbStoreProofs ------------------------
(***************************************************************************)
(* What DuckDbStore guarantees for every number of snapshots, batches,     *)
(* keys and clients: first however calls overlap, then when calls on one   *)
(* snapshot never do (the inductive invariant, the safety properties it    *)
(* carries, and that the store implements the contract of                  *)
(* CatalogWriteStore).                                                     *)
(***************************************************************************)
EXTENDS MCDuckDbStore, FiniteSetTheorems, TLAPS

-----------------------------------------------------------------------------
(* Type correctness.                                                       *)

\* Everything staged under a snapshot is finite, so a count is a number.
LEMMA CountIsNat ==
  ASSUME TypeOK, NEW s \in Snapshots
  PROVE  CountStaged(s) \in Nat
<1>1. IsFiniteSet({Carry}) /\ IsFiniteSet(ObjectKeys)
  BY FS_Singleton, FS_Union, FiniteAssumption DEF ObjectKeys
<1>2. IsFiniteSet(Row)
  BY FS_Product, FiniteAssumption DEF Row
<1>3. IsFiniteSet(ObjectKeys \X Row)
  BY <1>1, <1>2, FS_Product
<1>4. rows[s] \in SUBSET (ObjectKeys \X Row)
  BY DEF TypeOK
<1>5. IsFiniteSet(rows[s])
  BY <1>3, <1>4, FS_Subset
<1> QED
  BY <1>5, FS_CardinalityType DEF CountStaged

\* The clock a call reads is a number.
LEMMA NowIsNat == Now \in Nat
<1>1. IsFiniteSet({t \in Snapshots : ref[t] # NoRef})
  BY FS_Subset, FiniteAssumption
<1> QED
  BY <1>1, FS_CardinalityType DEF Now

\* What a read-modify-write starts from is a record.
LEMMA BaseIsRef ==
  ASSUME TypeOK, NEW p \in Clients, NEW at \in Nat
  PROVE  Base(p, at) \in Ref
<1>1. Fresh(at) \in Ref
  BY DEF Fresh, Ref
<1>2. saw[p] \in Ref \cup {NoRef}
  BY DEF TypeOK
<1> QED
  BY <1>1, <1>2 DEF Base

\* The object keys and rows a put leaves are of their types.
LEMMA PutObjectType ==
  ASSUME TypeOK, NEW s \in Snapshots, NEW o \in ObjectKeys,
         NEW rs \in SUBSET Row, PutObject(s, o, rs)
  PROVE  /\ objects' \in [Snapshots -> SUBSET ObjectKeys]
         /\ rows' \in [Snapshots -> SUBSET (ObjectKeys \X Row)]
<1>1. objects' \in [Snapshots -> SUBSET ObjectKeys]
  BY DEF PutObject, TypeOK
<1>2. {o} \X rs \subseteq ObjectKeys \X Row
  OBVIOUS
<1>3. {x \in rows[s] : x[1] # o} \subseteq ObjectKeys \X Row
  BY DEF TypeOK
<1>4. rows' = [rows EXCEPT ![s] = {x \in @ : x[1] # o} \cup ({o} \X rs)]
  BY DEF PutObject
<1>5. rows \in [Snapshots -> SUBSET (ObjectKeys \X Row)]
  BY DEF TypeOK
<1> QED
  BY <1>1, <1>2, <1>3, <1>4, <1>5

\* Any source a carry may take is a snapshot, or none.
LEMMA SourceType ==
  ASSUME NEW s \in Snapshots, NEW t \in NewestCommitted(s)
  PROVE  t \in Snapshots \cup {None}
BY DEF NewestCommitted, LiveCommitted

\* A call that ends leaves the per-call state well typed.
LEMMA EndType ==
  ASSUME TypeOK, NEW p \in Clients, NEW how \in Phases, End(p, how)
  PROVE  /\ pc' \in [Clients -> Phases]
         /\ tgt' \in [Clients -> Snapshots \cup {None}]
         /\ saw' \in [Clients -> Ref \cup {NoRef}]
         /\ local' \in [Clients -> Local]
<1>1. Blank \in Local
  BY DEF Blank, Local
<1> QED
  BY <1>1 DEF End, TypeOK

\* A call is about a snapshot from its first access to its last.
AtRest(p) == pc[p] \in Rest <=> tgt[p] = None

\* The type invariant is not inductive alone: a call counts, and records, under
\* the snapshot it is about, so there has to be one.
TypeInv == TypeOK /\ \A p \in Clients : AtRest(p)

\* The empty store is well typed.
LEMMA InitTypeInv == Init => TypeInv
<1> SUFFICES ASSUME Init PROVE TypeInv
  OBVIOUS
<1>1. Blank \in Local
  BY DEF Blank, Local
<1>2. TypeOK
  BY <1>1 DEF Init, TypeOK, Phases, Rest
<1> QED
  BY <1>2 DEF Init, TypeInv, AtRest, Rest

\* One call making one access keeps the types, and every call that is not at
\* rest about a snapshot.
LEMMA ClientTypeInv ==
  ASSUME TypeInv, NEW p \in Clients, Start(p) \/ Step(p) \/ Crash(p)
  PROVE  TypeInv'
<1> USE DEF TypeInv
<1>a. TypeOK /\ tgt[p] \in Snapshots \cup {None} /\ AtRest(p)
  BY DEF TypeOK
<1>b. ASSUME NEW how \in Rest, End(p, how),
             objects' \in [Snapshots -> SUBSET ObjectKeys],
             rows' \in [Snapshots -> SUBSET (ObjectKeys \X Row)],
             ref' \in [Snapshots -> Ref \cup {NoRef}],
             current' \in Snapshots \cup {None}
      PROVE  TypeInv'
  <2>1. how \in Phases
    BY DEF Phases
  <2>2. TypeOK'
    BY <1>b, <2>1, EndType DEF TypeOK
  <2>3. \A q \in Clients : AtRest(q)'
    BY <1>b DEF End, AtRest, TypeOK
  <2> QED
    BY <2>2, <2>3
<1>c. CASE \E s \in Snapshots, b \in Batches : \E ks \in BatchRows[b] :
             CopyBatch(p, s, b, ks)
  <2>1. PICK s \in Snapshots, b \in Batches :
               \E ks \in BatchRows[b] : CopyBatch(p, s, b, ks)
    BY <1>c
  <2>2. PICK ks \in BatchRows[b] : CopyBatch(p, s, b, ks)
    BY <2>1
  <2>3. ks \X {s} \in SUBSET Row /\ b \in ObjectKeys
    BY BatchRowsAssumption DEF Row, ObjectKeys
  <2>4. /\ objects' \in [Snapshots -> SUBSET ObjectKeys]
        /\ rows' \in [Snapshots -> SUBSET (ObjectKeys \X Row)]
    BY <2>2, <2>3, PutObjectType DEF CopyBatch
  <2>5. "wFind" \in Phases \ Rest
    BY DEF Phases, Rest, WritePhases
  <2>6. local' \in [Clients -> Local]
    BY <2>2, NowIsNat DEF CopyBatch, TypeOK, Local
  <2>7. TypeOK'
    BY <2>2, <2>4, <2>5, <2>6 DEF CopyBatch, Begin, TypeOK
  <2>8. \A q \in Clients : AtRest(q)'
    BY <2>2, <2>5, SentinelAssumption DEF CopyBatch, Begin, AtRest, TypeOK
  <2> QED
    BY <2>7, <2>8
<1>d. CASE \E s \in Snapshots : FindCommitted(p, s)
  <2>1. PICK s \in Snapshots : FindCommitted(p, s)
    BY <1>d
  <2>2. CASE End(p, "failed")
    BY <2>1, <2>2, <1>b DEF FindCommitted, store, TypeOK, Rest
  <2>3. CASE ~End(p, "failed")
    <3>1. "cCount" \in Phases \ Rest
      BY DEF Phases, Rest, CommitPhases
    <3>0. local' = [local EXCEPT ![p].at = Now]
      BY <2>1, <2>3 DEF FindCommitted
    <3>2. local' \in [Clients -> Local]
      BY <3>0, NowIsNat DEF TypeOK, Local
    <3>3. TypeOK'
      BY <2>1, <2>3, <3>1, <3>2 DEF FindCommitted, Begin, store, TypeOK
    <3> QED
      BY <2>1, <2>3, <3>1, <3>3, SentinelAssumption
      DEF FindCommitted, Begin, AtRest, TypeOK
  <2> QED
    BY <2>2, <2>3
<1>e. CASE \E s \in Snapshots : FindDropped(p, s)
  <2>1. PICK s \in Snapshots : FindDropped(p, s)
    BY <1>e
  <2>2. CASE End(p, "done")
    BY <2>1, <2>2, <1>b DEF FindDropped, store, TypeOK, Rest
  <2>3. CASE ~End(p, "done")
    <3>1. "dCheck" \in Phases \ Rest
      BY DEF Phases, Rest, DropPhases
    <3>2. TypeOK'
      BY <2>1, <2>3, <3>1 DEF FindDropped, Begin, store, TypeOK
    <3> QED
      BY <2>1, <2>3, <3>1, <3>2, SentinelAssumption
      DEF FindDropped, Begin, AtRest, TypeOK
  <2> QED
    BY <2>2, <2>3
<1>f. CASE \E s \in Snapshots : StartCarry(p, s)
  <2>1. PICK s \in Snapshots : StartCarry(p, s)
    BY <1>f
  <2>2. "fPrevious" \in Phases \ Rest
    BY DEF Phases, Rest, CarryPhases
  <2>3. TypeOK'
    BY <2>1, <2>2 DEF StartCarry, Begin, store, TypeOK, Local
  <2> QED
    BY <2>1, <2>2, <2>3, SentinelAssumption DEF StartCarry, Begin, AtRest, TypeOK
<1>g. CASE Crash(p)
  BY <1>g, <1>b DEF Crash, store, TypeOK, Rest
<1>h. ASSUME NEW phase \in Phases \ Rest, Goto(p, phase), pc[p] \notin Rest,
             objects' \in [Snapshots -> SUBSET ObjectKeys],
             rows' \in [Snapshots -> SUBSET (ObjectKeys \X Row)],
             ref' \in [Snapshots -> Ref \cup {NoRef}],
             current' \in Snapshots \cup {None},
             saw' \in [Clients -> Ref \cup {NoRef}],
             local' \in [Clients -> Local]
      PROVE  TypeInv'
  BY <1>h DEF Goto, AtRest, TypeOK
<1>i. CASE Step(p)
  <2> DEFINE t == tgt[p]
  <2>1. pc[p] \notin Rest /\ t \in Snapshots
    BY <1>a, <1>i DEF Step, AtRest, Rest, FindWritten, RecordWrittenBatch,
       CountCommitted, PutCommitted, SetCurrent, RefuseServed, CountDropped,
       ListDropped, DeleteObject, PutTombstone, ResolvePrevious, ListSides,
       FindCarried, WriteMergedCarryObject, ClearCarryObject, RefuseCarry,
       CountCarried, PutCarried
  <2>2. {"wPut", "cPut", "cSwing", "dCount", "dList", "dDelete", "dPut", "fList",
         "fFind", "fMerge", "fCount", "fPut"} \subseteq Phases \ Rest
    BY DEF Phases, Rest, WritePhases, CommitPhases, DropPhases, CarryPhases
  <2>3. CountStaged(t) \in Nat
    BY <1>a, <2>1, CountIsNat
  <2>4. ref[t] \in Ref \cup {NoRef} /\ saw[p] \in Ref \cup {NoRef}
    BY <1>a, <2>1 DEF TypeOK
  <2>5. ASSUME NEW r \in Ref, PutRef(p, r)
        PROVE  ref' \in [Snapshots -> Ref \cup {NoRef}]
    BY <1>a, <2>5 DEF PutRef, TypeOK
  <2>6. ASSUME store' = store
        PROVE  /\ objects' \in [Snapshots -> SUBSET ObjectKeys]
               /\ rows' \in [Snapshots -> SUBSET (ObjectKeys \X Row)]
               /\ ref' \in [Snapshots -> Ref \cup {NoRef}]
               /\ current' \in Snapshots \cup {None}
    BY <1>a, <2>6 DEF TypeOK, store
  <2>7. ASSUME NEW n \in Nat
        PROVE  [local EXCEPT ![p].count = n] \in [Clients -> Local]
    BY <1>a DEF TypeOK, Local
  <2>8. /\ Base(p, local[p].at) \in Ref
        /\ Base(p, Now) \in Ref
        /\ local[p] \in Local
    BY <1>a, NowIsNat, BaseIsRef DEF TypeOK, Local
  <2>9. CASE FindWritten(p)
    <3>1. store' = store
      BY <2>9 DEF FindWritten
    <3>2. CASE End(p, "done")
      BY <3>1, <3>2, <2>6, <1>b DEF Rest
    <3>3. CASE ~End(p, "done")
      <4>1. Goto(p, "wPut") /\ saw' = [saw EXCEPT ![p] = ref[t]] /\ local' = local
        BY <2>9, <3>3 DEF FindWritten
      <4>2. saw' \in [Clients -> Ref \cup {NoRef}]
        BY <1>a, <4>1, <2>4 DEF TypeOK
      <4>3. local' \in [Clients -> Local]
        BY <1>a, <4>1 DEF TypeOK
      <4> QED
        BY <3>1, <4>1, <4>2, <4>3, <2>1, <2>2, <2>6, <1>h
    <3> QED
      BY <3>2, <3>3
  <2>10. CASE RecordWrittenBatch(p)
    <3> DEFINE found == Base(p, local[p].at)
               r == [found EXCEPT !.stale = @ \/ found.carriedFrom # NoLabel]
    <3>1. r \in Ref
      BY <2>8 DEF Ref
    <3>2. PutRef(p, r) /\ End(p, "done") /\ UNCHANGED <<objects, rows, current>>
      BY <2>10 DEF RecordWrittenBatch
    <3> QED
      BY <1>a, <1>b, <2>5, <3>1, <3>2 DEF TypeOK, Rest
  <2>11. CASE CountCommitted(p)
    BY <1>a, <2>11, <2>1, <2>2, <2>3, <2>6, <2>7, <1>h DEF CountCommitted, TypeOK
  <2>12. CASE PutCommitted(p)
    <3> DEFINE r == [Base(p, local[p].at) EXCEPT !.rowCount = local[p].count,
                                                 !.committed = TRUE]
    <3>1. r \in Ref
      BY <2>8 DEF Ref, Local
    <3>2. PutRef(p, r) /\ Goto(p, "cSwing")
          /\ UNCHANGED <<objects, rows, current, saw, local>>
      BY <2>12 DEF PutCommitted
    <3> QED
      BY <1>a, <1>h, <2>1, <2>2, <2>5, <3>1, <3>2 DEF TypeOK
  <2>13. CASE SetCurrent(p)
    BY <1>a, <1>b, <2>1, <2>13 DEF SetCurrent, TypeOK, Rest
  <2>14. CASE RefuseServed(p)
    BY <1>a, <1>b, <1>h, <2>1, <2>2, <2>6, <2>14 DEF RefuseServed, TypeOK, Rest
  <2>15. CASE CountDropped(p)
    <3> DEFINE n == IF saw[p] # NoRef /\ saw[p].committed THEN saw[p].rowCount
                                                          ELSE CountStaged(t)
    <3>1. n \in Nat
      BY <2>3, <2>4 DEF Ref
    <3>2. local' = [local EXCEPT ![p].count = n] /\ Goto(p, "dList")
          /\ store' = store /\ saw' = saw
      BY <2>15 DEF CountDropped
    <3> QED
      BY <1>a, <1>h, <2>1, <2>2, <2>6, <2>7, <3>1, <3>2 DEF TypeOK
  <2>16. CASE ListDropped(p)
    <3>1. local' \in [Clients -> Local]
      BY <1>a, <2>1, <2>16 DEF ListDropped, TypeOK, Local
    <3> QED
      BY <1>a, <1>h, <2>1, <2>2, <2>6, <2>16, <3>1 DEF ListDropped, TypeOK
  <2>17. CASE \E o \in ObjectKeys : DeleteObject(p, o)
    <3>1. PICK o \in ObjectKeys : DeleteObject(p, o)
      BY <2>17
    <3>2. local' \in [Clients -> Local]
      BY <1>a, <3>1 DEF DeleteObject, TypeOK, Local
    <3>3. objects' \in [Snapshots -> SUBSET ObjectKeys]
      BY <1>a, <3>1 DEF DeleteObject, TypeOK
    <3>4. rows' \in [Snapshots -> SUBSET (ObjectKeys \X Row)]
      BY <1>a, <3>1 DEF DeleteObject, TypeOK
    <3> QED
      BY <1>a, <1>h, <2>1, <2>2, <3>1, <3>2, <3>3, <3>4 DEF DeleteObject, TypeOK
  <2>18. CASE PutTombstone(p)
    <3> DEFINE r == [Base(p, Now) EXCEPT !.rowCount = local[p].count,
                                         !.dropped = TRUE]
    <3>1. r \in Ref
      BY <2>8 DEF Ref, Local
    <3>2. PutRef(p, r) /\ End(p, "done") /\ UNCHANGED <<objects, rows, current>>
      BY <2>18 DEF PutTombstone
    <3> QED
      BY <1>a, <1>b, <2>5, <3>1, <3>2 DEF TypeOK, Rest
  <2>19. CASE ResolvePrevious(p)
    <3>1. PICK served \in Snapshots \cup {None}, source \in Snapshots \cup {None} :
               local' = [local EXCEPT ![p] =
                           [@ EXCEPT !.served = served, !.prev = source]]
      BY <2>1, <2>8, <2>19, SourceType DEF ResolvePrevious, Local
    <3>2. [local[p] EXCEPT !.served = served, !.prev = source] \in Local
      BY <2>8, <3>1 DEF Local
    <3>3. local' \in [Clients -> Local]
      BY <1>a, <3>1, <3>2 DEF TypeOK
    <3> QED
      BY <1>a, <1>h, <2>1, <2>2, <2>6, <2>19, <3>3 DEF ResolvePrevious, TypeOK
  <2>20. CASE ListSides(p)
    <3> DEFINE loaders == objects[t] \ {Carry} # {}
               source  == local[p].prev
               prevs   == source # None /\ objects[source] # {}
               sides   == [local[p] EXCEPT !.loaders = loaders, !.prevs = prevs]
    <3>1. loaders \in BOOLEAN /\ prevs \in BOOLEAN
      OBVIOUS
    <3>2. sides \in Local
      <4> HIDE DEF loaders, prevs
      <4> QED
        BY <2>8, <3>1 DEF Local
    <3>3. local' = [local EXCEPT ![p] = sides]
      BY <2>20, <1>a DEF ListSides, TypeOK
    <3>4. local' \in [Clients -> Local]
      <4> HIDE DEF sides
      <4> QED
        BY <1>a, <3>2, <3>3 DEF TypeOK
    <3> QED
      BY <1>a, <1>h, <2>1, <2>2, <2>6, <2>20, <3>4 DEF ListSides, TypeOK
  <2>21. CASE FindCarried(p)
    <3>1. saw' \in [Clients -> Ref \cup {NoRef}]
      BY <1>a, <2>4, <2>21 DEF FindCarried, TypeOK
    <3> QED
      BY <1>a, <1>h, <2>1, <2>2, <2>6, <2>21, <3>1 DEF FindCarried, TypeOK
  <2>22. CASE WriteMergedCarryObject(p)
    <3> DEFINE rs == Survivors(local[p].prev, t)
    <3>1. Carry \in ObjectKeys /\ local[p].prev \in Snapshots \cup {None}
      BY <2>8 DEF ObjectKeys, Local
    <3>2. rs \in SUBSET Row
      <4>1. local[p].prev \in Snapshots
        BY <2>22, <3>1 DEF WriteMergedCarryObject, HasSource
      <4> QED
        BY <1>a, <4>1 DEF Survivors, TypeOK
    <3>3. PutObject(t, Carry, rs)
      BY <2>22 DEF WriteMergedCarryObject
    <3>4. /\ objects' \in [Snapshots -> SUBSET ObjectKeys]
          /\ rows' \in [Snapshots -> SUBSET (ObjectKeys \X Row)]
      BY <1>a, <2>1, <3>1, <3>2, <3>3, PutObjectType
    <3> QED
      BY <1>a, <1>h, <2>1, <2>2, <2>22, <3>4 DEF WriteMergedCarryObject, TypeOK
  <2>23. CASE ClearCarryObject(p)
    <3>1. Carry \in ObjectKeys /\ {} \in SUBSET Row
      BY DEF ObjectKeys
    <3>2. PutObject(t, Carry, {})
      BY <2>23 DEF ClearCarryObject
    <3>3. /\ objects' \in [Snapshots -> SUBSET ObjectKeys]
          /\ rows' \in [Snapshots -> SUBSET (ObjectKeys \X Row)]
      BY <1>a, <2>1, <3>1, <3>2, PutObjectType
    <3> QED
      BY <1>a, <1>h, <2>1, <2>2, <2>23, <3>3 DEF ClearCarryObject, TypeOK
  <2>24. CASE RefuseCarry(p)
    BY <1>b, <2>6, <2>24 DEF RefuseCarry, Rest
  <2>25. CASE CountCarried(p)
    BY <1>a, <2>25, <2>1, <2>2, <2>3, <2>6, <2>7, <1>h DEF CountCarried, TypeOK
  <2>26. CASE PutCarried(p)
    <3> DEFINE r == [Base(p, Now) EXCEPT
                       !.carriedFrom = IF local[p].prev = None THEN Nothing
                                                               ELSE local[p].prev,
                       !.stale = FALSE,
                       !.rowCount = local[p].count]
    <3>1. r \in Ref
      BY <2>8 DEF Ref, Local
    <3>2. PutRef(p, r) /\ End(p, "done") /\ UNCHANGED <<objects, rows, current>>
      BY <2>26 DEF PutCarried
    <3> QED
      BY <1>a, <1>b, <2>5, <3>1, <3>2 DEF TypeOK, Rest
  <2> QED
    BY <1>i, <2>9, <2>10, <2>11, <2>12, <2>13, <2>14, <2>15, <2>16, <2>17, <2>18,
       <2>19, <2>20, <2>21, <2>22, <2>23, <2>24, <2>25, <2>26 DEF Step
<1> QED
  BY <1>c, <1>d, <1>e, <1>f, <1>g, <1>i DEF Start

\* The state always has its type, whoever calls what and however calls overlap.
THEOREM TypeCorrect == Spec => []TypeOK
<1>1. TypeInv /\ [Next]_vars => TypeInv'
  <2> SUFFICES ASSUME TypeInv, [Next]_vars PROVE TypeInv'
    OBVIOUS
  <2>1. CASE UNCHANGED vars
    BY <2>1 DEF TypeInv, TypeOK, AtRest, vars
  <2>2. CASE Next
    BY <2>2, ClientTypeInv DEF Next
  <2> QED
    BY <2>1, <2>2
<1>2. TypeInv => TypeOK
  BY DEF TypeInv
<1> QED
  BY InitTypeInv, <1>1, <1>2, PTL DEF Spec

-----------------------------------------------------------------------------
(* The pointer and the records, however calls overlap.                     *)

\* The accesses that write a record.
Puts == {"wPut", "cPut", "dPut", "fPut"}

\* What another call knows and where it stands is not touched.
LEMMA OthersStay ==
  ASSUME TypeInv, NEW p \in Clients, Start(p) \/ Step(p) \/ Crash(p),
         NEW q \in Clients, q # p
  PROVE  pc'[q] = pc[q] /\ tgt'[q] = tgt[q] /\ saw'[q] = saw[q]
         /\ local'[q] = local[q]
BY DEF Start, Step, Crash, CopyBatch, FindCommitted, FindDropped,
   StartCarry, FindWritten, RecordWrittenBatch, CountCommitted, PutCommitted,
   SetCurrent, RefuseServed, CountDropped, ListDropped, DeleteObject,
   PutTombstone, ResolvePrevious, ListSides, FindCarried,
   WriteMergedCarryObject, ClearCarryObject, RefuseCarry, CountCarried,
   PutCarried, Goto, Begin, End, TypeInv, TypeOK

\* What each of them makes of the record b its call read: every field it does
\* not name is taken over.
Effect(p, r, b) ==
  /\ r.dropped = IF pc[p] = "dPut" THEN TRUE ELSE b.dropped
  /\ r.committed = IF pc[p] = "cPut" THEN TRUE ELSE b.committed
  /\ pc[p] # "wPut" => r.rowCount = local[p].count
  /\ pc[p] # "fPut" => r.carriedFrom = b.carriedFrom
  /\ pc[p] = "fPut" => r.carriedFrom \in {Nothing, local[p].prev}
  /\ pc[p] = "wPut" => r.stale \/ r.carriedFrom = NoLabel
  /\ pc[p] \in {"cPut", "dPut"} => (r.stale <=> b.stale)

\* Four accesses put a record, each of its own call's snapshot.
LEMMA PutEffect ==
  ASSUME TypeInv, NEW p \in Clients, Step(p), pc[p] \in Puts
  PROVE  /\ tgt[p] \in Snapshots
         /\ \E r \in Ref, at \in Nat : PutRef(p, r) /\ Effect(p, r, Base(p, at))
<1>1. tgt[p] \in Snapshots /\ TypeOK
  BY DEF TypeInv, TypeOK, AtRest, Rest, Puts
<1>2. /\ local[p] \in Local
      /\ local[p].at \in Nat
      /\ Now \in Nat
  BY <1>1, NowIsNat DEF TypeOK, Local
<1>3. \A at \in Nat : Base(p, at) \in Ref
  BY <1>1, BaseIsRef
<1>4. /\ pc[p] = "wPut" => RecordWrittenBatch(p)
      /\ pc[p] = "cPut" => PutCommitted(p)
      /\ pc[p] = "dPut" => PutTombstone(p)
      /\ pc[p] = "fPut" => PutCarried(p)
  BY DEF Step, FindWritten, RecordWrittenBatch, CountCommitted, PutCommitted,
     SetCurrent, RefuseServed, CountDropped, ListDropped, DeleteObject,
     PutTombstone, ResolvePrevious, ListSides, FindCarried,
     WriteMergedCarryObject, ClearCarryObject, RefuseCarry, CountCarried,
     PutCarried
<1>5. CASE pc[p] = "wPut"
  <2> DEFINE b == Base(p, local[p].at)
             r == [b EXCEPT !.stale = @ \/ b.carriedFrom # NoLabel]
  <2>0. b \in Ref
    BY <1>2, <1>3
  <2>1. /\ r \in Ref
        /\ r.dropped = b.dropped /\ r.committed = b.committed
        /\ r.carriedFrom = b.carriedFrom /\ (r.stale \/ r.carriedFrom = NoLabel)
    <3> HIDE DEF b
    <3> QED BY <1>2, <2>0 DEF Ref
  <2>2. PutRef(p, r)
    BY <1>4, <1>5 DEF RecordWrittenBatch
  <2> HIDE DEF r
  <2>3. Effect(p, r, b)
    BY <1>5, <2>1 DEF Effect
  <2> QED
    BY <1>1, <1>2, <2>1, <2>2, <2>3
<1>6. CASE pc[p] = "cPut"
  <2> DEFINE b == Base(p, local[p].at)
             r == [b EXCEPT !.rowCount = local[p].count, !.committed = TRUE]
  <2>0. b \in Ref
    BY <1>2, <1>3
  <2>1. /\ r \in Ref
        /\ r.dropped = b.dropped /\ r.committed = TRUE
        /\ r.carriedFrom = b.carriedFrom /\ r.rowCount = local[p].count
        /\ r.stale = b.stale
    <3> HIDE DEF b
    <3> QED BY <1>2, <2>0 DEF Ref, Local
  <2>2. PutRef(p, r)
    BY <1>4, <1>6 DEF PutCommitted
  <2> HIDE DEF r
  <2>3. Effect(p, r, b)
    BY <1>6, <2>1 DEF Effect
  <2> QED
    BY <1>1, <1>2, <2>1, <2>2, <2>3
<1>7. CASE pc[p] = "dPut"
  <2> DEFINE b == Base(p, Now)
             r == [b EXCEPT !.rowCount = local[p].count, !.dropped = TRUE]
  <2>0. b \in Ref
    BY <1>2, <1>3
  <2>1. /\ r \in Ref
        /\ r.dropped = TRUE /\ r.committed = b.committed
        /\ r.carriedFrom = b.carriedFrom /\ r.rowCount = local[p].count
        /\ r.stale = b.stale
    <3> HIDE DEF b
    <3> QED BY <1>2, <2>0 DEF Ref, Local
  <2>2. PutRef(p, r)
    BY <1>4, <1>7 DEF PutTombstone
  <2> HIDE DEF r
  <2>3. Effect(p, r, b)
    BY <1>7, <2>1 DEF Effect
  <2> QED
    BY <1>1, <1>2, <2>1, <2>2, <2>3
<1>8. CASE pc[p] = "fPut"
  <2> DEFINE b == Base(p, Now)
             from == IF local[p].prev = None THEN Nothing ELSE local[p].prev
             r == [b EXCEPT !.carriedFrom = from,
                            !.stale = FALSE,
                            !.rowCount = local[p].count]
  <2>0. b \in Ref
    BY <1>2, <1>3
  <2>1. /\ r \in Ref
        /\ r.dropped = b.dropped /\ r.committed = b.committed
        /\ r.carriedFrom = from /\ r.rowCount = local[p].count
    <3> HIDE DEF b
    <3> QED BY <1>2, <2>0 DEF Ref, Local
  <2>2. PutRef(p, r)
    BY <1>4, <1>8 DEF PutCarried
  <2> HIDE DEF r
  <2>3. Effect(p, r, b)
    BY <1>8, <2>1 DEF Effect
  <2> QED
    BY <1>1, <1>2, <2>1, <2>2, <2>3
<1> QED
  BY <1>5, <1>6, <1>7, <1>8 DEF Puts

\* Only those four write a record.
LEMMA OthersKeepRecords ==
  ASSUME NEW p \in Clients, Start(p) \/ Step(p) \/ Crash(p),
         ~(Step(p) /\ pc[p] \in Puts)
  PROVE  ref' = ref
BY DEF Puts, Start, Step, Crash, CopyBatch, FindCommitted, FindDropped,
   StartCarry, FindWritten, RecordWrittenBatch, CountCommitted, PutCommitted,
   SetCurrent, RefuseServed, CountDropped, ListDropped, DeleteObject,
   PutTombstone, ResolvePrevious, ListSides, FindCarried,
   WriteMergedCarryObject, ClearCarryObject, RefuseCarry, CountCarried,
   PutCarried, store

\* A record, once there, is never removed.
LEMMA RecordsStay ==
  ASSUME TypeInv, NEW p \in Clients, Start(p) \/ Step(p) \/ Crash(p)
  PROVE  \A s \in Snapshots : ref[s] # NoRef => ref'[s] # NoRef
BY PutEffect, OthersKeepRecords, NoRefAssumption DEF PutRef, TypeInv, TypeOK

\* Strengthening of PointerHasRecord: a commit about to move the pointer has
\* put the record.
PointerInv ==
  /\ TypeInv
  /\ PointerHasRecord
  /\ \A p \in Clients : pc[p] = "cSwing" => ref[tgt[p]] # NoRef

\* The pointer moves only to a snapshot whose record the same call has put.
LEMMA ClientPointerInv ==
  ASSUME PointerInv, NEW p \in Clients, Start(p) \/ Step(p) \/ Crash(p)
  PROVE  PointerInv'
<1>1. TypeInv /\ TypeInv'
  BY ClientTypeInv DEF PointerInv
<1>2. \A s \in Snapshots : ref[s] # NoRef => ref'[s] # NoRef
  BY <1>1, RecordsStay
<1>3. \A q \in Clients : pc'[q] = "cSwing" => tgt'[q] \in Snapshots
  BY <1>1 DEF TypeInv, TypeOK, AtRest, Rest
<1>4. \/ current' = current
      \/ pc[p] = "cSwing" /\ tgt[p] \in Snapshots /\ current' = tgt[p]
  BY <1>1 DEF Start, Step, Crash, CopyBatch, FindCommitted, FindDropped,
     StartCarry, FindWritten, RecordWrittenBatch, CountCommitted, PutCommitted,
     SetCurrent, RefuseServed, CountDropped, ListDropped, DeleteObject,
     PutTombstone, ResolvePrevious, ListSides, FindCarried,
     WriteMergedCarryObject, ClearCarryObject, RefuseCarry, CountCarried,
     PutCarried, store, TypeInv, TypeOK, AtRest, Rest
<1>5. PointerHasRecord'
  BY <1>1, <1>2, <1>4 DEF PointerInv, PointerHasRecord, TypeInv, TypeOK
<1>6. ASSUME NEW q \in Clients, pc'[q] = "cSwing"
      PROVE  ref'[tgt'[q]] # NoRef
  <2>1. CASE pc[q] = "cSwing" /\ tgt'[q] = tgt[q]
    BY <1>2, <1>3, <1>6, <2>1 DEF PointerInv
  <2>2. CASE q = p /\ PutCommitted(p)
    <3>1. \E r \in Ref : PutRef(p, r)
      BY <1>1, <2>2, PutEffect DEF PutCommitted, Step, Puts
    <3>2. tgt'[q] = tgt[p] /\ tgt'[q] \in Snapshots
      BY <1>3, <1>6, <2>2 DEF PutCommitted, Goto
    <3> QED
      BY <1>1, <3>1, <3>2, NoRefAssumption DEF PutRef, TypeInv, TypeOK
  <2>3. \/ pc[q] = "cSwing" /\ tgt'[q] = tgt[q]
        \/ q = p /\ PutCommitted(p)
    <3>1. CASE q # p
      BY <1>1, <1>6, <3>1, OthersStay
    <3>2. CASE q = p /\ ~PutCommitted(p)
      BY <1>1, <1>6, <3>2 DEF Start, Step, Crash, CopyBatch, FindCommitted,
         FindDropped, StartCarry, FindWritten, RecordWrittenBatch,
         CountCommitted, SetCurrent, RefuseServed, CountDropped, ListDropped,
         DeleteObject, PutTombstone, ResolvePrevious, ListSides, FindCarried,
         WriteMergedCarryObject, ClearCarryObject, RefuseCarry, CountCarried,
         PutCarried, Goto, Begin, End, TypeInv, TypeOK
    <3> QED
      BY <3>1, <3>2
  <2> QED
    BY <2>1, <2>2, <2>3
<1> QED
  BY <1>1, <1>5, <1>6 DEF PointerInv

\* Readers are never pointed at a snapshot that has no record: commit records
\* before it moves the pointer and no call removes a record.  No assumption on
\* which calls overlap, and any call may stop anywhere.
THEOREM PointerAlwaysHasRecord == Spec => []PointerHasRecord
<1>1. Init => PointerInv
  BY InitTypeInv DEF Init, PointerInv, PointerHasRecord
<1>2. PointerInv /\ [Next]_vars => PointerInv'
  <2> SUFFICES ASSUME PointerInv, [Next]_vars PROVE PointerInv'
    OBVIOUS
  <2>1. CASE UNCHANGED vars
    BY <2>1 DEF PointerInv, PointerHasRecord, TypeInv, TypeOK, AtRest, vars
  <2>2. CASE Next
    BY <2>2, ClientPointerInv DEF Next
  <2> QED
    BY <2>1, <2>2
<1>3. PointerInv => PointerHasRecord
  BY DEF PointerInv
<1> QED
  BY <1>1, <1>2, <1>3, PTL DEF Spec

-----------------------------------------------------------------------------
(* When calls on one snapshot never overlap.                               *)


IsDropped(s)   == ref[s] # NoRef /\ ref[s].dropped
IsCommitted(s) == ref[s] # NoRef /\ ref[s].committed

\* Calls on one snapshot do not overlap.
Exclusion ==
  \A p, q \in Clients : p # q /\ tgt[p] # None => tgt[q] # tgt[p]

\* Phases in which a call holds the record of its snapshot.
HoldsRecord == {"wPut", "cCount", "cPut", "dCheck", "dCount", "dList", "dDelete",
                "dPut", "fMerge", "fCount", "fPut"}

\* Nobody else has written that record since.
RecordSound(p) == pc[p] \in HoldsRecord => saw[p] = ref[tgt[p]]

\* A commit under way is not about a tombstone; about to serve, it is recorded.
CommitSound(p) ==
  /\ pc[p] \in CommitPhases => ~IsDropped(tgt[p])
  /\ pc[p] = "cSwing" => IsCommitted(tgt[p])

\* What a commit counted is still what is there.
CountSound(p) ==
  /\ pc[p] = "cPut" => local[p].count = CountStaged(tgt[p])
  /\ pc[p] = "cSwing" => ref[tgt[p]].rowCount = CountStaged(tgt[p])

\* A drop under way is about a live record and, past its refusal, about a
\* snapshot readers do not get.
DropSound(p) ==
  /\ pc[p] \in DropPhases => ~IsDropped(tgt[p])
  /\ pc[p] \in DropPhases \ {"dCheck"} => current # tgt[p]

\* The count a drop is about to record, of a committed load, is the load's own.
TombstoneSound(p) ==
  pc[p] \in {"dList", "dDelete", "dPut"} /\ IsCommitted(tgt[p]) =>
    local[p].count = ref[tgt[p]].rowCount

\* Whatever a carry holds for its source has been committed.
SourceSound(p) ==
  /\ pc[p] = "fPrevious" /\ local[p].served # None => IsCommitted(local[p].served)
  /\ pc[p] \in CarryPhases \ {"fPrevious"} /\ local[p].prev # None =>
       IsCommitted(local[p].prev)

CallSound(p) ==
  /\ RecordSound(p)
  /\ CommitSound(p)
  /\ CountSound(p)
  /\ DropSound(p)
  /\ TombstoneSound(p)
  /\ SourceSound(p)

\* The inductive invariant.  ServedIsCommitted alone says nothing of the calls
\* on their way to move the pointer or to leave a tombstone; CallSound does.
StoreInv ==
  /\ TypeInv
  /\ Exclusion
  /\ \A p \in Clients : CallSound(p)
  /\ ServedIsCommitted
  /\ MergesOnlyBlessed

-----------------------------------------------------------------------------
(* What one access of one call changes.                                    *)

\* A call keeps its snapshot, lets go of it, or takes one nobody has.
LEMMA TargetChange ==
  ASSUME StoreInv, NEW p \in Clients, Start(p) \/ Step(p) \/ Crash(p)
  PROVE  \/ tgt'[p] = tgt[p]
         \/ tgt'[p] = None
         \/ \E s \in Snapshots : Free(p, s) /\ tgt'[p] = s
BY DEF Start, Step, Crash, CopyBatch, FindCommitted, FindDropped, StartCarry,
   FindWritten, RecordWrittenBatch, CountCommitted, PutCommitted, SetCurrent,
   RefuseServed, CountDropped, ListDropped, DeleteObject, PutTombstone,
   ResolvePrevious, ListSides, FindCarried, WriteMergedCarryObject,
   ClearCarryObject, RefuseCarry, CountCarried, PutCarried, Goto, Begin, End, StoreInv, TypeInv, TypeOK

\* No step gives one snapshot to two calls.
LEMMA ExclusionKept ==
  ASSUME Exclusive, StoreInv, NEW p \in Clients, Start(p) \/ Step(p) \/ Crash(p)
  PROVE  Exclusion'
<1>1. \A q \in Clients \ {p} : tgt'[q] = tgt[q]
  BY OthersStay DEF StoreInv
<1>2. \/ tgt'[p] = tgt[p]
      \/ tgt'[p] = None
      \/ \A q \in Clients : tgt[q] # tgt'[p]
  BY TargetChange DEF Free
<1> QED
  BY <1>1, <1>2 DEF StoreInv, Exclusion

\* The pointer moves only at the end of a commit.
LEMMA PointerChange ==
  ASSUME NEW p \in Clients, Start(p) \/ Step(p) \/ Crash(p)
  PROVE  current' = current \/ (pc[p] = "cSwing" /\ SetCurrent(p))
<1>1. CASE Start(p) \/ Crash(p)
  BY <1>1 DEF Start, Crash, CopyBatch, FindCommitted, FindDropped, StartCarry, store
<1>2. CASE Step(p) /\ ~SetCurrent(p)
  BY <1>2 DEF Step, FindWritten, RecordWrittenBatch, CountCommitted, PutCommitted,
     RefuseServed, CountDropped, ListDropped, DeleteObject, PutTombstone,
     ResolvePrevious, ListSides, FindCarried, WriteMergedCarryObject,
     ClearCarryObject, RefuseCarry, CountCarried, PutCarried, store
<1>3. CASE SetCurrent(p)
  BY <1>3 DEF SetCurrent
<1> QED
  BY <1>1, <1>2, <1>3

\* Rows change only under the snapshot the call is about.
LEMMA RowsChange ==
  ASSUME StoreInv, NEW p \in Clients, Start(p) \/ Step(p) \/ Crash(p),
         NEW s \in Snapshots, s # tgt[p], s # tgt'[p]
  PROVE  rows'[s] = rows[s]
BY DEF Start, Step, Crash, CopyBatch, FindCommitted, FindDropped, StartCarry,
   FindWritten, RecordWrittenBatch, CountCommitted, PutCommitted, SetCurrent,
   RefuseServed, CountDropped, ListDropped, DeleteObject, PutTombstone,
   ResolvePrevious, ListSides, FindCarried, WriteMergedCarryObject,
   ClearCarryObject, RefuseCarry, CountCarried, PutCarried, Begin, PutObject, store, StoreInv, TypeInv, TypeOK

\* What a step makes of the record of a snapshot: committed and dropped are for
\* ever, and each comes about at one access of one call about that snapshot.
LEMMA RecordEffect ==
  ASSUME StoreInv, NEW p \in Clients, Start(p) \/ Step(p) \/ Crash(p),
         NEW s \in Snapshots
  PROVE  /\ s # tgt[p] => ref'[s] = ref[s]
         /\ IsCommitted(s) => IsCommitted(s)'
         /\ IsDropped(s) => IsDropped(s)'
         /\ IsCommitted(s)' => IsCommitted(s) \/ pc[p] = "cPut"
         /\ IsDropped(s)' => IsDropped(s) \/ (pc[p] = "dPut" /\ s = tgt[p])
<1>1. CASE ~(Step(p) /\ pc[p] \in Puts)
  <2>1. ref' = ref
    BY <1>1, OthersKeepRecords
  <2> QED
    BY <2>1 DEF IsCommitted, IsDropped
<1>2. CASE Step(p) /\ pc[p] \in Puts
  <2>1. PICK r \in Ref, at \in Nat : PutRef(p, r) /\ Effect(p, r, Base(p, at))
    BY <1>2, PutEffect DEF StoreInv
  <2>2. CASE s # tgt[p]
    <3>1. ref'[s] = ref[s]
      BY <2>1, <2>2 DEF PutRef, StoreInv, TypeInv, TypeOK
    <3> QED
      BY <2>2, <3>1 DEF IsCommitted, IsDropped
  <2>3. CASE s = tgt[p]
    <3>1. ref'[s] = r /\ r # NoRef
      BY <2>1, <2>3, NoRefAssumption DEF PutRef, StoreInv, TypeInv, TypeOK
    <3>2. saw[p] = ref[s]
      BY <1>2, <2>3 DEF StoreInv, CallSound, RecordSound, HoldsRecord, Puts
    <3>3. CASE ref[s] = NoRef
      <4>1. ~Base(p, at).committed /\ ~Base(p, at).dropped
        BY <3>2, <3>3 DEF Base, Fresh
      <4> QED
        BY <2>1, <2>3, <3>1, <3>3, <4>1 DEF Effect, IsCommitted, IsDropped
    <3>4. CASE ref[s] # NoRef
      <4>1. Base(p, at) = ref[s]
        BY <3>2, <3>4 DEF Base
      <4> QED
        BY <2>1, <2>3, <3>1, <3>4, <4>1 DEF Effect, IsCommitted, IsDropped
    <3> QED
      BY <3>3, <3>4
  <2> QED
    BY <2>2, <2>3
<1> QED
  BY <1>1, <1>2

-----------------------------------------------------------------------------
(* One access of one call keeps the invariant.                             *)

\* The other calls: they are about other snapshots.
LEMMA OthersSound ==
  ASSUME Exclusive, StoreInv, NEW p \in Clients, Start(p) \/ Step(p) \/ Crash(p),
         NEW q \in Clients, q # p
  PROVE  CallSound(q)'
<1>1. /\ pc'[q] = pc[q] /\ tgt'[q] = tgt[q]
      /\ saw'[q] = saw[q] /\ local'[q] = local[q]
  BY OthersStay DEF StoreInv
<1>2. CallSound(q) /\ TypeOK /\ AtRest(q)
  BY DEF StoreInv, TypeInv
<1>3. CASE tgt[q] = None
  <2>1. pc[q] \in Rest
    BY <1>2, <1>3 DEF AtRest
  <2> QED
    BY <1>1, <2>1 DEF CallSound, RecordSound, CommitSound, CountSound, DropSound,
       TombstoneSound, SourceSound, HoldsRecord, CommitPhases, DropPhases,
       CarryPhases, Rest
<1>4. CASE tgt[q] # None
  <2>1. tgt[q] \in Snapshots
    BY <1>2, <1>4 DEF TypeOK
  <2>2. tgt[q] # tgt[p] /\ tgt[q] # tgt'[p]
    BY <1>1, <1>4, ExclusionKept DEF StoreInv, Exclusion
  <2>3. ref'[tgt[q]] = ref[tgt[q]]
    BY <2>1, <2>2, RecordEffect
  <2>4. rows'[tgt[q]] = rows[tgt[q]]
    BY <2>1, <2>2, RowsChange
  <2>5. RecordSound(q)'
    BY <1>1, <1>2, <2>3 DEF CallSound, RecordSound
  <2>6. CommitSound(q)' /\ TombstoneSound(q)'
    BY <1>1, <1>2, <2>3 DEF CallSound, CommitSound, TombstoneSound, IsCommitted,
       IsDropped
  <2>7. CountSound(q)'
    BY <1>1, <1>2, <2>3, <2>4 DEF CallSound, CountSound, CountStaged
  <2>8. DropSound(q)'
    <3>1. current' \in {current, tgt[p]}
      BY PointerChange DEF SetCurrent
    <3> QED
      BY <1>1, <1>2, <2>2, <2>3, <3>1 DEF CallSound, DropSound, IsDropped
  <2>9. SourceSound(q)'
    <3>1. \A s \in Snapshots : IsCommitted(s) => IsCommitted(s)'
      BY RecordEffect
    <3>2. local[q] \in Local
      BY <1>2 DEF TypeOK
    <3>3. local[q].served \in Snapshots \cup {None}
          /\ local[q].prev \in Snapshots \cup {None}
      BY <3>2 DEF Local
    <3> QED
      BY <1>1, <1>2, <3>1, <3>3 DEF CallSound, SourceSound, IsCommitted
  <2> QED
    BY <2>5, <2>6, <2>7, <2>8, <2>9 DEF CallSound
<1> QED
  BY <1>3, <1>4

\* A call that is at rest has nothing to be wrong about.
LEMMA RestSound ==
  ASSUME NEW p \in Clients, pc'[p] \in Rest
  PROVE  CallSound(p)'
BY DEF CallSound, RecordSound, CommitSound, CountSound, DropSound, TombstoneSound,
   SourceSound, HoldsRecord, CommitPhases, DropPhases, CarryPhases, Rest

\* A call begins with what it has just read.
LEMMA StartSound ==
  ASSUME StoreInv, NEW p \in Clients, Start(p)
  PROVE  CallSound(p)'
<1> TypeOK /\ pc \in [Clients -> Phases] /\ tgt \in [Clients -> Snapshots \cup {None}]
  BY DEF StoreInv, TypeInv, TypeOK
<1>1. PICK s \in Snapshots :
        \/ \E b \in Batches : \E ks \in BatchRows[b] : CopyBatch(p, s, b, ks)
        \/ FindCommitted(p, s)
        \/ FindDropped(p, s)
        \/ StartCarry(p, s)
  BY DEF Start
<1>2. CASE \E b \in Batches : \E ks \in BatchRows[b] : CopyBatch(p, s, b, ks)
  <2>1. pc'[p] = "wFind"
    BY <1>2 DEF CopyBatch, Begin
  <2> QED
    BY <2>1 DEF CallSound, RecordSound, CommitSound, CountSound, DropSound,
       TombstoneSound, SourceSound, HoldsRecord, CommitPhases, DropPhases, CarryPhases
<1>3. CASE FindCommitted(p, s)
  <2>1. CASE End(p, "failed")
    BY <2>1, RestSound DEF End, Rest
  <2>2. CASE ~End(p, "failed")
    <3>1. /\ pc'[p] = "cCount" /\ tgt'[p] = s
          /\ saw' = [saw EXCEPT ![p] = ref[s]]
          /\ ref' = ref
          /\ ~IsDropped(s)
      BY <1>3, <2>2 DEF FindCommitted, Begin, store, IsDropped
    <3>2. saw'[p] = ref[s]
      BY <3>1 DEF TypeOK
    <3> QED
      BY <3>1, <3>2 DEF CallSound, RecordSound, CommitSound, CountSound, DropSound,
         TombstoneSound, SourceSound, CommitPhases, DropPhases, CarryPhases, IsDropped
  <2> QED
    BY <2>1, <2>2
<1>4. CASE FindDropped(p, s)
  <2>1. CASE End(p, "done")
    BY <2>1, RestSound DEF End, Rest
  <2>2. CASE ~End(p, "done")
    <3>1. /\ pc'[p] = "dCheck" /\ tgt'[p] = s
          /\ saw' = [saw EXCEPT ![p] = ref[s]]
          /\ ref' = ref
          /\ ~IsDropped(s)
      BY <1>4, <2>2 DEF FindDropped, Begin, store, IsDropped
    <3>2. saw'[p] = ref[s]
      BY <3>1 DEF TypeOK
    <3> QED
      BY <3>1, <3>2 DEF CallSound, RecordSound, CommitSound, CountSound, DropSound,
         TombstoneSound, SourceSound, CommitPhases, DropPhases, CarryPhases, IsDropped
  <2> QED
    BY <2>1, <2>2
<1>5. CASE StartCarry(p, s)
  <2>1. pc'[p] = "fPrevious" /\ local' = [local EXCEPT ![p].served = current]
        /\ ref' = ref
    BY <1>5 DEF StartCarry, Begin, store
  <2>2. local'[p].served = current
    BY <2>1 DEF TypeOK, Local
  <2>3. current # None => IsCommitted(current)
    BY DEF StoreInv, ServedIsCommitted, IsCommitted
  <2>4. SourceSound(p)'
    BY <2>1, <2>2, <2>3 DEF SourceSound, IsCommitted
  <2> QED
    BY <2>1, <2>4 DEF CallSound, RecordSound, CommitSound, CountSound, DropSound,
       TombstoneSound, HoldsRecord, CommitPhases, DropPhases
<1> QED
  BY <1>1, <1>2, <1>3, <1>4, <1>5

\* A call goes on with what it read and with what it wrote.
LEMMA StepSound ==
  ASSUME StoreInv, NEW p \in Clients, Step(p)
  PROVE  CallSound(p)'
<1> DEFINE t == tgt[p]
<1>1. TypeOK /\ AtRest(p) /\ CallSound(p)
  BY DEF StoreInv, TypeInv
<1>2. pc[p] \notin Rest /\ t \in Snapshots /\ local[p] \in Local
  BY <1>1 DEF Step, AtRest, TypeOK, Rest, FindWritten, RecordWrittenBatch,
     CountCommitted, PutCommitted, SetCurrent, RefuseServed, CountDropped,
     ListDropped, DeleteObject, PutTombstone, ResolvePrevious, ListSides,
     FindCarried, WriteMergedCarryObject, ClearCarryObject, RefuseCarry,
     CountCarried, PutCarried
<1>3. ASSUME NEW how \in Rest, End(p, how)
      PROVE  CallSound(p)'
  BY <1>1, <1>3, RestSound DEF End, TypeOK
<1>4. CASE FindWritten(p)
  <2>1. CASE End(p, "done")
    BY <2>1, <1>3 DEF Rest
  <2>2. CASE ~End(p, "done")
    <3>1. /\ pc'[p] = "wPut" /\ tgt'[p] = t
          /\ saw'[p] = ref[t]
          /\ ref' = ref
      BY <1>1, <1>4, <2>2 DEF FindWritten, Goto, store, TypeOK
    <3> QED
      BY <3>1 DEF CallSound, RecordSound, CommitSound, CountSound, DropSound,
         TombstoneSound, SourceSound, CommitPhases, DropPhases, CarryPhases
  <2> QED
    BY <2>1, <2>2
<1>5. CASE RecordWrittenBatch(p) \/ SetCurrent(p) \/ PutTombstone(p)
           \/ RefuseCarry(p) \/ PutCarried(p)
  BY <1>3, <1>5 DEF RecordWrittenBatch, SetCurrent, PutTombstone, RefuseCarry,
     PutCarried, Rest
<1>6. CASE CountCommitted(p)
  <2>1. /\ pc'[p] = "cPut" /\ tgt'[p] = t /\ saw'[p] = saw[p]
        /\ ref' = ref /\ rows' = rows
        /\ local'[p].count = CountStaged(t)
        /\ pc[p] = "cCount"
    BY <1>1, <1>6 DEF CountCommitted, Goto, store, TypeOK, Local
  <2> QED
    BY <1>1, <2>1 DEF CallSound, RecordSound, CommitSound, CountSound, DropSound,
       TombstoneSound, SourceSound, HoldsRecord, CommitPhases, DropPhases,
       CarryPhases, IsDropped, CountStaged
<1>7. CASE PutCommitted(p)
  <2>1. PICK r \in Ref, at \in Nat : PutRef(p, r) /\ Effect(p, r, Base(p, at))
    BY <1>7, PutEffect DEF StoreInv, PutCommitted, Puts
  <2>2. /\ pc[p] = "cPut" /\ pc'[p] = "cSwing" /\ tgt'[p] = t /\ rows' = rows
    BY <1>1, <1>7 DEF PutCommitted, Goto, TypeOK
  <2>3. ref'[t] = r /\ r # NoRef
    BY <1>1, <1>2, <2>1, NoRefAssumption DEF PutRef, TypeOK
  <2>4. r.committed /\ r.rowCount = CountStaged(t)
    BY <1>1, <2>1, <2>2 DEF Effect, CallSound, CountSound
  <2>5. ~r.dropped
    <3>1. r.dropped = Base(p, at).dropped
      BY <2>1, <2>2 DEF Effect
    <3>2. saw[p] = ref[t] /\ ~IsDropped(t)
      BY <1>1, <2>2 DEF CallSound, RecordSound, CommitSound, HoldsRecord, CommitPhases
    <3>3. ~Base(p, at).dropped
      BY <3>2 DEF Base, Fresh, IsDropped
    <3> QED
      BY <3>1, <3>3
  <2> QED
    BY <2>2, <2>3, <2>4, <2>5 DEF CallSound, RecordSound, CommitSound, CountSound,
       DropSound, TombstoneSound, SourceSound, HoldsRecord, CommitPhases,
       DropPhases, CarryPhases, IsDropped, IsCommitted, CountStaged
<1>8. CASE RefuseServed(p)
  <2>1. CASE End(p, "failed")
    BY <2>1, <1>3 DEF Rest
  <2>2. CASE ~End(p, "failed")
    <3>1. /\ pc'[p] = "dCount" /\ tgt'[p] = t /\ saw'[p] = saw[p]
          /\ ref' = ref /\ current' = current /\ current # t
          /\ pc[p] = "dCheck"
      BY <1>1, <1>8, <2>2 DEF RefuseServed, Goto, store, TypeOK
    <3> QED
      BY <1>1, <3>1 DEF CallSound, RecordSound, CommitSound, CountSound, DropSound,
         TombstoneSound, SourceSound, HoldsRecord, CommitPhases, DropPhases,
         CarryPhases, IsDropped
  <2> QED
    BY <2>1, <2>2
<1>9. CASE CountDropped(p)
  <2>1. /\ pc'[p] = "dList" /\ tgt'[p] = t /\ saw'[p] = saw[p]
        /\ ref' = ref /\ current' = current
        /\ pc[p] = "dCount"
    BY <1>1, <1>9 DEF CountDropped, Goto, store, TypeOK
  <2>2. IsCommitted(t) => local'[p].count = ref[t].rowCount
    <3>1. saw[p] = ref[t]
      BY <1>1, <2>1 DEF CallSound, RecordSound, HoldsRecord
    <3>2. local' = [local EXCEPT ![p].count =
                      IF saw[p] # NoRef /\ saw[p].committed THEN saw[p].rowCount
                                                            ELSE CountStaged(t)]
      BY <1>9 DEF CountDropped
    <3> QED
      BY <1>1, <3>1, <3>2 DEF IsCommitted, TypeOK, Local
  <2> QED
    BY <1>1, <2>1, <2>2 DEF CallSound, RecordSound, CommitSound, CountSound,
       DropSound, TombstoneSound, SourceSound, HoldsRecord, CommitPhases,
       DropPhases, CarryPhases, IsDropped, IsCommitted
<1>10. CASE ListDropped(p) \/ \E o \in ObjectKeys : DeleteObject(p, o)
  <2>1. /\ pc'[p] \in {"dDelete", "dPut"} /\ tgt'[p] = t /\ saw'[p] = saw[p]
        /\ ref' = ref /\ current' = current
        /\ local'[p].count = local[p].count
        /\ pc[p] \in {"dList", "dDelete"}
    BY <1>1, <1>10 DEF ListDropped, DeleteObject, Goto, store, TypeOK, Local
  <2> QED
    BY <1>1, <2>1 DEF CallSound, RecordSound, CommitSound, CountSound, DropSound,
       TombstoneSound, SourceSound, HoldsRecord, CommitPhases, DropPhases,
       CarryPhases, IsDropped, IsCommitted
<1>11. CASE ResolvePrevious(p)
  <2> DEFINE id     == local[p].served
             served == IF id # None /\ ref[id] # NoRef THEN id ELSE None
             sources == IF served \notin {None, t} THEN {served}
                                                   ELSE NewestCommitted(t)
  <2>1. PICK source \in sources :
          local' = [local EXCEPT ![p] = [@ EXCEPT !.served = served, !.prev = source]]
    BY <1>11 DEF ResolvePrevious
  <2>2. /\ pc'[p] = "fList" /\ ref' = ref /\ pc[p] = "fPrevious"
    BY <1>1, <1>11 DEF ResolvePrevious, Goto, store, TypeOK
  <2>3. local'[p].prev = source
    BY <1>1, <1>2, <2>1 DEF TypeOK, Local
  <2>4. source # None => IsCommitted(source)
    <3>1. served # None => IsCommitted(served)
      BY <1>1, <2>2 DEF CallSound, SourceSound
    <3>2. ASSUME NEW u \in NewestCommitted(t), u # None
          PROVE  IsCommitted(u)
      BY <3>2 DEF NewestCommitted, LiveCommitted, IsCommitted
    <3> QED
      BY <3>1, <3>2
  <2> QED
    BY <2>2, <2>3, <2>4 DEF CallSound, RecordSound, CommitSound, CountSound,
       DropSound, TombstoneSound, SourceSound, HoldsRecord, CommitPhases,
       DropPhases, IsCommitted
<1>12. CASE ListSides(p)
  <2>1. /\ pc'[p] = "fFind" /\ ref' = ref /\ pc[p] = "fList"
        /\ local'[p].prev = local[p].prev
    BY <1>1, <1>12 DEF ListSides, Goto, store, TypeOK, Local
  <2> QED
    BY <1>1, <2>1 DEF CallSound, RecordSound, CommitSound, CountSound,
       DropSound, TombstoneSound, SourceSound, HoldsRecord, CommitPhases,
       DropPhases, CarryPhases, IsCommitted
<1>13. CASE FindCarried(p)
  <2>1. /\ pc'[p] = "fMerge" /\ ref' = ref /\ pc[p] = "fFind" /\ tgt'[p] = t
        /\ local' = local /\ saw'[p] = ref[t]
    BY <1>1, <1>13 DEF FindCarried, Goto, store, TypeOK
  <2> QED
    BY <1>1, <2>1 DEF CallSound, RecordSound, CommitSound, CountSound,
       DropSound, TombstoneSound, SourceSound, HoldsRecord, CommitPhases,
       DropPhases, CarryPhases, IsCommitted
<1>14. CASE WriteMergedCarryObject(p) \/ ClearCarryObject(p)
  <2>1. /\ pc'[p] = "fCount" /\ ref' = ref /\ pc[p] = "fMerge" /\ tgt'[p] = t
        /\ local' = local /\ saw' = saw
    BY <1>1, <1>14 DEF WriteMergedCarryObject, ClearCarryObject, Goto, TypeOK
  <2> QED
    BY <1>1, <2>1 DEF CallSound, RecordSound, CommitSound, CountSound,
       DropSound, TombstoneSound, SourceSound, HoldsRecord, CommitPhases,
       DropPhases, CarryPhases, IsCommitted
<1>15. CASE CountCarried(p)
  <2>1. /\ pc'[p] = "fPut" /\ ref' = ref /\ pc[p] = "fCount" /\ tgt'[p] = t
        /\ local'[p].prev = local[p].prev /\ saw' = saw
    BY <1>1, <1>15 DEF CountCarried, Goto, store, TypeOK, Local
  <2> QED
    BY <1>1, <2>1 DEF CallSound, RecordSound, CommitSound, CountSound,
       DropSound, TombstoneSound, SourceSound, HoldsRecord, CommitPhases,
       DropPhases, CarryPhases, IsCommitted
<1> QED
  BY <1>4, <1>5, <1>6, <1>7, <1>8, <1>9, <1>10, <1>11, <1>12, <1>13, <1>14, <1>15
  DEF Step

\* What readers get stays recorded, committed and live.
LEMMA ServedKept ==
  ASSUME StoreInv, NEW p \in Clients, Start(p) \/ Step(p) \/ Crash(p)
  PROVE  ServedIsCommitted'
<1>1. current \in Snapshots \cup {None} /\ CallSound(p) /\ AtRest(p)
  BY DEF StoreInv, TypeInv, TypeOK
<1>2. CASE current' = current
  <2>1. CASE current = None
    BY <1>2, <2>1 DEF ServedIsCommitted
  <2>2. CASE current # None
    <3>1. current \in Snapshots /\ IsCommitted(current) /\ ~IsDropped(current)
      BY <1>1, <2>2 DEF StoreInv, ServedIsCommitted, IsCommitted, IsDropped
    <3>2. ~(pc[p] = "dPut" /\ current = tgt[p])
      BY <1>1 DEF CallSound, DropSound, DropPhases
    <3>3. /\ ref'[current] # NoRef
          /\ ref'[current].committed
          /\ ~ref'[current].dropped
      BY <3>1, <3>2, RecordEffect DEF IsCommitted, IsDropped
    <3> QED
      BY <1>2, <3>3 DEF ServedIsCommitted
  <2> QED
    BY <2>1, <2>2
<1>3. CASE pc[p] = "cSwing" /\ SetCurrent(p)
  <2>1. current' = tgt[p] /\ ref' = ref
    BY <1>3 DEF SetCurrent
  <2>2. IsCommitted(tgt[p]) /\ ~IsDropped(tgt[p])
    BY <1>1, <1>3 DEF CallSound, CommitSound, CommitPhases
  <2> QED
    BY <2>1, <2>2 DEF ServedIsCommitted, IsCommitted, IsDropped
<1> QED
  BY <1>2, <1>3, PointerChange

\* The origin a record names stays committed, and a carry names a committed one.
LEMMA MergesKept ==
  ASSUME StoreInv, NEW p \in Clients, Start(p) \/ Step(p) \/ Crash(p)
  PROVE  MergesOnlyBlessed'
<1> SUFFICES ASSUME NEW s \in Snapshots, ref'[s] # NoRef,
                    ref'[s].carriedFrom \in Snapshots
             PROVE  IsCommitted(ref[s].carriedFrom)' 
  BY DEF MergesOnlyBlessed, IsCommitted
<1> DEFINE o == ref'[s].carriedFrom
<1>1. \A u \in Snapshots : IsCommitted(u) => ref'[u] # NoRef /\ ref'[u].committed
  BY RecordEffect DEF IsCommitted
<1>2. CASE ref'[s] = ref[s]
  BY <1>1, <1>2 DEF StoreInv, MergesOnlyBlessed, IsCommitted
<1>3. CASE ref'[s] # ref[s]
  <2>1. Step(p) /\ pc[p] \in Puts /\ s = tgt[p]
    BY <1>3, OthersKeepRecords, RecordEffect
  <2>2. PICK r \in Ref, at \in Nat : PutRef(p, r) /\ Effect(p, r, Base(p, at))
    BY <2>1, PutEffect DEF StoreInv
  <2>3. ref'[s] = r
    BY <2>1, <2>2 DEF PutRef, StoreInv, TypeInv, TypeOK
  <2>4. CallSound(p) /\ o \in Snapshots
    BY DEF StoreInv
  <2>5. CASE pc[p] = "fPut"
    <3>1. o = local[p].prev /\ o # None
      BY <2>2, <2>3, <2>4, <2>5, SentinelAssumption DEF Effect
    <3>2. IsCommitted(o)
      BY <2>4, <2>5, <3>1 DEF CallSound, SourceSound, CarryPhases
    <3> QED
      BY <1>1, <2>4, <3>2 DEF IsCommitted
  <2>6. CASE pc[p] # "fPut"
    <3>1. o = Base(p, at).carriedFrom
      BY <2>2, <2>3, <2>6 DEF Effect
    <3>2. saw[p] = ref[s]
      BY <2>1, <2>4 DEF CallSound, RecordSound, HoldsRecord, Puts
    <3>3. ref[s] # NoRef /\ o = ref[s].carriedFrom
      BY <2>4, <3>1, <3>2, SentinelAssumption DEF Base, Fresh
    <3>4. IsCommitted(o)
      BY <2>4, <3>3 DEF StoreInv, MergesOnlyBlessed, IsCommitted
    <3> QED
      BY <1>1, <2>4, <3>4 DEF IsCommitted
  <2> QED
    BY <2>5, <2>6
<1> QED
  BY <1>2, <1>3

\* The invariant holds before the first call.
LEMMA InitStoreInv == Init => StoreInv
BY InitTypeInv DEF Init, StoreInv, Exclusion, CallSound, RecordSound, CommitSound,
   CountSound, DropSound, TombstoneSound, SourceSound, HoldsRecord, CommitPhases,
   DropPhases, CarryPhases, ServedIsCommitted, MergesOnlyBlessed

\* Every step of every call keeps the invariant.
LEMMA StoreInvKept ==
  ASSUME Exclusive
  PROVE  StoreInv /\ [Next]_vars => StoreInv'
<1> SUFFICES ASSUME StoreInv, [Next]_vars PROVE StoreInv'
  OBVIOUS
<1>1. CASE UNCHANGED vars
  <2>1. TypeInv' /\ Exclusion' /\ ServedIsCommitted' /\ MergesOnlyBlessed'
    BY <1>1 DEF StoreInv, TypeInv, TypeOK, AtRest, Exclusion, ServedIsCommitted,
       MergesOnlyBlessed, vars
  <2>2. ASSUME NEW p \in Clients PROVE CallSound(p)'
    BY <1>1 DEF StoreInv, CallSound, RecordSound, CommitSound, CountSound,
       DropSound, TombstoneSound, SourceSound, IsDropped, IsCommitted,
       CountStaged, vars
  <2> QED
    BY <2>1, <2>2 DEF StoreInv
<1>2. CASE Next
  <2>1. PICK p \in Clients : Start(p) \/ Step(p) \/ Crash(p)
    BY <1>2 DEF Next
  <2>2. CallSound(p)'
    <3>1. CASE Crash(p)
      <4>1. pc'[p] \in Rest
        BY <3>1 DEF Crash, End, Rest, StoreInv, TypeInv, TypeOK
      <4> QED
        BY <4>1, RestSound
    <3> QED
      BY <2>1, <3>1, StartSound, StepSound
  <2>3. \A q \in Clients : q # p => CallSound(q)'
    BY <2>1, OthersSound
  <2>4. TypeInv'
    BY <2>1, ClientTypeInv DEF StoreInv
  <2> QED
    BY <2>1, <2>2, <2>3, <2>4, ExclusionKept, ServedKept, MergesKept DEF StoreInv
<1> QED
  BY <1>1, <1>2

-----------------------------------------------------------------------------
(* The results.                                                            *)

\* The invariant holds of every behaviour in which calls on one snapshot take
\* turns.
THEOREM StoreInvariant == ASSUME Exclusive PROVE Spec => []StoreInv
BY InitStoreInv, StoreInvKept, PTL DEF Spec

\* The snapshot readers get has a record that says committed and not dropped.
THEOREM ServedAlwaysCommitted ==
  ASSUME Exclusive PROVE Spec => []ServedIsCommitted
<1>1. StoreInv => ServedIsCommitted
  BY DEF StoreInv
<1> QED
  BY <1>1, StoreInvariant, PTL

\* Every origin a record names is a load that was committed.
THEOREM MergesAlwaysBlessed ==
  ASSUME Exclusive PROVE Spec => []MergesOnlyBlessed
<1>1. StoreInv => MergesOnlyBlessed
  BY DEF StoreInv
<1> QED
  BY <1>1, StoreInvariant, PTL

\* No call brings a tombstone back to life.
THEOREM TombstonesStay ==
  ASSUME Exclusive PROVE Spec => TombstonesAreFinal
<1>1. StoreInv /\ [Next]_vars =>
        [\A s \in Snapshots :
           ref[s] # NoRef /\ ref[s].dropped => ref'[s] # NoRef /\ ref'[s].dropped]_vars
  <2> SUFFICES ASSUME StoreInv, Next, NEW s \in Snapshots, IsDropped(s)
               PROVE  ref'[s] # NoRef /\ ref'[s].dropped
    BY DEF IsDropped
  <2> QED
    BY RecordEffect DEF Next, IsDropped
<1> QED
  BY <1>1, StoreInvariant, PTL DEF Spec, TombstonesAreFinal

\* A committed load's tombstone records the number of rows it was committed
\* with, whatever a drop that died half-way had already deleted.
THEOREM TombstoneCountStays ==
  ASSUME Exclusive PROVE Spec => TombstoneKeepsCount
<1>1. StoreInv /\ [Next]_vars =>
        [\A s \in Snapshots :
           /\ ref[s] # NoRef /\ ref[s].committed /\ ~ref[s].dropped
           /\ ref'[s].dropped
           => ref'[s].rowCount = ref[s].rowCount]_vars
  <2> SUFFICES ASSUME StoreInv, Next, NEW s \in Snapshots, IsCommitted(s),
                      ~IsDropped(s), ref'[s].dropped
               PROVE  ref'[s].rowCount = ref[s].rowCount
    BY DEF IsCommitted, IsDropped
  <2>1. PICK p \in Clients : Start(p) \/ Step(p) \/ Crash(p)
    BY DEF Next
  <2>2. IsDropped(s)'
    BY <2>1, RecordEffect DEF IsDropped, IsCommitted
  <2>3. pc[p] = "dPut" /\ s = tgt[p]
    BY <2>1, <2>2, RecordEffect
  <2>4. Step(p) /\ pc[p] \in Puts
    BY <2>1, <2>2, <2>3, OthersKeepRecords DEF IsDropped
  <2>5. PICK r \in Ref, at \in Nat : PutRef(p, r) /\ Effect(p, r, Base(p, at))
    BY <2>4, PutEffect DEF StoreInv
  <2>6. ref'[s].rowCount = local[p].count
    BY <2>3, <2>5 DEF PutRef, Effect, StoreInv, TypeInv, TypeOK
  <2> QED
    BY <2>3, <2>6 DEF StoreInv, CallSound, TombstoneSound
<1> QED
  BY <1>1, StoreInvariant, PTL DEF Spec, TombstoneKeepsCount

\* The row count a commit records is what readers can count when they get it.
THEOREM CommitCountIsServed ==
  ASSUME Exclusive PROVE Spec => ServedCountAtCommit
<1>1. StoreInv /\ [Next]_vars =>
        [\A p \in Clients :
           SetCurrent(p) => ref[tgt[p]].rowCount = CountStaged(tgt[p])]_vars
  BY DEF StoreInv, CallSound, CountSound, SetCurrent
<1> QED
  BY <1>1, StoreInvariant, PTL DEF Spec, ServedCountAtCommit

-----------------------------------------------------------------------------
(* The store implements the contract.                                      *)

\* A call puts one record; the change of its status is the contract's.
LEMMA PutImplements ==
  ASSUME StoreInv, NEW p \in Clients, Step(p), pc[p] \in Puts
  PROVE  [Contract!ContractNext]_(Contract!contractVars)
<1>0. PICK t \in Snapshots : t = tgt[p]
  BY PutEffect DEF StoreInv
<1> DEFINE st == [s \in Snapshots |-> SnapshotStatus(s)]
<1>1. t = tgt[p] /\ CallSound(p)
  BY <1>0 DEF StoreInv
<1>2. \A s \in Snapshots : s # t => (SnapshotStatus(s)' = SnapshotStatus(s))
  <2> SUFFICES ASSUME NEW s \in Snapshots, s # t
               PROVE  SnapshotStatus(s)' = SnapshotStatus(s)
    OBVIOUS
  <2>1. ref'[s] = ref[s]
    BY <1>1, RecordEffect
  <2> QED
    BY <2>1 DEF SnapshotStatus
<1>3. st' = [st EXCEPT ![t] = SnapshotStatus(t)']
  BY <1>1, <1>2
<1>4. current' = current
  BY PointerChange DEF Puts
<1>5. /\ IsCommitted(t) => IsCommitted(t)'
      /\ IsDropped(t) => IsDropped(t)'
      /\ IsCommitted(t)' => IsCommitted(t) \/ pc[p] = "cPut"
      /\ IsDropped(t)' => IsDropped(t) \/ pc[p] = "dPut"
      /\ ref'[t] # NoRef
  <2>1. ref'[t] # NoRef
    BY <1>1, PutEffect, NoRefAssumption DEF PutRef, StoreInv, TypeInv, TypeOK
  <2> QED
    BY <1>1, <2>1, RecordEffect
<1>6. CASE SnapshotStatus(t)' = SnapshotStatus(t)
  <2>1. st' = st
    BY <1>2, <1>6
  <2> QED
    BY <1>4, <2>1 DEF Contract!contractVars
<1>7. CASE SnapshotStatus(t)' # SnapshotStatus(t)
  <2>1. CASE SnapshotStatus(t)' = "open"
    <3>1. st[t] = "none"
      BY <1>1, <1>5, <1>7, <2>1 DEF SnapshotStatus, IsCommitted, IsDropped
    <3>2. Contract!Open(t)
      BY <1>1, <1>3, <1>4, <2>1, <3>1 DEF Contract!Open
    <3> QED
      BY <1>1, <3>2 DEF Contract!ContractNext
  <2>2. CASE SnapshotStatus(t)' = "committed"
    <3>1. SnapshotStatus(t) \in {"none", "open"}
      BY <1>1, <1>5, <1>7, <2>2 DEF SnapshotStatus, IsCommitted, IsDropped
    <3>2. Contract!Bless(t)
      BY <1>1, <1>3, <1>4, <2>2, <3>1 DEF Contract!Bless
    <3> QED
      BY <1>1, <3>2 DEF Contract!ContractNext
  <2>3. CASE SnapshotStatus(t)' = "dropped"
    <3>1. st[t] # "dropped"
      BY <1>1, <1>7, <2>3
    <3>2. pc[p] = "dPut" /\ current # t
      BY <1>1, <1>5, <1>7, <2>3 DEF SnapshotStatus, IsDropped, CallSound, DropSound,
         DropPhases
    <3>3. Contract!Drop(t)
      BY <1>1, <1>3, <1>4, <2>3, <3>1, <3>2 DEF Contract!Drop
    <3> QED
      BY <1>1, <3>3 DEF Contract!ContractNext
  <2>4. SnapshotStatus(t)' # "none"
    BY <1>5 DEF SnapshotStatus
  <2> QED
    BY <2>1, <2>2, <2>3, <2>4 DEF SnapshotStatus
<1> QED
  BY <1>6, <1>7

\* Every storage access is one step of the contract, or changes nothing it sees.
LEMMA AccessImplements ==
  ASSUME StoreInv, NEW p \in Clients, Start(p) \/ Step(p) \/ Crash(p)
  PROVE  [Contract!ContractNext]_(Contract!contractVars)
<1>1. CASE Step(p) /\ pc[p] \in Puts
  BY <1>1, PutImplements
<1>2. CASE SetCurrent(p)
  <2> DEFINE t == tgt[p]
             st == [s \in Snapshots |-> SnapshotStatus(s)]
  <2>1. t \in Snapshots /\ CallSound(p) /\ pc[p] = "cSwing"
    BY <1>2 DEF SetCurrent, StoreInv, TypeInv, TypeOK, AtRest, Rest
  <2>2. st[t] = "committed"
    BY <2>1 DEF CallSound, CommitSound, CommitPhases, SnapshotStatus, IsCommitted,
       IsDropped
  <2>3. st' = st /\ current' = t
    BY <1>2 DEF SetCurrent, SnapshotStatus
  <2>4. Contract!Serve(t)
    BY <2>2, <2>3 DEF Contract!Serve
  <2> QED
    BY <2>1, <2>4 DEF Contract!ContractNext
<1>3. CASE ~(Step(p) /\ pc[p] \in Puts) /\ ~SetCurrent(p)
  <2>1. ref' = ref /\ current' = current
    BY <1>3, OthersKeepRecords, PointerChange
  <2> QED
    BY <2>1 DEF Contract!contractVars, SnapshotStatus
<1> QED
  BY <1>1, <1>2, <1>3

\* Every storage access of every call is a step of the contract of
\* CatalogWriteStore, or leaves what it speaks of alone.
THEOREM Implementation == ASSUME Exclusive PROVE Spec => ImplementsContract
<1>1. Init => Contract!ContractInit
  BY DEF Init, Contract!ContractInit, SnapshotStatus
<1>2. StoreInv /\ [Next]_vars => [Contract!ContractNext]_(Contract!contractVars)
  <2> SUFFICES ASSUME StoreInv, [Next]_vars
               PROVE  [Contract!ContractNext]_(Contract!contractVars)
    OBVIOUS
  <2>1. CASE UNCHANGED vars
    BY <2>1 DEF vars, Contract!contractVars, SnapshotStatus
  <2>2. CASE Next
    BY <2>2, AccessImplements DEF Next
  <2> QED
    BY <2>1, <2>2
<1> QED
  BY <1>1, <1>2, StoreInvariant, PTL DEF Spec, ImplementsContract, Contract!ContractSpec

-----------------------------------------------------------------------------
(* Merges.                                                                 *)

Disjoint(s) == \A x \in CarriedRows(s) : x[2][1] \notin IncomingKeys(s)

\* The record says that the load has been merged, and that the merge covers it.
Merged(s) == ref[s] # NoRef /\ ref[s].carriedFrom # NoLabel /\ ~ref[s].stale

\* MergeCoversBatches says nothing of a snapshot that a call is about.  Unless the call
\* is a write, what is recorded as covered is; a carry about to record it is right; and
\* a write will have marked the merge when it ends, or has died on it.
MergeSound ==
  /\ \A s \in Snapshots \ torn :
       Merged(s) /\ (\A p \in Clients : tgt[p] = s => pc[p] \notin WritePhases) => Disjoint(s)
  /\ \A p \in Clients : pc[p] \in {"fCount", "fPut"} => Disjoint(tgt[p])

\* The carried rows are replaced by rows no batch brings.
LEMMA CarryIsDisjoint ==
  ASSUME TypeOK, NEW s \in Snapshots, NEW q, NEW rs,
         rs = {} \/ rs = Survivors(q, s), PutObject(s, Carry, rs)
  PROVE  Disjoint(s)'
<1>1. rows'[s] = {x \in rows[s] : x[1] # Carry} \cup ({Carry} \X rs)
  BY DEF TypeOK, PutObject
<1>2. \A x \in CarriedRows(s)' : x[2] \in rs
  BY <1>1 DEF CarriedRows
<1>3. IncomingKeys(s)' = IncomingKeys(s)
  <2>1. {y \in rows'[s] : y[1] # Carry} = {y \in rows[s] : y[1] # Carry}
    BY <1>1
  <2> QED
    BY <2>1 DEF IncomingKeys
<1>4. \A r \in rs : r[1] \notin IncomingKeys(s)
  BY DEF Survivors
<1> QED
  BY <1>2, <1>3, <1>4 DEF Disjoint

LEMMA FewerAreDisjoint ==
  ASSUME NEW s \in Snapshots, rows'[s] \subseteq rows[s], Disjoint(s)
  PROVE  Disjoint(s)'
<1>1. CarriedRows(s)' \subseteq CarriedRows(s)
  BY DEF CarriedRows
<1>2. IncomingKeys(s)' \subseteq IncomingKeys(s)
  BY DEF IncomingKeys
<1> QED
  BY <1>1, <1>2 DEF Disjoint

\* What a step makes of the rows of a snapshot.
LEMMA RowsEffect ==
  ASSUME StoreInv, NEW p \in Clients, Start(p) \/ Step(p) \/ Crash(p), NEW s \in Snapshots
  PROVE  \/ rows'[s] \subseteq rows[s]
         \/ pc'[p] = "wFind" /\ tgt'[p] = s
         \/ tgt[p] = s /\ Disjoint(s)'
<1>0. TypeOK
  BY DEF StoreInv, TypeInv
<1>1. CASE s # tgt[p] /\ s # tgt'[p]
  BY <1>1, RowsChange
<1>2. CASE s = tgt[p] /\ (WriteMergedCarryObject(p) \/ ClearCarryObject(p))
  <2>1. PutObject(s, Carry, {}) \/ PutObject(s, Carry, Survivors(local[p].prev, s))
    BY <1>2 DEF WriteMergedCarryObject, ClearCarryObject
  <2> QED
    BY <1>0, <1>2, <2>1, CarryIsDisjoint
<1>3. CASE \E o \in ObjectKeys : DeleteObject(p, o)
  <2>1. PICK o \in ObjectKeys : rows' = [rows EXCEPT ![tgt[p]] = {x \in @ : x[1] # o}]
    BY <1>3 DEF DeleteObject
  <2> QED
    BY <1>0, <2>1 DEF TypeOK
<1>4. CASE s = tgt'[p] /\ \E t \in Snapshots, b \in Batches : \E ks \in BatchRows[b] :
                            CopyBatch(p, t, b, ks)
  BY <1>0, <1>4 DEF CopyBatch, Begin, TypeOK
<1>5. CASE \E t \in Snapshots, b \in Batches : \E ks \in BatchRows[b] : CopyBatch(p, t, b, ks)
  <2>1. PICK t \in Snapshots : /\ tgt'[p] = t
                               /\ \E o, rs : PutObject(t, o, rs)
    BY <1>0, <1>5 DEF CopyBatch, Begin, TypeOK
  <2>2. s # t => rows'[s] = rows[s]
    BY <1>0, <2>1 DEF PutObject, TypeOK
  <2> QED
    BY <1>4, <1>5, <2>1, <2>2
<1>6. CASE s # tgt[p] /\ (WriteMergedCarryObject(p) \/ ClearCarryObject(p))
  BY <1>0, <1>6 DEF WriteMergedCarryObject, ClearCarryObject, PutObject, TypeOK
<1>7. CASE \/ Crash(p) \/ \E t \in Snapshots : FindCommitted(p, t) \/ FindDropped(p, t) \/ StartCarry(p, t)
           \/ FindWritten(p) \/ RecordWrittenBatch(p) \/ CountCommitted(p) \/ PutCommitted(p)
           \/ SetCurrent(p) \/ RefuseServed(p) \/ CountDropped(p) \/ ListDropped(p)
           \/ PutTombstone(p) \/ ResolvePrevious(p) \/ ListSides(p) \/ FindCarried(p)
           \/ RefuseCarry(p) \/ CountCarried(p) \/ PutCarried(p)
  <2>1. rows' = rows
    BY <1>7 DEF Crash, FindCommitted, FindDropped, StartCarry, FindWritten, RecordWrittenBatch,
       CountCommitted, PutCommitted, SetCurrent, RefuseServed, CountDropped, ListDropped,
       PutTombstone, ResolvePrevious, ListSides, FindCarried, RefuseCarry, CountCarried,
       PutCarried, store
  <2> QED
    BY <2>1
<1> QED
  BY <1>2, <1>3, <1>5, <1>6, <1>7 DEF Start, Step

\* A record says that a load is covered when it said so before and no batch was
\* recorded, or when a carry has just recorded it.
LEMMA MergedEffect ==
  ASSUME StoreInv, NEW p \in Clients, Start(p) \/ Step(p) \/ Crash(p), NEW s \in Snapshots,
         Merged(s)'
  PROVE  \/ Merged(s) /\ ~(Step(p) /\ s = tgt[p] /\ pc[p] = "wPut")
         \/ s = tgt[p] /\ pc[p] = "fPut"
<1>1. CASE ~(Step(p) /\ pc[p] \in Puts)
  <2>1. ref' = ref
    BY <1>1, OthersKeepRecords
  <2> QED
    BY <1>1, <2>1 DEF Merged, Puts
<1>2. CASE Step(p) /\ pc[p] \in Puts
  <2>1. PICK r \in Ref, at \in Nat : PutRef(p, r) /\ Effect(p, r, Base(p, at))
    BY <1>2, PutEffect DEF StoreInv
  <2>2. CASE s # tgt[p]
    <3>1. ref'[s] = ref[s]
      BY <2>1, <2>2 DEF PutRef, StoreInv, TypeInv, TypeOK
    <3> QED
      BY <2>2, <3>1 DEF Merged
  <2>3. CASE s = tgt[p]
    <3>1. ref'[s] = r
      BY <2>1, <2>3 DEF PutRef, StoreInv, TypeInv, TypeOK
    <3>2. saw[p] = ref[s]
      BY <1>2, <2>3 DEF StoreInv, CallSound, RecordSound, HoldsRecord, Puts
    <3>3. pc[p] # "wPut"
      BY <2>1, <3>1 DEF Effect, Merged
    <3>4. CASE pc[p] \in {"cPut", "dPut"}
      <4>1. Base(p, at).carriedFrom # NoLabel /\ ~Base(p, at).stale
        BY <2>1, <3>1, <3>4 DEF Effect, Merged
      <4>2. saw[p] # NoRef /\ Base(p, at) = saw[p]
        BY <4>1 DEF Base, Fresh
      <4> QED
        BY <3>2, <3>4, <4>1, <4>2 DEF Merged
    <3> QED
      BY <1>2, <2>3, <3>3, <3>4 DEF Puts
  <2> QED
    BY <2>2, <2>3
<1> QED
  BY <1>1, <1>2

\* A write ends with the merge marked, or dies.
LEMMA WriteEnds ==
  ASSUME StoreInv, NEW p \in Clients, Step(p), NEW s \in Snapshots, s = tgt[p],
         pc[p] \in WritePhases, ~(pc'[p] \in WritePhases /\ tgt'[p] = s)
  PROVE  ~Merged(s)'
<1>0. TypeOK
  BY DEF StoreInv, TypeInv
<1>1. CASE pc[p] = "wFind"
  <2>1. FindWritten(p)
    BY <1>1 DEF Step, FindWritten, RecordWrittenBatch, CountCommitted, PutCommitted,
       SetCurrent, RefuseServed, CountDropped, ListDropped, DeleteObject,
       PutTombstone, ResolvePrevious, ListSides, FindCarried,
       WriteMergedCarryObject, ClearCarryObject, RefuseCarry, CountCarried, PutCarried
  <2>2. ~(pc'[p] = "wPut" /\ tgt'[p] = s)
    BY DEF WritePhases
  <2>3. ~Merged(s) /\ ref' = ref
    BY <1>0, <2>1, <2>2 DEF FindWritten, Goto, Merged, store, TypeOK
  <2> QED
    BY <2>3 DEF Merged
<1>2. CASE pc[p] = "wPut"
  BY <1>0, <1>2, MergedEffect
<1> QED
  BY <1>1, <1>2 DEF WritePhases

LEMMA MergeStep ==
  ASSUME Exclusive, StoreInv, StoreInv', MergeSound, MCNext
  PROVE  MergeSound'
<1>1. PICK p \in Clients : MCStart(p) \/ MCStep(p) \/ MCCrash(p)
  BY DEF MCNext
<1>2. /\ Start(p) \/ Step(p) \/ Crash(p)
      /\ torn \subseteq torn'
      /\ Crash(p) /\ pc[p] \in WritePhases /\ ~Step(p) /\ ~Start(p) => tgt[p] \in torn'
  BY <1>1 DEF MCStart, MCStep, MCCrash
<1>3. TypeOK /\ TypeOK' /\ \A q \in Clients : AtRest(q) /\ AtRest(q)'
  BY DEF StoreInv, TypeInv
<1>4. \A q \in Clients \ {p} : pc'[q] = pc[q] /\ tgt'[q] = tgt[q]
  BY <1>2, OthersStay DEF StoreInv
<1>5. ASSUME NEW s \in Snapshots, s = tgt[p] \/ s = tgt'[p], NEW q \in Clients, q # p
      PROVE  tgt[q] # s /\ tgt'[q] # s
  BY <1>4, <1>5, SentinelAssumption DEF StoreInv, Exclusion
<1>6. ASSUME NEW q \in Clients, pc'[q] \in {"fCount", "fPut"}
      PROVE  Disjoint(tgt[q])'
  <2>1. PICK s \in Snapshots : s = tgt'[q]
    BY <1>3, <1>6 DEF AtRest, Rest, TypeOK
  <2>2. CASE q # p
    <3>1. tgt[q] = s /\ pc[q] = pc'[q] /\ s # tgt[p] /\ s # tgt'[p]
      BY <1>4, <1>5, <2>1, <2>2
    <3>2. Disjoint(s) /\ rows'[s] = rows[s]
      BY <1>2, <1>6, <3>1, RowsChange DEF MergeSound
    <3>3. Disjoint(s)'
      BY <3>2, FewerAreDisjoint
    <3> QED
      BY <2>1, <3>3
  <2>3. CASE q = p
    <3>1. \/ WriteMergedCarryObject(p) \/ ClearCarryObject(p)
          \/ CountCarried(p)
      BY <1>2, <1>3, <1>6, <2>3 DEF Start, Step, Crash, CopyBatch, FindCommitted, FindDropped,
         StartCarry, FindWritten, RecordWrittenBatch, CountCommitted, PutCommitted, SetCurrent,
         RefuseServed, CountDropped, ListDropped, DeleteObject, PutTombstone, ResolvePrevious,
         ListSides, FindCarried, RefuseCarry, PutCarried, Goto, Begin, End, Rest, TypeOK
    <3>2. tgt'[p] = tgt[p]
      BY <3>1 DEF WriteMergedCarryObject, ClearCarryObject, CountCarried, Goto
    <3>3. CASE WriteMergedCarryObject(p) \/ ClearCarryObject(p)
      <4>1. PutObject(s, Carry, {}) \/ PutObject(s, Carry, Survivors(local[p].prev, s))
        BY <2>1, <2>3, <3>2, <3>3 DEF WriteMergedCarryObject, ClearCarryObject
      <4>2. Disjoint(s)'
        BY <1>3, <4>1, CarryIsDisjoint
      <4> QED
        BY <2>1, <4>2
    <3>4. CASE CountCarried(p)
      <4>1. Disjoint(s) /\ rows'[s] \subseteq rows[s]
        BY <2>1, <2>3, <3>2, <3>4 DEF CountCarried, MergeSound, store
      <4>2. Disjoint(s)'
        BY <4>1, FewerAreDisjoint
      <4> QED
        BY <2>1, <4>2
    <3> QED
      BY <3>1, <3>3, <3>4
  <2> QED
    BY <2>2, <2>3
<1>7. ASSUME NEW s \in Snapshots, s \notin torn', Merged(s)',
             \A q \in Clients : tgt'[q] = s => pc'[q] \notin WritePhases
      PROVE  Disjoint(s)'
  <2>1. s \notin torn
    BY <1>2, <1>7
  <2>2. \/ rows'[s] \subseteq rows[s]
        \/ Disjoint(s)'
    BY <1>2, <1>7, RowsEffect DEF WritePhases
  <2>3. SUFFICES Disjoint(s)
    BY <2>2, FewerAreDisjoint
  <2>4. \/ Merged(s) /\ ~(Step(p) /\ s = tgt[p] /\ pc[p] = "wPut")
        \/ s = tgt[p] /\ pc[p] = "fPut"
    BY <1>2, <1>7, MergedEffect
  <2>5. CASE s = tgt[p] /\ pc[p] = "fPut"
    BY <2>5 DEF MergeSound
  <2>6. ASSUME Merged(s), NEW q \in Clients, tgt[q] = s
        PROVE  pc[q] \notin WritePhases
    <3>1. CASE q # p
      BY <1>4, <1>7, <2>6, <3>1
    <3>2. CASE q = p
      <4>1. SUFFICES ASSUME pc[p] \in WritePhases PROVE FALSE
        BY <3>2
      <4>2. ~Start(p)
        BY <4>1 DEF Start, CopyBatch, FindCommitted, FindDropped, StartCarry, Free, Rest,
           WritePhases
      <4>3. Step(p)
        BY <1>2, <1>7, <2>6, <3>2, <4>1, <4>2
      <4>4. ~(pc'[p] \in WritePhases /\ tgt'[p] = s)
        BY <1>7
      <4> QED
        BY <1>7, <2>6, <3>2, <4>1, <4>3, <4>4, WriteEnds
    <3> QED
      BY <3>1, <3>2
  <2> QED
    BY <2>1, <2>4, <2>5, <2>6 DEF MergeSound
<1> QED
  BY <1>6, <1>7 DEF MergeSound

\* A load that may be committed holds no key twice because of its merge, for every
\* number of loads, batches and calls about different snapshots, a call that dies and
\* one made again included: a batch that lands behind the merge marks it, and a merge
\* leaves out what the batches bring (recordWrittenBatch, writeMergedCarryObject).
THEOREM MergesCoverBatches ==
  ASSUME Exclusive PROVE MCSpec => []MergeCoversBatches
<1>1. MCInit => StoreInv /\ MergeSound
  <2>1. MCInit => StoreInv
    BY InitStoreInv DEF MCInit
  <2>2. MCInit => MergeSound
    BY DEF MCInit, Init, MergeSound, Merged
  <2> QED
    BY <2>1, <2>2
<1>2. StoreInv /\ MergeSound /\ [MCNext]_<<vars, calls, torn>> => (StoreInv /\ MergeSound)'
  <2> SUFFICES ASSUME StoreInv, MergeSound, [MCNext]_<<vars, calls, torn>>
               PROVE  StoreInv' /\ MergeSound'
    OBVIOUS
  <2>1. CASE MCNext
    <3>1. Next
      BY <2>1 DEF MCNext, MCStart, MCStep, MCCrash, Next
    <3> QED
      BY <2>1, <3>1, StoreInvKept, MergeStep
  <2>2. CASE UNCHANGED <<vars, calls, torn>>
    <3>1. StoreInv'
      BY <2>2, StoreInvKept
    <3>2. MergeSound'
      BY <2>2 DEF vars, MergeSound, Merged, Disjoint, CarriedRows, IncomingKeys
    <3> QED
      BY <3>1, <3>2
  <2> QED
    BY <2>1, <2>2
<1>3. StoreInv /\ MergeSound => MergeCoversBatches
  <2> SUFFICES ASSUME StoreInv, MergeSound, NEW s \in Snapshots \ torn, Merged(s),
                      \A p \in Clients : tgt[p] # s
               PROVE  Disjoint(s)
    BY DEF MergeCoversBatches, Merged, Disjoint
  <2> QED
    BY DEF MergeSound
<1> QED
  BY <1>1, <1>2, <1>3, PTL DEF MCSpec

\* A carry about the snapshot readers get knows that it is: nobody else commits it
\* meanwhile, and it read the pointer first.
ReplayKnown ==
  \A p \in Clients : pc[p] \in CarryPhases /\ tgt[p] = current => local[p].served = tgt[p]

LEMMA ReplayStep ==
  ASSUME Exclusive, StoreInv, StoreInv', ReplayKnown,
         NEW p \in Clients, Start(p) \/ Step(p) \/ Crash(p)
  PROVE  ReplayKnown'
<1>0. TypeOK /\ TypeOK' /\ \A q \in Clients : AtRest(q) /\ AtRest(q)'
  BY DEF StoreInv, TypeInv
<1> SUFFICES ASSUME NEW q \in Clients, pc'[q] \in CarryPhases, tgt'[q] = current'
             PROVE  local'[q].served = current'
  BY DEF ReplayKnown
<1>1. tgt'[q] \in Snapshots
  BY <1>0 DEF AtRest, CarryPhases, Rest, TypeOK
<1>2. CASE q # p
  <2>1. pc'[q] = pc[q] /\ tgt'[q] = tgt[q] /\ local'[q] = local[q]
    BY <1>2, OthersStay DEF StoreInv
  <2>2. tgt[q] # tgt[p]
    BY <1>1, <1>2, <2>1, SentinelAssumption DEF StoreInv, Exclusion
  <2>3. current' = current
    BY <2>1, <2>2, PointerChange DEF SetCurrent
  <2> QED
    BY <2>1, <2>3 DEF ReplayKnown
<1>3. CASE q = p
  <2>1. \/ \E s \in Snapshots : StartCarry(p, s)
        \/ ResolvePrevious(p) \/ ListSides(p) \/ FindCarried(p)
        \/ WriteMergedCarryObject(p) \/ ClearCarryObject(p) \/ CountCarried(p)
    <3>1. CASE Start(p)
      <4>0. pc \in [Clients -> Phases] /\ pc'[p] \in CarryPhases
        BY <1>0, <1>3 DEF TypeOK
      <4>1. PICK s \in Snapshots :
               \/ \E b \in Batches : \E ks \in BatchRows[b] : CopyBatch(p, s, b, ks)
               \/ FindCommitted(p, s) \/ FindDropped(p, s) \/ StartCarry(p, s)
        BY <3>1 DEF Start
      <4>2. ~ \E b \in Batches : \E ks \in BatchRows[b] : CopyBatch(p, s, b, ks)
        BY <4>0 DEF CopyBatch, Begin, CarryPhases
      <4>3. ~FindCommitted(p, s) /\ ~FindDropped(p, s)
        BY <4>0 DEF FindCommitted, FindDropped, Begin, End, CarryPhases
      <4> QED
        BY <4>1, <4>2, <4>3
    <3>2. CASE Crash(p)
      BY <1>0, <1>3, <3>2 DEF Crash, CarryPhases, TypeOK, End, Goto
    <3>3. CASE Step(p)
      BY <1>0, <1>3, <3>3 DEF Step, CopyBatch, FindCommitted, FindDropped, FindWritten,
         RecordWrittenBatch, CountCommitted, PutCommitted, SetCurrent, RefuseServed,
         CountDropped, ListDropped, DeleteObject, PutTombstone, RefuseCarry, PutCarried,
         Goto, End, CarryPhases, TypeOK
    <3> QED
      BY <3>1, <3>2, <3>3
  <2>2. current' = current
    BY <2>1 DEF StartCarry, ResolvePrevious, ListSides, FindCarried, WriteMergedCarryObject,
       ClearCarryObject, CountCarried, store
  <2>3. local[p] \in Local
    BY <1>0 DEF TypeOK
  <2>4. CASE \E s \in Snapshots : StartCarry(p, s)
    BY <1>0, <1>3, <2>2, <2>3, <2>4 DEF StartCarry, TypeOK, Local
  <2>5. CASE ~ \E s \in Snapshots : StartCarry(p, s)
    <3>1. tgt[p] = current /\ pc[p] \in CarryPhases /\ current \in Snapshots
      BY <1>1, <1>3, <2>1, <2>2, <2>5 DEF ResolvePrevious, ListSides, FindCarried,
         WriteMergedCarryObject, ClearCarryObject, CountCarried, Goto, CarryPhases
    <3>2. local[p].served = current
      BY <3>1 DEF ReplayKnown
    <3>3. CASE ResolvePrevious(p)
      <4>1. current # None /\ ref[current] # NoRef
        BY <3>1, SentinelAssumption DEF StoreInv, ServedIsCommitted
      <4>2. \E source : local' = [local EXCEPT ![p] =
                          [local[p] EXCEPT !.served = current, !.prev = source]]
        BY <3>2, <3>3, <4>1 DEF ResolvePrevious
      <4> QED
        BY <1>0, <1>3, <2>2, <2>3, <4>2 DEF TypeOK, Local
    <3>4. CASE ~ResolvePrevious(p)
      <4>1. local'[p].served = local[p].served
        <5>1. local \in [Clients -> Local]
          BY <1>0 DEF TypeOK
        <5>2. ASSUME NEW a, NEW b PROVE
                [local EXCEPT ![p] = [@ EXCEPT !.loaders = a, !.prevs = b]][p].served
                  = local[p].served
          BY <2>3, <5>1 DEF Local
        <5>3. CASE ListSides(p)
          BY <5>2, <5>3 DEF ListSides
        <5>4. CASE CountCarried(p)
          BY <2>3, <5>1, <5>4 DEF CountCarried, Local
        <5>5. CASE FindCarried(p) \/ WriteMergedCarryObject(p) \/ ClearCarryObject(p)
          BY <5>5 DEF FindCarried, WriteMergedCarryObject, ClearCarryObject
        <5> QED
          BY <2>1, <2>5, <3>4, <5>3, <5>4, <5>5
      <4> QED
        BY <1>3, <2>2, <3>2, <4>1
    <3> QED
      BY <3>3, <3>4
  <2> QED
    BY <2>4, <2>5
<1> QED
  BY <1>2, <1>3

\* A carry repeated on the snapshot readers get brings in rows of the load its record
\* names, and of no other (carryForward, 1632).
THEOREM ServedCarryKeepsItsOrigin ==
  ASSUME Exclusive PROVE Spec => ServedCarryKeepsOrigin
<1> DEFINE Kept == \A p \in Clients :
       (WriteMergedCarryObject(p) \/ ClearCarryObject(p)) /\ tgt[p] = current =>
         \A x \in CarriedRows(current)' \ CarriedRows(current) :
           /\ ref[current].carriedFrom \in Snapshots
           /\ \E y \in rows[ref[current].carriedFrom] : y[2] = x[2]
<1>1. Init => StoreInv /\ ReplayKnown
  BY InitStoreInv DEF Init, ReplayKnown, CarryPhases
<1>2. StoreInv /\ ReplayKnown /\ [Next]_vars => StoreInv' /\ ReplayKnown'
  <2> SUFFICES ASSUME StoreInv, ReplayKnown, [Next]_vars PROVE StoreInv' /\ ReplayKnown'
    OBVIOUS
  <2>1. StoreInv'
    BY StoreInvKept
  <2>2. CASE Next
    BY <2>1, <2>2, ReplayStep DEF Next
  <2>3. CASE UNCHANGED vars
    BY <2>1, <2>3 DEF vars, ReplayKnown
  <2> QED
    BY <2>1, <2>2, <2>3
<1>3. StoreInv /\ ReplayKnown /\ [Next]_vars => [Kept]_vars
  <2> SUFFICES ASSUME StoreInv, ReplayKnown, NEW p \in Clients,
                      WriteMergedCarryObject(p) \/ ClearCarryObject(p), tgt[p] = current,
                      NEW x \in CarriedRows(current)'
               PROVE  /\ ref[current].carriedFrom \in Snapshots
                      /\ \E y \in rows[ref[current].carriedFrom] : y[2] = x[2]
    OBVIOUS
  <2>0. TypeOK /\ AtRest(p) /\ local[p] \in Local
    BY DEF StoreInv, TypeInv, TypeOK
  <2>1. /\ pc[p] = "fMerge" /\ current' = current /\ current \in Snapshots
    BY <2>0 DEF WriteMergedCarryObject, ClearCarryObject, AtRest, Rest, TypeOK
  <2>2. ServedReplay(p) /\ saw[p] = ref[current]
    BY <2>1 DEF ReplayKnown, CarryPhases, ServedReplay, StoreInv, CallSound, RecordSound, HoldsRecord
  <2>3. x \in rows'[current] /\ x[1] = Carry
    BY <2>1 DEF CarriedRows
  <2>4. WriteMergedCarryObject(p)
    <3>1. ~ClearCarryObject(p)
      BY <2>0, <2>1, <2>3 DEF ClearCarryObject, PutObject, TypeOK
    <3> QED
      BY <3>1
  <2>5. local[p].prev \in Snapshots /\ RecordedOrigin(p) = local[p].prev
    BY <2>0, <2>2, <2>4 DEF WriteMergedCarryObject, HasSource, MayMerge, Local
  <2>6. ref[current].carriedFrom = local[p].prev
    BY <2>2, <2>5, SentinelAssumption DEF RecordedOrigin
  <2>7. x[2] \in Survivors(local[p].prev, current)
    BY <2>0, <2>1, <2>3, <2>4 DEF WriteMergedCarryObject, PutObject, TypeOK
  <2> QED
    BY <2>5, <2>6, <2>7 DEF Survivors
<1> HIDE DEF Kept
<1>4. Spec => [][Kept]_vars
  BY <1>1, <1>2, <1>3, PTL DEF Spec
<1> QED
  BY <1>4 DEF ServedCarryKeepsOrigin, Kept

=============================================================================

------------------------ MODULE MikroOrmStoreProofs ------------------------
(***************************************************************************)
(* What MikroOrmStore guarantees for every number of snapshots, batches,   *)
(* keys and clients, whatever calls overlap and wherever they stop.        *)
(***************************************************************************)
EXTENDS MCMikroOrmStore, FiniteSetTheorems, TLAPS

-----------------------------------------------------------------------------
(* Type correctness.                                                       *)

\* Rows of one snapshot are finitely many, so their count is a number.
LEMMA RowCountIsNat ==
  ASSUME TypeOK, NEW s \in Snapshots
  PROVE  Cardinality(rows[s]) \in Nat
<1>1. IsFiniteSet(Batches \cup {Carry})
  BY FS_Singleton, FS_Union, MikroFiniteness
<1>2. IsFiniteSet(Row)
  BY FS_Product, MikroFiniteness DEF Row
<1>3. IsFiniteSet((Batches \cup {Carry}) \X Row)
  BY <1>1, <1>2, FS_Product
<1>4. rows[s] \in SUBSET ((Batches \cup {Carry}) \X Row)
  BY DEF TypeOK
<1>5. IsFiniteSet(rows[s])
  BY <1>3, <1>4, FS_Subset
<1> QED
  BY <1>5, FS_CardinalityType

\* A record that is created now is a record.
LEMMA FreshType == Fresh \in Rec
<1>1. IsFiniteSet({s \in Snapshots : Recorded(s)})
  BY FS_Subset, MikroFiniteness
<1>2. Now \in Nat
  BY <1>1, FS_CardinalityType DEF Now
<1> QED
  BY <1>2 DEF Fresh, Rec

\* What a flush starts from is a record.
LEMMA OwnType ==
  ASSUME TypeOK, NEW c \in Clients
  PROVE  (IF saw[c] = NoRec THEN Fresh ELSE saw[c]) \in Rec
BY FreshType DEF TypeOK

\* A flush leaves records records: it makes the one it did not find, or changes
\* the count and the labels of the one it found.
LEMMA FlushEffect ==
  ASSUME TypeOK, NEW c \in Clients, tgt[c] \in Snapshots, NEW new \in Rec,
         saw[c] # NoRec => Recorded(tgt[c]),
         Flush(c, new)
  PROVE  /\ rec' \in [Snapshots -> Rec \cup {NoRec}]
         /\ \A s \in Snapshots : s # tgt[c] => rec'[s] = rec[s]
         /\ rec'[tgt[c]] \in Rec
         /\ saw[c] = NoRec => rec[tgt[c]] = NoRec /\ rec'[tgt[c]] = new
         /\ saw[c] # NoRec =>
              /\ rec[tgt[c]] # NoRec
              /\ ~Locked(tgt[c])
              /\ rec'[tgt[c]].committed = rec[tgt[c]].committed
              /\ rec'[tgt[c]].dropped = rec[tgt[c]].dropped
<1>1. CASE saw[c] = NoRec
  BY <1>1 DEF Flush, TypeOK, Recorded
<1>2. CASE saw[c] # NoRec
  <2>1. rec[tgt[c]] \in Rec /\ saw[c] \in Rec
    BY <1>2 DEF TypeOK, Recorded
  <2>2. rec' = [rec EXCEPT ![tgt[c]] = Flushed(rec[tgt[c]], saw[c], new)] /\ ~Locked(tgt[c])
    BY <1>2 DEF Flush
  <2>3. /\ Flushed(rec[tgt[c]], saw[c], new) \in Rec
        /\ Flushed(rec[tgt[c]], saw[c], new).committed = rec[tgt[c]].committed
        /\ Flushed(rec[tgt[c]], saw[c], new).dropped = rec[tgt[c]].dropped
    BY <2>1 DEF Flushed, SameLabels, Rec
  <2> QED
    BY <1>2, <2>1, <2>2, <2>3, NoRecAssumption DEF TypeOK, Recorded
<1> QED
  BY <1>1, <1>2

\* A call that ends leaves the state of calls well typed.
LEMMA EndsType ==
  ASSUME TypeOK, NEW c \in Clients, Ends(c)
  PROVE  /\ pc' \in [Clients -> Phases]
         /\ tgt' \in [Clients -> Snapshots \cup {None}]
         /\ \A d \in Clients : pc'[d] # "rest" => tgt'[d] \in Snapshots
         /\ saw' \in [Clients -> Rec \cup {NoRec}]
         /\ local' \in [Clients -> Local]
<1>1. Blank \in Local
  BY DEF Blank, Local
<1> QED
  BY <1>1 DEF Ends, TypeOK, Phases

\* A record a call has read does not go away.
SawStays == \A c \in Clients : saw[c] # NoRec => pc[c] # "rest" /\ Recorded(tgt[c])

\* A carry that inserts has a merge source.
SourceFound == \A c \in Clients : pc[c] = "fInsert" => local[c].prev # None

TypeInv == TypeOK /\ SawStays /\ SourceFound

\* A client at work is about a snapshot it can count.
LEMMA AtWork ==
  ASSUME TypeOK, NEW c \in Clients, pc[c] # "rest"
  PROVE  tgt[c] \in Snapshots /\ Cardinality(rows[tgt[c]]) \in Nat
BY RowCountIsNat DEF TypeOK

\* A statement that leaves records alone and moves the call on, or ends it, keeps
\* the types.
LEMMA QuietType ==
  ASSUME TypeInv, NEW c \in Clients,
         rows' \in [Snapshots -> SUBSET ((Batches \cup {Carry}) \X Row)],
         rec' \in [Snapshots -> Rec \cup {NoRec}],
         \A s \in Snapshots : rec[s] # NoRec => rec'[s] # NoRec,
         current' \in Snapshots \cup {None},
         \/ Ends(c)
         \/ /\ \E p \in Phases \ {"rest"} :
                 Goes(c, p) /\ (p = "fInsert" => local'[c].prev # None)
            /\ \/ pc[c] # "rest" /\ tgt' = tgt
               \/ pc[c] = "rest" /\ \E s \in Snapshots : tgt' = [tgt EXCEPT ![c] = s]
            /\ \/ saw' = saw
               \/ pc[c] # "rest" /\ saw' = [saw EXCEPT ![c] = rec[tgt[c]]]
            /\ \E l \in Local : local' = [local EXCEPT ![c] = l]
  PROVE  TypeInv'
<1>1. CASE Ends(c)
  <2>1. TypeOK'
    BY <1>1, EndsType DEF TypeInv, TypeOK
  <2>2. SawStays'
    BY <1>1 DEF Ends, SawStays, TypeInv, TypeOK, Recorded
  <2>3. SourceFound'
    BY <1>1 DEF Ends, SourceFound, TypeInv, TypeOK
  <2> QED
    BY <2>1, <2>2, <2>3 DEF TypeInv
<1>2. CASE ~Ends(c)
  <2>0. PICK p \in Phases \ {"rest"} :
          pc' = [pc EXCEPT ![c] = p] /\ (p = "fInsert" => local'[c].prev # None)
    BY <1>2 DEF Goes
  <2>1. /\ tgt' \in [Clients -> Snapshots \cup {None}]
        /\ tgt'[c] \in Snapshots
        /\ \A d \in Clients \ {c} : tgt'[d] = tgt[d]
    BY <1>2 DEF TypeInv, TypeOK
  <2>2. /\ saw' \in [Clients -> Rec \cup {NoRec}]
        /\ \A d \in Clients \ {c} : saw'[d] = saw[d]
    BY <1>2, <2>1 DEF TypeInv, TypeOK
  <2>3. local' \in [Clients -> Local]
    BY <1>2 DEF TypeInv, TypeOK
  <2>4. TypeOK'
    BY <2>0, <2>1, <2>2, <2>3 DEF TypeInv, TypeOK
  <2>5. saw'[c] # NoRec => rec'[tgt'[c]] # NoRec
    <3>1. CASE pc[c] = "rest"
      BY <1>2, <3>1 DEF TypeInv, SawStays
    <3>2. CASE pc[c] # "rest"
      <4>1. tgt'[c] = tgt[c] /\ tgt[c] \in Snapshots
        BY <1>2, <3>2 DEF TypeInv, TypeOK
      <4> QED
        BY <1>2, <3>2, <4>1 DEF TypeInv, TypeOK, SawStays, Recorded
    <3> QED
      BY <3>1, <3>2
  <2>6. ASSUME NEW d \in Clients \ {c}, saw'[d] # NoRec
        PROVE  pc'[d] # "rest" /\ rec'[tgt'[d]] # NoRec
    BY <2>0, <2>1, <2>2, <2>6 DEF TypeInv, TypeOK, SawStays, Recorded
  <2>7. pc'[c] # "rest"
    BY <2>0 DEF TypeInv, TypeOK
  <2>8. SawStays'
    BY <2>5, <2>6, <2>7 DEF SawStays, Recorded
  <2>9. SourceFound'
    <3>1. \A d \in Clients \ {c} : local'[d] = local[d] /\ pc'[d] = pc[d]
      BY <1>2, <2>0 DEF TypeInv, TypeOK
    <3>2. pc'[c] = "fInsert" => local'[c].prev # None
      BY <2>0 DEF TypeInv, TypeOK
    <3> QED
      BY <3>1, <3>2 DEF TypeInv, SourceFound
  <2> QED
    BY <2>4, <2>8, <2>9 DEF TypeInv
<1> QED
  BY <1>1, <1>2

\* What is read into a call's own state fits it.
LEMMA LocalType ==
  ASSUME TypeOK, NEW c \in Clients
  PROVE  /\ local[c] \in Local
         /\ \A n \in Nat : [local[c] EXCEPT !.count = n] \in Local
         /\ \A t \in Snapshots \cup {None} : [local[c] EXCEPT !.prev = t] \in Local
         /\ \A t \in Snapshots \cup {None} : [local[c] EXCEPT !.pointer = t] \in Local
         /\ \A b \in Batches, ks \in SUBSET Keys :
              [local[c] EXCEPT !.batch = b, !.keys = ks] \in Local
         /\ \A s \in Snapshots, n \in Nat :
              [local[c] EXCEPT !.count = n, !.doomed = rows[s]] \in Local
<1>1. local[c] \in Local
  BY DEF TypeOK
<1>2. \A s \in Snapshots : rows[s] \in SUBSET ((Batches \cup {Carry}) \X Row)
  BY DEF TypeOK
<1> QED
  BY <1>1, <1>2 DEF Local

\* One statement of one call keeps the types.
LEMMA CallType ==
  ASSUME TypeInv, NEW c \in Clients, Begin(c) \/ Step(c) \/ Fails(c)
  PROVE  TypeInv'
<1> DEFINE RowsType == rows' \in [Snapshots -> SUBSET ((Batches \cup {Carry}) \X Row)]
           RecType == /\ rec' \in [Snapshots -> Rec \cup {NoRec}]
                      /\ \A s \in Snapshots : rec[s] # NoRec => rec'[s] # NoRec
<1>1. TypeOK /\ local[c] \in Local /\ (pc[c] # "rest" => tgt[c] \in Snapshots)
  BY DEF TypeInv, TypeOK
<1>2. UNCHANGED rows => RowsType
  BY <1>1 DEF TypeOK
<1>3. UNCHANGED rec => RecType
  BY <1>1 DEF TypeOK
<1>4. current \in Snapshots \cup {None}
  BY <1>1 DEF TypeOK
<1> HIDE DEF RowsType, RecType
<1>5. CASE Begin(c)
  <2>1. \E l \in Local : local' = [local EXCEPT ![c] = l]
    BY <1>1, <1>5, LocalType DEF Begin, TypeOK
  <2> QED
    BY <1>2, <1>3, <1>4, <1>5, <2>1, QuietType DEF Begin, db, Phases, RowsType, RecType
<1>6. CASE Fails(c)
  BY <1>2, <1>3, <1>4, <1>6, QuietType DEF Fails, db, RowsType, RecType
<1>7. CASE DeleteBatch(c) \/ DeleteCarried(c)
  <2>1. RowsType
    BY <1>1, <1>7 DEF DeleteBatch, DeleteCarried, TypeOK, RowsType
  <2>2. \E l \in Local : local' = [local EXCEPT ![c] = l]
    BY <1>1, <1>7, LocalType DEF DeleteBatch, DeleteCarried, TypeOK
  <2>9. \E p \in Phases \ {"rest"} :
          Goes(c, p) /\ (p = "fInsert" => local'[c].prev # None)
    BY <1>1, <1>7 DEF DeleteBatch, DeleteCarried, Goes, Phases, TypeOK
  <2> QED
    BY <1>1, <1>3, <1>4, <1>7, <2>1, <2>2, <2>9, QuietType
    DEF DeleteBatch, DeleteCarried, Phases, RowsType, RecType
<1>8. CASE InsertBatch(c)
  <2>1. {local[c].batch} \X (local[c].keys \X {tgt[c]}) \subseteq (Batches \cup {Carry}) \X Row
    BY <1>1, <1>8 DEF InsertBatch, Local, Row
  <2>2. RowsType
    BY <1>1, <1>8, <2>1 DEF InsertBatch, TypeOK, RowsType
  <2>3. \E l \in Local : local' = [local EXCEPT ![c] = l]
    BY <1>1, <1>8, LocalType DEF InsertBatch, TypeOK
  <2>9. \E p \in Phases \ {"rest"} :
          Goes(c, p) /\ (p = "fInsert" => local'[c].prev # None)
    BY <1>1, <1>8 DEF InsertBatch, Phases
  <2> QED
    BY <1>3, <1>4, <1>8, <2>2, <2>3, <2>9, QuietType DEF InsertBatch, Phases, RowsType, RecType
<1>9. CASE InsertCarried(c)
  <2>1. \A t \in Snapshots : {Carry} \X Survivors(t, tgt[c]) \subseteq (Batches \cup {Carry}) \X Row
    BY <1>1 DEF TypeOK, Survivors
  <2>2. local[c].prev \in Snapshots => RowsType
    BY <1>1, <1>9, <2>1 DEF InsertCarried, TypeOK, RowsType
  <2>3. local[c].prev \in Snapshots
    BY <1>1, <1>9 DEF InsertCarried, TypeInv, SourceFound, Local
  <2>4. \E l \in Local : local' = [local EXCEPT ![c] = l]
    BY <1>1, <1>9, LocalType DEF InsertCarried, TypeOK
  <2>9. \E p \in Phases \ {"rest"} :
          Goes(c, p) /\ (p = "fInsert" => local'[c].prev # None)
    BY <1>1, <1>9 DEF InsertCarried, Phases
  <2> QED
    BY <1>3, <1>4, <1>9, <2>2, <2>3, <2>4, <2>9, QuietType DEF InsertCarried, Phases, RowsType, RecType
<1>10. CASE FindWritten(c) \/ FindOwn(c) \/ FindCommitted(c)
  <2>1. rec[tgt[c]] # NoRec => rec[tgt[c]].rowCount \in Nat
    BY <1>1, <1>10 DEF FindWritten, FindOwn, FindCommitted, TypeOK, Rec
  <2>2. \E l \in Local : local' = [local EXCEPT ![c] = l]
    BY <1>1, <1>4, <1>10, <2>1, LocalType
    DEF FindWritten, FindOwn, FindCommitted, TypeOK, Recorded
  <2>3. \E p \in {"wCount", "wFlush", "fPrevious", "cCount"} : Goes(c, p)
    BY <1>10 DEF FindWritten, FindOwn, FindCommitted
  <2> QED
    BY <1>2, <1>3, <1>4, <1>10, <2>2, <2>3, QuietType
    DEF FindWritten, FindOwn, FindCommitted, db, Phases, RowsType, RecType
<1>11. CASE CountWritten(c) \/ CountCarried(c) \/ CountCommitted(c)
  <2>1. Cardinality(rows[tgt[c]]) \in Nat
    BY <1>1, <1>11, AtWork DEF CountWritten, CountCarried, CountCommitted
  <2>2. \E l \in Local : local' = [local EXCEPT ![c] = l]
    BY <1>1, <1>11, <2>1, LocalType DEF CountWritten, CountCarried, CountCommitted
  <2>3. \E p \in {"wFlush", "fFlush", "cPublish"} : Goes(c, p)
    BY <1>11 DEF CountWritten, CountCarried, CountCommitted
  <2> QED
    BY <1>2, <1>3, <1>4, <1>11, <2>2, <2>3, QuietType
    DEF CountWritten, CountCarried, CountCommitted, db, Phases, RowsType, RecType
<1>12. CASE FindPrevious(c)
  <2>1. \A t \in Newest(Candidates(c)) : t \in Snapshots \cup {None}
    BY DEF Newest, Candidates
  <2>2. \E l \in Local : local' = [local EXCEPT ![c] = l]
    BY <1>1, <1>12, <2>1, LocalType DEF FindPrevious
  <2>9. \E p \in Phases \ {"rest"} :
          Goes(c, p) /\ (p = "fInsert" => local'[c].prev # None)
    BY <1>1, <1>12 DEF FindPrevious, Phases
  <2> QED
    BY <1>2, <1>3, <1>4, <1>12, <2>2, <2>9, QuietType
    DEF FindPrevious, db, Phases, RowsType, RecType
<1>13. CASE LockDropped(c)
  <2>1. Cardinality(rows[tgt[c]]) \in Nat
    BY <1>1, <1>13, AtWork DEF LockDropped
  <2>2. \E l \in Local : local' = [local EXCEPT ![c] = l]
    BY <1>1, <1>13, <2>1, LocalType DEF LockDropped
  <2>9. \E p \in Phases \ {"rest"} :
          Goes(c, p) /\ (p = "fInsert" => local'[c].prev # None)
    BY <1>1, <1>13 DEF LockDropped, Phases
  <2> QED
    BY <1>2, <1>3, <1>4, <1>13, <2>2, <2>9, QuietType
    DEF LockDropped, db, Phases, RowsType, RecType
<1>14. CASE FlushWritten(c) \/ FlushCarried(c)
  <2>1. PICK new \in Rec : Flush(c, new)
    <3> DEFINE own == IF saw[c] = NoRec THEN Fresh ELSE saw[c]
    <3>1. own \in Rec
      BY <1>1, OwnType
    <3>2. \A n \in Nat, b \in BOOLEAN : [own EXCEPT !.rowCount = n, !.stale = b] \in Rec
      BY <3>1 DEF Rec
    <3>3. \A n \in Nat, t \in Snapshots \cup {None} :
            [own EXCEPT !.rowCount = n, !.carriedFrom = t, !.stale = FALSE] \in Rec
      BY <3>1 DEF Rec
    <3>4. (own.stale \/ own.carriedFrom # NoLabel) \in BOOLEAN
      OBVIOUS
    <3>5. local[c].count \in Nat /\ local[c].prev \in Snapshots \cup {None}
      BY <1>1 DEF Local
    <3>6. CASE FlushWritten(c)
      BY <3>1, <3>2, <3>4, <3>5, <3>6 DEF FlushWritten
    <3>7. CASE FlushCarried(c)
      BY <3>3, <3>5, <3>7 DEF FlushCarried
    <3> QED
      BY <1>14, <3>6, <3>7
  <2>2. Ends(c) /\ UNCHANGED <<rows, current>> /\ pc[c] # "rest"
    BY <1>14 DEF FlushWritten, FlushCarried
  <2>3. RecType
    BY <1>1, <2>1, <2>2, FlushEffect, NoRecAssumption
    DEF TypeInv, SawStays, RecType
  <2> QED
    BY <1>2, <1>4, <2>2, <2>3, QuietType DEF RowsType, RecType
<1>15. CASE Publish(c)
  <2>1. tgt[c] \in Snapshots /\ rec[tgt[c]] \in Rec /\ local[c].count \in Nat
    BY <1>1, <1>15 DEF Publish, Alive, Recorded, TypeOK, Local
  <2>2. [rec[tgt[c]] EXCEPT !.rowCount = local[c].count, !.committed = TRUE] \in Rec
    BY <2>1 DEF Rec
  <2>3. RecType
    BY <1>1, <1>15, <2>1, <2>2, NoRecAssumption DEF Publish, TypeOK, RecType
  <2>4. current' \in Snapshots \cup {None}
    BY <1>4, <1>15, <2>1 DEF Publish
  <2> QED
    BY <1>2, <1>15, <2>3, <2>4, QuietType DEF Publish, RowsType, RecType
<1>16. CASE CommitDropped(c)
  <2>1. RowsType
    BY <1>1, <1>16 DEF CommitDropped, TypeOK, RowsType
  <2>2. RecType
    <3>1. CASE saw[c] = NoRec
      BY <1>3, <1>16, <3>1 DEF CommitDropped
    <3>2. CASE saw[c] # NoRec
      <4>1. rec[tgt[c]] \in Rec /\ local[c].count \in Nat
        BY <1>1, <1>16, <3>2 DEF CommitDropped, TypeInv, SawStays, Recorded, TypeOK, Local
      <4>2. [rec[tgt[c]] EXCEPT !.rowCount = local[c].count, !.dropped = TRUE] \in Rec
        BY <4>1 DEF Rec
      <4> QED
        BY <1>1, <1>16, <3>2, <4>2, NoRecAssumption DEF CommitDropped, TypeOK, RecType
    <3> QED
      BY <3>1, <3>2
  <2> QED
    BY <1>4, <1>16, <2>1, <2>2, QuietType DEF CommitDropped, RowsType, RecType
<1> QED
  BY <1>5, <1>6, <1>7, <1>8, <1>9, <1>10, <1>11, <1>12, <1>13, <1>14, <1>15, <1>16 DEF Step

\* The empty warehouse is well typed.
LEMMA InitType == Init => TypeInv
<1>1. Blank \in Local
  BY DEF Blank, Local
<1> QED
  BY <1>1 DEF Init, TypeInv, TypeOK, SawStays, SourceFound, Phases

\* Every row, record, pointer and call has its type, whatever calls overlap.
THEOREM TypeCorrect == Spec => []TypeOK
<1>1. TypeInv /\ [Next]_vars => TypeInv'
  <2> SUFFICES ASSUME TypeInv, [Next]_vars PROVE TypeInv'
    OBVIOUS
  <2>1. CASE UNCHANGED vars
    BY <2>1 DEF TypeInv, TypeOK, SawStays, SourceFound, Recorded, vars
  <2>2. CASE Next
    BY <2>2, CallType DEF Next
  <2> QED
    BY <2>1, <2>2
<1>2. TypeInv => TypeOK
  BY DEF TypeInv
<1> QED
  BY <1>1, <1>2, InitType, PTL DEF Spec

-----------------------------------------------------------------------------
(* Readers.                                                                *)

\* A drop in its transaction holds the record it read, of a snapshot that is not
\* served, and is alone.
DropSound ==
  /\ \A c \in Clients : Dropping(c) =>
       /\ current # tgt[c]
       /\ saw[c] # NoRec => ~rec[tgt[c]].dropped
  /\ \A c, d \in Clients : Dropping(c) /\ Dropping(d) => c = d

\* ServedIsLive alone is not inductive: a drop asks about the pointer a statement
\* before it removes the record.
StoreInv == TypeInv /\ ServedIsLive /\ DropSound

\* A call only writes its own state, and only the locking statement begins a drop.
LEMMA OthersStay ==
  ASSUME TypeInv, NEW c \in Clients, Begin(c) \/ Step(c) \/ Fails(c)
  PROVE  /\ \A d \in Clients \ {c} : pc'[d] = pc[d] /\ tgt'[d] = tgt[d] /\ saw'[d] = saw[d]
         /\ pc'[c] = "dCommit" => LockDropped(c)
<1>1. TypeOK
  BY DEF TypeInv
<1> QED
  BY <1>1 DEF TypeOK, Begin, Step, Fails, Ends, Goes, DeleteBatch, InsertBatch, FindWritten,
     CountWritten, FlushWritten, FindOwn, FindPrevious, DeleteCarried, InsertCarried,
     CountCarried, FlushCarried, FindCommitted, CountCommitted, Publish, LockDropped,
     CommitDropped

\* The record of the snapshot the flush is about is made open, or keeps its state.
Flushes(c) ==
  /\ current' = current
  /\ tgt[c] \in Snapshots
  /\ \A s \in Snapshots : s # tgt[c] => rec'[s] = rec[s]
  /\ rec'[tgt[c]] # NoRec
  /\ \/ rec[tgt[c]] = NoRec /\ ~rec'[tgt[c]].committed /\ ~rec'[tgt[c]].dropped
     \/ /\ rec[tgt[c]] # NoRec
        /\ rec'[tgt[c]].committed = rec[tgt[c]].committed
        /\ rec'[tgt[c]].dropped = rec[tgt[c]].dropped

\* What a statement does to the records and the pointer.
LEMMA StoreEffect ==
  ASSUME TypeInv, NEW c \in Clients, Begin(c) \/ Step(c) \/ Fails(c)
  PROVE  \/ rec' = rec /\ current' = current
         \/ Flushes(c)
         \/ Publish(c)
         \/ CommitDropped(c)
<1>1. CASE FlushWritten(c) \/ FlushCarried(c)
  <2> DEFINE own == IF saw[c] = NoRec THEN Fresh ELSE saw[c]
  <2>1. TypeOK /\ own \in Rec /\ tgt[c] \in Snapshots /\ local[c] \in Local
    BY <1>1, OwnType DEF TypeInv, TypeOK, FlushWritten, FlushCarried
  <2>2. PICK new \in Rec : /\ Flush(c, new)
                           /\ new.committed = own.committed /\ new.dropped = own.dropped
    <3>1. CASE FlushWritten(c)
      <4>1. [own EXCEPT !.rowCount = local[c].count, !.stale = @ \/ own.carriedFrom # NoLabel]
              \in Rec
        BY <2>1 DEF Rec, Local
      <4> QED
        BY <2>1, <3>1, <4>1 DEF FlushWritten, Rec
    <3>2. CASE FlushCarried(c)
      <4>1. [own EXCEPT !.rowCount = local[c].count, !.carriedFrom = local[c].prev,
                        !.stale = FALSE] \in Rec
        BY <2>1 DEF Rec, Local
      <4> QED
        BY <2>1, <3>2, <4>1 DEF FlushCarried, Rec
    <3> QED
      BY <1>1, <3>1, <3>2
  <2>3. saw[c] # NoRec => Recorded(tgt[c])
    BY DEF TypeInv, SawStays
  <2>4. saw[c] = NoRec => ~own.committed /\ ~own.dropped
    BY DEF Fresh
  <2>5. current' = current
    BY <1>1 DEF FlushWritten, FlushCarried
  <2> QED
    BY <2>1, <2>2, <2>3, <2>4, <2>5, FlushEffect, NoRecAssumption DEF Flushes
<1>2. CASE ~(FlushWritten(c) \/ FlushCarried(c)) /\ ~Publish(c) /\ ~CommitDropped(c)
  BY <1>2 DEF Begin, Step, Fails, DeleteBatch, InsertBatch, FindWritten, CountWritten,
     FindOwn, FindPrevious, DeleteCarried, InsertCarried, CountCarried,
     FindCommitted, CountCommitted, LockDropped, db
<1> QED
  BY <1>1, <1>2

\* Every call keeps what readers are served live.
LEMMA CallKeeps ==
  ASSUME StoreInv, NEW c \in Clients, Begin(c) \/ Step(c) \/ Fails(c)
  PROVE  StoreInv'
<1>0. TypeInv /\ TypeInv' /\ TypeOK
  BY CallType DEF StoreInv, TypeInv
<1>1. /\ \A d \in Clients \ {c} : pc'[d] = pc[d] /\ tgt'[d] = tgt[d] /\ saw'[d] = saw[d]
      /\ pc'[c] = "dCommit" => LockDropped(c)
  BY <1>0, OthersStay
<1>2. CASE rec' = rec /\ current' = current
  <2>1. ServedIsLive'
    BY <1>2 DEF StoreInv, ServedIsLive, Alive, Recorded
  <2>2. CASE LockDropped(c)
    <3>1. /\ tgt'[c] = tgt[c] /\ saw'[c] = rec[tgt[c]] /\ current # tgt[c]
          /\ rec[tgt[c]] # NoRec => ~rec[tgt[c]].dropped
          /\ \A d \in Clients : pc[d] # "dCommit"
      BY <1>0, <2>2 DEF LockDropped, TypeOK, Recorded, Dropping
    <3> QED
      BY <1>0, <1>1, <1>2, <2>1, <3>1 DEF StoreInv, DropSound, Dropping
  <2>3. CASE ~LockDropped(c)
    <3>1. DropSound'
      BY <1>1, <1>2, <2>3 DEF StoreInv, DropSound, Dropping
    <3> QED
      BY <1>0, <2>1, <3>1 DEF StoreInv
  <2> QED
    BY <2>2, <2>3
<1>3. CASE ~(rec' = rec /\ current' = current)
  <2>1. pc'[c] # "dCommit"
    BY <1>1, <1>3 DEF LockDropped, db
  <2>2. CASE Flushes(c)
    <3>0. /\ current' = current /\ current \in Snapshots \cup {None}
          /\ \A s \in Snapshots : rec[s] # NoRec =>
                /\ rec'[s] # NoRec
                /\ rec'[s].committed = rec[s].committed
                /\ rec'[s].dropped = rec[s].dropped
      BY <1>0, <2>2 DEF Flushes, TypeOK
    <3>1. ServedIsLive'
      BY <3>0, MikroAssumption DEF StoreInv, ServedIsLive, Alive, Recorded
    <3>2. \A d \in Clients : Dropping(d) /\ saw[d] # NoRec => rec[tgt[d]] # NoRec
      BY <1>0 DEF TypeInv, SawStays, Recorded
    <3>3. \A d \in Clients : Dropping(d) => tgt[d] \in Snapshots
      BY <1>0 DEF TypeOK, Dropping
    <3>4. DropSound'
      BY <1>1, <2>1, <2>2, <3>2, <3>3 DEF StoreInv, DropSound, Dropping, Flushes
    <3> QED
      BY <1>0, <3>1, <3>4 DEF StoreInv
  <2>3. CASE Publish(c)
    <3>1. /\ tgt[c] \in Snapshots /\ rec[tgt[c]] \in Rec /\ ~rec[tgt[c]].dropped
          /\ rec'[tgt[c]].committed /\ ~rec'[tgt[c]].dropped /\ rec'[tgt[c]] # NoRec
          /\ \A s \in Snapshots : s # tgt[c] => rec'[s] = rec[s]
          /\ current' \in {current, tgt[c]}
          /\ \A d \in Clients : Dropping(d) => tgt[d] # tgt[c] /\ current' = current
      <4>1. tgt[c] \in Snapshots /\ rec[tgt[c]] \in Rec /\ ~rec[tgt[c]].dropped
        BY <1>0, <2>3 DEF Publish, Alive, Recorded, TypeOK
      <4>2. rec'[tgt[c]] = [rec[tgt[c]] EXCEPT !.rowCount = local[c].count, !.committed = TRUE]
        BY <1>0, <2>3, <4>1 DEF Publish, TypeOK
      <4>3. rec'[tgt[c]].committed /\ ~rec'[tgt[c]].dropped
        BY <4>1, <4>2 DEF Rec
      <4>4. rec'[tgt[c]] # NoRec
        <5>1. local[c].count \in Nat
          BY <1>0 DEF TypeOK, Local
        <5>2. rec'[tgt[c]] \in Rec
          BY <4>1, <4>2, <5>1 DEF Rec
        <5> QED
          BY <5>2, NoRecAssumption
      <4> QED
        BY <1>0, <2>3, <4>1, <4>3, <4>4 DEF Publish, TypeOK
    <3>2. ServedIsLive'
      BY <1>0, <3>1 DEF StoreInv, ServedIsLive, Alive, Recorded, TypeOK
    <3>3. \A d \in Clients : Dropping(d) => tgt[d] \in Snapshots
      BY <1>0 DEF TypeOK, Dropping
    <3>4. DropSound'
      BY <1>1, <2>1, <3>1, <3>3 DEF StoreInv, DropSound, Dropping
    <3> QED
      BY <1>0, <3>2, <3>4 DEF StoreInv
  <2>4. CASE CommitDropped(c)
    <3>1. /\ tgt[c] \in Snapshots /\ current # tgt[c] /\ current' = current
          /\ \A s \in Snapshots : s # tgt[c] => rec'[s] = rec[s]
          /\ \A d \in Clients \ {c} : ~Dropping(d)
      BY <1>0, <2>4 DEF CommitDropped, TypeOK, StoreInv, DropSound, Dropping
    <3>2. ServedIsLive'
      BY <1>0, <3>1 DEF StoreInv, ServedIsLive, Alive, Recorded, TypeOK
    <3>3. DropSound'
      BY <1>1, <2>1, <3>1 DEF DropSound, Dropping
    <3> QED
      BY <1>0, <3>2, <3>3 DEF StoreInv
  <2> QED
    BY <1>0, <1>3, <2>2, <2>3, <2>4, StoreEffect
<1> QED
  BY <1>2, <1>3

LEMMA StoreInvariant == Spec => []StoreInv
<1>1. Init => StoreInv
  BY InitType DEF Init, StoreInv, ServedIsLive, DropSound, Dropping
<1>2. StoreInv /\ [Next]_vars => StoreInv'
  <2> SUFFICES ASSUME StoreInv, [Next]_vars PROVE StoreInv'
    OBVIOUS
  <2>1. CASE UNCHANGED vars
    BY <2>1 DEF StoreInv, TypeInv, TypeOK, SawStays, SourceFound, ServedIsLive, DropSound,
       Alive, Recorded, Dropping, vars
  <2>2. CASE Next
    BY <2>2, CallKeeps DEF Next
  <2> QED
    BY <2>1, <2>2
<1> QED
  BY <1>1, <1>2, PTL DEF Spec

\* Readers are never pointed at a tombstone, nor at a load that was not committed,
\* whatever commits, drops, writes and merges overlap and wherever they die: the
\* commit asks about the drop again in the transaction that moves the pointer, and
\* the drop asks about the pointer under the locks it deletes with.
THEOREM ServedAlwaysLive == Spec => []ServedIsLive
<1>1. StoreInv => ServedIsLive
  BY DEF StoreInv
<1> QED
  BY <1>1, StoreInvariant, PTL

\* No call brings a tombstone back to life, however late its flush.
THEOREM TombstonesStay == Spec => TombstonesAreFinal
<1>1. StoreInv /\ [Next]_vars =>
        [\A s \in Snapshots :
           Recorded(s) /\ rec[s].dropped => rec'[s] # NoRec /\ rec'[s].dropped]_vars
  <2> SUFFICES ASSUME StoreInv, Next, NEW s \in Snapshots, rec[s] # NoRec, rec[s].dropped
               PROVE  rec'[s] # NoRec /\ rec'[s].dropped
    BY DEF Recorded
  <2>1. PICK c \in Clients : Begin(c) \/ Step(c) \/ Fails(c)
    BY DEF Next
  <2>2. CASE Flushes(c)
    BY <2>2 DEF Flushes
  <2>3. CASE Publish(c)
    BY <2>3 DEF Publish, Alive, StoreInv, TypeInv, TypeOK
  <2>4. CASE CommitDropped(c)
    <3>1. saw[c] # NoRec => tgt[c] # s
      BY <2>4 DEF CommitDropped, StoreInv, DropSound, Dropping
    <3> QED
      BY <2>4, <3>1 DEF CommitDropped, StoreInv, TypeInv, TypeOK
  <2> QED
    BY <2>1, <2>2, <2>3, <2>4, StoreEffect DEF StoreInv
<1> QED
  BY <1>1, StoreInvariant, PTL DEF Spec, TombstonesAreFinal

-----------------------------------------------------------------------------
(* The store implements the contract.                                      *)

\* Every statement is one step of the contract, or changes nothing it sees.
LEMMA CallImplements ==
  ASSUME StoreInv, NEW c \in Clients, Begin(c) \/ Step(c) \/ Fails(c)
  PROVE  [Contract!ContractNext]_(Contract!contractVars)
<1> DEFINE st == [s \in Snapshots |-> SnapshotStatus(s)]
           t == tgt[c]
<1>0. TypeOK /\ SawStays
  BY DEF StoreInv, TypeInv
<1>1. CASE rec' = rec /\ current' = current
  BY <1>1 DEF Contract!contractVars, SnapshotStatus, Recorded
<1>2. CASE Flushes(c)
  <2>1. \A s \in Snapshots : s # t => (SnapshotStatus(s)' = SnapshotStatus(s))
    BY <1>2 DEF Flushes, SnapshotStatus, Recorded
  <2>2. CASE rec[t] = NoRec
    <3>1. st[t] = "none" /\ SnapshotStatus(t) = "none"
      BY <1>2, <2>2 DEF Flushes, SnapshotStatus, Recorded
    <3>2. PICK u \in Snapshots : u = t
      BY <1>2 DEF Flushes
    <3>3. SnapshotStatus(u)' = "open"
      BY <1>2, <2>2, <3>2 DEF Flushes, SnapshotStatus, Recorded
    <3>4. st' = [st EXCEPT ![u] = "open"]
      BY <2>1, <3>2, <3>3
    <3> QED
      BY <1>2, <3>1, <3>2, <3>4 DEF Flushes, Contract!Open, Contract!ContractNext
  <2>3. CASE rec[t] # NoRec
    <3>1. \A s \in Snapshots : st'[s] = st[s]
      BY <1>2, <2>1, <2>3 DEF Flushes, SnapshotStatus, Recorded
    <3> QED
      BY <1>2, <3>1 DEF Flushes, Contract!contractVars
  <2> QED
    BY <2>2, <2>3
<1>3. CASE Publish(c)
  <2>1. t \in Snapshots /\ rec[t] \in Rec /\ ~rec[t].dropped /\ rec[t] # NoRec
    BY <1>0, <1>3 DEF Publish, Alive, Recorded, TypeOK
  <2>2. rec' = [rec EXCEPT ![t] =
                  [rec[t] EXCEPT !.rowCount = local[c].count, !.committed = TRUE]]
    BY <1>0, <1>3, <2>1 DEF Publish, TypeOK
  <2>3. rec'[t] # NoRec /\ ~rec'[t].dropped /\ rec'[t].committed
    <3>1. local[c].count \in Nat
      BY <1>0 DEF TypeOK, Local
    <3>2. [rec[t] EXCEPT !.rowCount = local[c].count, !.committed = TRUE] \in Rec
      BY <2>1, <3>1 DEF Rec
    <3>3. rec'[t] = [rec[t] EXCEPT !.rowCount = local[c].count, !.committed = TRUE]
      BY <1>0, <2>1, <2>2 DEF TypeOK
    <3> QED
      BY <2>1, <3>2, <3>3, NoRecAssumption DEF Rec
  <2>4. st' = [st EXCEPT ![t] = "committed"]
    BY <1>0, <2>1, <2>2, <2>3 DEF SnapshotStatus, Recorded, TypeOK
  <2>5. st[t] \in {"open", "committed"}
    BY <2>1 DEF SnapshotStatus, Recorded
  <2>6. CASE current' = t
    BY <2>1, <2>4, <2>5, <2>6 DEF Contract!Publish, Contract!ContractNext
  <2>7. CASE current' = current /\ st[t] = "open"
    BY <2>1, <2>4, <2>7 DEF Contract!Bless, Contract!ContractNext
  <2>8. CASE current' = current /\ st[t] = "committed"
    <3>1. st' = st
      BY <2>4, <2>8
    <3> QED
      BY <2>8, <3>1 DEF Contract!contractVars
  <2>9. current' = t \/ current' = current
    BY <1>3 DEF Publish
  <2> QED
    BY <2>5, <2>6, <2>7, <2>8, <2>9
<1>4. CASE CommitDropped(c)
  <2>0. t \in Snapshots /\ current # t /\ current' = current
    BY <1>0, <1>4 DEF CommitDropped, TypeOK, StoreInv, DropSound, Dropping
  <2>1. CASE saw[c] = NoRec
    <3>1. rec' = rec
      BY <1>4, <2>1 DEF CommitDropped
    <3> QED
      BY <2>0, <3>1 DEF Contract!contractVars, SnapshotStatus, Recorded
  <2>2. CASE saw[c] # NoRec
    <3>1. rec[t] \in Rec /\ rec[t] # NoRec /\ ~rec[t].dropped
      BY <1>0, <1>4, <2>0, <2>2
      DEF CommitDropped, SawStays, Recorded, TypeOK, StoreInv, DropSound, Dropping
    <3>2. rec' = [rec EXCEPT ![t] =
                    [rec[t] EXCEPT !.rowCount = local[c].count, !.dropped = TRUE]]
      BY <1>0, <1>4, <2>0, <2>2, <3>1 DEF CommitDropped, TypeOK
    <3>3. rec'[t] # NoRec /\ rec'[t].dropped
      <4>1. local[c].count \in Nat
        BY <1>0 DEF TypeOK, Local
      <4>2. [rec[t] EXCEPT !.rowCount = local[c].count, !.dropped = TRUE] \in Rec
        BY <3>1, <4>1 DEF Rec
      <4>3. rec'[t] = [rec[t] EXCEPT !.rowCount = local[c].count, !.dropped = TRUE]
        BY <1>0, <2>0, <3>2 DEF TypeOK
      <4> QED
        BY <3>1, <4>2, <4>3, NoRecAssumption DEF Rec
    <3>4. st' = [st EXCEPT ![t] = "dropped"]
      BY <1>0, <2>0, <3>2, <3>3 DEF SnapshotStatus, Recorded, TypeOK
    <3>5. st[t] # "dropped"
      BY <2>0, <3>1 DEF SnapshotStatus, Recorded
    <3> QED
      BY <2>0, <3>4, <3>5 DEF Contract!Drop, Contract!ContractNext
  <2> QED
    BY <2>1, <2>2
<1> QED
  BY <1>1, <1>2, <1>3, <1>4, StoreEffect DEF StoreInv

\* Every statement of every call is a step of the contract of CatalogWriteStore, or
\* leaves what it speaks of alone: with transactions the contract holds without any
\* assumption on which calls overlap.
THEOREM Implementation == Spec => ImplementsContract
<1>1. Init => Contract!ContractInit
  BY DEF Init, Contract!ContractInit, SnapshotStatus, Recorded
<1>2. StoreInv /\ [Next]_vars => [Contract!ContractNext]_(Contract!contractVars)
  <2> SUFFICES ASSUME StoreInv, [Next]_vars
               PROVE  [Contract!ContractNext]_(Contract!contractVars)
    OBVIOUS
  <2>1. CASE UNCHANGED vars
    BY <2>1 DEF vars, Contract!contractVars, SnapshotStatus, Recorded
  <2>2. CASE Next
    BY <2>2, CallImplements DEF Next
  <2> QED
    BY <2>1, <2>2
<1> QED
  BY <1>1, <1>2, StoreInvariant, PTL DEF Spec, ImplementsContract, Contract!ContractSpec

-----------------------------------------------------------------------------
(* Counts and merges of a snapshot a durable run has to itself.            *)

\* No key is both in a batch and carried.
Disjoint(s) == \A x \in rows[s] : x[1] = Carry => x[2][1] \notin Incoming(s)

Counted(s) ==
  Alive(s) /\ rec[s].committed => rec[s].rowCount = Cardinality(rows[s])

Covered(s) ==
  Recorded(s) /\ rec[s].carriedFrom # NoLabel /\ ~rec[s].stale => Disjoint(s)

\* A client at rest is about no snapshot, and two are about the same one only if it
\* is mixed.
Resting == \A c \in Clients : pc[c] = "rest" => tgt[c] = None

Lone ==
  \A c, d \in Clients : tgt[c] \in Snapshots \ mixed /\ tgt[d] = tgt[c] => c = d

\* The rows and the record agree while no call has rows changed and the record not.
Settled ==
  \A s \in Snapshots \ (mixed \cup torn) :
    (\A c \in Clients : tgt[c] = s => pc[c] \in Harmless) => Counted(s) /\ Covered(s)

\* A call on its own remembers the record as it is, the count of the rows there are,
\* and, in the middle of a merge, what it has deleted and inserted.
Memory(c) ==
  /\ pc[c] \in {"wCount", "wFlush", "fPrevious", "fDelete", "fInsert", "fCount", "fFlush",
               "dCommit"} => saw[c] = rec[tgt[c]]
  /\ pc[c] \in {"fFlush", "cPublish"} => local[c].count = Cardinality(rows[tgt[c]])
  /\ pc[c] = "wFlush" /\ Alive(tgt[c]) /\ rec[tgt[c]].committed =>
       local[c].count = Cardinality(rows[tgt[c]])
  /\ pc[c] = "fInsert" => \A x \in rows[tgt[c]] : x[1] # Carry
  /\ pc[c] \in {"fCount", "fFlush"} => Disjoint(tgt[c])

Remembers == \A c \in Clients : tgt[c] \in Snapshots \ mixed => Memory(c)

\* Neither property is inductive: both speak of snapshots at rest, and a call brings
\* its rows and its record in different statements.
OrderlyInv == TypeInv /\ Resting /\ Lone /\ Settled /\ Remembers

\* A call touches the snapshot it is about and its own state, and nothing else.
LEMMA TouchesOwn ==
  ASSUME TypeInv, NEW c \in Clients, Begin(c) \/ Step(c) \/ Fails(c)
  PROVE  /\ \A s \in Snapshots : s # tgt[c] => rows'[s] = rows[s] /\ rec'[s] = rec[s]
         /\ \A d \in Clients \ {c} :
              pc'[d] = pc[d] /\ tgt'[d] = tgt[d] /\ saw'[d] = saw[d] /\ local'[d] = local[d]
<1>1. TypeOK
  BY DEF TypeInv
<1>2. CASE FlushWritten(c) \/ FlushCarried(c)
  BY <1>1, <1>2 DEF FlushWritten, FlushCarried, Flush, TypeOK, Ends
<1>3. CASE ~(FlushWritten(c) \/ FlushCarried(c))
  BY <1>1, <1>3 DEF TypeOK, Begin, Step, Fails, Ends, Goes, DeleteBatch, InsertBatch,
     FindWritten, CountWritten, FindOwn, FindPrevious, DeleteCarried, InsertCarried,
     CountCarried, FindCommitted, CountCommitted, Publish, LockDropped, CommitDropped, db
<1> QED
  BY <1>2, <1>3

\* What a flush of the record as it is leaves on record is what it meant to.
LEMMA FlushLands ==
  ASSUME TypeInv, NEW c \in Clients, tgt[c] \in Snapshots, saw[c] = rec[tgt[c]],
         NEW new \in Rec, Flush(c, new),
         saw[c] # NoRec => new.committed = saw[c].committed /\ new.dropped = saw[c].dropped
                           /\ new.created = saw[c].created
  PROVE  rec'[tgt[c]] = new
<1>1. CASE saw[c] = NoRec
  BY <1>1 DEF Flush, TypeInv, TypeOK
<1>2. CASE saw[c] # NoRec
  <2>1. saw[c] \in Rec
    BY <1>2 DEF TypeInv, TypeOK
  <2>2. rec' = [rec EXCEPT ![tgt[c]] = Flushed(rec[tgt[c]], saw[c], new)]
    BY <1>2 DEF Flush
  <2>3. Flushed(saw[c], saw[c], new) = new
    BY <1>2, <2>1 DEF Flushed, SameLabels, Rec
  <2> QED
    BY <2>2, <2>3 DEF TypeInv, TypeOK
<1> QED
  BY <1>1, <1>2

Sound(s) == Counted(s) /\ Covered(s)

\* One statement after another keeps what its call remembers true, and the last one
\* leaves a record that agrees with the rows.
LEMMA StatementSettles ==
  ASSUME TypeInv, NEW c \in Clients, Step(c), Memory(c), NEW s \in Snapshots, s = tgt[c]
  PROVE  /\ Memory(c)'
         /\ (pc[c] \in Harmless => Sound(s)) /\ pc'[c] \in Harmless \cup {"rest"} => Sound(s)'
<1>0. TypeOK /\ local[c] \in Local
  BY DEF TypeInv, TypeOK
<1>1. ASSUME Ends(c) PROVE pc'[c] = "rest" /\ Memory(c)'
  BY <1>0, <1>1 DEF Ends, TypeOK, Memory
<1>2. ASSUME rows'[s] = rows[s], rec'[s] = rec[s], Sound(s) PROVE Sound(s)'
  BY <1>2 DEF Sound, Counted, Covered, Disjoint, Alive, Recorded, Incoming
<1>3. CASE DeleteBatch(c) \/ InsertBatch(c)
  BY <1>0, <1>3 DEF DeleteBatch, InsertBatch, Goes, TypeOK, Memory, Harmless
<1>4. CASE FindWritten(c)
  BY <1>0, <1>4 DEF FindWritten, Goes, TypeOK, Memory, Harmless, Alive, Recorded, db
<1>5. CASE CountWritten(c)
  BY <1>0, <1>5 DEF CountWritten, Goes, TypeOK, Memory, Harmless, Alive, Recorded, db
<1>6. CASE FindOwn(c) \/ FindPrevious(c)
  <2>1. UNCHANGED <<rows, rec>> /\ pc[c] \in Harmless
    BY <1>6 DEF FindOwn, FindPrevious, db, Harmless
  <2>2. Memory(c)'
    BY <1>0, <1>6 DEF FindOwn, FindPrevious, Goes, TypeOK, Memory, db
  <2> QED
    BY <1>2, <2>1, <2>2
<1>7. CASE DeleteCarried(c)
  <2>1. /\ rows'[s] = {x \in rows[s] : x[1] # Carry} /\ UNCHANGED <<rec, tgt, saw, local>>
        /\ pc'[c] \in {"fCount", "fInsert"} /\ pc[c] = "fDelete"
    BY <1>0, <1>7 DEF DeleteCarried, Goes, TypeOK
  <2> QED
    BY <2>1 DEF Memory, Disjoint, Harmless
<1>8. CASE InsertCarried(c)
  <2>1. /\ rows'[s] = rows[s] \cup ({Carry} \X Survivors(local[c].prev, s))
        /\ UNCHANGED <<rec, tgt, saw, local>>
        /\ pc'[c] = "fCount" /\ pc[c] = "fInsert"
    BY <1>0, <1>8 DEF InsertCarried, Goes, TypeOK
  <2>2. Incoming(s)' = Incoming(s)
    <3>1. {y \in rows'[s] : y[1] # Carry} = {y \in rows[s] : y[1] # Carry}
      BY <2>1
    <3> QED
      BY <3>1 DEF Incoming
  <2>3. \A x \in rows[s] : x[1] # Carry
    BY <2>1 DEF Memory
  <2>4. \A y \in Survivors(local[c].prev, s) : y[1] \notin Incoming(s)
    BY DEF Survivors
  <2>5. Disjoint(s)'
    BY <2>1, <2>2, <2>3, <2>4 DEF Disjoint
  <2> QED
    BY <2>1, <2>5 DEF Memory, Harmless
<1>9. CASE CountCarried(c)
  <2>1. /\ UNCHANGED <<rows, rec, tgt, saw>>
        /\ local'[c].count = Cardinality(rows[s])
        /\ pc'[c] = "fFlush" /\ pc[c] = "fCount"
    BY <1>0, <1>9 DEF CountCarried, Goes, TypeOK, Local, db
  <2>2. saw[c] = rec[s] /\ Disjoint(s)
    BY <2>1 DEF Memory
  <2>3. Disjoint(s)'
    BY <2>1, <2>2 DEF Disjoint, Incoming
  <2> QED
    BY <2>1, <2>2, <2>3 DEF Memory, Harmless
<1>10. CASE FindCommitted(c)
  <2>1. UNCHANGED <<rows, rec>> /\ pc[c] \in Harmless
    BY <1>10 DEF FindCommitted, db, Harmless
  <2>2. Memory(c)'
    BY <1>0, <1>10 DEF FindCommitted, Goes, TypeOK, Memory, db
  <2> QED
    BY <1>2, <2>1, <2>2
<1>11. CASE CountCommitted(c)
  <2>1. /\ UNCHANGED <<rows, rec, tgt, saw>>
        /\ local'[c].count = Cardinality(rows[s])
        /\ pc'[c] = "cPublish" /\ pc[c] \in Harmless
    BY <1>0, <1>11 DEF CountCommitted, Goes, TypeOK, Local, db, Harmless
  <2>2. Memory(c)'
    BY <2>1 DEF Memory
  <2> QED
    BY <1>2, <2>1, <2>2
<1>12. CASE LockDropped(c)
  <2>1. UNCHANGED <<rows, rec>> /\ pc[c] \in Harmless
    BY <1>12 DEF LockDropped, db, Harmless
  <2>2. Memory(c)'
    BY <1>0, <1>12 DEF LockDropped, Goes, TypeOK, Memory, db
  <2> QED
    BY <1>2, <2>1, <2>2
<1>13. CASE FlushWritten(c)
  <2> DEFINE own == IF saw[c] = NoRec THEN Fresh ELSE saw[c]
             new == [own EXCEPT !.rowCount = local[c].count,
                                !.stale = @ \/ own.carriedFrom # NoLabel]
  <2>1. own \in Rec /\ saw[c] = rec[s]
    BY <1>0, <1>13, OwnType DEF FlushWritten, Memory
  <2>2. new \in Rec
    BY <1>0, <2>1 DEF Rec, Local
  <2>3. /\ new.rowCount = local[c].count /\ new.carriedFrom = own.carriedFrom
        /\ new.committed = own.committed /\ new.dropped = own.dropped
        /\ new.created = own.created /\ (new.carriedFrom # NoLabel => new.stale)
    BY <2>1 DEF Rec
  <2>4. Flush(c, new) /\ Ends(c) /\ rows' = rows /\ pc[c] = "wFlush"
    BY <1>13 DEF FlushWritten
  <2>5. rec'[s] = new
    <3>1. saw[c] # NoRec => /\ new.committed = saw[c].committed
                            /\ new.dropped = saw[c].dropped
                            /\ new.created = saw[c].created
      BY <2>3
    <3> HIDE DEF new
    <3> QED
      BY <2>1, <2>2, <2>4, <3>1, FlushLands
  <2>6. Counted(s)'
    <3>1. CASE saw[c] = NoRec
      BY <2>3, <2>5, <3>1 DEF Counted, Fresh
    <3>2. CASE saw[c] # NoRec
      BY <2>1, <2>3, <2>4, <2>5, <3>2 DEF Counted, Memory, Alive, Recorded
    <3> QED
      BY <3>1, <3>2
  <2>7. Covered(s)'
    BY <2>3, <2>5 DEF Covered
  <2> QED
    BY <1>1, <2>4, <2>6, <2>7 DEF Sound
<1>14. CASE FlushCarried(c)
  <2> DEFINE own == IF saw[c] = NoRec THEN Fresh ELSE saw[c]
             new == [own EXCEPT !.rowCount = local[c].count,
                                !.carriedFrom = local[c].prev, !.stale = FALSE]
  <2>1. own \in Rec /\ saw[c] = rec[s]
    BY <1>0, <1>14, OwnType DEF FlushCarried, Memory
  <2>2. new \in Rec
    BY <1>0, <2>1 DEF Rec, Local
  <2>3. /\ new.rowCount = local[c].count
        /\ new.committed = own.committed /\ new.dropped = own.dropped
        /\ new.created = own.created
    BY <2>1 DEF Rec
  <2>4. Flush(c, new) /\ Ends(c) /\ rows' = rows /\ pc[c] = "fFlush"
    BY <1>14 DEF FlushCarried
  <2>5. rec'[s] = new
    <3>1. saw[c] # NoRec => /\ new.committed = saw[c].committed
                            /\ new.dropped = saw[c].dropped
                            /\ new.created = saw[c].created
      BY <2>3
    <3> HIDE DEF new
    <3> QED
      BY <2>1, <2>2, <2>4, <3>1, FlushLands
  <2>6. Cardinality(rows'[s]) = local[c].count /\ Disjoint(s)
    BY <2>4 DEF Memory
  <2>7. Counted(s)'
    BY <2>3, <2>5, <2>6 DEF Counted
  <2>8. Covered(s)'
    BY <2>4, <2>6 DEF Covered, Disjoint, Incoming
  <2> QED
    BY <1>1, <2>4, <2>7, <2>8 DEF Sound
<1>15. CASE Publish(c)
  <2>1. rec[s] \in Rec /\ rec[s] # NoRec /\ local[c].count = Cardinality(rows[s])
    BY <1>0, <1>15 DEF Publish, Alive, Recorded, TypeOK, Memory
  <2>2. /\ rec'[s] = [rec[s] EXCEPT !.rowCount = local[c].count, !.committed = TRUE]
        /\ rows' = rows /\ Ends(c) /\ pc[c] \in Harmless
    BY <1>0, <1>15 DEF Publish, TypeOK, Harmless
  <2>3. /\ rec'[s].rowCount = Cardinality(rows'[s])
        /\ rec'[s].carriedFrom = rec[s].carriedFrom /\ rec'[s].stale = rec[s].stale
    BY <2>1, <2>2 DEF Rec
  <2>4. Counted(s)'
    BY <2>3 DEF Counted
  <2>5. Covered(s) => Covered(s)'
    BY <2>1, <2>2, <2>3 DEF Covered, Disjoint, Incoming, Recorded
  <2> QED
    BY <1>1, <2>2, <2>4, <2>5 DEF Sound
<1>16. CASE CommitDropped(c)
  <2>1. /\ rows'[s] \subseteq rows[s] /\ Ends(c) /\ pc[c] \in Harmless /\ saw[c] = rec[s]
    BY <1>0, <1>16 DEF CommitDropped, TypeOK, Harmless, Memory
  <2>2. Disjoint(s) => Disjoint(s)'
    BY <2>1 DEF Disjoint, Incoming
  <2>3. CASE saw[c] = NoRec
    BY <1>1, <1>16, <2>1, <2>3 DEF CommitDropped, Sound, Counted, Covered, Alive, Recorded
  <2>4. CASE saw[c] # NoRec
    <3>1. rec[s] \in Rec /\ rec[s] # NoRec
      BY <1>0, <2>1, <2>4 DEF TypeOK
    <3>2. rec'[s] = [rec[s] EXCEPT !.rowCount = local[c].count, !.dropped = TRUE]
      BY <1>0, <1>16, <2>4 DEF CommitDropped, TypeOK
    <3>3. /\ rec'[s].dropped
          /\ rec'[s].carriedFrom = rec[s].carriedFrom /\ rec'[s].stale = rec[s].stale
      BY <3>1, <3>2 DEF Rec
    <3>4. Counted(s)'
      BY <3>3 DEF Counted, Alive
    <3>5. Covered(s) => Covered(s)'
      BY <2>2, <3>1, <3>3 DEF Covered, Recorded
    <3> QED
      BY <1>1, <2>1, <3>4, <3>5 DEF Sound
  <2> QED
    BY <2>3, <2>4
<1> QED
  BY <1>3, <1>4, <1>5, <1>6, <1>7, <1>8, <1>9, <1>10, <1>11, <1>12, <1>13, <1>14, <1>15,
     <1>16 DEF Step

\* Every call, its beginning and its end anywhere keep the invariant.
LEMMA OrderlyStep ==
  ASSUME OrderlyInv, NEW c \in Clients, MCBegin(c) \/ MCStep(c) \/ MCFails(c)
  PROVE  OrderlyInv'
<1>0. /\ TypeInv /\ TypeOK /\ Resting /\ Lone /\ Settled /\ Remembers
      /\ Begin(c) \/ Step(c) \/ Fails(c)
  BY DEF OrderlyInv, TypeInv, MCBegin, MCStep, MCFails
<1>1. TypeInv'
  BY <1>0, CallType
<1>2. /\ \A s \in Snapshots : s # tgt[c] => rows'[s] = rows[s] /\ rec'[s] = rec[s]
      /\ \A d \in Clients \ {c} :
           pc'[d] = pc[d] /\ tgt'[d] = tgt[d] /\ saw'[d] = saw[d] /\ local'[d] = local[d]
  BY <1>0, TouchesOwn
<1>3. mixed \subseteq mixed' /\ torn \subseteq torn'
  BY DEF MCBegin, MCStep, MCFails
<1>4. \/ tgt'[c] = tgt[c] /\ tgt[c] \in Snapshots /\ pc[c] # "rest" /\ pc'[c] # "rest"
      \/ tgt'[c] = None /\ pc'[c] = "rest" /\ pc[c] # "rest" /\ tgt[c] \in Snapshots
      \/ /\ Begin(c) /\ tgt[c] = None /\ pc'[c] \in {"wDelete", "cFind", "dLock", "fOwn"}
         /\ tgt'[c] \in Snapshots /\ UNCHANGED <<rows, rec>>
         /\ \A d \in Clients \ {c} : tgt[d] = tgt'[c] => tgt'[c] \in mixed'
  <2>1. CASE MCBegin(c)
    <3>1. /\ pc'[c] \in {"wDelete", "cFind", "dLock", "fOwn"} /\ tgt'[c] \in Snapshots
          /\ UNCHANGED <<rows, rec>> /\ tgt[c] = None
      BY <1>0, <2>1 DEF MCBegin, Begin, Goes, TypeOK, Resting, db
    <3>2. \A d \in Clients \ {c} : tgt[d] = tgt'[c] => tgt'[c] \in mixed'
      BY <2>1, <3>1 DEF MCBegin
    <3> QED
      BY <2>1, <3>1, <3>2 DEF MCBegin
  <2>2. CASE MCStep(c)
    BY <1>0, <2>2 DEF MCStep, Step, TypeOK, Ends, Goes, DeleteBatch, InsertBatch, FindWritten,
       CountWritten, FlushWritten, FindOwn, FindPrevious, DeleteCarried, InsertCarried,
       CountCarried, FlushCarried, FindCommitted, CountCommitted, Publish, LockDropped,
       CommitDropped
  <2>3. CASE MCFails(c)
    BY <1>0, <2>3 DEF MCFails, Fails, Ends, TypeOK
  <2> QED
    BY <2>1, <2>2, <2>3
<1>5. Resting'
  BY <1>0, <1>2, <1>4 DEF Resting, TypeOK
<1>6. Lone'
  <2> SUFFICES ASSUME NEW d \in Clients, NEW e \in Clients, d # e,
                      tgt'[d] \in Snapshots \ mixed', tgt'[e] = tgt'[d]
               PROVE  FALSE
    BY DEF Lone
  <2>1. CASE d # c /\ e # c
    BY <1>0, <1>2, <1>3, <2>1 DEF Lone
  <2>2. CASE d = c \/ e = c
    BY <1>0, <1>2, <1>3, <1>4, <2>2, MikroAssumption DEF Lone
  <2> QED
    BY <2>1, <2>2
\* What happens to the snapshot of the call, when the call has it to itself.
<1>7. ASSUME NEW s \in Snapshots \ mixed', s = tgt[c]
      PROVE  /\ Memory(c)'
             /\ s \notin torn' /\ pc'[c] \in Harmless \cup {"rest"} => Sound(s)'
  <2>1. Memory(c) /\ pc[c] # "rest"
    BY <1>0, <1>3, <1>7, MikroAssumption DEF Remembers, Resting
  <2>2. s \notin torn /\ pc[c] \in Harmless => Sound(s)
    <3>1. \A d \in Clients : tgt[d] = s => d = c
      BY <1>0, <1>3, <1>7 DEF Lone
    <3> QED
      BY <1>0, <1>3, <1>7, <3>1 DEF Settled, Sound
  <2>3. CASE MCStep(c)
    BY <1>3, <1>7, <2>1, <2>2, <2>3, StatementSettles, <1>0 DEF MCStep
  <2>4. CASE MCFails(c)
    <3>1. pc'[c] = "rest" /\ UNCHANGED <<rows, rec>>
      BY <1>0, <2>4 DEF MCFails, Fails, Ends, db, TypeOK
    <3>2. Memory(c)'
      BY <3>1 DEF Memory
    <3>3. s \notin torn' => pc[c] \in Harmless
      BY <1>7, <2>4 DEF MCFails
    <3>4. Sound(s) => Sound(s)'
      BY <3>1 DEF Sound, Counted, Covered, Disjoint, Alive, Recorded, Incoming
    <3> QED
      BY <1>3, <2>2, <3>2, <3>3, <3>4
  <2>5. CASE MCBegin(c)
    BY <2>1, <2>5 DEF MCBegin, Begin
  <2> QED
    BY <2>3, <2>4, <2>5
<1>8. Remembers'
  <2> SUFFICES ASSUME NEW d \in Clients, tgt'[d] \in Snapshots \ mixed'
               PROVE  Memory(d)'
    BY DEF Remembers
  <2>1. CASE d # c
    <3>1. tgt[d] # tgt[c] /\ Memory(d) /\ tgt'[d] = tgt[d]
      BY <1>0, <1>2, <1>3, <2>1 DEF Lone, Remembers
    <3>2. /\ rows'[tgt[d]] = rows[tgt[d]] /\ rec'[tgt[d]] = rec[tgt[d]]
          /\ pc'[d] = pc[d] /\ saw'[d] = saw[d] /\ local'[d] = local[d]
      BY <1>2, <2>1, <3>1
    <3> QED
      BY <3>1, <3>2 DEF Memory, Disjoint, Alive, Recorded, Incoming
  <2>2. CASE d = c
    <3>1. CASE tgt'[c] = tgt[c]
      BY <1>7, <2>2, <3>1
    <3>2. CASE pc'[c] \in {"wDelete", "cFind", "dLock", "fOwn"}
      BY <2>2, <3>2 DEF Memory
    <3> QED
      BY <1>4, <2>2, <3>1, <3>2, MikroAssumption
  <2> QED
    BY <2>1, <2>2
<1>9. Settled'
  <2> SUFFICES ASSUME NEW s \in Snapshots \ (mixed' \cup torn'),
                      \A d \in Clients : tgt'[d] = s => pc'[d] \in Harmless
               PROVE  Sound(s)'
    BY DEF Settled, Sound
  <2>1. CASE s = tgt[c]
    <3>1. pc'[c] \in Harmless \cup {"rest"}
      BY <1>4, <2>1, MikroAssumption
    <3> QED
      BY <1>7, <2>1, <3>1
  <2>2. CASE s # tgt[c]
    <3>1. \A d \in Clients : tgt[d] = s => pc[d] \in Harmless
      BY <1>2, <2>2
    <3>2. Sound(s)
      BY <1>0, <1>3, <3>1 DEF Settled, Sound
    <3> QED
      BY <1>2, <2>2, <3>2 DEF Sound, Counted, Covered, Disjoint, Alive, Recorded, Incoming
  <2> QED
    BY <2>1, <2>2
<1> QED
  BY <1>1, <1>5, <1>6, <1>8, <1>9 DEF OrderlyInv

LEMMA OrderlyInvariant == MCSpec => []OrderlyInv
<1>1. MCInit => OrderlyInv
  <2> SUFFICES ASSUME MCInit PROVE OrderlyInv
    OBVIOUS
  <2>1. TypeInv
    BY InitType DEF MCInit
  <2>2. Resting /\ Lone /\ Settled /\ Remembers
    BY MikroAssumption
    DEF MCInit, Init, Resting, Lone, Settled, Remembers, Memory, Counted, Covered, Alive, Recorded
  <2> QED
    BY <2>1, <2>2 DEF OrderlyInv
<1>2. OrderlyInv /\ [MCNext]_mcVars => OrderlyInv'
  <2> SUFFICES ASSUME OrderlyInv, [MCNext]_mcVars PROVE OrderlyInv'
    OBVIOUS
  <2>1. CASE UNCHANGED mcVars
    BY <2>1 DEF mcVars, vars, OrderlyInv, TypeInv, TypeOK, SawStays, SourceFound, Recorded,
       Resting, Lone, Settled, Remembers, Memory, Counted, Covered, Disjoint, Alive, Incoming
  <2>2. CASE MCNext
    BY <2>2, OrderlyStep DEF MCNext
  <2> QED
    BY <2>1, <2>2
<1> QED
  BY <1>1, <1>2, PTL DEF MCSpec

\* At rest, with no two calls ever at once on it and none cut off in the middle.
LEMMA OrderlySound ==
  ASSUME OrderlyInv, NEW s \in Snapshots, Orderly(s) PROVE Counted(s) /\ Covered(s)
BY DEF OrderlyInv, Settled, Orderly

\* The count on the record of a committed snapshot is of the rows it has, for every
\* number of batches written, merged and sent again, however calls on other snapshots
\* interleave (write, carryForward, commit).
THEOREM CountsAreOfRows == MCSpec => []CountIsOfRows
<1>1. OrderlyInv => CountIsOfRows
  BY OrderlySound DEF CountIsOfRows, Counted
<1> QED
  BY <1>1, OrderlyInvariant, PTL

\* A merge that is not marked stale carries no key the load brings itself, since a
\* batch that lands behind the merge marks it (write, carryForward).
THEOREM MergesCoverBatches == MCSpec => []MergeCoversBatches
<1>1. OrderlyInv => MergeCoversBatches
  BY OrderlySound DEF MergeCoversBatches, Covered, Disjoint
<1> QED
  BY <1>1, OrderlyInvariant, PTL

=============================================================================

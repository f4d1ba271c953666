------------------------- MODULE ConnectorRunProofs -------------------------
(***************************************************************************)
(* Proofs about ConnectorRun, for any connectors, keys, batch size, number *)
(* of runs, retries and changes of the source.                             *)
(***************************************************************************)
EXTENDS ConnectorRun, FiniteSetTheorems, WellFoundedInduction, TLAPS

\* The snapshots that have a record.
Recorded == {s \in Ids : rec[s] # NoRec}

\* A run that is on knows its snapshot, has read each key at most once, and
\* numbers its batches within bounds.
Numbered ==
  \A c \in Connectors :
    /\ pc[c] # "idle" => run[c] \in Ids
    /\ \A p, q \in got[c] : p[1] = q[1] => p = q
    /\ pc[c] = "append" => batch[c] \in Batches

\* Records are dated by how many there were.
Dated == \A s \in Recorded : rec[s].created < Cardinality(Recorded)

TypeInv == TypeOK /\ Numbered /\ Dated

\* The committed snapshots besides s.
Others(s) == {t \in Ids \ {s} : rec[t] # NoRec /\ rec[t].committed}

-----------------------------------------------------------------------------
(* Facts about the operators. *)

\* A set of numbers with a bound has a greatest member.
LEMMA Greatest ==
  ASSUME NEW T \in SUBSET Nat, T # {}, NEW m \in Nat, \A x \in T : x <= m
  PROVE  \E x \in T : \A y \in T : y <= x
<1> DEFINE D == {m - x : x \in T}
<1>1. D \in SUBSET Nat /\ D # {}
  <2>1. \A x \in T : m - x \in Nat
    OBVIOUS
  <2> QED
    BY <2>1
<1>2. PICK d \in D : \A e \in D : ~ (<<e, d>> \in OpToRel(<, Nat))
  <2> HIDE DEF D
  <2> QED BY <1>1, NatLessThanWellFounded, WFMin
<1>3. PICK x \in T : d = m - x
  OBVIOUS
<1>4. ASSUME NEW y \in T PROVE y <= x
  <2>1. m - y \in D /\ m - y \in Nat /\ d \in Nat
    BY <1>1
  <2>2. ~ (m - y < d)
    BY <1>2, <2>1 DEF OpToRel
  <2> QED
    BY <2>2, <1>3
<1> QED
  BY <1>4

\* Only finitely many rows can ever be staged.
LEMMA FiniteRows == IsFiniteSet((Batches \cup {Carry}) \X Row)
<1>1. Cardinality(Keys) \in Nat
  BY ConnectorAssumption, FS_CardinalityType
<1>2. IsFiniteSet(Batches \cup {Carry})
  <2>1. IsFiniteSet(1 .. Cardinality(Keys))
    BY <1>1, FS_Interval
  <2> QED
    BY <2>1, FS_Singleton, FS_Union DEF Batches
<1>3. IsFiniteSet(Versions \ {0})
  <2>1. IsFiniteSet(0 .. MaxChanges)
    BY FS_Interval, ConnectorAssumption
  <2> QED
    BY <2>1, FS_Subset DEF Versions
<1> QED
  BY <1>2, <1>3, FS_Product, ConnectorAssumption DEF Row

\* What a snapshot holds can be counted.
LEMMA HeldIsCounted ==
  ASSUME NEW H \in SUBSET ((Batches \cup {Carry}) \X Row)
  PROVE  IsFiniteSet(H) /\ Cardinality(H) \in Nat
BY FiniteRows, FS_Subset, FS_CardinalityType

\* There are at most as many rows as keys when each key comes once.
LEMMA RowsPerKey ==
  ASSUME NEW R \in SUBSET Row, \A p, q \in R : p[1] = q[1] => p = q
  PROVE  IsFiniteSet(R) /\ Cardinality(R) \in Nat /\ Cardinality(R) <= Cardinality(Keys)
<1> DEFINE f == [r \in R |-> r[1]]
<1>1. f \in Injection(R, Keys)
  BY DEF Injection, IsInjective, Row
<1> HIDE DEF f
<1>2. IsFiniteSet(R) /\ Cardinality(R) <= Cardinality(Keys)
  BY <1>1, FS_Injection, ConnectorAssumption
<1> QED
  BY <1>2, FS_CardinalityType

\* The records can be counted.
LEMMA RecordedIsCounted ==
  IsFiniteSet(Recorded) /\ Cardinality(Recorded) \in Nat
<1>1. IsFiniteSet(Ids)
  BY LastSnapshotAssumption, FS_Interval DEF Ids
<1> QED
  BY <1>1, FS_Subset, FS_CardinalityType DEF Recorded

\* A record that is made now is a record.
LEMMA FreshType == Fresh \in Rec /\ Fresh.created = Cardinality(Recorded)
BY RecordedIsCounted DEF Fresh, Rec, Recorded

\* The carry finds its source: a snapshot other than the one loaded, or 0.
LEMMA NewestIsNewest ==
  ASSUME TypeOK, Dated, NEW s \in Ids
  PROVE  /\ Others(s) = {} => NewestCommitted(s) = 0
         /\ Others(s) # {} =>
              /\ NewestCommitted(s) \in Others(s)
              /\ \A u \in Others(s) : rec[u].created <= rec[NewestCommitted(s)].created
<1> DEFINE others == Others(s)
<1>1. CASE others = {}
  BY <1>1 DEF NewestCommitted, Others
<1>2. CASE others # {}
  <2> DEFINE T == {rec[u].created : u \in others}
  <2>1. \A u \in others : rec[u].created \in Nat /\ rec[u].created <= Cardinality(Recorded)
    BY RecordedIsCounted DEF TypeOK, WarehouseTypeOK, Rec, Dated, Recorded, Others
  <2>2. T \in SUBSET Nat /\ T # {} /\ \A x \in T : x <= Cardinality(Recorded)
    BY <1>2, <2>1
  <2>3. PICK x \in T : \A y \in T : y <= x
    <3> HIDE DEF T
    <3> QED BY <2>2, Greatest, RecordedIsCounted
  <2>4. \E t \in others : \A u \in others : rec[u].created <= rec[t].created
    BY <2>3
  <2> QED
    BY <1>2, <2>4 DEF NewestCommitted, Others
<1> QED
  BY <1>1, <1>2

\* The source of a carry is a snapshot, or 0, and never the snapshot itself.
LEMMA SourceType ==
  ASSUME TypeOK, Dated, NEW s \in Ids
  PROVE  Source(s) \in (Ids \ {s}) \cup {0}
<1>1. NewestCommitted(s) \in (Ids \ {s}) \cup {0}
  BY NewestIsNewest DEF Others
<1> QED
  BY <1>1 DEF Source, TypeOK, WarehouseTypeOK

\* The next watermark is a value of the column, at least every row's that was read.
LEMMA BestIsBest ==
  ASSUME TypeOK, NEW c \in Connectors
  PROVE  /\ Best(c) \in Versions
         /\ Best(c) \in {r[2] : r \in got[c]} \cup {state[c]}
         /\ \A r \in got[c] : r[2] <= Best(c)
<1> DEFINE T == {r[2] : r \in got[c]} \cup {state[c]}
<1>1. T \in SUBSET Nat /\ T # {} /\ T \subseteq Versions /\ \A x \in T : x <= MaxChanges
  BY ConnectorAssumption DEF TypeOK, Versions, Row
<1>2. PICK x \in T : \A y \in T : y <= x
  <2> HIDE DEF T
  <2> QED BY <1>1, Greatest, ConnectorAssumption
<1>3. \A r \in got[c] : r[2] <= x
  BY <1>2
<1>4. Best(c) \in T /\ \A r \in got[c] : r[2] <= Best(c)
  BY <1>2, <1>3 DEF Best
<1> QED
  BY <1>1, <1>4

\* What a connector reads has each key at most once, in the source's version.
LEMMA AnswerType ==
  ASSUME TypeOK, NEW c \in Connectors
  PROVE  /\ Answer(c) \in SUBSET Row
         /\ \A p, q \in Answer(c) : p[1] = q[1] => p = q
BY DEF Answer, Row, TypeOK

-----------------------------------------------------------------------------
(* What the store calls do. *)

\* A call about s leaves the other records, and makes or changes that of s
\* without dating it anew.
RecordKept(s) ==
  /\ rec' \in [Ids -> Rec \cup {NoRec}]
  /\ rec'[s] \in Rec
  /\ rec'[s].created = RecordOf(s).created
  /\ \A t \in Ids \ {s} : rec'[t] = rec[t]

\* The record a call finds, or makes, is a record; one made is not committed
\* and carries no label.
LEMMA RecordOfType ==
  ASSUME TypeOK, NEW s \in Ids
  PROVE  /\ RecordOf(s) \in Rec
         /\ rec[s] # NoRec => RecordOf(s) = rec[s]
         /\ rec[s] = NoRec => /\ RecordOf(s).created = Cardinality(Recorded)
                              /\ RecordOf(s).carriedFrom = NoLabel
                              /\ RecordOf(s).committed = FALSE
BY FreshType DEF RecordOf, Fresh, TypeOK, WarehouseTypeOK

\* write puts one batch in the place of that number.
LEMMA WriteEffect ==
  ASSUME TypeOK, NEW s \in Ids, NEW b \in Batches, NEW R \in SUBSET Row, Write(s, b, R)
  PROVE  /\ held' \in [Ids -> SUBSET ((Batches \cup {Carry}) \X Row)]
         /\ held'[s] = {x \in held[s] : x[1] # b} \cup ({b} \X R)
         /\ \A t \in Ids \ {s} : held'[t] = held[t]
         /\ RecordKept(s)
         /\ rec'[s].committed = RecordOf(s).committed
         /\ rec'[s].carriedFrom = RecordOf(s).carriedFrom
         /\ served' = served
<1>1. RecordOf(s) \in Rec
  BY RecordOfType
<1> DEFINE new == [RecordOf(s) EXCEPT !.stale = @ \/ RecordOf(s).carriedFrom # NoLabel]
<1>2. /\ new \in Rec
      /\ new.created = RecordOf(s).created
      /\ new.committed = RecordOf(s).committed
      /\ new.carriedFrom = RecordOf(s).carriedFrom
  BY <1>1 DEF Rec
<1>3. rec' = [rec EXCEPT ![s] = new]
  BY DEF Write
<1> HIDE DEF new
<1>4. /\ RecordKept(s)
      /\ rec'[s] = new
  BY <1>2, <1>3 DEF RecordKept, TypeOK, WarehouseTypeOK
<1>5. /\ held' = [held EXCEPT ![s] = {x \in held[s] : x[1] # b} \cup ({b} \X R)]
      /\ served' = served
  BY DEF Write
<1>6. held[s] \in SUBSET ((Batches \cup {Carry}) \X Row)
  BY DEF TypeOK, WarehouseTypeOK
<1>7. {x \in held[s] : x[1] # b} \cup ({b} \X R) \in SUBSET ((Batches \cup {Carry}) \X Row)
  BY <1>6
<1>8. held \in [Ids -> SUBSET ((Batches \cup {Carry}) \X Row)]
  BY DEF TypeOK, WarehouseTypeOK
<1>9. /\ held' \in [Ids -> SUBSET ((Batches \cup {Carry}) \X Row)]
      /\ held'[s] = {x \in held[s] : x[1] # b} \cup ({b} \X R)
      /\ \A t \in Ids \ {s} : held'[t] = held[t]
  BY <1>5, <1>7, <1>8
<1> QED
  BY <1>2, <1>4, <1>5, <1>9

\* What the carry leaves under s: its own batches and what survives of the source.
Merged(s) ==
  {x \in held[s] : x[1] # Carry}
    \cup ({Carry} \X (IF Source(s) = 0 THEN {} ELSE Survivors(Source(s), s)))

\* carryForward keeps the batches and puts the survivors beside them.
LEMMA CarryEffect ==
  ASSUME TypeOK, Dated, NEW s \in Ids, CarryForward(s)
  PROVE  /\ ~CarryRefused(s)
         /\ held' \in [Ids -> SUBSET ((Batches \cup {Carry}) \X Row)]
         /\ held'[s] = Merged(s)
         /\ \A t \in Ids \ {s} : held'[t] = held[t]
         /\ RecordKept(s)
         /\ rec'[s].committed = RecordOf(s).committed
         /\ rec'[s].carriedFrom = Source(s)
         /\ served' = served
<1>1. RecordOf(s) \in Rec /\ Source(s) \in (Ids \ {s}) \cup {0}
  BY RecordOfType, SourceType
<1>2. held \in [Ids -> SUBSET ((Batches \cup {Carry}) \X Row)]
  BY DEF TypeOK, WarehouseTypeOK
<1>3. Source(s) # 0 => Survivors(Source(s), s) \in SUBSET Row
  <2>1. \A t \in Ids : RowsOf(t) \in SUBSET Row
    BY <1>2 DEF RowsOf
  <2> QED
    BY <1>1, <2>1 DEF Survivors
<1>4. Merged(s) \in SUBSET ((Batches \cup {Carry}) \X Row)
  BY <1>2, <1>3 DEF Merged
<1>5. Cardinality(Merged(s)) \in Nat
  BY <1>4, HeldIsCounted
<1>6. /\ held' = [held EXCEPT ![s] = Merged(s)]
      /\ rec' = [rec EXCEPT ![s] =
           [RecordOf(s) EXCEPT !.carriedFrom = Source(s), !.stale = FALSE,
                               !.rowCount = Cardinality(Merged(s))]]
      /\ served' = served
      /\ ~CarryRefused(s)
  BY DEF CarryForward, Merged
<1> DEFINE new == [RecordOf(s) EXCEPT !.carriedFrom = Source(s), !.stale = FALSE,
                                      !.rowCount = Cardinality(Merged(s))]
<1>7. /\ new \in Rec
      /\ new.created = RecordOf(s).created
      /\ new.committed = RecordOf(s).committed
      /\ new.carriedFrom = Source(s)
  <2> HIDE DEF Merged
  <2> QED BY <1>1, <1>5 DEF Rec
<1>8. rec' = [rec EXCEPT ![s] = new]
  BY <1>6
<1> HIDE DEF new
<1>9. /\ RecordKept(s)
      /\ rec'[s] = new
  BY <1>7, <1>8 DEF RecordKept, TypeOK, WarehouseTypeOK
<1>10. /\ held' \in [Ids -> SUBSET ((Batches \cup {Carry}) \X Row)]
       /\ held'[s] = Merged(s)
       /\ \A t \in Ids \ {s} : held'[t] = held[t]
  BY <1>2, <1>4, <1>6
<1> QED
  BY <1>6, <1>7, <1>9, <1>10

\* commit serves the snapshot and marks its record.
LEMMA CommitEffect ==
  ASSUME TypeOK, NEW s \in Ids, Commit(s)
  PROVE  /\ held' = held
         /\ RecordKept(s)
         /\ rec'[s].committed = TRUE
         /\ rec'[s].carriedFrom = RecordOf(s).carriedFrom
         /\ served' = s
<1>1. RecordOf(s) \in Rec
  BY RecordOfType
<1>2. Cardinality(held[s]) \in Nat
  BY HeldIsCounted DEF TypeOK, WarehouseTypeOK
<1> DEFINE new == [RecordOf(s) EXCEPT !.rowCount = Cardinality(held[s]), !.committed = TRUE]
<1>3. /\ new \in Rec
      /\ new.created = RecordOf(s).created
      /\ new.committed = TRUE
      /\ new.carriedFrom = RecordOf(s).carriedFrom
  BY <1>1, <1>2 DEF Rec
<1>4. /\ rec' = [rec EXCEPT ![s] = new]
      /\ served' = s /\ held' = held
  BY DEF Commit
<1> HIDE DEF new
<1>5. /\ RecordKept(s)
      /\ rec'[s] = new
  BY <1>3, <1>4 DEF RecordKept, TypeOK, WarehouseTypeOK
<1> QED
  BY <1>3, <1>4, <1>5

\* A call about s adds s to the records and keeps their dates in bounds.
LEMMA KeptIsDated ==
  ASSUME TypeOK, Dated, NEW s \in Ids, RecordKept(s)
  PROVE  /\ Recorded' = Recorded \cup {s}
         /\ Cardinality(Recorded') \in Nat
         /\ Cardinality(Recorded) <= Cardinality(Recorded')
         /\ Dated'
<1>1. Recorded' = Recorded \cup {s}
  BY SentinelAssumption DEF Recorded, RecordKept
<1>2. /\ Cardinality(Recorded \cup {s}) =
           IF s \in Recorded THEN Cardinality(Recorded) ELSE Cardinality(Recorded) + 1
      /\ Cardinality(Recorded) \in Nat
  BY RecordedIsCounted, FS_AddElement
<1>3. ASSUME NEW t \in Recorded'
      PROVE  rec'[t].created < Cardinality(Recorded')
  <2>1. CASE t \in Recorded
    <3>1. rec'[t].created = rec[t].created
      BY <2>1, RecordOfType DEF RecordKept, Recorded
    <3>2. rec[t].created \in Nat /\ rec[t].created < Cardinality(Recorded)
      BY <2>1 DEF Dated, Recorded, TypeOK, WarehouseTypeOK, Rec
    <3> QED
      BY <1>1, <1>2, <3>1, <3>2
  <2>2. CASE t \notin Recorded
    <3>1. t = s /\ rec[s] = NoRec
      BY <1>1, <2>2 DEF Recorded
    <3>2. rec'[s].created = Cardinality(Recorded)
      BY <3>1, RecordOfType DEF RecordKept
    <3> QED
      BY <1>1, <1>2, <2>2, <3>1, <3>2
  <2> QED
    BY <2>1, <2>2
<1>4. Dated'
  BY <1>3 DEF Dated
<1>5. Cardinality(Recorded') = Cardinality(Recorded \cup {s})
  BY <1>1
<1> QED
  BY <1>1, <1>2, <1>4, <1>5

-----------------------------------------------------------------------------
(* Types. *)

Places == {"idle", "read", "append", "carry", "commit", "save", "finish"}

LEMMA InitTypes == Init => TypeInv
<1> SUFFICES ASSUME Init PROVE TypeInv
  OBVIOUS
<1>1. Cardinality(Keys) \in Nat /\ Cardinality(Keys) # 0
  BY ConnectorAssumption, FS_CardinalityType, FS_EmptySet
<1>2. 1 \in Batches
  BY <1>1 DEF Batches
<1>3. WarehouseTypeOK(Batches, Row)
  BY DEF Init, WarehouseInit, WarehouseTypeOK, Ids
<1>4. TypeOK
  BY <1>2, <1>3, ConnectorAssumption DEF Init, TypeOK, Versions
<1>5. Numbered /\ Dated
  BY DEF Init, WarehouseInit, Numbered, Dated, Recorded
<1> QED
  BY <1>4, <1>5 DEF TypeInv

\* An attempt given up, to be made again or not, keeps the types.
LEMMA GivenUpTypes ==
  ASSUME TypeInv, NEW c \in Connectors, pc[c] # "idle",
         Retry(c) \/ EndRun(c),
         UNCHANGED <<warehouse, source, runs, state>>
  PROVE  TypeInv'
<1>1. Cardinality(Keys) \in Nat /\ Cardinality(Keys) # 0 /\ 1 \in Batches
  BY ConnectorAssumption, FS_CardinalityType, FS_EmptySet DEF Batches
<1>2. WarehouseTypeOK(Batches, Row)' /\ Dated'
  BY DEF TypeInv, TypeOK, WarehouseTypeOK, warehouse, Dated, Recorded
<1>3. CASE EndRun(c)
  <2>1. TypeOK'
    BY <1>1, <1>2, <1>3, ConnectorAssumption
    DEF TypeInv, TypeOK, EndRun, Goto, warehouse, source
  <2>2. Numbered'
    BY <1>3 DEF TypeInv, TypeOK, Numbered, EndRun, Goto
  <2> QED
    BY <1>2, <2>1, <2>2 DEF TypeInv
<1>4. CASE Retry(c) /\ tries[c] < MaxRetries
  <2>1. tries' \in [Connectors -> 0 .. MaxRetries]
    BY <1>4, ConnectorAssumption DEF TypeInv, TypeOK, Retry
  <2>2. TypeOK'
    BY <1>2, <1>4, <2>1 DEF TypeInv, TypeOK, Retry, Goto, warehouse, source
  <2>3. Numbered'
    BY <1>4 DEF TypeInv, TypeOK, Numbered, Retry, Goto
  <2> QED
    BY <1>2, <2>2, <2>3 DEF TypeInv
<1> QED
  BY <1>3, <1>4 DEF Retry

\* Each step of the source and of a run keeps the types.
LEMMA SourceTypes ==
  ASSUME TypeInv, NEW k \in Keys, SourceWrite(k) \/ SourceDelete(k)
  PROVE  TypeInv'
<1>1. clock' \in Versions /\ src' \in [Keys -> Versions]
  BY ConnectorAssumption DEF TypeInv, TypeOK, SourceWrite, SourceDelete, Versions
<1>2. UNCHANGED <<warehouse, runs, state, process>>
  BY DEF SourceWrite, SourceDelete
<1>3. TypeOK'
  BY <1>1, <1>2 DEF TypeInv, TypeOK, WarehouseTypeOK, warehouse, process
<1>4. Numbered' /\ Dated'
  BY <1>2 DEF TypeInv, Numbered, Dated, Recorded, warehouse, process
<1> QED
  BY <1>3, <1>4 DEF TypeInv

LEMMA StartTypes ==
  ASSUME TypeInv, NEW c \in Connectors, StartRun(c)
  PROVE  TypeInv'
<1>1. runs' \in Ids /\ run' \in [Connectors -> Ids \cup {0}] /\ run'[c] \in Ids
  BY LastSnapshotAssumption DEF TypeInv, TypeOK, StartRun, Ids
<1>2. WarehouseTypeOK(Batches, Row)' /\ Dated'
  BY DEF TypeInv, TypeOK, WarehouseTypeOK, StartRun, warehouse, Dated, Recorded
<1>3. TypeOK'
  BY <1>1, <1>2, ConnectorAssumption DEF TypeInv, TypeOK, StartRun, Goto, warehouse, source
<1>4. Numbered'
  BY <1>1 DEF TypeInv, TypeOK, Numbered, StartRun, Goto
<1> QED
  BY <1>2, <1>3, <1>4 DEF TypeInv

LEMMA ReadTypes ==
  ASSUME TypeInv, NEW c \in Connectors, Read(c)
  PROVE  TypeInv'
<1>1. Cardinality(Keys) \in Nat /\ Cardinality(Keys) # 0 /\ 1 \in Batches
  BY ConnectorAssumption, FS_CardinalityType, FS_EmptySet DEF Batches
<1>2. WarehouseTypeOK(Batches, Row)' /\ Dated'
  BY DEF TypeInv, TypeOK, WarehouseTypeOK, Read, warehouse, Dated, Recorded
<1>3. Answer(c) \in SUBSET Row /\ \A p, q \in Answer(c) : p[1] = q[1] => p = q
  BY AnswerType DEF TypeInv
<1>4. /\ got' = [got EXCEPT ![c] = Answer(c)]
      /\ batch' = [batch EXCEPT ![c] = 1]
      /\ \E p \in {"carry", "append"} : pc' = [pc EXCEPT ![c] = p]
      /\ pc[c] = "read"
      /\ UNCHANGED <<source, runs, state, run, tries>>
  BY DEF Read, Goto
<1>5. TypeOK'
  BY <1>1, <1>2, <1>3, <1>4 DEF TypeInv, TypeOK, source
<1>6. Numbered'
  BY <1>1, <1>3, <1>4 DEF TypeInv, TypeOK, Numbered
<1> QED
  BY <1>2, <1>5, <1>6 DEF TypeInv

\* A batch that is not the last has a number below that of the keys.
LEMMA BatchesSuffice ==
  ASSUME NEW n \in Nat, NEW m \in Nat, NEW b \in Nat \ {0}, NEW k \in Nat,
         n * b < m, m <= k
  PROVE  n < k
<1>1. n * b >= n
  OBVIOUS
<1> QED
  BY <1>1

LEMMA AppendTypes ==
  ASSUME TypeInv, NEW c \in Connectors, AppendBatch(c)
  PROVE  TypeInv'
<1>1. /\ run[c] \in Ids /\ batch[c] \in Batches /\ pc[c] = "append"
      /\ Write(run[c], batch[c], Batch(c, batch[c]))
      /\ batch' = [batch EXCEPT ![c] = batch[c] + 1]
      /\ UNCHANGED <<source, runs, state, run, tries, got>>
  BY DEF TypeInv, Numbered, AppendBatch
<1>2. Batch(c, batch[c]) \in SUBSET Row
  BY DEF TypeInv, TypeOK, Batch
<1>3. WarehouseTypeOK(Batches, Row)' /\ RecordKept(run[c])
  BY <1>1, <1>2, WriteEffect DEF TypeInv, TypeOK, WarehouseTypeOK, RecordKept
<1>4. Dated'
  BY <1>1, <1>3, KeptIsDated DEF TypeInv
<1>5. Cardinality(Keys) \in Nat
  BY ConnectorAssumption, FS_CardinalityType
<1>6. \E p \in Places \ {"idle"} :
        /\ pc' = [pc EXCEPT ![c] = p]
        /\ p = "append" => batch[c] * BatchSize < Cardinality(got[c])
  <2> DEFINE p == IF batch[c] * BatchSize < Cardinality(got[c]) THEN "append"
                  ELSE IF c \in Incremental THEN "carry" ELSE "commit"
  <2>1. pc' = [pc EXCEPT ![c] = p]
    BY DEF AppendBatch, Goto
  <2>2. p \in Places \ {"idle"} /\ (p = "append" => batch[c] * BatchSize < Cardinality(got[c]))
    BY DEF Places
  <2> QED
    BY <2>1, <2>2
<1>7. /\ batch' \in [Connectors -> Batches \cup {Cardinality(Keys) + 1}]
      /\ pc'[c] = "append" => batch'[c] \in Batches
  <2>1. batch[c] + 1 \in Batches \cup {Cardinality(Keys) + 1}
    BY <1>1, <1>5 DEF Batches
  <2>2. /\ Cardinality(got[c]) \in Nat /\ Cardinality(got[c]) <= Cardinality(Keys)
    BY RowsPerKey DEF TypeInv, TypeOK, Numbered
  <2>3. pc'[c] = "append" => batch[c] < Cardinality(Keys)
    <3>1. pc'[c] = "append" => batch[c] * BatchSize < Cardinality(got[c])
      BY <1>6 DEF TypeInv, TypeOK
    <3>2. batch[c] \in Nat
      BY <1>1 DEF Batches
    <3> QED
      BY <1>5, <2>2, <3>1, <3>2, BatchesSuffice, ConnectorAssumption
  <2> QED
    BY <1>1, <1>5, <2>1, <2>3 DEF TypeInv, TypeOK, Batches
<1>8. TypeOK'
  BY <1>1, <1>3, <1>6, <1>7 DEF TypeInv, TypeOK, Places, source
<1>9. Numbered'
  BY <1>1, <1>6, <1>7 DEF TypeInv, TypeOK, Numbered
<1> QED
  BY <1>4, <1>8, <1>9 DEF TypeInv

LEMMA CarryTypes ==
  ASSUME TypeInv, NEW c \in Connectors, CarryRest(c)
  PROVE  TypeInv'
<1>1. run[c] \in Ids /\ CarryForward(run[c]) /\ pc' = [pc EXCEPT ![c] = "commit"]
  BY DEF TypeInv, Numbered, CarryRest, Goto
<1>2. WarehouseTypeOK(Batches, Row)' /\ RecordKept(run[c])
  BY <1>1, CarryEffect DEF TypeInv, TypeOK, WarehouseTypeOK, RecordKept
<1>3. Dated'
  BY <1>1, <1>2, KeptIsDated DEF TypeInv
<1>4. TypeOK'
  BY <1>1, <1>2 DEF TypeInv, TypeOK, CarryRest, source
<1>5. Numbered'
  BY <1>1 DEF TypeInv, TypeOK, Numbered, CarryRest
<1> QED
  BY <1>3, <1>4, <1>5 DEF TypeInv

LEMMA CommitTypes ==
  ASSUME TypeInv, NEW c \in Connectors, CommitRun(c)
  PROVE  TypeInv'
<1>1. /\ run[c] \in Ids /\ Commit(run[c])
      /\ \E p \in {"save", "finish"} : pc' = [pc EXCEPT ![c] = p]
  BY DEF TypeInv, Numbered, CommitRun, Goto
<1>2. WarehouseTypeOK(Batches, Row)' /\ RecordKept(run[c])
  BY <1>1, CommitEffect DEF TypeInv, TypeOK, WarehouseTypeOK, RecordKept
<1>3. Dated'
  BY <1>1, <1>2, KeptIsDated DEF TypeInv
<1>4. TypeOK'
  BY <1>1, <1>2 DEF TypeInv, TypeOK, CommitRun, source
<1>5. Numbered'
  BY <1>1 DEF TypeInv, TypeOK, Numbered, CommitRun
<1> QED
  BY <1>3, <1>4, <1>5 DEF TypeInv

LEMMA SaveTypes ==
  ASSUME TypeInv, NEW c \in Connectors, SaveConnectorState(c)
  PROVE  TypeInv'
<1>1. Best(c) \in Versions
  BY BestIsBest DEF TypeInv
<1>2. WarehouseTypeOK(Batches, Row)' /\ Dated'
  BY DEF TypeInv, TypeOK, WarehouseTypeOK, SaveConnectorState, warehouse, Dated, Recorded
<1>3. TypeOK'
  BY <1>1, <1>2 DEF TypeInv, TypeOK, SaveConnectorState, Goto, warehouse, source
<1>4. Numbered'
  BY DEF TypeInv, TypeOK, Numbered, SaveConnectorState, Goto
<1> QED
  BY <1>2, <1>3, <1>4 DEF TypeInv

LEMMA StutterTypes ==
  ASSUME TypeInv, UNCHANGED vars
  PROVE  TypeInv'
BY DEF TypeInv, TypeOK, WarehouseTypeOK, Numbered, Dated, Recorded, vars

\* Whatever the steps are, the state keeps its types.
LEMMA NextTypes ==
  ASSUME TypeInv, [Next]_vars
  PROVE  TypeInv'
<1>1. ASSUME NEW k \in Keys, SourceWrite(k) \/ SourceDelete(k) PROVE TypeInv'
  BY <1>1, SourceTypes
<1>2. ASSUME NEW c \in Connectors, FinishRun(c) \/ Crash(c) \/ TimedOut(c) \/ Refused(c)
      PROVE  TypeInv'
  BY <1>2, GivenUpTypes DEF FinishRun, Crash, TimedOut, Refused
<1>3. ASSUME NEW c \in Connectors, StartRun(c) \/ Advance(c) PROVE TypeInv'
  BY <1>2, <1>3, StartTypes, ReadTypes, AppendTypes, CarryTypes, CommitTypes, SaveTypes
  DEF Advance
<1> QED
  BY <1>1, <1>2, <1>3, StutterTypes DEF Next

\* In every behaviour, for every value of the constants: staged rows, records,
\* watermarks and the state of the runs keep their types; the carry always finds
\* its source, the watermark its value, and no run numbers more batches than
\* there are keys.
THEOREM TypeCorrect == Spec => []TypeOK
<1>1. TypeInv => TypeOK
  BY DEF TypeInv
<1> QED
  BY <1>1, InitTypes, NextTypes, PTL DEF Spec

-----------------------------------------------------------------------------
(* Runs of one type never overlap: what the carry merges from stands still. *)

\* One run is on at a time, and it has the latest snapshot.
OneAtWork ==
  \A c \in Connectors : pc[c] # "idle" =>
    /\ run[c] = runs
    /\ \A d \in Connectors : pc[d] # "idle" => d = c

\* Snapshots come into being in the order of their runs, by their first write.
InOrder ==
  /\ \A s \in Recorded : s <= runs
  /\ \A s \in Ids : rec[s] = NoRec => held[s] = {}
  /\ \A s, t \in Recorded : s < t => rec[s].created < rec[t].created

\* Readers get the committed snapshot of the latest run that has one.
ServedIsLast ==
  /\ served # 0 => rec[served] # NoRec /\ rec[served].committed
  /\ \A s \in Recorded : rec[s].committed => served # 0 /\ s <= served

Labelled(s) == rec[s] # NoRec /\ rec[s].carriedFrom # NoLabel

Carried(s) == {x \in held[s] : x[1] = Carry}

\* Once a run has carried, its record names the source a new carry would take;
\* it is not about to commit, and is not served, before.
LabelStands ==
  \A c \in Connectors :
    /\ pc[c] = "carry" => c \in Incremental
    /\ c \in Incremental /\ pc[c] # "idle" =>
         /\ Labelled(run[c]) =>
              /\ rec[run[c]].carriedFrom = Source(run[c])
              /\ Source(run[c]) = 0 => Carried(run[c]) = {}
         /\ ~Labelled(run[c]) => pc[c] # "commit" /\ served # run[c]

SerialInv == TypeInv /\ OneAtWork /\ InOrder /\ ServedIsLast /\ LabelStands

LastOther(s) ==
  /\ Others(s) = {} => Source(s) = 0
  /\ Others(s) # {} => Source(s) \in Others(s) /\ \A u \in Others(s) : u <= Source(s)

LastOthers == \A s \in Ids : LastOther(s)

\* The source of a carry is the last committed snapshot besides the one loaded,
\* whether that one is served or not.
LEMMA SourceIsLast == TypeInv /\ InOrder /\ ServedIsLast => LastOthers
<1> SUFFICES ASSUME TypeInv, InOrder, ServedIsLast, NEW s \in Ids
             PROVE  LastOther(s)
  BY DEF LastOthers
<1>1. /\ Others(s) = {} => NewestCommitted(s) = 0
      /\ Others(s) # {} => /\ NewestCommitted(s) \in Others(s)
                           /\ \A u \in Others(s) : u <= NewestCommitted(s)
  <2>1. CASE Others(s) = {}
    BY <2>1, NewestIsNewest DEF TypeInv
  <2>2. CASE Others(s) # {}
    <3> DEFINE n == NewestCommitted(s)
    <3>1. n \in Others(s) /\ \A u \in Others(s) : rec[u].created <= rec[n].created
      BY <2>2, NewestIsNewest DEF TypeInv
    <3> HIDE DEF n
    <3>2. ASSUME NEW u \in Others(s), ~ (u <= n) PROVE FALSE
      <4>1. u \in Recorded /\ n \in Recorded /\ u \in Nat /\ n \in Nat /\ n < u
        BY <3>1, <3>2, LastSnapshotAssumption DEF Others, Recorded, Ids
      <4>2. rec[n].created < rec[u].created
        BY <4>1 DEF InOrder
      <4>3. rec[n].created \in Nat /\ rec[u].created \in Nat
        BY <4>1 DEF Recorded, TypeInv, TypeOK, WarehouseTypeOK, Rec
      <4> QED
        BY <3>1, <4>2, <4>3
    <3> QED
      BY <2>2, <3>1, <3>2 DEF n
  <2> QED
    BY <2>1, <2>2
<1>2. CASE served \notin {0, s}
  <2>1. served \in Others(s) /\ \A u \in Others(s) : u <= served
    BY <1>2 DEF ServedIsLast, Others, Recorded, TypeInv, TypeOK, WarehouseTypeOK
  <2> QED
    BY <1>2, <2>1 DEF Source, LastOther
<1>3. CASE served \in {0, s}
  BY <1>1, <1>3 DEF Source, LastOther
<1> QED
  BY <1>2, <1>3

\* So it stays the same while no other record changes.
LEMMA SourceKept ==
  ASSUME TypeInv, InOrder, ServedIsLast, TypeInv', InOrder', ServedIsLast',
         NEW s \in Ids, \A t \in Ids \ {s} : rec'[t] = rec[t]
  PROVE  Source(s)' = Source(s)
<1>1. Others(s)' = Others(s)
  BY DEF Others
<1> DEFINE m == Source(s)
           n == Source(s)'
<1>2. /\ Others(s) = {} => m = 0
      /\ Others(s) # {} => m \in Others(s) /\ \A u \in Others(s) : u <= m
  BY SourceIsLast DEF LastOthers, LastOther
<1>3. /\ Others(s)' = {} => n = 0
      /\ Others(s)' # {} => n \in Others(s)' /\ \A u \in Others(s)' : u <= n
  <2>1. LastOthers'
    BY SourceIsLast, PTL
  <2> QED
    BY <2>1 DEF LastOthers, LastOther
<1> HIDE DEF m, n
<1>4. CASE Others(s) = {}
  BY <1>1, <1>2, <1>3, <1>4 DEF m, n
<1>5. CASE Others(s) # {}
  <2>1. m \in Others(s) /\ n \in Others(s) /\ m <= n /\ n <= m
    BY <1>1, <1>2, <1>3, <1>5
  <2>2. m \in Int /\ n \in Int
    BY <2>1 DEF Others, Ids
  <2> QED
    BY <2>1, <2>2 DEF m, n
<1> QED
  BY <1>4, <1>5

\* A store call of the run that is on keeps the order of snapshots, and what is
\* served is still the last one committed.
LEMMA CallKeepsOrder ==
  ASSUME TypeInv, TypeInv', InOrder, ServedIsLast, NEW s \in Ids, s = runs, runs' = runs,
         RecordKept(s), \A t \in Ids \ {s} : held'[t] = held[t],
         \/ served' = served /\ rec'[s].committed = RecordOf(s).committed
         \/ served' = s /\ rec'[s].committed = TRUE
  PROVE  /\ InOrder'
         /\ ServedIsLast'
         /\ Source(s)' = Source(s)
         /\ served' = served => (Labelled(s)' <=> rec'[s].carriedFrom # NoLabel)
<1>1. Recorded' = Recorded \cup {s} /\ rec'[s] # NoRec
  BY KeptIsDated, SentinelAssumption DEF TypeInv, RecordKept
<1>2. \A t \in Recorded : t \in Nat /\ t <= s
  BY DEF InOrder, Recorded, Ids
<1>3. ASSUME NEW t \in Recorded', NEW u \in Recorded', t < u
      PROVE  rec'[t].created < rec'[u].created
  <2>1. t \in Recorded /\ t # s
    BY <1>1, <1>2, <1>3 DEF Ids
  <2>2. rec'[t] = rec[t] /\ rec[t].created < Cardinality(Recorded)
    BY <2>1 DEF RecordKept, Recorded, TypeInv, Dated
  <2>3. CASE u \in Recorded
    <3>1. rec'[u].created = rec[u].created
      BY <2>3, RecordOfType DEF RecordKept, Recorded, TypeInv
    <3> QED
      BY <1>3, <2>1, <2>2, <2>3, <3>1 DEF InOrder
  <2>4. CASE u \notin Recorded
    <3>1. u = s /\ rec[s] = NoRec
      BY <1>1, <2>4 DEF Recorded
    <3> QED
      BY <2>2, <3>1, RecordOfType DEF RecordKept, TypeInv
  <2> QED
    BY <2>3, <2>4
<1>4. InOrder'
  <2>1. \A t \in Recorded' : t <= runs'
    BY <1>1, <1>2 DEF Ids
  <2>2. \A t \in Ids : rec'[t] = NoRec => held'[t] = {}
    BY <1>1 DEF RecordKept, InOrder
  <2> QED
    BY <1>3, <2>1, <2>2 DEF InOrder
<1>5. ServedIsLast'
  <2>1. CASE served' = served /\ rec'[s].committed = RecordOf(s).committed
    <3>1. ASSUME NEW t \in Recorded', rec'[t].committed
          PROVE  t \in Recorded /\ rec[t].committed
      BY <1>1, <2>1, <3>1, RecordOfType DEF RecordKept, Recorded, TypeInv
    <3>2. served # 0 => rec'[served] # NoRec /\ rec'[served].committed
      <4>1. served # 0 => served \in Ids /\ rec[served] # NoRec /\ rec[served].committed
        BY DEF ServedIsLast, TypeInv, TypeOK, WarehouseTypeOK
      <4> QED
        BY <1>1, <2>1, <4>1, RecordOfType DEF RecordKept, TypeInv
    <3> QED
      BY <2>1, <3>1, <3>2 DEF ServedIsLast
  <2>2. CASE served' = s /\ rec'[s].committed = TRUE
    BY <1>1, <1>2, <2>2 DEF ServedIsLast, Ids
  <2> QED
    BY <2>1, <2>2
<1>6. Source(s)' = Source(s)
  BY <1>4, <1>5, SourceKept DEF RecordKept
<1> QED
  BY <1>1, <1>4, <1>5, <1>6 DEF Labelled

\* Whatever leaves the warehouse and the number of runs alone leaves the order alone.
LEMMA QuietKeepsOrder ==
  ASSUME TypeInv, TypeInv', InOrder, ServedIsLast, UNCHANGED <<warehouse, runs>>
  PROVE  /\ InOrder'
         /\ ServedIsLast'
         /\ \A s \in Ids : /\ Source(s)' = Source(s)
                           /\ Labelled(s)' <=> Labelled(s)
                           /\ Carried(s)' = Carried(s)
<1>1. InOrder' /\ ServedIsLast'
  BY DEF InOrder, ServedIsLast, Recorded, warehouse
<1> QED
  BY <1>1, SourceKept DEF warehouse, Labelled, Carried

LEMMA InitSerial == Init => SerialInv
<1> SUFFICES ASSUME Init PROVE SerialInv
  OBVIOUS
<1> QED
  BY InitTypes
  DEF Init, WarehouseInit, SerialInv, OneAtWork, InOrder, ServedIsLast, LabelStands,
      Recorded

\* The runs stand where they stood, or one that was on ended, or went on without
\* calling the store.
LEMMA QuietSerial ==
  ASSUME SerialInv, TypeInv', UNCHANGED <<warehouse, runs>>,
         \/ UNCHANGED <<pc, run>>
         \/ \E c \in Connectors :
              /\ pc[c] # "idle"
              /\ \/ run' = run
                 \/ pc'[c] = "idle" /\ \E r \in Ids \cup {0} : run' = [run EXCEPT ![c] = r]
              /\ \E p \in Places : /\ pc' = [pc EXCEPT ![c] = p]
                                   /\ p = "carry" => c \in Incremental
                                   /\ p # "commit"
  PROVE  SerialInv'
<1>1. /\ InOrder' /\ ServedIsLast'
      /\ \A s \in Ids : /\ Source(s)' = Source(s)
                        /\ Labelled(s)' <=> Labelled(s)
                        /\ Carried(s)' = Carried(s)
  BY QuietKeepsOrder DEF SerialInv
<1>2. ASSUME NEW d \in Connectors
      PROVE  /\ pc'[d] # "idle" => pc[d] # "idle" /\ run'[d] = run[d] /\ run[d] \in Ids
             /\ pc'[d] = "carry" => d \in Incremental
             /\ pc'[d] = "commit" => pc[d] = "commit"
  BY DEF SerialInv, TypeInv, TypeOK, Numbered, Places, LabelStands
<1>3. OneAtWork'
  BY <1>2 DEF SerialInv, OneAtWork
<1>4. LabelStands'
  <2>1. rec' = rec /\ served' = served
    BY DEF warehouse
  <2> QED
    BY <1>1, <1>2, <2>1 DEF SerialInv, LabelStands
<1> QED
  BY <1>1, <1>3, <1>4 DEF SerialInv

LEMMA StartSerial ==
  ASSUME SerializedByType, SerialInv, TypeInv', NEW c \in Connectors, StartRun(c)
  PROVE  SerialInv'
<1>1. /\ \A d \in Connectors : pc[d] = "idle"
      /\ runs' = runs + 1 /\ runs \in Nat /\ runs' \in Ids
      /\ run'[c] = runs + 1
      /\ pc' = [pc EXCEPT ![c] = "read"]
      /\ UNCHANGED warehouse
  BY LastSnapshotAssumption DEF StartRun, Goto, SerialInv, TypeInv, TypeOK, Ids
<1>2. \A d \in Connectors : pc'[d] # "idle" => d = c /\ pc'[d] = "read"
  BY <1>1 DEF SerialInv, TypeInv, TypeOK
<1>3. OneAtWork'
  BY <1>1, <1>2 DEF OneAtWork
<1>4. rec' = rec /\ held' = held /\ served' = served
  BY <1>1 DEF warehouse
<1>5. InOrder'
  <2>1. \A s \in Recorded : s <= runs + 1
    BY <1>1 DEF SerialInv, InOrder, Recorded, Ids
  <2> QED
    BY <1>1, <1>4, <2>1 DEF SerialInv, InOrder, Recorded
<1>6. ServedIsLast'
  BY <1>4 DEF SerialInv, ServedIsLast, Recorded
<1>7. rec[runs + 1] = NoRec
  BY <1>1 DEF SerialInv, InOrder, Recorded, Ids
<1>8. LabelStands'
  <2>1. ~Labelled(run[c])'
    BY <1>1, <1>4, <1>7 DEF Labelled
  <2>2. served' # run'[c]
    BY <1>1, <1>4, <1>7 DEF SerialInv, ServedIsLast
  <2> QED
    BY <1>2, <2>1, <2>2 DEF LabelStands
<1> QED
  BY <1>3, <1>5, <1>6, <1>8 DEF SerialInv

LEMMA AppendSerial ==
  ASSUME SerialInv, TypeInv', NEW c \in Connectors, AppendBatch(c)
  PROVE  SerialInv'
<1>0. PICK s \in Ids : s = run[c]
  BY DEF SerialInv, TypeInv, Numbered, AppendBatch
<1>1. /\ s = run[c] /\ s = runs /\ batch[c] \in Batches /\ pc[c] = "append"
      /\ Write(s, batch[c], Batch(c, batch[c]))
      /\ Batch(c, batch[c]) \in SUBSET Row
      /\ runs' = runs /\ run' = run
  BY <1>0 DEF SerialInv, TypeInv, TypeOK, Numbered, OneAtWork, AppendBatch, Batch
<1>2. /\ held'[s] = {x \in held[s] : x[1] # batch[c]} \cup ({batch[c]} \X Batch(c, batch[c]))
      /\ \A t \in Ids \ {s} : held'[t] = held[t]
      /\ RecordKept(s)
      /\ rec'[s].committed = RecordOf(s).committed
      /\ rec'[s].carriedFrom = RecordOf(s).carriedFrom
      /\ served' = served
  BY <1>1, WriteEffect DEF SerialInv, TypeInv
<1>3. /\ InOrder' /\ ServedIsLast'
      /\ Source(s)' = Source(s)
      /\ Labelled(s)' <=> rec'[s].carriedFrom # NoLabel
  BY <1>1, <1>2, CallKeepsOrder DEF SerialInv
<1>4. Labelled(s)' <=> Labelled(s)
  BY <1>1, <1>2, <1>3, RecordOfType DEF Labelled, SerialInv, TypeInv
<1>5. Carried(s)' = Carried(s)
  <2>1. batch[c] # Carry
    BY <1>1, ConnectorAssumption, FS_CardinalityType DEF Batches, Carry
  <2> QED
    BY <1>2, <2>1 DEF Carried
<1>6. /\ \A d \in Connectors \ {c} : pc'[d] = pc[d] /\ pc[d] = "idle"
      /\ pc'[c] \in {"append", "carry", "commit"}
      /\ pc'[c] = "carry" => c \in Incremental
      /\ pc'[c] = "commit" => c \notin Incremental
  BY <1>1 DEF AppendBatch, Goto, SerialInv, TypeInv, TypeOK, OneAtWork
<1>7. OneAtWork'
  BY <1>1, <1>6 DEF SerialInv, OneAtWork
<1>8. LabelStands'
  <2>1. Labelled(s) => rec'[s].carriedFrom = rec[s].carriedFrom
    BY <1>1, <1>2, RecordOfType DEF Labelled, SerialInv, TypeInv
  <2>2. ASSUME c \in Incremental
        PROVE  /\ Labelled(s)' => /\ rec'[s].carriedFrom = Source(s)'
                                  /\ Source(s)' = 0 => Carried(s)' = {}
               /\ ~Labelled(s)' => pc'[c] # "commit" /\ served' # s
    BY <1>1, <1>2, <1>3, <1>4, <1>5, <1>6, <2>1, <2>2 DEF SerialInv, LabelStands
  <2> QED
    BY <1>1, <1>6, <2>2 DEF LabelStands
<1> QED
  BY <1>3, <1>7, <1>8 DEF SerialInv

LEMMA CarrySerial ==
  ASSUME SerialInv, TypeInv', NEW c \in Connectors, CarryRest(c)
  PROVE  SerialInv'
<1>0. PICK s \in Ids : s = run[c]
  BY DEF SerialInv, TypeInv, Numbered, CarryRest
<1>1. /\ s = run[c] /\ s = runs /\ pc[c] = "carry"
      /\ CarryForward(s)
      /\ runs' = runs /\ run' = run
      /\ pc' = [pc EXCEPT ![c] = "commit"]
  BY <1>0 DEF SerialInv, TypeInv, Numbered, OneAtWork, CarryRest, Goto
<1>2. /\ held'[s] = Merged(s)
      /\ \A t \in Ids \ {s} : held'[t] = held[t]
      /\ RecordKept(s)
      /\ rec'[s].committed = RecordOf(s).committed
      /\ rec'[s].carriedFrom = Source(s)
      /\ served' = served
  BY <1>1, CarryEffect DEF SerialInv, TypeInv
<1>3. /\ InOrder' /\ ServedIsLast'
      /\ Source(s)' = Source(s)
      /\ Labelled(s)' <=> rec'[s].carriedFrom # NoLabel
  BY <1>1, <1>2, CallKeepsOrder DEF SerialInv
<1>4. Source(s) # NoLabel
  <2>1. Source(s) \in Nat
    BY SourceType DEF Ids, SerialInv, TypeInv
  <2> QED
    BY <2>1, SentinelAssumption
<1>5. Source(s) = 0 => Carried(s)' = {}
  BY <1>2 DEF Carried, Merged
<1>6. /\ \A d \in Connectors \ {c} : pc'[d] = pc[d] /\ pc[d] = "idle"
      /\ pc'[c] = "commit"
  BY <1>1 DEF SerialInv, TypeInv, TypeOK, OneAtWork
<1>7. OneAtWork'
  BY <1>1, <1>6 DEF SerialInv, OneAtWork
<1>8. LabelStands'
  <2>1. /\ Labelled(s)' /\ rec'[s].carriedFrom = Source(s)'
        /\ Source(s)' = 0 => Carried(s)' = {}
    BY <1>2, <1>3, <1>4, <1>5
  <2> QED
    BY <1>1, <1>6, <2>1 DEF LabelStands
<1> QED
  BY <1>3, <1>7, <1>8 DEF SerialInv

LEMMA CommitSerial ==
  ASSUME SerialInv, TypeInv', NEW c \in Connectors, CommitRun(c)
  PROVE  SerialInv'
<1>0. PICK s \in Ids : s = run[c]
  BY DEF SerialInv, TypeInv, Numbered, CommitRun
<1>1. /\ s = run[c] /\ s = runs /\ pc[c] = "commit"
      /\ Commit(s)
      /\ runs' = runs /\ run' = run
      /\ \E p \in {"save", "finish"} : pc' = [pc EXCEPT ![c] = p]
  BY <1>0 DEF SerialInv, TypeInv, Numbered, OneAtWork, CommitRun, Goto
<1>2. /\ held' = held
      /\ RecordKept(s)
      /\ rec'[s].committed = TRUE
      /\ rec'[s].carriedFrom = RecordOf(s).carriedFrom
      /\ served' = s
  BY <1>1, CommitEffect DEF SerialInv, TypeInv
<1>3. /\ InOrder' /\ ServedIsLast'
      /\ Source(s)' = Source(s)
  BY <1>1, <1>2, CallKeepsOrder DEF SerialInv
<1>4. /\ \A d \in Connectors \ {c} : pc'[d] = pc[d] /\ pc[d] = "idle"
      /\ pc'[c] \in {"save", "finish"}
  BY <1>1 DEF SerialInv, TypeInv, TypeOK, OneAtWork
<1>5. OneAtWork'
  BY <1>1, <1>4 DEF SerialInv, OneAtWork
<1>6. LabelStands'
  <2>1. ASSUME c \in Incremental
        PROVE  /\ Labelled(s)' /\ rec'[s].carriedFrom = Source(s)'
               /\ Source(s)' = 0 => Carried(s)' = {}
    <3>1. /\ Labelled(s) /\ rec[s].carriedFrom = Source(s)
          /\ Source(s) = 0 => Carried(s) = {}
      BY <1>1, <2>1 DEF SerialInv, LabelStands
    <3>2. rec'[s].carriedFrom = rec[s].carriedFrom /\ rec'[s] # NoRec
      BY <1>1, <1>2, <3>1, RecordOfType, SentinelAssumption
      DEF Labelled, RecordKept, SerialInv, TypeInv
    <3>3. Carried(s)' = Carried(s)
      BY <1>1, <1>2 DEF Carried
    <3> QED
      BY <1>1, <1>3, <3>1, <3>2, <3>3 DEF Labelled
  <2> QED
    BY <1>1, <1>4, <2>1 DEF LabelStands
<1> QED
  BY <1>3, <1>5, <1>6 DEF SerialInv

\* With one run of the type at a time, every step keeps the order.
LEMMA NextSerial ==
  ASSUME SerializedByType, SerialInv, [Next]_vars
  PROVE  SerialInv'
<1>1. TypeInv'
  BY NextTypes DEF SerialInv
<1>2. ASSUME \/ UNCHANGED vars
             \/ \E k \in Keys : SourceWrite(k) \/ SourceDelete(k)
      PROVE  SerialInv'
  <2>1. UNCHANGED <<warehouse, runs>> /\ UNCHANGED <<pc, run>>
    BY <1>2 DEF vars, SourceWrite, SourceDelete, process, warehouse
  <2> QED
    BY <1>1, <2>1, QuietSerial
<1>3. ASSUME NEW c \in Connectors, pc[c] # "idle", Retry(c) \/ EndRun(c),
             UNCHANGED <<warehouse, source, runs, state>>
      PROVE  SerialInv'
  <2>1. \/ /\ run' = run /\ pc' = [pc EXCEPT ![c] = "read"]
        \/ /\ run' = [run EXCEPT ![c] = 0] /\ pc' = [pc EXCEPT ![c] = "idle"]
    BY <1>3 DEF Retry, EndRun, Goto
  <2>2. pc'[c] \in {"read", "idle"}
    BY <2>1 DEF SerialInv, TypeInv, TypeOK
  <2> QED
    BY <1>1, <1>3, <2>1, <2>2, QuietSerial DEF Places, SerialInv, TypeInv, TypeOK
<1>4. ASSUME NEW c \in Connectors, FinishRun(c) \/ Crash(c) \/ TimedOut(c) \/ Refused(c)
      PROVE  SerialInv'
  BY <1>3, <1>4 DEF FinishRun, Crash, TimedOut, Refused
<1>5. ASSUME NEW c \in Connectors, Read(c) \/ SaveConnectorState(c)
      PROVE  SerialInv'
  <2>1. \E p \in Places : /\ pc' = [pc EXCEPT ![c] = p]
                          /\ p = "carry" => c \in Incremental
                          /\ p # "commit"
    BY <1>5 DEF Read, SaveConnectorState, Goto, Places
  <2>2. pc[c] # "idle" /\ run' = run /\ UNCHANGED <<warehouse, runs>>
    BY <1>5 DEF Read, SaveConnectorState
  <2> QED
    BY <1>1, <2>1, <2>2, QuietSerial
<1>6. ASSUME NEW c \in Connectors, StartRun(c) \/ Advance(c) PROVE SerialInv'
  BY <1>1, <1>4, <1>5, <1>6, StartSerial, AppendSerial, CarrySerial, CommitSerial DEF Advance
<1> QED
  BY <1>2, <1>4, <1>6 DEF Next

\* While the runs of a type do not overlap, and however its source changes under
\* them, the carry of an attempt made again after its own commit is not refused:
\* the store resolves the same source it recorded.
THEOREM ReplayNeverRefusedHolds ==
  ASSUME SerializedByType
  PROVE  Spec => []ReplayNeverRefused
<1>1. SerialInv => ReplayNeverRefused
  <2> SUFFICES ASSUME SerialInv, NEW c \in Connectors, pc[c] = "carry", CarryRefused(run[c])
               PROVE  FALSE
    BY DEF ReplayNeverRefused
  <2>1. c \in Incremental /\ served = run[c]
    BY DEF SerialInv, LabelStands, CarryRefused
  <2>2. /\ rec[run[c]].carriedFrom = Source(run[c])
        /\ Source(run[c]) = 0 => Carried(run[c]) = {}
    BY <2>1 DEF SerialInv, LabelStands
  <2> QED
    BY <2>2 DEF CarryRefused, Carried
<1>2. SerialInv /\ [Next]_vars => SerialInv'
  BY NextSerial
<1> QED
  BY <1>1, <1>2, InitSerial, PTL DEF Spec

-----------------------------------------------------------------------------
(* Runs do not overlap, and the source stands still once it is read: what   *)
(* readers get is what was read.                                            *)

\* One row per key.
Unique(S) == \A x, y \in S : x[2][1] = y[2][1] => x = y

\* Where a row of A comes when A is cut into batches, and A so cut.
Slot(A, r) == 1 + Cardinality({q \in A : q[1] < r[1]}) \div BatchSize
Sliced(A) == {<<Slot(A, r), r>> : r \in A}

\* What the run itself wrote.
Loaded(s) == {x \in held[s] : x[1] # Carry}

\* Until the watermark is remembered, what is staged are batches of the read,
\* and all of them once the snapshot is labelled, committed or served.
BeforeSave(c, s) ==
  /\ Loaded(s) \subseteq Sliced(Answer(c))
  /\ pc[c] \in {"carry", "commit", "save"} \/ served = s \/ Labelled(s) =>
       Sliced(Answer(c)) \subseteq held[s]

\* After it nothing is left to read, and what is staged is as the source has it.
AfterSave(c, s) ==
  /\ c \in Incremental
  /\ served = s
  /\ Answer(c) = {}
  /\ Unique(Loaded(s))
  /\ \A x \in Loaded(s) : src[x[2][1]] = x[2][2]

LoadStands(c, s) ==
  /\ ~HasRead(c) => rec[s] = NoRec
  /\ HasRead(c) => BeforeSave(c, s) \/ AfterSave(c, s)
  /\ pc[c] \in {"append", "carry", "commit", "save"} => got[c] = Answer(c)
  /\ pc[c] = "append" =>
       /\ c \in Incremental => got[c] # {}
       /\ \A x \in Sliced(got[c]) : x[1] < batch[c] => x \in held[s]
  /\ pc[c] = "save" => c \in Incremental
  /\ pc[c] \in {"save", "finish"} => served = s

\* What is carried is what survives of the source the record names.
CarryStands(c, s) ==
  Carried(s) = IF c \in Incremental /\ Labelled(s) /\ Source(s) # 0
                 THEN {Carry} \X Survivors(Source(s), s) ELSE {}

RunStands ==
  \A c \in Connectors, s \in Ids :
    pc[c] # "idle" /\ s = run[c] => LoadStands(c, s) /\ CarryStands(c, s)

\* Every committed snapshot has one row per key.
OneCopy == \A s \in Recorded : rec[s].committed => Unique(held[s])

\* No watermark and no row is ahead of the clock, and what lies behind a
\* watermark is served, whether a run is on or not.
Covered ==
  /\ \A c \in Connectors : state[c] <= clock
  /\ \A k \in Keys : src[k] <= clock
  /\ \A c \in Incremental, k \in Keys : src[k] \in 1 .. state[c] => <<k, src[k]>> \in View

StillInv == SerialInv /\ RunStands /\ OneCopy /\ Covered

\* The rows of the source that a connector reads.
LEMMA AnswerRows ==
  ASSUME TypeInv, NEW c \in Connectors
  PROVE  /\ \A r \in Answer(c) : r \in Row /\ src[r[1]] = r[2] /\ r = <<r[1], src[r[1]]>>
         /\ \A k \in Keys :
              <<k, src[k]>> \in Answer(c) <=>
                src[k] > (IF c \in Incremental THEN state[c] ELSE 0)
<1>1. \A r \in Row : r = <<r[1], r[2]>> /\ r[1] \in Keys /\ r[2] \in Versions \ {0}
  BY DEF Row
<1>2. \A k \in Keys : src[k] \in Versions
  BY DEF TypeInv, TypeOK
<1>3. state[c] \in Versions /\ Versions \subseteq Nat
  BY DEF TypeInv, TypeOK, Versions
<1>4. ASSUME NEW k \in Keys, src[k] > (IF c \in Incremental THEN state[c] ELSE 0)
      PROVE  <<k, src[k]>> \in Row
  <2>1. src[k] \in Nat /\ state[c] \in Nat
    BY <1>2, <1>3
  <2>2. src[k] # 0
    BY <1>4, <2>1
  <2> QED
    BY <1>2, <2>1, <2>2 DEF Row
<1> QED
  BY <1>1, <1>4 DEF Answer

\* The slices of a set with each key once have each key once; every row is in
\* one, numbered from 1.
LEMMA SlicedRows ==
  ASSUME NEW A \in SUBSET Row, \A p, q \in A : p[1] = q[1] => p = q
  PROVE  /\ Unique(Sliced(A))
         /\ \A x \in Sliced(A) : x[2] \in A /\ x[1] \in Nat /\ x[1] >= 1
         /\ \A r \in A : <<Slot(A, r), r>> \in Sliced(A)
<1>1. ASSUME NEW r \in A PROVE Slot(A, r) \in Nat /\ Slot(A, r) >= 1
  <2> DEFINE n == Cardinality({q \in A : q[1] < r[1]})
  <2>1. n \in Nat
    BY RowsPerKey, FS_Subset, FS_CardinalityType
  <2> HIDE DEF n
  <2>2. n \div BatchSize \in Nat
    BY <2>1, ConnectorAssumption
  <2> QED
    BY <2>2 DEF Slot, n
<1>2. \A x \in Sliced(A) : \E r \in A : x = <<Slot(A, r), r>>
  BY DEF Sliced
<1>3. Unique(Sliced(A))
  <2> SUFFICES ASSUME NEW x \in Sliced(A), NEW y \in Sliced(A), x[2][1] = y[2][1]
               PROVE  x = y
    BY DEF Unique
  <2>1. PICK r \in A : x = <<Slot(A, r), r>>
    BY <1>2
  <2>2. PICK q \in A : y = <<Slot(A, q), q>>
    BY <1>2
  <2>3. r = q
    BY <2>1, <2>2
  <2> QED
    BY <2>1, <2>2, <2>3
<1>4. \A r \in A : <<Slot(A, r), r>> \in Sliced(A)
  BY DEF Sliced
<1>5. \A x \in Sliced(A) : x[2] \in A /\ x[1] \in Nat /\ x[1] >= 1
  BY <1>1, <1>2
<1> QED
  BY <1>3, <1>4, <1>5

\* A row before the end of n batches is in one of the first n.
LEMMA Quotient ==
  ASSUME NEW a \in Nat, NEW n \in Nat, NEW b \in Nat \ {0}, a < n * b
  PROVE  a \div b < n
<1>1. /\ a \div b \in Nat
      /\ b * (a \div b) <= a
  OBVIOUS
<1> DEFINE d == a \div b
<1> HIDE DEF d
<1>2. ASSUME d >= n PROVE FALSE
  <2>1. d \in Nat /\ b * d <= a
    BY <1>1 DEF d
  <2>2. b * d >= b * n
    BY <1>2, <2>1
  <2> QED
    BY <2>1, <2>2
<1> QED
  BY <1>1, <1>2 DEF d

LEMMA LastSlot ==
  ASSUME NEW A \in SUBSET Row, \A p, q \in A : p[1] = q[1] => p = q,
         NEW n \in Nat, Cardinality(A) <= n * BatchSize
  PROVE  \A x \in Sliced(A) : x[1] <= n
<1> SUFFICES ASSUME NEW r \in A PROVE Slot(A, r) <= n
  BY DEF Sliced
<1> DEFINE B == {q \in A : q[1] < r[1]}
<1>1. r \notin B /\ B \in SUBSET A
  <2>1. r[1] \in Nat
    BY ConnectorAssumption DEF Row
  <2>2. ~ (r[1] < r[1])
    BY <2>1
  <2> QED
    BY <2>2
<1>2. IsFiniteSet(A) /\ Cardinality(A) \in Nat
  BY RowsPerKey
<1>3. Cardinality(B) \in Nat /\ Cardinality(B) < Cardinality(A)
  <2> HIDE DEF B
  <2>1. IsFiniteSet(B) /\ Cardinality(B) <= Cardinality(A) /\ (Cardinality(A) = Cardinality(B) => A = B)
    BY <1>1, <1>2, FS_Subset
  <2>2. Cardinality(B) \in Nat
    BY <2>1, FS_CardinalityType
  <2> QED
    BY <1>1, <1>2, <2>1, <2>2
<1>4. n * BatchSize \in Nat
  BY ConnectorAssumption
<1>5. Cardinality(B) \div BatchSize < n
  <2> HIDE DEF B
  <2> QED BY <1>2, <1>3, <1>4, Quotient, ConnectorAssumption
<1>6. Cardinality(B) \div BatchSize \in Nat
  <2> HIDE DEF B
  <2> QED BY <1>3, ConnectorAssumption
<1> QED
  BY <1>5, <1>6 DEF Slot

\* What a run wrote has each key once, in the version the source holds.
LEMMA LoadedRows ==
  ASSUME StillInv, NEW c \in Connectors, NEW s \in Ids, s = run[c], pc[c] # "idle", HasRead(c)
  PROVE  /\ Unique(Loaded(s))
         /\ \A x \in Loaded(s) : src[x[2][1]] = x[2][2]
<1>1. CASE AfterSave(c, s)
  BY <1>1 DEF AfterSave
<1>2. CASE BeforeSave(c, s)
  <2>1. Answer(c) \in SUBSET Row /\ \A p, q \in Answer(c) : p[1] = q[1] => p = q
    BY AnswerType DEF StillInv, SerialInv, TypeInv
  <2>2. Unique(Sliced(Answer(c))) /\ \A x \in Sliced(Answer(c)) : x[2] \in Answer(c)
    BY <2>1, SlicedRows
  <2>3. \A r \in Answer(c) : src[r[1]] = r[2]
    BY AnswerRows DEF StillInv, SerialInv
  <2> QED
    BY <1>2, <2>2, <2>3 DEF BeforeSave, Unique
<1> QED
  BY <1>1, <1>2 DEF StillInv, RunStands, LoadStands

\* A step that leaves the warehouse alone leaves what was carried and what is served.
LEMMA QuietStands ==
  ASSUME StillInv, TypeInv', UNCHANGED <<warehouse, runs>>
  PROVE  /\ OneCopy'
         /\ View' = View
         /\ \A s \in Ids : /\ Loaded(s)' = Loaded(s)
                           /\ Labelled(s)' <=> Labelled(s)
                           /\ \A c \in Connectors : CarryStands(c, s) => CarryStands(c, s)'
<1>1. held' = held /\ rec' = rec /\ served' = served
  BY DEF warehouse
<1>2. OneCopy' /\ View' = View
  BY <1>1 DEF StillInv, OneCopy, Recorded, View, RowsOf
<1>3. ASSUME NEW s \in Ids
      PROVE  /\ Loaded(s)' = Loaded(s)
             /\ Labelled(s)' <=> Labelled(s)
             /\ \A c \in Connectors : CarryStands(c, s) => CarryStands(c, s)'
  <2>1. Source(s)' = Source(s) /\ (Labelled(s)' <=> Labelled(s)) /\ Carried(s)' = Carried(s)
    BY QuietKeepsOrder DEF StillInv, SerialInv
  <2>2. Survivors(Source(s), s)' = Survivors(Source(s), s)
    BY <1>1, <2>1 DEF Survivors, RowsOf, IncomingKeys
  <2>3. Loaded(s)' = Loaded(s)
    BY <1>1 DEF Loaded
  <2> QED
    BY <2>1, <2>2, <2>3 DEF CarryStands
<1> QED
  BY <1>2, <1>3

\* What a run without a record has: nothing.
LEMMA NothingYet ==
  ASSUME StillInv, NEW s \in Ids, rec[s] = NoRec
  PROVE  held[s] = {} /\ Loaded(s) = {} /\ Carried(s) = {} /\ ~Labelled(s) /\ served # s
BY DEF StillInv, SerialInv, InOrder, ServedIsLast, Loaded, Carried, Labelled, Ids

\* It is enough to show what stands for the one run that is on.
LEMMA OneRunStands ==
  ASSUME SerialInv', NEW c \in Connectors, pc'[c] # "idle",
         NEW s \in Ids, s = run'[c], LoadStands(c, s)', CarryStands(c, s)'
  PROVE  RunStands'
BY DEF SerialInv, OneAtWork, RunStands

LEMMA InitStill == Init => StillInv
<1> SUFFICES ASSUME Init PROVE StillInv
  OBVIOUS
<1>1. SerialInv
  BY InitSerial
<1>2. RunStands /\ OneCopy
  BY DEF Init, WarehouseInit, RunStands, OneCopy, Recorded
<1>3. Covered
  BY DEF Init, Covered
<1> QED
  BY <1>1, <1>2, <1>3 DEF StillInv

\* The source changes only before it is read.
LEMMA SourceStill ==
  ASSUME ~Moving, StillInv, SerialInv', NEW k \in Keys, SourceWrite(k) \/ SourceDelete(k)
  PROVE  StillInv'
<1>1. /\ UNCHANGED <<warehouse, runs>>
      /\ state' = state /\ pc' = pc /\ run' = run /\ tries' = tries /\ got' = got
      /\ \A d \in Connectors : ~HasRead(d)
  BY DEF SourceWrite, SourceDelete, MayChange, process
<1>2. /\ OneCopy' /\ View' = View
      /\ \A s \in Ids, d \in Connectors : CarryStands(d, s) => CarryStands(d, s)'
  BY <1>1, QuietStands DEF SerialInv
<1>3. RunStands'
  <2> SUFFICES ASSUME NEW d \in Connectors, NEW s \in Ids, pc'[d] # "idle", s = run'[d]
               PROVE  LoadStands(d, s)' /\ CarryStands(d, s)'
    BY DEF RunStands
  <2>1. s = run[d] /\ pc[d] # "idle"
    BY <1>1
  <2>2. ~HasRead(d)' /\ pc'[d] = "read" /\ rec'[s] = NoRec
    BY <1>1, <2>1 DEF HasRead, StillInv, RunStands, LoadStands, warehouse
  <2>3. LoadStands(d, s)'
    BY <2>2 DEF LoadStands
  <2>4. CarryStands(d, s)'
    BY <1>1, <1>2, <2>1 DEF StillInv, RunStands
  <2> QED
    BY <2>3, <2>4
<1>4. Covered'
  <2>0. /\ clock \in Nat /\ \A d \in Connectors : state[d] \in Nat
        /\ \A i \in Keys : src[i] \in Nat
    BY DEF StillInv, SerialInv, TypeInv, TypeOK, Versions
  <2>1. /\ clock' \in Nat /\ clock <= clock'
        /\ \A i \in Keys \ {k} : src'[i] = src[i]
        /\ src'[k] = 0 \/ (src'[k] = clock' /\ clock' = clock + 1)
    BY <2>0 DEF SourceWrite, SourceDelete, StillInv, SerialInv, TypeInv, TypeOK
  <2>2. (\A d \in Connectors : state'[d] <= clock') /\ (\A i \in Keys : src'[i] <= clock')
    BY <1>1, <2>0, <2>1 DEF StillInv, Covered
  <2>3. ASSUME NEW d \in Incremental, NEW i \in Keys, src'[i] \in 1 .. state'[d]
        PROVE  <<i, src'[i]>> \in View'
    <3>1. d \in Connectors /\ state[d] <= clock
      BY ConnectorAssumption DEF StillInv, Covered
    <3>2. i # k
      BY <1>1, <2>0, <2>1, <2>3, <3>1
    <3> QED
      BY <1>1, <1>2, <2>1, <2>3, <3>2 DEF StillInv, Covered
  <2> QED
    BY <2>2, <2>3 DEF Covered
<1> QED
  BY <1>2, <1>3, <1>4 DEF StillInv

LEMMA StartStill ==
  ASSUME SerializedByType, StillInv, SerialInv', NEW c \in Connectors, StartRun(c)
  PROVE  StillInv'
<1>1. /\ runs' = runs + 1 /\ runs \in Nat /\ runs' \in Ids /\ run'[c] = runs + 1
      /\ pc'[c] = "read" /\ tries'[c] = 0
      /\ held' = held /\ rec' = rec /\ served' = served
      /\ UNCHANGED <<source, state>>
  BY LastSnapshotAssumption
  DEF StartRun, Goto, StillInv, SerialInv, TypeInv, TypeOK, warehouse, Ids
<1>2. rec[runs + 1] = NoRec
  BY <1>1 DEF StillInv, SerialInv, InOrder, Recorded, Ids
<1>3. PICK s \in Ids : s = runs + 1
  BY <1>1
<1>4. LoadStands(c, s)' /\ CarryStands(c, s)'
  <2>1. ~HasRead(c)'
    BY <1>1 DEF HasRead
  <2>2. held[s] = {}
    BY <1>2, <1>3, NothingYet
  <2> QED
    BY <1>1, <1>2, <1>3, <2>1, <2>2 DEF LoadStands, CarryStands, Carried, Labelled
<1>5. RunStands'
  BY <1>1, <1>3, <1>4, OneRunStands
<1>6. OneCopy' /\ Covered'
  BY <1>1 DEF StillInv, OneCopy, Covered, Recorded, View, RowsOf, source
<1> QED
  BY <1>5, <1>6 DEF StillInv

LEMMA ReadStill ==
  ASSUME StillInv, SerialInv', NEW c \in Connectors, Read(c)
  PROVE  StillInv'
<1>0. PICK s \in Ids : s = run[c]
  BY DEF StillInv, SerialInv, TypeInv, Numbered, Read
<1>1. /\ UNCHANGED <<warehouse, runs>> /\ src' = src /\ clock' = clock /\ state' = state
      /\ run' = run /\ tries' = tries /\ pc[c] = "read"
      /\ rec' = rec /\ held' = held /\ served' = served
  BY DEF Read, source, warehouse
<1>2. /\ got'[c] = Answer(c) /\ batch'[c] = 1
      /\ pc'[c] \in {"append", "carry"}
      /\ pc'[c] = "carry" => Answer(c) = {}
      /\ pc'[c] = "append" => (c \in Incremental => Answer(c) # {})
  BY DEF Read, Goto, StillInv, SerialInv, TypeInv, TypeOK
<1>3. Answer(c)' = Answer(c)
  BY <1>1 DEF Answer
<1>4. /\ OneCopy' /\ View' = View
      /\ Loaded(s)' = Loaded(s)
      /\ Labelled(s)' <=> Labelled(s)
      /\ CarryStands(c, s) => CarryStands(c, s)'
  BY <1>1, QuietStands DEF SerialInv
<1>5. LoadStands(c, s) /\ CarryStands(c, s)
  BY <1>0, <1>1 DEF StillInv, RunStands
<1>6. BeforeSave(c, s)' \/ AfterSave(c, s)'
  <2>1. CASE ~HasRead(c)
    <3>1. rec[s] = NoRec
      BY <1>5, <2>1 DEF LoadStands
    <3>2. Loaded(s) = {} /\ ~Labelled(s) /\ served # s
      BY <3>1, NothingYet
    <3>3. pc'[c] = "carry" => Sliced(Answer(c)) = {}
      BY <1>2 DEF Sliced
    <3> QED
      BY <1>1, <1>2, <1>3, <1>4, <3>2, <3>3 DEF BeforeSave
  <2>2. CASE HasRead(c) /\ BeforeSave(c, s)
    <3>1. pc'[c] = "carry" => Sliced(Answer(c)) = {}
      BY <1>2 DEF Sliced
    <3> QED
      BY <1>1, <1>2, <1>3, <1>4, <2>2, <3>1 DEF BeforeSave
  <2>3. CASE AfterSave(c, s)
    BY <1>1, <1>3, <1>4, <2>3 DEF AfterSave
  <2> QED
    BY <1>5, <2>1, <2>2, <2>3 DEF LoadStands
<1>7. LoadStands(c, s)'
  <2>1. HasRead(c)'
    BY <1>2 DEF HasRead
  <2>2. \A x \in Sliced(Answer(c)) : ~ (x[1] < 1)
    <3>1. Answer(c) \in SUBSET Row /\ \A p, q \in Answer(c) : p[1] = q[1] => p = q
      BY AnswerType DEF StillInv, SerialInv, TypeInv
    <3> QED
      BY <3>1, SlicedRows
  <2> QED
    BY <1>2, <1>3, <1>6, <2>1, <2>2 DEF LoadStands
<1>8. RunStands'
  BY <1>0, <1>1, <1>2, <1>4, <1>5, <1>7, OneRunStands
<1>9. Covered'
  BY <1>1, <1>4 DEF StillInv, Covered
<1> QED
  BY <1>4, <1>8, <1>9 DEF StillInv

\* An attempt given up leaves what it staged, and has read.
LEMMA GivenUpStill ==
  ASSUME StillInv, SerialInv', NEW c \in Connectors, pc[c] # "idle",
         Retry(c) \/ EndRun(c),
         UNCHANGED <<warehouse, source, runs, state>>
  PROVE  StillInv'
<1>0. PICK s \in Ids : s = run[c]
  BY DEF StillInv, SerialInv, TypeInv, Numbered
<1>1. /\ UNCHANGED <<warehouse, runs>> /\ src' = src /\ clock' = clock /\ state' = state
      /\ rec' = rec /\ held' = held /\ served' = served
  BY DEF source, warehouse
<1>2. /\ OneCopy' /\ View' = View
      /\ Loaded(s)' = Loaded(s)
      /\ Labelled(s)' <=> Labelled(s)
      /\ CarryStands(c, s) => CarryStands(c, s)'
  BY <1>1, QuietStands DEF SerialInv
<1>3. Covered'
  BY <1>1, <1>2 DEF StillInv, Covered
<1>4. CASE EndRun(c)
  <2>1. \A d \in Connectors : pc'[d] = "idle"
    BY <1>4 DEF EndRun, Goto, StillInv, SerialInv, OneAtWork, TypeInv, TypeOK
  <2> QED
    BY <1>2, <1>3, <2>1 DEF RunStands, StillInv
<1>5. CASE Retry(c) /\ tries[c] < MaxRetries
  <2>1. /\ pc'[c] = "read" /\ tries'[c] = tries[c] + 1 /\ tries[c] \in Nat
        /\ run' = run
    BY <1>5 DEF Retry, Goto, StillInv, SerialInv, TypeInv, TypeOK
  <2>2. HasRead(c)'
    BY <2>1 DEF HasRead
  <2>3. LoadStands(c, s) /\ CarryStands(c, s)
    BY <1>0 DEF StillInv, RunStands
  <2>4. Answer(c)' = Answer(c)
    BY <1>1 DEF Answer
  <2>5. BeforeSave(c, s)' \/ AfterSave(c, s)'
    <3>1. CASE ~HasRead(c)
      <4>1. rec[s] = NoRec
        BY <2>3, <3>1 DEF LoadStands
      <4>2. Loaded(s) = {} /\ ~Labelled(s) /\ served # s
        BY <4>1, NothingYet
      <4> QED
        BY <1>1, <1>2, <2>1, <2>4, <4>2 DEF BeforeSave
    <3>2. CASE BeforeSave(c, s)
      BY <1>1, <1>2, <2>1, <2>4, <3>2 DEF BeforeSave
    <3>3. CASE AfterSave(c, s)
      BY <1>1, <1>2, <2>4, <3>3 DEF AfterSave
    <3> QED
      BY <2>3, <3>1, <3>2, <3>3 DEF LoadStands
  <2>6. LoadStands(c, s)'
    BY <2>1, <2>2, <2>5 DEF LoadStands
  <2>7. RunStands'
    BY <1>0, <1>2, <2>1, <2>3, <2>6, OneRunStands
  <2> QED
    BY <1>2, <1>3, <2>7 DEF StillInv
<1> QED
  BY <1>4, <1>5 DEF Retry

\* Writing a batch of the read: nothing but batches of the read is staged, one
\* more of them is, and where all were there nothing changes.
LEMMA AppendStands ==
  ASSUME StillInv, NEW c \in Connectors, NEW s \in Ids, s = run[c], AppendBatch(c)
  PROVE  /\ \A t \in Ids \ {s} : held'[t] = held[t]
         /\ Loaded(s)' \subseteq Sliced(Answer(c))
         /\ \A x \in Sliced(Answer(c)) : x[1] <= batch[c] => x \in held'[s]
         /\ Carried(s)' = Carried(s)
         /\ Sliced(Answer(c)) \subseteq held[s] => held'[s] = held[s]
         /\ served' = served
         /\ Labelled(s)' <=> Labelled(s)
         /\ Labelled(s) \/ served = s => Sliced(Answer(c)) \subseteq held[s]
<1> DEFINE b == batch[c]
           A == Answer(c)
<1>1. /\ batch[c] \in Batches /\ pc[c] = "append"
      /\ Write(s, b, Batch(c, b))
      /\ got[c] = A
      /\ Batch(c, b) \in SUBSET Row
      /\ HasRead(c)
  BY DEF StillInv, SerialInv, TypeInv, TypeOK, Numbered, AppendBatch, Batch, RunStands,
         LoadStands, HasRead
<1>2. /\ held'[s] = {x \in held[s] : x[1] # b} \cup ({b} \X Batch(c, b))
      /\ \A t \in Ids \ {s} : held'[t] = held[t]
      /\ RecordKept(s)
      /\ rec'[s].carriedFrom = RecordOf(s).carriedFrom
      /\ served' = served
  BY <1>1, WriteEffect DEF StillInv, SerialInv, TypeInv
<1>3. {b} \X Batch(c, b) = {x \in Sliced(A) : x[1] = b}
  <2>1. Batch(c, b) = {r \in A : b = Slot(A, r)}
    BY <1>1 DEF Batch, Slot
  <2> HIDE DEF A, b
  <2>2. ASSUME NEW x \in {b} \X Batch(c, b) PROVE x \in Sliced(A) /\ x[1] = b
    <3>1. PICK r \in A : x = <<b, r>> /\ b = Slot(A, r)
      BY <2>1
    <3> QED
      BY <3>1 DEF Sliced
  <2>3. ASSUME NEW x \in Sliced(A), x[1] = b PROVE x \in {b} \X Batch(c, b)
    <3>1. PICK r \in A : x = <<Slot(A, r), r>>
      BY DEF Sliced
    <3> QED
      BY <2>1, <2>3, <3>1
  <2> QED
    BY <2>2, <2>3
<1>4. /\ Loaded(s) \subseteq Sliced(A)
      /\ served = s \/ Labelled(s) => Sliced(A) \subseteq held[s]
      /\ \A x \in Sliced(A) : x[1] < b => x \in held[s]
  <2>1. LoadStands(c, s)
    BY <1>1 DEF StillInv, RunStands
  <2>2. ~AfterSave(c, s)
    BY <1>1, <2>1 DEF AfterSave, LoadStands
  <2> QED
    BY <1>1, <2>1, <2>2 DEF LoadStands, BeforeSave
<1>5. A \in SUBSET Row /\ \A p, q \in A : p[1] = q[1] => p = q
  BY AnswerType DEF StillInv, SerialInv, TypeInv
<1>6. \A x \in Sliced(A) : x[1] \in Nat /\ x[1] # Carry
  BY <1>5, SlicedRows DEF Carry
<1>7. b # Carry /\ b \in Nat
  BY <1>1 DEF Batches, Carry
<1> HIDE DEF A, b
<1>8. Loaded(s)' \subseteq Sliced(A)
  BY <1>2, <1>3, <1>4 DEF Loaded
<1>9. \A x \in Sliced(A) : x[1] <= b => x \in held'[s]
  <2> SUFFICES ASSUME NEW x \in Sliced(A), x[1] <= b PROVE x \in held'[s]
    OBVIOUS
  <2>1. CASE x[1] = b
    BY <1>2, <1>3, <2>1
  <2>2. CASE x[1] # b
    BY <1>2, <1>4, <1>6, <1>7, <2>2
  <2> QED
    BY <2>1, <2>2
<1>10. Carried(s)' = Carried(s)
  BY <1>2, <1>7 DEF Carried
<1>11. ASSUME Sliced(A) \subseteq held[s] PROVE held'[s] = held[s]
  <2>1. \A x \in held[s] : x[1] = b => x \in Sliced(A)
    BY <1>4, <1>7 DEF Loaded
  <2>2. \A x \in held[s] : x \in held'[s]
    BY <1>2, <1>3, <2>1
  <2>3. \A x \in held'[s] : x \in held[s]
    BY <1>2, <1>3, <1>11
  <2> QED
    BY <2>2, <2>3
<1>12. Labelled(s)' <=> Labelled(s)
  BY <1>2, RecordOfType, SentinelAssumption
  DEF Labelled, RecordKept, StillInv, SerialInv, TypeInv
<1> QED
  BY <1>2, <1>4, <1>8, <1>9, <1>10, <1>11, <1>12 DEF A, b

\* What readers get stays where it is when only what is not served changes.
LEMMA ViewKept ==
  ASSUME StillInv, served' = served, served # 0 => held'[served] = held[served]
  PROVE  View' = View
BY DEF View, RowsOf

LEMMA AppendStill ==
  ASSUME StillInv, SerialInv', NEW c \in Connectors, AppendBatch(c)
  PROVE  StillInv' /\ View' = View
<1>0. PICK s \in Ids : s = run[c]
  BY DEF StillInv, SerialInv, TypeInv, Numbered, AppendBatch
<1>1. /\ s = runs /\ pc[c] = "append" /\ batch[c] \in Batches /\ got[c] = Answer(c)
      /\ runs' = runs /\ run' = run /\ tries' = tries /\ got' = got
      /\ src' = src /\ clock' = clock /\ state' = state
      /\ batch'[c] = batch[c] + 1
      /\ LoadStands(c, s) /\ CarryStands(c, s)
  BY <1>0 DEF StillInv, SerialInv, TypeInv, TypeOK, Numbered, OneAtWork, AppendBatch, source,
     RunStands, LoadStands
<1>2. /\ \A t \in Ids \ {s} : held'[t] = held[t]
      /\ Loaded(s)' \subseteq Sliced(Answer(c))
      /\ \A x \in Sliced(Answer(c)) : x[1] <= batch[c] => x \in held'[s]
      /\ Carried(s)' = Carried(s)
      /\ Sliced(Answer(c)) \subseteq held[s] => held'[s] = held[s]
      /\ served' = served
      /\ Labelled(s)' <=> Labelled(s)
      /\ Labelled(s) \/ served = s => Sliced(Answer(c)) \subseteq held[s]
  BY <1>0, AppendStands
<1>3. /\ RecordKept(s) /\ rec'[s].committed = RecordOf(s).committed
      /\ Source(s)' = Source(s)
  <2>1. Write(s, batch[c], Batch(c, batch[c])) /\ Batch(c, batch[c]) \in SUBSET Row
    BY <1>0 DEF AppendBatch, Batch, StillInv, SerialInv, TypeInv, TypeOK
  <2>2. RecordKept(s) /\ rec'[s].committed = RecordOf(s).committed
    BY <1>1, <2>1, WriteEffect DEF StillInv, SerialInv, TypeInv
  <2> QED
    BY <1>1, <1>2, <2>2, CallKeepsOrder DEF StillInv, SerialInv
<1>4. View' = View
  <2>1. served # 0 => served \in Ids
    BY DEF StillInv, SerialInv, TypeInv, TypeOK, WarehouseTypeOK
  <2> QED
    BY <1>2, <2>1, ViewKept
<1>5. Covered'
  BY <1>1, <1>4 DEF StillInv, Covered
<1>6. OneCopy'
  <2> SUFFICES ASSUME NEW t \in Recorded', rec'[t].committed
               PROVE  Unique(held'[t])
    BY DEF OneCopy
  <2>1. t \in Recorded /\ rec[t].committed
    BY <1>3, RecordOfType DEF RecordKept, Recorded, StillInv, SerialInv, TypeInv
  <2>2. CASE t # s
    BY <1>2, <2>1, <2>2 DEF StillInv, OneCopy, Recorded
  <2>3. CASE t = s
    <3>1. served = s
      <4>1. served # 0 /\ s <= served /\ served \in Recorded
        BY <2>1, <2>3 DEF StillInv, SerialInv, ServedIsLast, Recorded, TypeInv, TypeOK,
           WarehouseTypeOK
      <4>2. served <= s
        BY <1>1, <4>1 DEF StillInv, SerialInv, InOrder
      <4> QED
        BY <4>1, <4>2 DEF Recorded, Ids
    <3> QED
      BY <1>2, <2>1, <2>3, <3>1 DEF StillInv, OneCopy
  <2> QED
    BY <2>2, <2>3
<1>7. Answer(c)' = Answer(c)
  BY <1>1 DEF Answer
<1>8. /\ pc'[c] \in {"append", "carry", "commit"}
      /\ pc'[c] # "append" => Cardinality(got[c]) <= batch[c] * BatchSize
  <2>0. batch[c] \in Nat
    BY <1>1 DEF Batches
  <2>1. Cardinality(got[c]) \in Nat /\ batch[c] * BatchSize \in Nat
    <3>1. Cardinality(got[c]) \in Nat
      BY RowsPerKey DEF StillInv, SerialInv, TypeInv, TypeOK, Numbered
    <3>2. batch[c] * BatchSize \in Nat
      BY <2>0, ConnectorAssumption
    <3> QED
      BY <3>1, <3>2
  <2>2. /\ pc'[c] \in {"append", "carry", "commit"}
        /\ pc'[c] # "append" => ~ (batch[c] * BatchSize < Cardinality(got[c]))
    BY DEF AppendBatch, Goto, StillInv, SerialInv, TypeInv, TypeOK
  <2> QED
    BY <2>1, <2>2
<1>9. pc'[c] # "append" => Sliced(Answer(c)) \subseteq held'[s]
  <2>1. ASSUME pc'[c] # "append" PROVE \A x \in Sliced(Answer(c)) : x[1] <= batch[c]
    <3>1. Answer(c) \in SUBSET Row /\ \A p, q \in Answer(c) : p[1] = q[1] => p = q
      BY AnswerType DEF StillInv, SerialInv, TypeInv
    <3>2. batch[c] \in Nat
      BY <1>1 DEF Batches
    <3> QED
      BY <1>1, <1>8, <2>1, <3>1, <3>2, LastSlot
  <2> QED
    BY <1>2, <2>1
<1>10. LoadStands(c, s)'
  <2>1. HasRead(c)'
    BY <1>8 DEF HasRead
  <2>2. BeforeSave(c, s)'
    <3>1. Labelled(s)' \/ served' = s => Sliced(Answer(c)) \subseteq held'[s]
      BY <1>2
    <3> QED
      BY <1>2, <1>7, <1>8, <1>9, <3>1 DEF BeforeSave
  <2>3. ASSUME NEW x \in Sliced(Answer(c)), x[1] < batch'[c] PROVE x \in held'[s]
    <3>1. Answer(c) \in SUBSET Row /\ \A p, q \in Answer(c) : p[1] = q[1] => p = q
      BY AnswerType DEF StillInv, SerialInv, TypeInv
    <3>2. x[1] \in Nat /\ batch[c] \in Nat
      BY <1>1, <3>1, SlicedRows DEF Batches
    <3> QED
      BY <1>1, <1>2, <2>3, <3>2
  <2> QED
    BY <1>1, <1>7, <1>8, <2>1, <2>2, <2>3 DEF LoadStands
<1>11. CarryStands(c, s)'
  <2>1. ASSUME Labelled(s), Source(s) # 0 
        PROVE  Survivors(Source(s), s)' = Survivors(Source(s), s)
    <3>1. Source(s) \in Ids \ {s}
      BY <2>1, SourceType DEF StillInv, SerialInv, TypeInv
    <3>2. held'[s] = held[s] /\ held'[Source(s)] = held[Source(s)]
      BY <1>2, <2>1, <3>1
    <3> QED
      BY <1>3, <3>2 DEF Survivors, RowsOf, IncomingKeys
  <2> QED
    BY <1>1, <1>2, <1>3, <2>1 DEF CarryStands
<1>12. RunStands'
  BY <1>0, <1>1, <1>8, <1>10, <1>11, OneRunStands
<1> QED
  BY <1>4, <1>5, <1>6, <1>12 DEF StillInv

\* A carry made again into a labelled snapshot changes nothing.
LEMMA CarryStill ==
  ASSUME StillInv, SerialInv', NEW c \in Connectors, CarryRest(c)
  PROVE  StillInv' /\ View' = View
<1>0. PICK s \in Ids : s = run[c]
  BY DEF StillInv, SerialInv, TypeInv, Numbered, CarryRest
<1>1. /\ s = runs /\ pc[c] = "carry" /\ c \in Incremental
      /\ runs' = runs /\ run' = run /\ tries' = tries /\ got' = got /\ got[c] = Answer(c)
      /\ src' = src /\ clock' = clock /\ state' = state
      /\ pc'[c] = "commit"
      /\ LoadStands(c, s) /\ CarryStands(c, s)
      /\ CarryForward(s)
  BY <1>0 DEF StillInv, SerialInv, TypeInv, TypeOK, OneAtWork, LabelStands, CarryRest, Goto,
     source, RunStands, LoadStands
<1>2. /\ held'[s] = Merged(s)
      /\ \A t \in Ids \ {s} : held'[t] = held[t]
      /\ RecordKept(s)
      /\ rec'[s].committed = RecordOf(s).committed
      /\ rec'[s].carriedFrom = Source(s)
      /\ served' = served
  BY <1>1, CarryEffect DEF StillInv, SerialInv, TypeInv
<1>3. /\ Source(s)' = Source(s)
      /\ Labelled(s)'
      /\ Source(s) \in (Ids \ {s}) \cup {0}
  <2>1. Source(s)' = Source(s) /\ (Labelled(s)' <=> rec'[s].carriedFrom # NoLabel)
    BY <1>1, <1>2, CallKeepsOrder DEF StillInv, SerialInv
  <2>2. Source(s) \in (Ids \ {s}) \cup {0} /\ Source(s) \in Nat
    BY SourceType DEF Ids, StillInv, SerialInv, TypeInv
  <2> QED
    BY <1>2, <2>1, <2>2, SentinelAssumption
<1>4. /\ Loaded(s)' = Loaded(s)
      /\ Carried(s)' = {Carry} \X (IF Source(s) = 0 THEN {} ELSE Survivors(Source(s), s))
  BY <1>2 DEF Merged, Loaded, Carried
<1>5. Labelled(s) => held'[s] = held[s]
  <2>1. ASSUME Labelled(s) PROVE Merged(s) = Loaded(s) \cup Carried(s)
    BY <1>1, <2>1 DEF Merged, Loaded, CarryStands
  <2>2. Loaded(s) \cup Carried(s) = held[s]
    BY DEF Loaded, Carried
  <2> QED
    BY <1>2, <2>1, <2>2
<1>6. served = s => Labelled(s)
  BY <1>0, <1>1 DEF StillInv, SerialInv, LabelStands
<1>7. View' = View
  <2>1. served # 0 => served \in Ids
    BY DEF StillInv, SerialInv, TypeInv, TypeOK, WarehouseTypeOK
  <2> QED
    BY <1>2, <1>5, <1>6, <2>1, ViewKept
<1>8. Covered'
  BY <1>1, <1>7 DEF StillInv, Covered
<1>9. OneCopy'
  <2> SUFFICES ASSUME NEW t \in Recorded', rec'[t].committed
               PROVE  Unique(held'[t])
    BY DEF OneCopy
  <2>1. t \in Recorded /\ rec[t].committed
    BY <1>2, RecordOfType DEF RecordKept, Recorded, StillInv, SerialInv, TypeInv
  <2>2. CASE t # s
    BY <1>2, <2>1, <2>2 DEF StillInv, OneCopy, Recorded
  <2>3. CASE t = s
    <3>1. served = s
      <4>1. served # 0 /\ s <= served /\ served \in Recorded
        BY <2>1, <2>3 DEF StillInv, SerialInv, ServedIsLast, Recorded, TypeInv, TypeOK,
           WarehouseTypeOK
      <4>2. served <= s
        BY <1>1, <4>1 DEF StillInv, SerialInv, InOrder
      <4> QED
        BY <4>1, <4>2 DEF Recorded, Ids
    <3> QED
      BY <1>5, <1>6, <2>1, <2>3, <3>1 DEF StillInv, OneCopy
  <2> QED
    BY <2>2, <2>3
<1>10. Answer(c)' = Answer(c)
  BY <1>1 DEF Answer
<1>11. LoadStands(c, s)'
  <2>1. HasRead(c)' /\ HasRead(c)
    BY <1>1 DEF HasRead
  <2>2. CASE BeforeSave(c, s)
    <3>1. \A x \in Sliced(Answer(c)) : x \in Loaded(s)
      <4>1. Sliced(Answer(c)) \subseteq held[s]
        BY <1>1, <2>2 DEF BeforeSave
      <4>2. Answer(c) \in SUBSET Row /\ \A p, q \in Answer(c) : p[1] = q[1] => p = q
        BY AnswerType DEF StillInv, SerialInv, TypeInv
      <4>3. \A x \in Sliced(Answer(c)) : x[1] >= 1 /\ x[1] \in Nat
        BY <4>2, SlicedRows
      <4> QED
        BY <4>1, <4>3 DEF Loaded, Carry
    <3>2. Sliced(Answer(c)) \subseteq held'[s]
      BY <1>4, <3>1 DEF Loaded
    <3> QED
      BY <1>1, <1>4, <1>10, <2>1, <2>2, <3>2 DEF LoadStands, BeforeSave
  <2>3. CASE AfterSave(c, s)
    BY <1>1, <1>2, <1>4, <1>10, <2>1, <2>3 DEF LoadStands, AfterSave
  <2> QED
    BY <1>1, <2>1, <2>2, <2>3 DEF LoadStands
<1>12. CarryStands(c, s)'
  <2>1. Source(s) # 0 => Survivors(Source(s), s)' = Survivors(Source(s), s)
    <3>1. Source(s) # 0 => held'[Source(s)] = held[Source(s)]
      BY <1>2, <1>3
    <3>2. IncomingKeys(s)' = IncomingKeys(s)
      BY <1>4 DEF IncomingKeys, Loaded
    <3> QED
      BY <1>3, <3>1, <3>2 DEF Survivors, RowsOf
  <2> QED
    BY <1>1, <1>3, <1>4, <2>1 DEF CarryStands
<1>13. RunStands'
  BY <1>0, <1>1, <1>11, <1>12, OneRunStands
<1> QED
  BY <1>7, <1>8, <1>9, <1>13 DEF StillInv

\* What a run is about to commit: its read, and for an incremental one whatever
\* of the snapshot served before its read does not replace.
LEMMA ReadyToCommit ==
  ASSUME StillInv, NEW c \in Connectors, NEW s \in Ids, s = run[c], pc[c] = "commit"
  PROVE  /\ Unique(held[s])
         /\ c \notin Incremental => RowsOf(s) = got[c]
         /\ \A d \in Incremental, k \in Keys :
              src[k] \in 1 .. state[d] => <<k, src[k]>> \in RowsOf(s)
<1>1. /\ LoadStands(c, s) /\ CarryStands(c, s) /\ got[c] = Answer(c) /\ HasRead(c)
      /\ c \in Incremental => Labelled(s)
  BY DEF StillInv, RunStands, LoadStands, HasRead, SerialInv, LabelStands
<1>2. Unique(Loaded(s)) /\ \A x \in Loaded(s) : src[x[2][1]] = x[2][2]
  BY <1>1, LoadedRows
<1>3. held[s] = Loaded(s) \cup Carried(s)
  BY DEF Loaded, Carried
<1>4. /\ Source(s) \in (Ids \ {s}) \cup {0}
      /\ Source(s) # 0 => Unique(held[Source(s)])
  <2>1. Source(s) \in (Ids \ {s}) \cup {0}
    BY SourceType DEF StillInv, SerialInv, TypeInv
  <2>2. Source(s) # 0 => Source(s) \in Others(s)
    BY SourceIsLast DEF LastOthers, LastOther, StillInv, SerialInv
  <2> QED
    BY <2>1, <2>2 DEF Others, StillInv, OneCopy, Recorded
<1>5. \A x \in Carried(s) :
        /\ x[1] = Carry /\ Source(s) # 0
        /\ x = <<Carry, x[2]>> /\ x[2] \in Survivors(Source(s), s)
  BY <1>1 DEF CarryStands
<1>6. Unique(held[s])
  <2> SUFFICES ASSUME NEW x \in held[s], NEW y \in held[s], x[2][1] = y[2][1]
               PROVE  x = y
    BY DEF Unique
  <2>1. CASE x \in Loaded(s) /\ y \in Loaded(s)
    BY <1>2, <2>1 DEF Unique
  <2>2. ASSUME NEW u \in Loaded(s), NEW v \in Carried(s) PROVE u[2][1] # v[2][1]
    BY <1>5 DEF Survivors, IncomingKeys, Loaded
  <2>3. CASE x \in Carried(s) /\ y \in Carried(s)
    <3>1. x[2] \in RowsOf(Source(s)) /\ y[2] \in RowsOf(Source(s)) /\ Source(s) # 0
      BY <1>5, <2>3 DEF Survivors
    <3>2. x[2] = y[2]
      BY <1>4, <3>1 DEF RowsOf, Unique
    <3> QED
      BY <1>5, <2>3, <3>2
  <2> QED
    BY <1>3, <2>1, <2>2, <2>3
<1>7. Answer(c) \in SUBSET Row /\ \A p, q \in Answer(c) : p[1] = q[1] => p = q
  BY AnswerType DEF StillInv, SerialInv, TypeInv
<1>8. ASSUME BeforeSave(c, s), NEW r \in Answer(c) PROVE r \in RowsOf(s)
  <2>1. <<Slot(Answer(c), r), r>> \in held[s]
    BY <1>7, <1>8, SlicedRows DEF BeforeSave
  <2> QED
    BY <2>1 DEF RowsOf
<1>9. ASSUME c \notin Incremental PROVE RowsOf(s) = got[c]
  <2>1. BeforeSave(c, s) /\ Carried(s) = {}
    BY <1>1, <1>9 DEF LoadStands, AfterSave, CarryStands
  <2>2. \A x \in held[s] : x[2] \in Answer(c)
    BY <1>3, <1>7, <2>1, SlicedRows DEF BeforeSave
  <2> QED
    BY <1>1, <1>8, <2>1, <2>2 DEF RowsOf
<1>10. ASSUME NEW d \in Incremental, NEW k \in Keys, src[k] \in 1 .. state[d]
       PROVE  <<k, src[k]>> \in RowsOf(s)
  <2> DEFINE r == <<k, src[k]>>
  <2>1. r \in View
    BY <1>10 DEF StillInv, Covered
  <2>2. CASE served = s
    BY <2>1, <2>2 DEF View, Ids
  <2>3. CASE served # s
    <3>1. BeforeSave(c, s)
      BY <1>1, <2>3 DEF LoadStands, AfterSave
    <3>2. CASE r \in Answer(c)
      BY <1>8, <3>1, <3>2
    <3>3. CASE r \notin Answer(c)
      <4>1. src[k] \in Nat /\ src[k] > 0
        BY <1>10 DEF StillInv, SerialInv, TypeInv, TypeOK, Versions
      <4>2. c \in Incremental
        BY <3>3, <4>1, AnswerRows DEF StillInv, SerialInv
      <4>3. served # 0 /\ Source(s) = served /\ r \in RowsOf(Source(s))
        BY <2>1, <2>3 DEF View, Source
      <4>4. k \notin IncomingKeys(s)
        <5>1. ASSUME NEW x \in Loaded(s), x[2][1] = k PROVE FALSE
          <6>1. x[2] \in Answer(c)
            BY <1>7, <3>1, SlicedRows DEF BeforeSave
          <6>2. x[2] = r
            BY <5>1, <6>1, AnswerRows DEF StillInv, SerialInv
          <6> QED
            BY <3>3, <6>1, <6>2
        <5> QED
          BY <5>1 DEF IncomingKeys, Loaded
      <4>5. r \in Survivors(Source(s), s)
        BY <4>3, <4>4 DEF Survivors
      <4>6. <<Carry, r>> \in held[s]
        BY <1>1, <1>3, <4>2, <4>3, <4>5 DEF CarryStands
      <4> QED
        BY <4>6 DEF RowsOf
    <3> QED
      BY <3>2, <3>3
  <2> QED
    BY <2>2, <2>3
<1> QED
  BY <1>6, <1>9, <1>10

LEMMA CommitStill ==
  ASSUME StillInv, SerialInv', NEW c \in Connectors, CommitRun(c)
  PROVE  StillInv'
<1>0. PICK s \in Ids : s = run[c]
  BY DEF StillInv, SerialInv, TypeInv, Numbered, CommitRun
<1>1. /\ s = runs /\ pc[c] = "commit"
      /\ runs' = runs /\ run' = run /\ tries' = tries /\ got' = got /\ got[c] = Answer(c)
      /\ src' = src /\ clock' = clock /\ state' = state
      /\ pc'[c] \in {"save", "finish"}
      /\ pc'[c] = "save" => c \in Incremental
      /\ LoadStands(c, s) /\ CarryStands(c, s)
      /\ Commit(s)
  BY <1>0 DEF StillInv, SerialInv, TypeInv, TypeOK, OneAtWork, CommitRun, Goto, Advances,
     source, RunStands, LoadStands
<1>2. /\ held' = held
      /\ RecordKept(s)
      /\ rec'[s].committed = TRUE
      /\ rec'[s].carriedFrom = RecordOf(s).carriedFrom
      /\ served' = s
  BY <1>1, CommitEffect DEF StillInv, SerialInv, TypeInv
<1>3. /\ Source(s)' = Source(s)
      /\ Labelled(s)' <=> Labelled(s)
  <2>1. Source(s)' = Source(s)
    BY <1>1, <1>2, CallKeepsOrder DEF StillInv, SerialInv
  <2> QED
    BY <1>2, <2>1, RecordOfType, SentinelAssumption
    DEF Labelled, RecordKept, StillInv, SerialInv, TypeInv
<1>4. /\ Unique(held[s])
      /\ \A d \in Incremental, k \in Keys :
           src[k] \in 1 .. state[d] => <<k, src[k]>> \in RowsOf(s)
  BY <1>0, <1>1, ReadyToCommit
<1>5. OneCopy'
  <2> SUFFICES ASSUME NEW t \in Recorded', rec'[t].committed
               PROVE  Unique(held'[t])
    BY DEF OneCopy
  <2>1. CASE t # s
    BY <1>2, <2>1 DEF RecordKept, Recorded, StillInv, OneCopy
  <2> QED
    BY <1>2, <1>4, <2>1
<1>6. Covered'
  <2>1. View' = RowsOf(s)
    BY <1>2 DEF View, RowsOf, Ids
  <2> QED
    BY <1>1, <1>4, <2>1 DEF StillInv, Covered
<1>7. Answer(c)' = Answer(c) /\ Loaded(s)' = Loaded(s) /\ Carried(s)' = Carried(s)
  BY <1>1, <1>2 DEF Answer, Loaded, Carried
<1>8. LoadStands(c, s)'
  <2>1. HasRead(c)' /\ HasRead(c)
    BY <1>1 DEF HasRead
  <2>2. BeforeSave(c, s) => BeforeSave(c, s)'
    BY <1>1, <1>2, <1>7 DEF BeforeSave
  <2>3. AfterSave(c, s) => AfterSave(c, s)'
    BY <1>1, <1>2, <1>7 DEF AfterSave
  <2> QED
    BY <1>1, <1>2, <1>7, <2>1, <2>2, <2>3 DEF LoadStands
<1>9. CarryStands(c, s)'
  <2>1. Survivors(Source(s), s)' = Survivors(Source(s), s)
    BY <1>2, <1>3 DEF Survivors, RowsOf, IncomingKeys
  <2> QED
    BY <1>1, <1>3, <1>7, <2>1 DEF CarryStands
<1>10. RunStands'
  BY <1>0, <1>1, <1>8, <1>9, OneRunStands
<1> QED
  BY <1>5, <1>6, <1>10 DEF StillInv

\* The watermark is remembered once what lies behind it is served.
LEMMA SaveStill ==
  ASSUME StillInv, SerialInv', NEW c \in Connectors, SaveConnectorState(c)
  PROVE  StillInv'
<1>0. PICK s \in Ids : s = run[c]
  BY DEF StillInv, SerialInv, TypeInv, Numbered, SaveConnectorState
<1>1. /\ UNCHANGED <<warehouse, runs>> /\ src' = src /\ clock' = clock
      /\ run' = run /\ tries' = tries /\ pc[c] = "save" /\ pc'[c] = "finish"
      /\ held' = held /\ rec' = rec /\ served' = served
      /\ state'[c] = Best(c) /\ \A d \in Connectors \ {c} : state'[d] = state[d]
      /\ LoadStands(c, s) /\ CarryStands(c, s)
      /\ got[c] = Answer(c) /\ c \in Incremental /\ served = s /\ HasRead(c)
  BY <1>0 DEF SaveConnectorState, Goto, source, warehouse, StillInv, SerialInv, TypeInv,
     TypeOK, RunStands, LoadStands, HasRead
<1>2. /\ OneCopy' /\ View' = View
      /\ Loaded(s)' = Loaded(s)
      /\ CarryStands(c, s) => CarryStands(c, s)'
  BY <1>1, QuietStands DEF SerialInv
<1>3. /\ Best(c) \in Nat /\ state[c] \in Nat /\ clock \in Nat
      /\ \A k \in Keys : src[k] \in Nat
      /\ Best(c) \in {r[2] : r \in Answer(c)} \cup {state[c]}
      /\ \A r \in Answer(c) : r[2] <= Best(c)
  BY <1>1, BestIsBest DEF StillInv, SerialInv, TypeInv, TypeOK, Versions
<1>4. /\ \A r \in Answer(c) : r \in Row /\ src[r[1]] = r[2] /\ r = <<r[1], src[r[1]]>>
      /\ \A k \in Keys : <<k, src[k]>> \in Answer(c) <=> src[k] > state[c]
  BY <1>1, AnswerRows DEF StillInv, SerialInv
<1>5. \A r \in Answer(c) : r[1] \in Keys /\ r[2] > state[c]
  BY <1>4 DEF Row
<1>6. state[c] <= Best(c) /\ Best(c) <= clock
  <2>1. CASE Best(c) = state[c]
    BY <1>3, <2>1, ConnectorAssumption DEF StillInv, Covered
  <2>2. CASE Best(c) # state[c]
    <3>1. PICK r \in Answer(c) : Best(c) = r[2]
      BY <1>3, <2>2
    <3> QED
      BY <1>3, <1>4, <1>5, <3>1 DEF StillInv, Covered
  <2> QED
    BY <2>1, <2>2
<1>7. Answer(c)' = {}
  <2> SUFFICES ASSUME NEW r \in Row, src[r[1]] = r[2], r[2] > Best(c)
               PROVE  FALSE
    BY <1>1 DEF Answer
  <2>1. r[1] \in Keys /\ r = <<r[1], src[r[1]]>>
    BY DEF Row
  <2>2. src[r[1]] > state[c]
    BY <1>3, <1>6, <2>1
  <2>3. r \in Answer(c)
    BY <1>4, <2>1, <2>2
  <2> QED
    BY <1>3, <2>1, <2>3
<1>8. AfterSave(c, s)'
  <2>1. Unique(Loaded(s)) /\ \A x \in Loaded(s) : src[x[2][1]] = x[2][2]
    BY <1>0, <1>1, LoadedRows
  <2> QED
    BY <1>1, <1>2, <1>7, <2>1 DEF AfterSave
<1>9. LoadStands(c, s)'
  BY <1>1, <1>8 DEF LoadStands, HasRead
<1>10. RunStands'
  BY <1>0, <1>1, <1>2, <1>9, OneRunStands
<1>11. Covered'
  <2>1. ASSUME NEW k \in Keys, src[k] \in 1 .. Best(c)
        PROVE  <<k, src[k]>> \in View
    <3>1. CASE src[k] <= state[c]
      BY <1>1, <1>3, <2>1, <3>1 DEF StillInv, Covered
    <3>2. CASE src[k] > state[c]
      <4>1. <<k, src[k]>> \in Answer(c)
        BY <1>4, <3>2
      <4>2. BeforeSave(c, s)
        BY <1>1, <4>1 DEF LoadStands, AfterSave
      <4>3. Answer(c) \in SUBSET Row /\ \A p, q \in Answer(c) : p[1] = q[1] => p = q
        BY AnswerType DEF StillInv, SerialInv, TypeInv
      <4>4. <<Slot(Answer(c), <<k, src[k]>>), <<k, src[k]>>>> \in held[s]
        BY <1>1, <4>1, <4>2, <4>3, SlicedRows DEF BeforeSave
      <4> QED
        BY <1>1, <4>4 DEF View, RowsOf, Ids
    <3> QED
      BY <1>3, <3>1, <3>2
  <2>2. \A d \in Connectors : state'[d] <= clock'
    BY <1>1, <1>6 DEF StillInv, Covered
  <2>3. ASSUME NEW d \in Incremental, NEW k \in Keys, src'[k] \in 1 .. state'[d]
        PROVE  <<k, src'[k]>> \in View'
    <3>1. CASE d = c
      BY <1>1, <1>2, <2>1, <2>3, <3>1
    <3>2. CASE d # c
      BY <1>1, <1>2, <2>3, <3>2, ConnectorAssumption DEF StillInv, Covered
    <3> QED
      BY <3>1, <3>2
  <2> QED
    BY <1>1, <2>2, <2>3 DEF StillInv, Covered
<1> QED
  BY <1>2, <1>10, <1>11 DEF StillInv

\* What readers get changes with a commit only, and every step keeps the rest.
LEMMA NextStill ==
  ASSUME SerializedByType, ~Moving, StillInv, [Next]_vars
  PROVE  /\ StillInv'
         /\ View' # View => \E c \in Connectors : CommitRun(c)
<1>1. SerialInv'
  BY NextSerial DEF StillInv
<1>2. UNCHANGED warehouse => View' = View
  BY DEF View, RowsOf, warehouse
<1>3. CASE UNCHANGED vars
  <2>1. UNCHANGED <<warehouse, runs>>
    BY <1>3 DEF vars, warehouse
  <2>2. /\ OneCopy' /\ View' = View
        /\ \A s \in Ids, c \in Connectors : CarryStands(c, s) => CarryStands(c, s)'
    BY <1>1, <2>1, QuietStands DEF SerialInv
  <2>3. \A s \in Ids, c \in Connectors : LoadStands(c, s) => LoadStands(c, s)'
    BY <1>3 DEF vars, LoadStands, HasRead, BeforeSave, AfterSave, Answer, Loaded, Labelled
  <2>4. Covered'
    BY <1>3, <2>2 DEF vars, StillInv, Covered
  <2>5. RunStands'
    BY <1>3, <2>2, <2>3 DEF vars, StillInv, RunStands
  <2> QED
    BY <1>1, <2>2, <2>4, <2>5 DEF StillInv
<1>4. ASSUME NEW k \in Keys, SourceWrite(k) \/ SourceDelete(k)
      PROVE  StillInv' /\ View' = View
  BY <1>1, <1>2, <1>4, SourceStill DEF SourceWrite, SourceDelete
<1>5. ASSUME NEW c \in Connectors, FinishRun(c) \/ Crash(c) \/ TimedOut(c) \/ Refused(c)
      PROVE  StillInv' /\ View' = View
  BY <1>1, <1>2, <1>5, GivenUpStill DEF FinishRun, Crash, TimedOut, Refused
<1>6. ASSUME NEW c \in Connectors, StartRun(c) \/ Read(c) \/ SaveConnectorState(c)
      PROVE  StillInv' /\ View' = View
  <2>1. UNCHANGED warehouse
    BY <1>6 DEF StartRun, Read, SaveConnectorState
  <2> QED
    BY <1>1, <1>2, <1>6, <2>1, StartStill, ReadStill, SaveStill
<1>7. ASSUME NEW c \in Connectors, AppendBatch(c) \/ CarryRest(c)
      PROVE  StillInv' /\ View' = View
  BY <1>1, <1>7, AppendStill, CarryStill
<1>8. ASSUME NEW c \in Connectors, CommitRun(c)
      PROVE  StillInv'
  BY <1>1, <1>8, CommitStill
<1> QED
  BY <1>3, <1>4, <1>5, <1>6, <1>7, <1>8 DEF Next, Advance

LEMMA SpecStill ==
  ASSUME SerializedByType, ~Moving
  PROVE  Spec => []StillInv
<1>1. StillInv /\ [Next]_vars => StillInv'
  BY NextStill
<1> QED
  BY <1>1, InitStill, PTL DEF Spec

\* While the runs of a type do not overlap and the source stands still from a
\* run's first read on, whatever crashes, retries, refusals and time-outs come
\* between: readers find each key once.
THEOREM OneRowPerKeyHolds ==
  ASSUME SerializedByType, ~Moving
  PROVE  Spec => []OneRowPerKey
<1>1. StillInv => OneRowPerKey
  BY DEF StillInv, SerialInv, ServedIsLast, OneCopy, Recorded, OneRowPerKey, Unique,
     TypeInv, TypeOK, WarehouseTypeOK
<1> QED
  BY <1>1, SpecStill, PTL

\* Under the same conditions every row behind a connector's watermark, which no
\* later run reads again, is served in the version the source holds.
THEOREM WatermarkCoveredHolds ==
  ASSUME SerializedByType, ~Moving
  PROVE  Spec => []WatermarkCovered
<1>1. StillInv => WatermarkCovered
  BY DEF StillInv, Covered, WatermarkCovered
<1> QED
  BY <1>1, SpecStill, PTL

\* What readers get changes when a run commits and at no other time: an attempt
\* made again after its commit re-sends what is already there.
THEOREM ViewMovesAtCommitHolds ==
  ASSUME SerializedByType, ~Moving
  PROVE  Spec => ViewMovesAtCommit
<1>1. StillInv /\ [Next]_vars =>
        [View' # View => \E c \in Connectors : CommitRun(c)]_vars
  BY NextStill
<1> QED
  BY <1>1, SpecStill, PTL DEF Spec, ViewMovesAtCommit

\* A full load commits exactly what its last read answered.
THEOREM FullLoadIsWhatWasReadHolds ==
  ASSUME SerializedByType, ~Moving
  PROVE  Spec => FullLoadIsWhatWasRead
<1>1. StillInv /\ [Next]_vars =>
        [\A c \in Connectors \ Incremental : CommitRun(c) => RowsOf(run[c]) = got[c]]_vars
  <2> SUFFICES ASSUME StillInv, NEW c \in Connectors \ Incremental, CommitRun(c)
               PROVE  RowsOf(run[c]) = got[c]
    OBVIOUS
  <2>1. pc[c] = "commit" /\ run[c] \in Ids
    BY DEF CommitRun, StillInv, SerialInv, TypeInv, Numbered
  <2> QED
    BY <2>1, ReadyToCommit
<1> QED
  BY <1>1, SpecStill, PTL DEF Spec, FullLoadIsWhatWasRead
=============================================================================

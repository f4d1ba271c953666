--------------------------- MODULE EvictionProofs ---------------------------
(***************************************************************************)
(* What sweeps guarantee for every number of snapshots, batches, sweeps    *)
(* and copies, whatever commits, lands or is sent again at any moment:     *)
(* types, that what is gone is archived unless it changed or went where no *)
(* check looks (unseen), and how much is left (KeepRemains).               *)
(***************************************************************************)
EXTENDS MCEviction, FiniteSetTheorems, WellFoundedInduction, TLAPS

-----------------------------------------------------------------------------
(* The inductive invariant.                                                *)

\* The rows of a load: what it has, or what the drop took.
Held(s) == IF rec[s].dropped THEN had[s] ELSE rows[s]

\* What is in hand past the look for it.
InSweep == {"ask", "shortcut", "verify", "record", "drop"}

\* A record counts the rows once it has been committed or dropped.
CountSound ==
  \A s \in Snapshots : Recorded(s) =>
    /\ rec[s].dropped => had[s] \in Content
    /\ rec[s].committed \/ rec[s].dropped => rec[s].rowCount = Cardinality(Held(s))

\* What has been copied of a load is rows it has.
CopySound ==
  \A s \in Snapshots :
    /\ part[s] # NoRec => Recorded(s)
    /\ archiving[s] # NoRec => part[s] \in {archiving[s], Rotten}
    /\ ~unseen[s] /\ part[s] \notin {NoRec, Rotten} => part[s] \subseteq Held(s)
    /\ ~unseen[s] /\ archiving[s] # NoRec => archiving[s] \subseteq Held(s)

\* A copy under way of a load whose rows are gone, or about to go, is all of it.
CopyWhole(s) == archiving[s] \in {NoRec, Held(s)}

\* What a sweep has found of the load in hand is still so.
FoundSound ==
  \A w \in Sweepers :
    /\ pc[w] \notin {"rest", "plan", "next"} =>
         tgt[w] \in Snapshots /\ Recorded(tgt[w])
    /\ pc[w] \in InSweep => found[w] # NoRec
    /\ pc[w] \in InSweep /\ ~unseen[tgt[w]] =>
         found[w].rowCount = Cardinality(Held(tgt[w]))

\* Past its verification, a sweep holds the name of an archive of all of the rows,
\* and before the drop the record names one.
VerifiedSound ==
  \A w \in Sweepers :
    /\ pc[w] \in {"record", "drop"} /\ ~unseen[tgt[w]] =>
         found[w].archive = Held(tgt[w]) /\ CopyWhole(tgt[w])
    /\ pc[w] = "drop" /\ ~unseen[tgt[w]] => rec[tgt[w]].archive = Held(tgt[w])

\* A tombstone names an archive of all of the rows.
TombstoneSound ==
  \A s \in Snapshots :
    Recorded(s) /\ rec[s].dropped /\ ~unseen[s] => rec[s].archive = had[s] /\ CopyWhole(s)

\* Candidates have records.
TodoRecorded ==
  \A w \in Sweepers, s \in Snapshots : s \in todo[w] => Recorded(s)

SweepInv ==
  /\ TypeOK /\ CountSound /\ CopySound /\ FoundSound /\ VerifiedSound
  /\ TombstoneSound /\ TodoRecorded

-----------------------------------------------------------------------------
(* Counting.                                                               *)

LEMMA ContentCount ==
  ASSUME NEW c \in Content
  PROVE  IsFiniteSet(c) /\ Cardinality(c) \in Nat
BY FS_Subset, FS_CardinalityType, EvictionFiniteness DEF Content

LEMMA NowType == Now \in Nat
BY FS_Subset, FS_CardinalityType, EvictionFiniteness DEF Now

\* A copy of as many rows as there are is a copy of all of them.
LEMMA WholeCopy ==
  ASSUME NEW c \in Content, NEW d \in Content, d \subseteq c,
         Cardinality(d) = Cardinality(c)
  PROVE  d = c
BY ContentCount, FS_Subset

\* What stands for nothing is nothing else.
LEMMA Sentinels ==
  /\ \A c \in Content : c # NoRec /\ c # NoArchive /\ c # Rotten
  /\ \A r \in Rec : r # NoRec
  /\ NoRec # Rotten
BY EvictionAssumption, NoRecAssumption

\* The count of a reference is a count of the load's rows.
LEMMA CountedSound ==
  ASSUME SweepInv, NEW s \in Snapshots, Recorded(s)
  PROVE  Counted(s) = Cardinality(Held(s)) /\ Counted(s) \in Nat
<1>1. rows[s] \in Content /\ rec[s] \in Rec
  BY DEF SweepInv, TypeOK, Recorded
<1> QED
  BY <1>1, ContentCount DEF SweepInv, CountSound, Counted, Held, Rec

-----------------------------------------------------------------------------
(* Loads and commits.                                                      *)

\* What a batch leaves: the rows, the record, and whether it went unnoticed.
Loaded(s) ==
  /\ rows' \in [Snapshots -> Content]
  /\ unseen' \in [Snapshots -> BOOLEAN]
  /\ rec' = [rec EXCEPT ![s] = rec'[s]] /\ rec'[s] \in Rec
  /\ ~Recorded(s) => ~rec'[s].committed /\ ~rec'[s].dropped
  /\ Recorded(s) =>
       /\ rec'[s].committed = rec[s].committed /\ rec'[s].dropped = rec[s].dropped
       /\ rec'[s].archive = rec[s].archive
       /\ rec'[s].rowCount = Recounted(s, rows'[s])
  /\ unseen'[s] = (unseen[s] \/ Unnoticed(s, rows'[s]))
  /\ \A t \in Snapshots \ {s} :
       rec'[t] = rec[t] /\ rows'[t] = rows[t] /\ unseen'[t] = unseen[t]

LEMMA LoadEffect ==
  ASSUME TypeOK, NEW s \in Snapshots, NEW b \in Batches, NEW R \in SUBSET ({b} \X Values),
         Load(s, b, R)
  PROVE  Loaded(s)
<1> DEFINE held == (rows[s] \ ({b} \X Values)) \cup R
<1>1. held \in Content
  BY DEF TypeOK, Content, Row
<1>2. rows' = [rows EXCEPT ![s] = held] /\ rows'[s] = held
  BY DEF Load, TypeOK
<1>3. /\ unseen' = [unseen EXCEPT ![s] = unseen[s] \/ Unnoticed(s, held)]
      /\ unseen'[s] = (unseen[s] \/ Unnoticed(s, held))
      /\ unseen' \in [Snapshots -> BOOLEAN]
  <2>1. unseen' = [unseen EXCEPT ![s] = unseen[s] \/ Unnoticed(s, held)]
    BY DEF Load
  <2>2. (unseen[s] \/ Unnoticed(s, held)) \in BOOLEAN
    BY DEF TypeOK
  <2> HIDE DEF held
  <2> QED
    BY <2>1, <2>2, Zenon DEF TypeOK
<1>4. /\ rec' = [rec EXCEPT ![s] = rec'[s]] /\ rec'[s] \in Rec
      /\ ~Recorded(s) => ~rec'[s].committed /\ ~rec'[s].dropped
      /\ Recorded(s) =>
           /\ rec'[s].committed = rec[s].committed /\ rec'[s].dropped = rec[s].dropped
           /\ rec'[s].archive = rec[s].archive
           /\ rec'[s].rowCount = Recounted(s, held)
  <2>1. CASE Recorded(s)
    <3>1. rec' = [rec EXCEPT ![s] = [rec[s] EXCEPT !.rowCount = Recounted(s, held)]]
      BY <2>1 DEF Load
    <3>2. rec[s] \in Rec
      BY <2>1 DEF TypeOK, Recorded
    <3>3. Recounted(s, held) \in Nat
      BY <1>1, <3>2, ContentCount DEF Recounted, Rec
    <3> HIDE DEF held
    <3> QED
      BY <2>1, <3>1, <3>2, <3>3 DEF TypeOK, Rec
  <2>2. CASE ~Recorded(s)
    BY <2>2, NowType DEF Load, TypeOK, Rec
  <2> QED
    BY <2>1, <2>2
<1> HIDE DEF held
<1> QED
  BY <1>1, <1>2, <1>3, <1>4 DEF TypeOK, Loaded

LEMMA LoadKeeps ==
  ASSUME SweepInv, NEW s \in Snapshots, NEW b \in Batches,
         NEW R \in SUBSET ({b} \X Values), Load(s, b, R)
  PROVE  SweepInv'
<1> DEFINE held == rows'[s]
<1>1. UNCHANGED <<current, had, part, manifest, archiving, pc, todo, tgt, found>>
  BY DEF Load, sweeper
<1>2. /\ rows' \in [Snapshots -> Content]
      /\ unseen' \in [Snapshots -> BOOLEAN]
      /\ rec' = [rec EXCEPT ![s] = rec'[s]] /\ rec'[s] \in Rec
      /\ ~Recorded(s) => ~rec'[s].committed /\ ~rec'[s].dropped
      /\ Recorded(s) =>
           /\ rec'[s].committed = rec[s].committed /\ rec'[s].dropped = rec[s].dropped
           /\ rec'[s].archive = rec[s].archive
           /\ rec'[s].rowCount = Recounted(s, held)
      /\ unseen'[s] = (unseen[s] \/ Unnoticed(s, held))
      /\ \A t \in Snapshots \ {s} :
           rec'[t] = rec[t] /\ rows'[t] = rows[t] /\ unseen'[t] = unseen[t]
  BY LoadEffect DEF SweepInv, Loaded
<1>3. TypeOK'
  BY <1>1, <1>2 DEF SweepInv, TypeOK
<1>4. /\ \A t \in Snapshots \ {s} : Held(t)' = Held(t) /\ (Recorded(t)' <=> Recorded(t))
      /\ Recorded(s)'
      /\ Recorded(s) /\ rec[s].dropped => Held(s)' = Held(s)
      /\ ~Recorded(s) \/ ~rec[s].dropped => Held(s)' = held
      /\ Recorded(s) /\ ~rec[s].dropped => Held(s) = rows[s]
  BY <1>1, <1>2, Sentinels DEF Held, Recorded
<1>5. ~Recorded(s) => part[s] = NoRec /\ archiving[s] = NoRec /\ ~InHand(s)
  BY Sentinels DEF SweepInv, CopySound, FoundSound, InHand
<1>6. ASSUME NEW t \in Snapshots, ~unseen'[t]
      PROVE  /\ ~unseen[t]
             /\ \/ Held(t)' = Held(t)
                \/ ~InHand(t) /\ (part[t] = NoRec \/ Held(t) \subseteq Held(t)')
  <2>1. CASE t # s
    BY <1>2, <1>4, <1>6, <2>1
  <2>2. CASE t = s
    <3>1. ~unseen[s] /\ ~Unnoticed(s, held)
      BY <1>2, <1>6, <2>2
    <3>2. CASE Recorded(s) /\ rec[s].dropped
      BY <1>4, <2>2, <3>1, <3>2
    <3>3. CASE Alive(s)
      <4>1. held = rows[s] \/ (~InHand(s) /\ (part[s] = NoRec \/ rows[s] \subseteq held))
        BY <3>1, <3>3 DEF Unnoticed
      <4> QED
        BY <1>4, <2>2, <3>1, <3>3, <4>1 DEF Alive
    <3>4. CASE ~Recorded(s)
      BY <1>5, <2>2, <3>1, <3>4
    <3> QED
      BY <3>2, <3>3, <3>4 DEF Alive
  <2> QED
    BY <2>1, <2>2
<1>7. CountSound'
  <2> SUFFICES ASSUME NEW t \in Snapshots, Recorded(t)'
               PROVE  CountSound!(t)!2'
    BY DEF CountSound
  <2>1. CASE t # s
    BY <1>1, <1>2, <1>4, <2>1 DEF SweepInv, CountSound
  <2>2. CASE t = s /\ Recorded(s)
    BY <1>1, <1>2, <1>4, <2>2 DEF SweepInv, CountSound, Recounted
  <2>3. CASE t = s /\ ~Recorded(s)
    BY <1>2, <2>3
  <2> QED
    BY <2>1, <2>2, <2>3
<1>8. CopySound'
  <2> SUFFICES ASSUME NEW t \in Snapshots
               PROVE  CopySound!(t)'
    BY DEF CopySound
  <2>1. CopySound!(t)
    BY DEF SweepInv, CopySound
  <2>2. Recorded(t) => Recorded(t)'
    BY <1>4
  <2>3. archiving[t] # NoRec => part[t] # NoRec
    BY <2>1, Sentinels
  <2> QED
    BY <1>1, <1>6, <2>1, <2>2, <2>3
<1>9. ASSUME NEW w \in Sweepers, pc[w] \in InSweep
      PROVE  /\ tgt[w] \in Snapshots /\ Recorded(tgt[w]) /\ Recorded(tgt[w])'
             /\ found[w] # NoRec
             /\ rec'[tgt[w]].archive = rec[tgt[w]].archive
             /\ ~unseen'[tgt[w]] => ~unseen[tgt[w]] /\ Held(tgt[w])' = Held(tgt[w])
  <2>1. tgt[w] \in Snapshots /\ Recorded(tgt[w]) /\ found[w] # NoRec
    BY <1>9 DEF SweepInv, FoundSound, InSweep
  <2>2. InHand(tgt[w])
    BY <1>9 DEF InHand, InSweep
  <2>3. Recorded(tgt[w])'
    BY <1>1, <1>4, <2>1
  <2>4. rec'[tgt[w]].archive = rec[tgt[w]].archive
    BY <1>2, <2>1
  <2>5. ~unseen'[tgt[w]] => ~unseen[tgt[w]] /\ Held(tgt[w])' = Held(tgt[w])
    BY <1>1, <1>6, <2>1, <2>2
  <2> QED
    BY <2>1, <2>3, <2>4, <2>5
<1>10. FoundSound'
  <2> SUFFICES ASSUME NEW w \in Sweepers
               PROVE  FoundSound!(w)'
    BY DEF FoundSound
  <2>1. FoundSound!(w)
    BY DEF SweepInv, FoundSound
  <2> QED
    BY <1>1, <1>4, <1>9, <2>1
<1>11. VerifiedSound'
  <2> SUFFICES ASSUME NEW w \in Sweepers
               PROVE  VerifiedSound!(w)'
    BY DEF VerifiedSound
  <2>1. VerifiedSound!(w)
    BY DEF SweepInv, VerifiedSound
  <2> QED
    BY <1>1, <1>9, <2>1 DEF CopyWhole, InSweep
<1>12. TombstoneSound'
  <2> SUFFICES ASSUME NEW t \in Snapshots, Recorded(t)', rec'[t].dropped, ~unseen'[t]
               PROVE  rec'[t].archive = had'[t] /\ CopyWhole(t)'
    BY DEF TombstoneSound
  <2>1. Recorded(t) /\ rec[t].dropped /\ rec'[t].archive = rec[t].archive /\ Held(t)' = Held(t)
    BY <1>2, <1>4
  <2> QED
    BY <1>1, <1>6, <2>1 DEF SweepInv, TombstoneSound, CopyWhole
<1>13. TodoRecorded'
  BY <1>1, <1>4 DEF SweepInv, TodoRecorded
<1> QED
  BY <1>3, <1>7, <1>8, <1>10, <1>11, <1>12, <1>13 DEF SweepInv

LEMMA CommitKeeps ==
  ASSUME SweepInv, NEW s \in Snapshots, Commit(s)
  PROVE  SweepInv'
<1>1. /\ Recorded(s) /\ ~rec[s].dropped /\ rec[s] \in Rec
      /\ UNCHANGED <<rows, had, part, manifest, archiving, unseen, pc, todo, tgt, found>>
      /\ current' = s
  BY DEF Commit, Alive, Recorded, bucket, sweeper, SweepInv, TypeOK
<1>2. rows[s] \in Content /\ Cardinality(rows[s]) \in Nat
  BY ContentCount DEF SweepInv, TypeOK
<1>3. /\ rec' = [rec EXCEPT ![s] = rec'[s]] /\ rec'[s] \in Rec
      /\ rec'[s].committed /\ ~rec'[s].dropped
      /\ rec'[s].rowCount = Cardinality(rows[s]) /\ rec'[s].archive = rec[s].archive
  BY <1>1, <1>2 DEF Commit, SweepInv, TypeOK, Rec
<1>4. TypeOK'
  BY <1>1, <1>3 DEF SweepInv, TypeOK
<1>5. /\ \A t \in Snapshots : Held(t)' = Held(t) /\ (Recorded(t)' <=> Recorded(t))
      /\ \A t \in Snapshots \ {s} : rec'[t] = rec[t]
      /\ \A t \in Snapshots : Recorded(t) =>
           rec'[t].archive = rec[t].archive /\ rec'[t].dropped = rec[t].dropped
  <2>1. \A t \in Snapshots \ {s} : rec'[t] = rec[t]
    BY <1>3 DEF SweepInv, TypeOK
  <2>2. \A t \in Snapshots : Held(t)' = Held(t) /\ (Recorded(t)' <=> Recorded(t))
    BY <1>1, <1>3, <2>1, Sentinels DEF Held, Recorded
  <2>3. rec'[s].archive = rec[s].archive /\ rec'[s].dropped = rec[s].dropped
    BY <1>1, <1>3 DEF Rec
  <2> QED
    BY <2>1, <2>2, <2>3
<1>6. CountSound'
  <2> SUFFICES ASSUME NEW t \in Snapshots, Recorded(t)'
               PROVE  CountSound!(t)!2'
    BY DEF CountSound
  <2>1. CASE t # s
    BY <1>1, <1>5, <2>1 DEF SweepInv, CountSound
  <2>2. CASE t = s
    BY <1>1, <1>3, <1>5, <2>2 DEF SweepInv, CountSound, Held
  <2> QED
    BY <2>1, <2>2
<1>7. CopySound'
  BY <1>1, <1>5 DEF SweepInv, CopySound
<1>8. FoundSound'
  <2> SUFFICES ASSUME NEW w \in Sweepers
               PROVE  FoundSound!(w)'
    BY DEF FoundSound
  <2>1. FoundSound!(w) /\ (pc[w] \in InSweep => tgt[w] \in Snapshots)
    BY DEF SweepInv, FoundSound, InSweep
  <2> QED
    BY <1>1, <1>5, <2>1
<1>9. VerifiedSound'
  <2> SUFFICES ASSUME NEW w \in Sweepers
               PROVE  VerifiedSound!(w)'
    BY DEF VerifiedSound
  <2>1. pc[w] \in {"record", "drop"} => tgt[w] \in Snapshots /\ Recorded(tgt[w])
    BY DEF SweepInv, FoundSound
  <2> QED
    BY <1>1, <1>5, <2>1 DEF SweepInv, VerifiedSound, CopyWhole
<1>10. TombstoneSound' /\ TodoRecorded'
  BY <1>1, <1>5 DEF SweepInv, TombstoneSound, TodoRecorded, CopyWhole
<1> QED
  BY <1>4, <1>6, <1>7, <1>8, <1>9, <1>10 DEF SweepInv

-----------------------------------------------------------------------------
(* The archive.                                                            *)

\* What a copy or the bucket may do to a load's archive: begin a copy of what the
\* load holds, give it up, lose a file, put the name of the copy on the record; a copy
\* made while no sweep has the load in hand makes good what went unnoticed.
LEMMA ArchiveStep ==
  ASSUME SweepInv, TypeOK', NEW s \in Snapshots,
         UNCHANGED <<rows, current, had, pc, todo, tgt, found>>,
         \A t \in Snapshots \ {s} :
           /\ rec'[t] = rec[t] /\ part'[t] = part[t] /\ archiving'[t] = archiving[t]
           /\ unseen'[t] = unseen[t],
         Recorded(s)' <=> Recorded(s),
         Recorded(s) =>
           /\ rec'[s].committed = rec[s].committed /\ rec'[s].dropped = rec[s].dropped
           /\ rec'[s].rowCount = rec[s].rowCount
           /\ \/ rec'[s].archive = rec[s].archive
              \/ archiving[s] # NoRec /\ rec'[s].archive = archiving[s],
         archiving'[s] \in {archiving[s], NoRec, Held(s)},
         archiving'[s] # NoRec => part'[s] \in {archiving'[s], Rotten},
         part'[s] \in {part[s], Rotten, Held(s)},
         part'[s] # NoRec => Recorded(s),
         \/ unseen'[s] = unseen[s]
         \/ /\ ~InHand(s) /\ Alive(s)
            /\ part'[s] = Held(s) /\ archiving'[s] = Held(s)
  PROVE  SweepInv'
<1>1. \A t \in Snapshots : Held(t)' = Held(t) /\ (Recorded(t)' <=> Recorded(t))
  <2> SUFFICES ASSUME NEW t \in Snapshots
               PROVE  Held(t)' = Held(t) /\ (Recorded(t)' <=> Recorded(t))
    OBVIOUS
  <2>1. CASE t # s
    BY <2>1 DEF Held, Recorded
  <2>2. CASE t = s /\ Recorded(s)
    BY <2>2 DEF Held, Recorded
  <2>3. CASE t = s /\ ~Recorded(s)
    BY <2>3 DEF Held, Recorded
  <2> QED
    BY <2>1, <2>2, <2>3
<1>2. \A t \in Snapshots : Recorded(t) =>
        /\ rec'[t].committed = rec[t].committed /\ rec'[t].dropped = rec[t].dropped
        /\ rec'[t].rowCount = rec[t].rowCount
  OBVIOUS
<1>3. CountSound'
  BY <1>1, <1>2 DEF SweepInv, CountSound
<1>4. CopySound'
  <2> SUFFICES ASSUME NEW t \in Snapshots
               PROVE  CopySound!(t)'
    BY DEF CopySound
  <2>1. CopySound!(t)
    BY DEF SweepInv, CopySound
  <2>2. CASE t # s
    BY <1>1, <2>1, <2>2
  <2>3. CASE t = s
    BY <1>1, <2>1, <2>3
  <2> QED
    BY <2>2, <2>3
<1>5. \A t \in Snapshots : CopyWhole(t) => CopyWhole(t)'
  BY <1>1 DEF CopyWhole
<1>6. \A t \in Snapshots : InHand(t) \/ ~Alive(t) => unseen'[t] = unseen[t]
  OBVIOUS
<1>7. ASSUME NEW w \in Sweepers, pc[w] \in InSweep
      PROVE  /\ tgt[w] \in Snapshots /\ Recorded(tgt[w])
             /\ unseen'[tgt[w]] = unseen[tgt[w]]
  <2>1. tgt[w] \in Snapshots /\ Recorded(tgt[w])
    BY <1>7 DEF SweepInv, FoundSound, InSweep
  <2>2. InHand(tgt[w])
    BY <1>7 DEF InHand, InSweep
  <2> QED
    BY <1>6, <2>1, <2>2
<1>8. FoundSound'
  BY <1>1, <1>7 DEF SweepInv, FoundSound
<1>9. \A t \in Snapshots :
        Recorded(t) /\ rec[t].archive = Held(t) /\ CopyWhole(t) =>
          rec'[t].archive = Held(t)
  BY <1>2 DEF CopyWhole
<1>10. VerifiedSound'
  <2> SUFFICES ASSUME NEW w \in Sweepers, pc[w] \in {"record", "drop"}, ~unseen'[tgt[w]]
               PROVE  /\ found[w].archive = Held(tgt[w])' /\ CopyWhole(tgt[w])'
                      /\ pc[w] = "drop" => rec'[tgt[w]].archive = Held(tgt[w])'
    BY DEF VerifiedSound
  <2>1. tgt[w] \in Snapshots /\ Recorded(tgt[w]) /\ ~unseen[tgt[w]]
    BY <1>7 DEF InSweep
  <2> QED
    BY <1>1, <1>5, <1>9, <2>1 DEF SweepInv, VerifiedSound
<1>11. TombstoneSound'
  <2> SUFFICES ASSUME NEW t \in Snapshots, Recorded(t)', rec'[t].dropped, ~unseen'[t]
               PROVE  rec'[t].archive = had'[t] /\ CopyWhole(t)'
    BY DEF TombstoneSound
  <2>1. Recorded(t) /\ rec[t].dropped /\ ~unseen[t]
    BY <1>1, <1>2, <1>6 DEF Alive
  <2>2. rec[t].archive = had[t] /\ CopyWhole(t) /\ Held(t) = had[t]
    BY <2>1 DEF SweepInv, TombstoneSound, Held
  <2> QED
    BY <2>1, <2>2, <1>5, <1>9
<1>12. TodoRecorded'
  BY <1>1 DEF SweepInv, TodoRecorded
<1> QED
  BY <1>3, <1>4, <1>8, <1>10, <1>11, <1>12 DEF SweepInv

LEMMA ArchiveKeeps ==
  ASSUME SweepInv, NEW s \in Snapshots, Archive(s) \/ Rot(s)
  PROVE  SweepInv'
<1>1. UNCHANGED <<rows, current, had, pc, todo, tgt, found>>
  BY DEF Archive, ArchivePart, ArchiveManifest, RecordArchive, ArchiveFails, Rot, db, bucket,
     sweeper
<1>2. /\ rows[s] \in Content /\ (Recorded(s) => rec[s] \in Rec)
      /\ archiving[s] \in {NoRec} \cup Content
      /\ part[s] # NoRec => Recorded(s)
      /\ archiving[s] # NoRec => part[s] \in {archiving[s], Rotten} /\ Recorded(s)
  BY Sentinels DEF SweepInv, TypeOK, Recorded, CopySound
<1>3. CASE ArchivePart(s)
  <2>1. /\ rec' = rec /\ Recorded(s) /\ Alive(s) /\ Held(s) = rows[s]
        /\ part' = [part EXCEPT ![s] = rows[s]]
        /\ archiving' = [archiving EXCEPT ![s] = rows[s]] /\ manifest' = manifest
        /\ unseen' = [unseen EXCEPT ![s] = unseen[s] /\ InHand(s)]
    BY <1>3 DEF ArchivePart, Alive, Held, db
  <2>2. /\ unseen' \in [Snapshots -> BOOLEAN]
        /\ \A t \in Snapshots \ {s} : unseen'[t] = unseen[t]
        /\ unseen'[s] = unseen[s] \/ ~InHand(s)
    <3>1. unseen \in [Snapshots -> BOOLEAN] /\ (unseen[s] /\ InHand(s)) \in BOOLEAN
      BY DEF SweepInv, TypeOK
    <3>2. unseen'[s] = (unseen[s] /\ InHand(s))
      BY <2>1, <3>1, Zenon
    <3>3. unseen[s] \in BOOLEAN
      BY <3>1
    <3>4. /\ unseen' \in [Snapshots -> BOOLEAN]
          /\ \A t \in Snapshots \ {s} : unseen'[t] = unseen[t]
      BY <2>1, <3>1, Zenon
    <3>5. unseen'[s] = unseen[s] \/ ~InHand(s)
      BY <3>2, <3>3
    <3> QED
      BY <3>4, <3>5
  <2>3. TypeOK'
    BY <1>1, <1>2, <2>1, <2>2 DEF SweepInv, TypeOK
  <2>4. /\ part'[s] = rows[s] /\ archiving'[s] = rows[s]
        /\ \A t \in Snapshots \ {s} : part'[t] = part[t] /\ archiving'[t] = archiving[t]
    BY <2>1 DEF SweepInv, TypeOK
  <2> QED
    BY <1>1, <2>1, <2>2, <2>3, <2>4, ArchiveStep DEF Recorded
<1>4. CASE ArchiveManifest(s)
  <2>1. rec' = rec /\ part' = part /\ archiving' = archiving /\ unseen' = unseen
    BY <1>4 DEF ArchiveManifest, db
  <2>2. TypeOK'
    BY <1>1, <1>2, <1>4, <2>1 DEF ArchiveManifest, SweepInv, TypeOK
  <2> QED
    BY <1>1, <1>2, <2>1, <2>2, ArchiveStep DEF Recorded
<1>5. CASE RecordArchive(s)
  <2>1. /\ archiving[s] # NoRec /\ rec[s] \in Rec /\ archiving[s] \in Content
        /\ rec' = [rec EXCEPT ![s].archive = archiving[s]]
        /\ archiving' = [archiving EXCEPT ![s] = NoRec]
        /\ part' = part /\ manifest' = manifest /\ unseen' = unseen
    BY <1>2, <1>5 DEF RecordArchive
  <2>2. rec'[s] \in Rec /\ rec' = [rec EXCEPT ![s] = rec'[s]]
    BY <2>1 DEF Rec, SweepInv, TypeOK
  <2>3. TypeOK'
    BY <1>1, <2>1, <2>2 DEF SweepInv, TypeOK
  <2>4. /\ rec'[s].committed = rec[s].committed /\ rec'[s].dropped = rec[s].dropped
        /\ rec'[s].rowCount = rec[s].rowCount /\ rec'[s].archive = archiving[s]
        /\ archiving'[s] = NoRec /\ Recorded(s) /\ Recorded(s)'
    BY <2>1, <2>2, Sentinels DEF Rec, SweepInv, TypeOK, Recorded
  <2> QED
    BY <1>1, <2>1, <2>3, <2>4, ArchiveStep
<1>6. CASE ArchiveFails(s)
  <2>1. /\ rec' = rec /\ part' = part /\ manifest' = manifest /\ unseen' = unseen
        /\ archiving' = [archiving EXCEPT ![s] = NoRec]
    BY <1>6 DEF ArchiveFails, db
  <2>2. TypeOK' /\ archiving'[s] = NoRec
    BY <1>1, <2>1 DEF SweepInv, TypeOK
  <2> QED
    BY <1>1, <1>2, <2>1, <2>2, ArchiveStep DEF Recorded
<1>7. CASE Rot(s)
  <2>1. /\ rec' = rec /\ archiving' = archiving /\ manifest' = manifest /\ unseen' = unseen
        /\ part' = [part EXCEPT ![s] = Rotten] /\ Recorded(s)
    BY <1>2, <1>7 DEF Rot, db
  <2>2. TypeOK' /\ part'[s] = Rotten
    BY <1>1, <2>1 DEF SweepInv, TypeOK
  <2> QED
    BY <1>1, <1>2, <2>1, <2>2, ArchiveStep DEF Recorded
<1> QED
  BY <1>3, <1>4, <1>5, <1>6, <1>7 DEF Archive

-----------------------------------------------------------------------------
(* A sweep.                                                                *)

\* A step of one sweep that leaves the store and the bucket as they were.
LEMMA SweeperStep ==
  ASSUME SweepInv, TypeOK', UNCHANGED <<db, bucket>>, NEW w \in Sweepers,
         \A v \in Sweepers \ {w} :
           /\ pc'[v] = pc[v] /\ todo'[v] = todo[v] /\ tgt'[v] = tgt[v]
           /\ found'[v] = found[v],
         FoundSound!(w)', VerifiedSound!(w)',
         \A s \in Snapshots : s \in todo'[w] => Recorded(s)
  PROVE  SweepInv'
<1>1. UNCHANGED <<rows, rec, current, had, part, manifest, archiving, unseen>>
  BY DEF db, bucket
<1>2. CountSound' /\ CopySound' /\ TombstoneSound'
  BY <1>1 DEF SweepInv, CountSound, CopySound, TombstoneSound, CopyWhole, Held, Recorded
<1>3. FoundSound'
  <2> SUFFICES ASSUME NEW v \in Sweepers, v # w
               PROVE  FoundSound!(v)'
    BY DEF FoundSound
  <2> QED
    BY <1>1 DEF SweepInv, FoundSound, Held, Recorded
<1>4. VerifiedSound'
  <2> SUFFICES ASSUME NEW v \in Sweepers, v # w
               PROVE  VerifiedSound!(v)'
    BY DEF VerifiedSound
  <2> QED
    BY <1>1 DEF SweepInv, VerifiedSound, CopyWhole, Held
<1>5. TodoRecorded'
  BY <1>1 DEF SweepInv, TodoRecorded, Recorded
<1> QED
  BY <1>2, <1>3, <1>4, <1>5 DEF SweepInv

\* A step that changes nothing but where the sweep is.
LEMMA Moves ==
  ASSUME SweepInv, NEW w \in Sweepers, NEW p \in Phases,
         UNCHANGED <<db, bucket, todo, tgt, found>>,
         pc' = [pc EXCEPT ![w] = p],
         FoundSound!(w)', VerifiedSound!(w)'
  PROVE  SweepInv'
<1>1. TypeOK'
  BY DEF SweepInv, TypeOK, db, bucket
<1>2. \A v \in Sweepers \ {w} : pc'[v] = pc[v]
  BY DEF SweepInv, TypeOK
<1>3. \A s \in Snapshots : s \in todo'[w] => Recorded(s)
  BY DEF SweepInv, TodoRecorded
<1> QED
  BY <1>1, <1>2, <1>3, SweeperStep

\* A sweep that ends, or dies, forgets what it was at.
LEMMA QuietKeeps ==
  ASSUME SweepInv, NEW w \in Sweepers, Quiet(w)
  PROVE  SweepInv'
<1>1. TypeOK'
  BY DEF SweepInv, TypeOK, Quiet, db, bucket, Phases
<1>2. pc'[w] = "rest" /\ todo'[w] = {} /\ found'[w] = NoRec
  BY DEF SweepInv, TypeOK, Quiet
<1>3. \A v \in Sweepers \ {w} :
        /\ pc'[v] = pc[v] /\ todo'[v] = todo[v] /\ tgt'[v] = tgt[v]
        /\ found'[v] = found[v]
  BY DEF SweepInv, TypeOK, Quiet
<1>4. FoundSound!(w)' /\ VerifiedSound!(w)'
  BY <1>2 DEF InSweep
<1> QED
  BY <1>1, <1>2, <1>3, <1>4, SweeperStep DEF Quiet

\* The plan: only what has a record is a candidate.
LEMMA PlanKeeps ==
  ASSUME SweepInv, NEW w \in Sweepers, ListLive(w) \/ Plan(w)
  PROVE  SweepInv'
<1>1. /\ pc'[w] \in {"plan", "next"} /\ pc' = [pc EXCEPT ![w] = pc'[w]]
      /\ UNCHANGED <<db, bucket, tgt, found>>
      /\ todo' = [todo EXCEPT ![w] = todo'[w]]
      /\ todo'[w] \subseteq Snapshots
      /\ \A s \in todo'[w] : Recorded(s)
  <2>1. CASE ListLive(w)
    BY <2>1 DEF ListLive, SweepInv, TypeOK, Alive
  <2>2. CASE Plan(w)
    BY <2>2 DEF Plan, SweepInv, TypeOK, TodoRecorded
  <2> QED
    BY <2>1, <2>2
<1>2. TypeOK'
  BY <1>1 DEF SweepInv, TypeOK, db, bucket, Phases
<1>3. \A v \in Sweepers \ {w} : pc'[v] = pc[v] /\ todo'[v] = todo[v]
  BY <1>1 DEF SweepInv, TypeOK
<1>4. FoundSound!(w)' /\ VerifiedSound!(w)'
  BY <1>1 DEF InSweep
<1> QED
  BY <1>1, <1>2, <1>3, <1>4, SweeperStep

LEMMA TakeKeeps ==
  ASSUME SweepInv, NEW w \in Sweepers, Take(w)
  PROVE  SweepInv'
<1>1. PICK s \in todo[w] : /\ tgt' = [tgt EXCEPT ![w] = s]
                           /\ todo' = [todo EXCEPT ![w] = todo[w] \ {s}]
  BY DEF Take
<1>2. s \in Snapshots /\ Recorded(s)
  BY DEF SweepInv, TypeOK, TodoRecorded
<1>3. TypeOK'
  BY <1>1, <1>2 DEF SweepInv, TypeOK, Take, db, bucket, Phases
<1>4. /\ pc'[w] = "find" /\ tgt'[w] = s /\ todo'[w] = todo[w] \ {s}
      /\ \A v \in Sweepers \ {w} :
           /\ pc'[v] = pc[v] /\ todo'[v] = todo[v] /\ tgt'[v] = tgt[v]
           /\ found'[v] = found[v]
  BY <1>1 DEF SweepInv, TypeOK, Take
<1>5. FoundSound!(w)' /\ VerifiedSound!(w)'
  BY <1>2, <1>4 DEF Take, Recorded, db, InSweep
<1>6. \A t \in Snapshots : t \in todo'[w] => Recorded(t)
  BY <1>4 DEF SweepInv, TodoRecorded
<1> QED
  BY <1>3, <1>4, <1>5, <1>6, SweeperStep DEF Take

\* What it finds is the record, with a count of the load's rows.
LEMMA FindEffect ==
  ASSUME TypeOK, NEW w \in Sweepers, Find(w), tgt[w] \in Snapshots, Recorded(tgt[w]),
         Counted(tgt[w]) \in Nat
  PROVE  /\ found' \in [Sweepers -> {NoRec} \cup Rec]
         /\ found'[w] \in Rec /\ found'[w].rowCount = Counted(tgt[w])
<1>1. rec[tgt[w]] \in Rec
  BY DEF TypeOK, Recorded
<1>2. [rec[tgt[w]] EXCEPT !.rowCount = Counted(tgt[w])] \in Rec
  BY <1>1 DEF Rec
<1> QED
  BY <1>1, <1>2 DEF Find, TypeOK, Rec

LEMMA FindKeeps ==
  ASSUME SweepInv, NEW w \in Sweepers, Find(w)
  PROVE  SweepInv'
<1>1. tgt[w] \in Snapshots /\ Recorded(tgt[w])
  BY DEF SweepInv, FoundSound, Find
<1>2. Counted(tgt[w]) = Cardinality(Held(tgt[w])) /\ Counted(tgt[w]) \in Nat
  BY <1>1, CountedSound
<1>3. /\ found' \in [Sweepers -> {NoRec} \cup Rec]
      /\ found'[w] # NoRec /\ found'[w].rowCount = Counted(tgt[w])
  BY <1>1, <1>2, FindEffect, Sentinels DEF SweepInv
<1>4. TypeOK'
  BY <1>3 DEF SweepInv, TypeOK, Find, db, bucket, Phases
<1>5. /\ pc'[w] \in {"verify", "ask"}
      /\ UNCHANGED <<rows, rec, had, unseen, tgt, todo>>
      /\ \A v \in Sweepers \ {w} : pc'[v] = pc[v] /\ found'[v] = found[v]
  BY DEF SweepInv, TypeOK, Find, db, bucket
<1>6. FoundSound!(w)' /\ VerifiedSound!(w)'
  BY <1>1, <1>2, <1>3, <1>5 DEF Held, Recorded
<1>7. \A s \in Snapshots : s \in todo'[w] => Recorded(s)
  BY <1>5 DEF SweepInv, TodoRecorded
<1> QED
  BY <1>4, <1>5, <1>6, <1>7, SweeperStep DEF Find

LEMMA AskKeeps ==
  ASSUME SweepInv, NEW w \in Sweepers, Ask(w)
  PROVE  SweepInv'
<1>1. /\ FoundSound!(w)
      /\ UNCHANGED <<rows, rec, current, had, archiving, unseen, todo, tgt, found>>
  BY DEF SweepInv, FoundSound, Ask, db, bucket
<1>2. /\ pc'[w] \in {"shortcut", "verify"}
      /\ pc' = [pc EXCEPT ![w] = pc'[w]] /\ pc[w] = "ask"
  BY DEF SweepInv, TypeOK, Ask
<1>3. FoundSound!(w)' /\ VerifiedSound!(w)'
  BY <1>1, <1>2 DEF Held, Recorded, InSweep
<1>4. pc'[w] \in Phases
  BY <1>2 DEF Phases
<1> QED
  BY <1>2, <1>3, <1>4, Moves DEF Ask

\* The verified archive is of as many rows as the load has, all of them its own.
LEMMA VerifyKeeps ==
  ASSUME SweepInv, NEW w \in Sweepers, Verify(w)
  PROVE  SweepInv'
<1> DEFINE s == tgt[w]
<1>1. /\ pc[w] = "verify" /\ s \in Snapshots /\ Recorded(s) /\ found[w] # NoRec
      /\ ~unseen[s] => found[w].rowCount = Cardinality(Held(s))
  BY DEF SweepInv, FoundSound, Verify, InSweep
<1>2. /\ pc'[w] = "record" /\ pc' = [pc EXCEPT ![w] = "record"]
      /\ UNCHANGED <<rows, rec, current, had, archiving, unseen, todo, tgt, found>>
  BY DEF SweepInv, TypeOK, Verify, db, bucket
<1>3. ASSUME ~unseen[s]
      PROVE  found[w].archive = Held(s) /\ CopyWhole(s)
  <2>1. /\ part[s] \in Content /\ part[s] \notin {NoRec, Rotten}
        /\ found[w].archive = part[s] /\ Cardinality(part[s]) = Cardinality(Held(s))
    BY <1>1, <1>3 DEF SweepInv, TypeOK, Verify, ArchiveIsGood
  <2>2. Held(s) \in Content
    BY <1>1 DEF SweepInv, TypeOK, CountSound, Held
  <2>3. part[s] = Held(s)
    BY <1>1, <1>3, <2>1, <2>2, WholeCopy DEF SweepInv, CopySound
  <2>4. CopyWhole(s)
    BY <1>1, <2>1, <2>3 DEF SweepInv, CopySound, CopyWhole
  <2> QED
    BY <2>1, <2>3, <2>4
<1>4. FoundSound!(w)' /\ VerifiedSound!(w)'
  BY <1>1, <1>2, <1>3 DEF Held, Recorded, CopyWhole
<1>5. "record" \in Phases
  BY DEF Phases
<1> QED
  BY <1>2, <1>4, <1>5, Moves DEF Verify

\* The record then names that archive, which it may have done before.
LEMMA RecordKeeps ==
  ASSUME SweepInv, NEW w \in Sweepers, Record(w)
  PROVE  SweepInv'
<1> DEFINE s == tgt[w]
<1>1. /\ pc[w] = "record" /\ s \in Snapshots /\ Recorded(s) /\ rec[s] \in Rec
      /\ found[w] \in Rec
      /\ ~unseen[s] => found[w].archive = Held(s) /\ CopyWhole(s)
  BY DEF SweepInv, TypeOK, FoundSound, VerifiedSound, Record, Recorded, InSweep
<1>2. /\ rec' = [rec EXCEPT ![s] = rec'[s]] /\ rec'[s] \in Rec
      /\ rec'[s].committed = rec[s].committed /\ rec'[s].dropped = rec[s].dropped
      /\ rec'[s].rowCount = rec[s].rowCount /\ rec'[s].archive = found[w].archive
  <2>1. rec' = [rec EXCEPT ![s] = [rec[s] EXCEPT !.archive = found[w].archive]]
    BY <1>1 DEF Record
  <2>2. [rec[s] EXCEPT !.archive = found[w].archive] \in Rec
    BY <1>1 DEF Rec
  <2> QED
    BY <1>1, <2>1, <2>2 DEF SweepInv, TypeOK, Rec
<1>3. /\ UNCHANGED <<rows, current, had, part, manifest, archiving, unseen, todo, tgt, found>>
      /\ pc'[w] \in {"next", "drop"}
      /\ pc' = [pc EXCEPT ![w] = pc'[w]]
      /\ \A v \in Sweepers \ {w} : pc'[v] = pc[v]
  BY DEF SweepInv, TypeOK, Record, bucket
<1>4. TypeOK'
  BY <1>2, <1>3 DEF SweepInv, TypeOK, Phases
<1>5. /\ \A t \in Snapshots : Held(t)' = Held(t) /\ (Recorded(t)' <=> Recorded(t))
      /\ \A t \in Snapshots : CopyWhole(t)' <=> CopyWhole(t)
      /\ \A t \in Snapshots \ {s} : rec'[t] = rec[t]
      /\ \A t \in Snapshots : Recorded(t) =>
           /\ rec'[t].committed = rec[t].committed /\ rec'[t].dropped = rec[t].dropped
           /\ rec'[t].rowCount = rec[t].rowCount
  <2>1. \A t \in Snapshots \ {s} : rec'[t] = rec[t]
    BY <1>2 DEF SweepInv, TypeOK
  <2>2. \A t \in Snapshots : Held(t)' = Held(t) /\ (Recorded(t)' <=> Recorded(t))
    BY <1>1, <1>2, <1>3, <2>1, Sentinels DEF Held, Recorded
  <2> QED
    BY <1>1, <1>2, <1>3, <2>1, <2>2 DEF CopyWhole
<1>6. CountSound' /\ CopySound'
  BY <1>1, <1>2, <1>3, <1>5 DEF SweepInv, CountSound, CopySound
<1>7. FoundSound'
  <2> SUFFICES ASSUME NEW v \in Sweepers
               PROVE  FoundSound!(v)'
    BY DEF FoundSound
  <2>1. FoundSound!(v)
    BY DEF SweepInv, FoundSound
  <2>2. CASE v = w
    BY <1>1, <1>3, <1>5, <2>1, <2>2 DEF InSweep
  <2>3. CASE v # w
    BY <1>3, <1>5, <2>1, <2>3 DEF InSweep
  <2> QED
    BY <2>2, <2>3
<1>8. VerifiedSound'
  <2> SUFFICES ASSUME NEW v \in Sweepers
               PROVE  VerifiedSound!(v)'
    BY DEF VerifiedSound
  <2>1. CASE v = w
    BY <1>1, <1>2, <1>3, <1>5, <2>1
  <2>2. CASE v # w
    <3>1. pc[v] \in {"record", "drop"} => tgt[v] \in Snapshots
      BY DEF SweepInv, FoundSound
    <3>2. pc[v] = "drop" /\ ~unseen[tgt[v]] => rec'[tgt[v]].archive = Held(tgt[v])
      BY <1>1, <1>2, <1>5, <3>1 DEF SweepInv, VerifiedSound
    <3> QED
      BY <1>3, <1>5, <2>2, <3>1, <3>2 DEF SweepInv, VerifiedSound
  <2> QED
    BY <2>1, <2>2
<1>9. TombstoneSound'
  BY <1>1, <1>2, <1>3, <1>5 DEF SweepInv, TombstoneSound, Held
<1>10. TodoRecorded'
  BY <1>1, <1>3, <1>5 DEF SweepInv, TodoRecorded
<1> QED
  BY <1>4, <1>6, <1>7, <1>8, <1>9, <1>10 DEF SweepInv

\* A drop takes the rows and leaves the record, which names their archive unless they
\* went unseen.
LEMMA DropStep ==
  ASSUME SweepInv, NEW w \in Sweepers, NEW p \in {"next", "verify"},
         pc[w] \in {"shortcut", "drop"}, pc' = [pc EXCEPT ![w] = p], Drop(tgt[w]),
         UNCHANGED <<part, manifest, archiving, todo, tgt, found>>,
         unseen' \in [Snapshots -> BOOLEAN],
         \A t \in Snapshots \ {tgt[w]} : unseen'[t] = unseen[t],
         unseen[tgt[w]] => unseen'[tgt[w]],
         \/ rec[tgt[w]].dropped \/ unseen'[tgt[w]]
         \/ rec[tgt[w]].archive = Held(tgt[w]) /\ CopyWhole(tgt[w])
  PROVE  SweepInv'
<1> DEFINE s == tgt[w]
<1>1. /\ s \in Snapshots /\ Recorded(s) /\ rec[s] \in Rec /\ found[w] # NoRec
      /\ rows[s] \in Content /\ Cardinality(rows[s]) \in Nat
  BY ContentCount DEF SweepInv, TypeOK, FoundSound, Recorded, InSweep
<1>2. /\ current' = current /\ pc'[w] = p
      /\ \A v \in Sweepers \ {w} : pc'[v] = pc[v]
      /\ \A t \in Snapshots : unseen[t] => unseen'[t]
  BY <1>1 DEF SweepInv, TypeOK, Drop, db
<1>3. /\ rec'[s] \in Rec /\ rec' = [rec EXCEPT ![s] = rec'[s]] /\ rec'[s].dropped
      /\ rec'[s].committed = rec[s].committed /\ rec'[s].archive = rec[s].archive
      /\ rows' \in [Snapshots -> Content] /\ had' \in [Snapshots -> {NoRec} \cup Content]
      /\ \A t \in Snapshots \ {s} : rec'[t] = rec[t] /\ rows'[t] = rows[t] /\ had'[t] = had[t]
      /\ had'[s] = Held(s) /\ rec'[s].rowCount = Cardinality(Held(s))
  <2>1. CASE rec[s].dropped
    BY <1>1, <2>1 DEF SweepInv, TypeOK, CountSound, Drop, Held, db
  <2>2. CASE ~rec[s].dropped
    <3>1. /\ rec' = [rec EXCEPT ![s].dropped = TRUE, ![s].rowCount = Cardinality(rows[s])]
          /\ rows' = [rows EXCEPT ![s] = {}] /\ had' = [had EXCEPT ![s] = rows[s]]
          /\ Held(s) = rows[s]
      BY <2>2 DEF Drop, Held
    <3> QED
      BY <1>1, <3>1 DEF SweepInv, TypeOK, Rec, Content
  <2> QED
    BY <2>1, <2>2
<1>4. TypeOK'
  BY <1>2, <1>3 DEF SweepInv, TypeOK, Phases
<1>5. /\ \A t \in Snapshots : Held(t)' = Held(t) /\ (Recorded(t)' <=> Recorded(t))
      /\ \A t \in Snapshots : CopyWhole(t)' <=> CopyWhole(t)
      /\ \A t \in Snapshots : Recorded(t) => rec'[t].archive = rec[t].archive
  <2>1. \A t \in Snapshots : Held(t)' = Held(t) /\ (Recorded(t)' <=> Recorded(t))
    BY <1>1, <1>3, Sentinels DEF Held, Recorded
  <2> QED
    BY <1>1, <1>3, <2>1 DEF CopyWhole
<1>6. CountSound'
  <2> SUFFICES ASSUME NEW t \in Snapshots, Recorded(t)'
               PROVE  CountSound!(t)!2'
    BY DEF CountSound
  <2>1. CASE t # s
    BY <1>3, <1>5, <2>1 DEF SweepInv, CountSound
  <2>2. CASE t = s
    <3>1. Held(s) \in Content
      BY <1>1 DEF SweepInv, CountSound, Held
    <3> QED
      BY <1>1, <1>3, <1>5, <2>2, <3>1
  <2> QED
    BY <2>1, <2>2
<1>7. CopySound'
  BY <1>2, <1>5 DEF SweepInv, CopySound
<1>8. FoundSound'
  <2> SUFFICES ASSUME NEW v \in Sweepers
               PROVE  FoundSound!(v)'
    BY DEF FoundSound
  <2>1. FoundSound!(v)
    BY DEF SweepInv, FoundSound
  <2>2. CASE v = w
    BY <1>1, <1>2, <1>5, <2>1, <2>2 DEF InSweep
  <2>3. CASE v # w
    BY <1>2, <1>5, <2>1, <2>3 DEF InSweep
  <2> QED
    BY <2>2, <2>3
<1>9. VerifiedSound'
  <2> SUFFICES ASSUME NEW v \in Sweepers
               PROVE  VerifiedSound!(v)'
    BY DEF VerifiedSound
  <2>1. CASE v = w
    BY <1>2, <2>1
  <2>2. CASE v # w
    <3>1. pc[v] \in {"record", "drop"} => tgt[v] \in Snapshots /\ Recorded(tgt[v])
      BY DEF SweepInv, FoundSound
    <3> QED
      BY <1>2, <1>5, <2>2, <3>1 DEF SweepInv, VerifiedSound
  <2> QED
    BY <2>1, <2>2
<1>10. TombstoneSound'
  <2> SUFFICES ASSUME NEW t \in Snapshots, Recorded(t)', rec'[t].dropped, ~unseen'[t]
               PROVE  rec'[t].archive = had'[t] /\ CopyWhole(t)'
    BY DEF TombstoneSound
  <2>1. CASE t # s
    BY <1>3, <1>5, <2>1 DEF SweepInv, TombstoneSound
  <2>2. CASE t = s /\ rec[s].dropped
    <3>1. rec[s].archive = had[s] /\ CopyWhole(s) /\ Held(s) = had[s]
      BY <1>1, <1>2, <2>2 DEF SweepInv, TombstoneSound, Held
    <3> QED
      BY <1>1, <1>3, <1>5, <2>2, <3>1
  <2>3. CASE t = s /\ ~rec[s].dropped
    BY <1>1, <1>3, <1>5, <2>3
  <2> QED
    BY <2>1, <2>2, <2>3
<1>11. TodoRecorded'
  BY <1>5 DEF SweepInv, TodoRecorded
<1> QED
  BY <1>4, <1>6, <1>7, <1>8, <1>9, <1>10, <1>11 DEF SweepInv

\* The drop that ends an eviction has the archive verified and named.
LEMMA DropKeeps ==
  ASSUME SweepInv, NEW w \in Sweepers, DropVerified(w)
  PROVE  SweepInv'
<1>1. /\ pc[w] = "drop" /\ Drop(tgt[w]) /\ pc' = [pc EXCEPT ![w] = "next"]
      /\ UNCHANGED <<part, manifest, archiving, unseen, todo, tgt, found>>
  BY DEF DropVerified, bucket
<1>2. ~unseen[tgt[w]] => rec[tgt[w]].archive = Held(tgt[w]) /\ CopyWhole(tgt[w])
  BY <1>1 DEF SweepInv, VerifiedSound
<1>3. unseen' \in [Snapshots -> BOOLEAN]
  BY <1>1 DEF SweepInv, TypeOK
<1> QED
  BY <1>1, <1>2, <1>3, DropStep

\* The drop of what was to be refused is one that no check has seen.
LEMMA ShortcutKeeps ==
  ASSUME SweepInv, NEW w \in Sweepers, Shortcut(w)
  PROVE  SweepInv'
<1> DEFINE s == tgt[w]
           more == unseen[s] \/ ~rec[s].dropped
<1>1. /\ pc[w] = "shortcut" /\ Drop(s) /\ pc' = [pc EXCEPT ![w] = "verify"]
      /\ UNCHANGED <<part, manifest, archiving, todo, tgt, found>>
      /\ unseen' = [unseen EXCEPT ![s] = more]
  BY DEF Shortcut
<1>2. /\ s \in Snapshots /\ rec[s] \in Rec
      /\ unseen \in [Snapshots -> BOOLEAN]
  BY <1>1 DEF SweepInv, FoundSound, TypeOK, Recorded
<1>3. more \in BOOLEAN
  OBVIOUS
<1>4. unseen' \in [Snapshots -> BOOLEAN] /\ unseen'[s] = more
  <2> HIDE DEF more
  <2> QED
    BY <1>1, <1>2, <1>3, Zenon
<1>5. \A t \in Snapshots \ {s} : unseen'[t] = unseen[t]
  <2> HIDE DEF more
  <2> QED
    BY <1>1, <1>2, Zenon
<1>6. (unseen[s] => unseen'[s]) /\ (rec[s].dropped \/ unseen'[s])
  BY <1>4
<1> QED
  BY <1>1, <1>4, <1>5, <1>6, DropStep

LEMMA SkipKeeps ==
  ASSUME SweepInv, NEW w \in Sweepers, Skip(w)
  PROVE  SweepInv'
<1>1. "next" \in Phases /\ pc' = [pc EXCEPT ![w] = "next"] /\ pc'[w] = "next"
  BY DEF SweepInv, TypeOK, Skip, Phases
<1>2. FoundSound!(w)' /\ VerifiedSound!(w)'
  BY <1>1 DEF InSweep
<1> QED
  BY <1>1, <1>2, Moves DEF Skip

-----------------------------------------------------------------------------
(* The theorems.                                                           *)

LEMMA SweepInvInit == Init => SweepInv
<1> SUFFICES ASSUME Init PROVE SweepInv
  OBVIOUS
<1>1. TypeOK
  BY DEF Init, TypeOK, Content, Phases
<1>2. CountSound /\ CopySound /\ TombstoneSound
  BY DEF Init, CountSound, CopySound, TombstoneSound, Recorded
<1>3. FoundSound /\ VerifiedSound /\ TodoRecorded
  BY DEF Init, FoundSound, VerifiedSound, TodoRecorded, InSweep
<1> QED
  BY <1>1, <1>2, <1>3 DEF SweepInv

LEMMA SweepInvStep ==
  ASSUME SweepInv, [Next]_vars
  PROVE  SweepInv'
<1>1. CASE UNCHANGED vars
  BY <1>1 DEF vars, SweepInv, TypeOK, CountSound, CopySound, FoundSound, VerifiedSound,
     TombstoneSound, TodoRecorded, CopyWhole, Held, Recorded
<1>2. CASE \E s \in Snapshots : Archive(s) \/ Rot(s)
  BY <1>2, ArchiveKeeps
<1>3. CASE \E s \in Snapshots : Commit(s)
  BY <1>3, CommitKeeps
<1>4. CASE \E s \in Snapshots, b \in Batches :
             \E R \in SUBSET ({b} \X Values) : Load(s, b, R)
  BY <1>4, LoadKeeps
<1>5. CASE \E w \in Sweepers : ListLive(w) \/ Plan(w)
  BY <1>5, PlanKeeps
<1>6. CASE \E w \in Sweepers : Take(w) \/ Find(w) \/ Ask(w) \/ Shortcut(w)
  BY <1>6, TakeKeeps, FindKeeps, AskKeeps, ShortcutKeeps
<1>7. CASE \E w \in Sweepers : Verify(w) \/ Record(w) \/ DropVerified(w) \/ Skip(w)
  BY <1>7, VerifyKeeps, RecordKeeps, DropKeeps, SkipKeeps
<1>8. CASE \E w \in Sweepers : SweepEnds(w) \/ SweepDies(w)
  BY <1>8, QuietKeeps DEF SweepEnds, SweepDies
<1> QED
  BY <1>1, <1>2, <1>3, <1>4, <1>5, <1>6, <1>7, <1>8 DEF Next, Sweep

\* The sweeps, the copies beside them, and the batches and commits that land at any
\* moment keep the invariant, however many there are.
THEOREM SweepInvariant == Spec => []SweepInv
<1>1. SweepInv /\ [Next]_vars => SweepInv'
  BY SweepInvStep
<1> QED
  BY <1>1, SweepInvInit, PTL DEF Spec

\* Rows that a sweep deleted are all in the archive their tombstone names, unless they
\* changed, or went, where no check of the eviction looks.
THEOREM EvictedAlwaysArchived == Spec => []EvictedIsArchived
<1>1. SweepInv => EvictedIsArchived
  BY DEF SweepInv, TombstoneSound, EvictedIsArchived
<1> QED
  BY <1>1, SweepInvariant, PTL

\* Every value is of its type, whatever is committed or written while a sweep is at work.
THEOREM TypeCorrect == Spec => []TypeOK
<1>1. SweepInv => TypeOK
  BY DEF SweepInv
<1> QED
  BY <1>1, SweepInvariant, PTL

-----------------------------------------------------------------------------
(* What a step does to the records.                                        *)

\* A record that is written, and whether what it is of is then gone.
Writes(s, gone) ==
  \E r \in Rec : rec' = [rec EXCEPT ![s] = r] /\ r.dropped = gone

\* The record of a load that is there keeps its end, a new one has none.
Upstream(s) == Writes(s, IF Recorded(s) THEN rec[s].dropped ELSE FALSE)

Drops(w) ==
  /\ pc[w] \in {"shortcut", "drop"} /\ tgt[w] \in Snapshots
  /\ pc'[w] = IF pc[w] = "drop" THEN "next" ELSE "verify"
  /\ todo' = todo /\ tgt' = tgt
  /\ rec' = rec \/ Writes(tgt[w], TRUE)

\* What a step of the system does to the records.
LEMMA RecordEffect ==
  ASSUME SweepInv, Next
  PROVE  \/ rec' = rec
         \/ \E s \in Snapshots : Upstream(s)
         \/ \E w \in Sweepers : (Shortcut(w) \/ DropVerified(w)) /\ Drops(w)
<1>0. TypeOK /\ \A s \in Snapshots : rows[s] \in Content /\ Cardinality(rows[s]) \in Nat
  BY ContentCount DEF SweepInv, TypeOK
<1>1. ASSUME NEW s \in Snapshots, NEW b \in Batches, NEW R \in SUBSET ({b} \X Values),
             Load(s, b, R)
      PROVE  Upstream(s)
  <2>1. Loaded(s)
    BY <1>0, <1>1, LoadEffect
  <2> QED
    BY <1>0, <2>1 DEF Loaded, Upstream, Writes, TypeOK, Recorded, Rec
<1>2. ASSUME NEW s \in Snapshots, Commit(s) PROVE Upstream(s)
  <2>1. Recorded(s) /\ rec[s] \in Rec
    BY <1>0, <1>2 DEF Commit, Alive, Recorded, TypeOK
  <2> DEFINE new == [rec[s] EXCEPT !.committed = TRUE, !.rowCount = Cardinality(rows[s])]
  <2>2. new \in Rec /\ new.dropped = rec[s].dropped
    BY <1>0, <2>1 DEF Rec
  <2>3. rec' = [rec EXCEPT ![s] = new]
    BY <1>0, <1>2 DEF Commit, TypeOK
  <2> HIDE DEF new
  <2> QED
    BY <2>1, <2>2, <2>3 DEF Upstream, Writes
<1>3. ASSUME NEW s \in Snapshots, Archive(s) \/ Rot(s), rec' # rec PROVE Upstream(s)
  <2>1. RecordArchive(s)
    BY <1>3 DEF Archive, ArchivePart, ArchiveManifest, ArchiveFails, Rot, db
  <2>2. Recorded(s) /\ rec[s] \in Rec /\ archiving[s] \in Content
    BY <1>0, <2>1, Sentinels DEF RecordArchive, SweepInv, CopySound, Recorded, TypeOK
  <2> DEFINE new == [rec[s] EXCEPT !.archive = archiving[s]]
  <2>3. new \in Rec /\ new.dropped = rec[s].dropped
    BY <2>2 DEF Rec
  <2>4. rec' = [rec EXCEPT ![s] = new]
    BY <2>1 DEF RecordArchive
  <2> HIDE DEF new
  <2> QED
    BY <2>2, <2>3, <2>4 DEF Upstream, Writes
<1>4. ASSUME NEW w \in Sweepers, Record(w) PROVE tgt[w] \in Snapshots /\ Upstream(tgt[w])
  <2>1. /\ tgt[w] \in Snapshots /\ Recorded(tgt[w]) /\ rec[tgt[w]] \in Rec /\ found[w] \in Rec
    BY <1>0, <1>4 DEF Record, SweepInv, FoundSound, InSweep, Recorded, TypeOK
  <2> DEFINE new == [rec[tgt[w]] EXCEPT !.archive = found[w].archive]
  <2>2. new \in Rec /\ new.dropped = rec[tgt[w]].dropped
    BY <2>1 DEF Rec
  <2>3. rec' = [rec EXCEPT ![tgt[w]] = new]
    BY <1>4 DEF Record
  <2> HIDE DEF new
  <2> QED
    BY <2>1, <2>2, <2>3 DEF Upstream, Writes
<1>5. ASSUME NEW w \in Sweepers, Shortcut(w) \/ DropVerified(w) PROVE Drops(w)
  <2>1. /\ tgt[w] \in Snapshots /\ Recorded(tgt[w]) /\ rec[tgt[w]] \in Rec
        /\ pc[w] \in {"shortcut", "drop"}
        /\ pc'[w] = IF pc[w] = "drop" THEN "next" ELSE "verify"
        /\ todo' = todo /\ tgt' = tgt
    BY <1>0, <1>5 DEF Shortcut, DropVerified, SweepInv, FoundSound, InSweep, Recorded, TypeOK
  <2> DEFINE new == [rec[tgt[w]] EXCEPT !.dropped = TRUE, !.rowCount = Cardinality(rows[tgt[w]])]
  <2>2. new \in Rec /\ new.dropped = TRUE
    BY <1>0, <2>1 DEF Rec
  <2>3. rec' = rec \/ rec' = [rec EXCEPT ![tgt[w]] = new]
    BY <1>0, <1>5, <2>1 DEF Shortcut, DropVerified, Drop, db, TypeOK
  <2> HIDE DEF new
  <2> QED
    BY <2>1, <2>2, <2>3 DEF Drops, Writes
<1>6. ASSUME NEW w \in Sweepers,
             \/ ListLive(w) \/ Plan(w) \/ Take(w) \/ Find(w) \/ Ask(w) \/ Verify(w) \/ Skip(w)
             \/ SweepEnds(w) \/ SweepDies(w)
      PROVE  rec' = rec
  BY <1>6 DEF ListLive, Plan, Take, Find, Ask, Verify, Skip, SweepEnds, SweepDies, Quiet, db
<1>7. CASE \/ \E s \in Snapshots : Archive(s) \/ Rot(s) \/ Commit(s)
           \/ \E s \in Snapshots, b \in Batches :
                \E R \in SUBSET ({b} \X Values) : Load(s, b, R)
  BY <1>1, <1>2, <1>3, <1>7
<1>8. CASE \E w \in Sweepers : ListLive(w) \/ Sweep(w) \/ SweepDies(w)
  BY <1>4, <1>5, <1>6, <1>8 DEF Sweep
<1> QED
  BY <1>7, <1>8 DEF Next

-----------------------------------------------------------------------------
(* What remains.                                                           *)

\* The ones with fewer than k newer beside them are k at least, or all there are:
\* ties keep more.
LEMMA NewestAreEnough ==
  ASSUME NEW S, IsFiniteSet(S), NEW f \in [S -> Nat], NEW k \in Nat,
         NEW R, R = {s \in S : Cardinality({t \in S : f[t] > f[s]}) < k}
  PROVE  R = S \/ Cardinality(R) >= k
<1> DEFINE Newer(s) == {t \in S : f[t] > f[s]}
           counts == {Cardinality(Newer(s)) : s \in S \ R}
<1>1. \A s \in S : IsFiniteSet(Newer(s)) /\ Cardinality(Newer(s)) \in Nat
  BY FS_Subset, FS_CardinalityType
<1>2. SUFFICES ASSUME R # S PROVE Cardinality(R) >= k
  OBVIOUS
<1>3. counts \in SUBSET Nat /\ counts # {}
  BY <1>1, <1>2
<1>4. PICK n \in counts : \A m \in counts : ~ (<<m, n>> \in OpToRel(<, Nat))
  <2> HIDE DEF counts
  <2> QED BY <1>3, NatLessThanWellFounded, WFMin
<1>5. PICK s \in S \ R : n = Cardinality(Newer(s))
  OBVIOUS
<1>6. ASSUME NEW t \in Newer(s) PROVE t \in R
  <2>1. SUFFICES ASSUME t \notin R PROVE FALSE
    OBVIOUS
  <2>2. t \in S /\ f[t] > f[s] /\ f[t] \in Nat /\ f[s] \in Nat
    BY <1>6
  <2>3. \A u \in S : f[u] > f[t] => f[u] > f[s]
    BY <2>2
  <2>4. Newer(t) \subseteq Newer(s) /\ t \in Newer(s) /\ t \notin Newer(t)
    BY <1>6, <2>2, <2>3
  <2>5. Cardinality(Newer(t)) < Cardinality(Newer(s))
    <3> HIDE DEF Newer
    <3>1. /\ Cardinality(Newer(t)) <= Cardinality(Newer(s))
          /\ Cardinality(Newer(t)) = Cardinality(Newer(s)) => Newer(t) = Newer(s)
      BY <1>1, <1>5, <2>2, <2>4, FS_Subset
    <3>2. Newer(t) # Newer(s)
      BY <2>4
    <3>3. Cardinality(Newer(t)) # Cardinality(Newer(s))
      BY <3>1, <3>2
    <3>4. Cardinality(Newer(t)) \in Nat /\ Cardinality(Newer(s)) \in Nat
      BY <1>1, <1>5, <2>2
    <3> QED
      BY <3>1, <3>3, <3>4
  <2>6. Cardinality(Newer(t)) \in counts
    BY <2>1, <2>2
  <2> QED
    BY <1>1, <1>3, <1>4, <1>5, <2>2, <2>5, <2>6 DEF OpToRel
<1>7. IsFiniteSet(R) /\ Newer(s) \subseteq R
  BY <1>6, FS_Subset
<1>8. Cardinality(Newer(s)) <= Cardinality(R) /\ Cardinality(R) \in Nat
  BY <1>7, FS_Subset, FS_CardinalityType
<1>9. ~ (Cardinality(Newer(s)) < k)
  BY <1>5
<1>10. Cardinality(Newer(s)) \in Nat
  BY <1>1, <1>5
<1> HIDE DEF Newer
<1> QED
  BY <1>8, <1>9, <1>10

\* The plan keeps Keep of the live snapshots, or all of them.
LEMMA RetainedAreEnough ==
  ASSUME NEW listed \in SUBSET Snapshots, NEW served,
         \A s \in listed : rec[s] \in Rec
  PROVE  /\ Retained(listed, served) \subseteq listed
         /\ \/ Retained(listed, served) = listed
            \/ Cardinality(Retained(listed, served)) >= Keep
<1> DEFINE own == {s \in listed : s = served}
           rest == listed \ own
           k == Keep - Cardinality(own)
           R == {s \in rest : Cardinality({t \in rest : rec[t].created > rec[s].created}) < k}
           f == [s \in rest |-> rec[s].created]
<1>1. Retained(listed, served) = own \cup R
  BY DEF Retained
<1>2. IsFiniteSet(listed) /\ IsFiniteSet(own) /\ IsFiniteSet(rest) /\ IsFiniteSet(R)
  BY EvictionFiniteness, FS_Subset
<1>3. Cardinality(own) \in {0, 1}
  <2>1. own = {} \/ own = {served}
    OBVIOUS
  <2> QED
    BY <2>1, FS_EmptySet, FS_Singleton
<1>4. k \in Nat
  BY <1>3, EvictionAssumption
<1>5. f \in [rest -> Nat]
  BY DEF Rec
<1>6. R = {s \in rest : Cardinality({t \in rest : f[t] > f[s]}) < k}
  <2>1. \A s \in rest : {t \in rest : f[t] > f[s]} = {t \in rest : rec[t].created > rec[s].created}
    OBVIOUS
  <2> QED
    BY <2>1, Zenon
<1>7. R = rest \/ Cardinality(R) >= k
  <2> HIDE DEF R, f, rest, k
  <2> QED
    BY <1>2, <1>4, <1>5, <1>6, NewestAreEnough
<1>8. Cardinality(own \cup R) = Cardinality(own) + Cardinality(R)
  <2>1. own \cap R = {}
    OBVIOUS
  <2> HIDE DEF own, R
  <2>2. Cardinality(own \cup R) = Cardinality(own) + Cardinality(R) - Cardinality(own \cap R)
    BY <1>2, FS_Union
  <2>3. Cardinality(own \cap R) = 0
    BY <2>1, FS_EmptySet, Zenon
  <2>4. Cardinality(own) \in Nat /\ Cardinality(R) \in Nat
    BY <1>2, FS_CardinalityType
  <2> QED
    BY <2>2, <2>3, <2>4
<1>9. Cardinality(R) \in Nat
  BY <1>2, FS_CardinalityType
<1>10. own \cup R \subseteq listed /\ (R = rest => own \cup R = listed)
  OBVIOUS
<1>11. Cardinality(R) >= k => Cardinality(own \cup R) >= Keep
  BY <1>3, <1>4, <1>8, <1>9, EvictionAssumption
<1> QED
  BY <1>1, <1>7, <1>10, <1>11

Living == {s \in Snapshots : Alive(s)}

\* What a sweep may still drop.
Doomed(w) == todo[w] \cup (IF pc[w] \in {"find"} \cup InSweep THEN {tgt[w]} ELSE {})

Enough(S) == Cardinality(S) >= Keep

NothingGone == \A s \in Snapshots : Recorded(s) => Alive(s)

\* KeepRemains says nothing of the drops a plan has ahead of it.  While one sweep is
\* under way at a time, what it listed lives, and what lives beside what it may still
\* drop is enough.
OneSweep   == \A w, x \in Sweepers : pc[w] # "rest" /\ pc[x] # "rest" => w = x
FloorHolds == Enough(Living) \/ NothingGone
ListedLive == \A w \in Sweepers : pc[w] = "plan" => todo[w] \subseteq Living
RoomAhead  ==
  \A w \in Sweepers :
    pc[w] \notin {"rest", "plan"} => Doomed(w) = {} \/ Enough(Living \ Doomed(w))

RoomLeft == OneSweep /\ FloorHolds /\ ListedLive /\ RoomAhead

KeepInv == SweepInv /\ (~crossed => RoomLeft)

LEMMA EnoughMore ==
  ASSUME NEW S \in SUBSET Snapshots, NEW T \in SUBSET Snapshots, S \subseteq T, Enough(S)
  PROVE  Enough(T)
<1>1. IsFiniteSet(T)
  BY EvictionFiniteness, FS_Subset
<1>2. Cardinality(S) <= Cardinality(T) /\ Cardinality(S) \in Nat /\ Cardinality(T) \in Nat
  BY <1>1, FS_Subset, FS_CardinalityType
<1> QED
  BY <1>2, EvictionAssumption DEF Enough

\* Only the drop of a sweep ends a life.
LEMMA LivesLost ==
  ASSUME SweepInv, Next
  PROVE  \/ Living \subseteq Living' /\ (NothingGone => NothingGone')
         \/ \E w \in Sweepers : /\ (Shortcut(w) \/ DropVerified(w)) /\ Drops(w)
                                /\ Living \ {tgt[w]} \subseteq Living'
<1>0. rec \in [Snapshots -> {NoRec} \cup Rec]
  BY DEF SweepInv, TypeOK
<1>1. CASE rec' = rec
  BY <1>1 DEF Living, NothingGone, Alive, Recorded
<1>2. CASE \E s \in Snapshots : Upstream(s)
  <2>1. PICK s \in Snapshots, r \in Rec :
          /\ rec' = [rec EXCEPT ![s] = r]
          /\ r.dropped = IF Recorded(s) THEN rec[s].dropped ELSE FALSE
    BY <1>2 DEF Upstream, Writes
  <2>2. rec'[s] = r /\ r # NoRec /\ \A t \in Snapshots \ {s} : rec'[t] = rec[t]
    BY <1>0, <2>1, NoRecAssumption
  <2>3. Alive(s) => Alive(s)'
    BY <2>1, <2>2 DEF Alive, Recorded
  <2>4. (Recorded(s) => Alive(s)) => Alive(s)'
    BY <2>1, <2>2 DEF Alive, Recorded
  <2> QED
    BY <2>2, <2>3, <2>4 DEF Living, NothingGone, Alive, Recorded
<1>3. CASE \E w \in Sweepers : (Shortcut(w) \/ DropVerified(w)) /\ Drops(w)
  <2>1. PICK w \in Sweepers : (Shortcut(w) \/ DropVerified(w)) /\ Drops(w)
    BY <1>3
  <2>2. \A t \in Snapshots \ {tgt[w]} : rec'[t] = rec[t]
    BY <1>0, <2>1 DEF Drops, Writes
  <2>3. Living \ {tgt[w]} \subseteq Living'
    BY <2>2 DEF Living, Alive, Recorded
  <2> QED
    BY <2>1, <2>3
<1> QED
  BY <1>1, <1>2, <1>3, RecordEffect

\* A step of a sweep that neither lists nor plans puts nothing more at risk.
Calm(w) ==
  \/ pc'[w] = pc[w] /\ todo'[w] = todo[w] /\ tgt'[w] = tgt[w]
  \/ pc[w] # "rest" /\ pc'[w] = "rest"
  \/ /\ pc[w] \notin {"rest", "plan"} /\ pc'[w] \notin {"rest", "plan"}
     /\ Doomed(w)' \subseteq Doomed(w)

LEMMA CalmKeeps ==
  ASSUME RoomLeft, \A w \in Sweepers : Calm(w),
         Living \subseteq Living', NothingGone => NothingGone'
  PROVE  RoomLeft'
<1>1. Living \in SUBSET Snapshots /\ Living' \in SUBSET Snapshots
  BY DEF Living
<1>2. OneSweep'
  BY DEF RoomLeft, OneSweep, Calm
<1>3. FloorHolds'
  <2>1. Enough(Living) => Enough(Living')
    BY <1>1, EnoughMore
  <2> QED
    BY <2>1 DEF RoomLeft, FloorHolds, Enough
<1>4. ListedLive'
  BY DEF RoomLeft, ListedLive, Calm
<1>5. RoomAhead'
  <2> SUFFICES ASSUME NEW w \in Sweepers, pc'[w] \notin {"rest", "plan"}, Doomed(w)' # {}
               PROVE  Enough(Living' \ Doomed(w)')
    BY DEF RoomAhead, Enough
  <2>1. pc[w] \notin {"rest", "plan"} /\ Doomed(w)' \subseteq Doomed(w)
    BY DEF Calm, Doomed
  <2>2. Enough(Living \ Doomed(w))
    BY <2>1 DEF RoomLeft, RoomAhead
  <2>3. Living \ Doomed(w) \subseteq Living' \ Doomed(w)'
    BY <2>1
  <2> QED
    BY <1>1, <2>2, <2>3, EnoughMore
<1> QED
  BY <1>2, <1>3, <1>4, <1>5 DEF RoomLeft

\* What a sweep does between its plan and its drops, and when it is over.
LEMMA SweepIsCalm ==
  ASSUME SweepInv, NEW w \in Sweepers,
         \/ Take(w) \/ Find(w) \/ Ask(w) \/ Verify(w) \/ Record(w) \/ Skip(w)
         \/ SweepEnds(w) \/ SweepDies(w)
  PROVE  \A x \in Sweepers : Calm(x)
<1>0. /\ pc \in [Sweepers -> Phases] /\ todo \in [Sweepers -> SUBSET Snapshots]
      /\ tgt \in [Sweepers -> Snapshots \cup {None}]
  BY DEF SweepInv, TypeOK
<1> SUFFICES ASSUME NEW x \in Sweepers PROVE Calm(x)
  OBVIOUS
<1>1. CASE x # w
  BY <1>0, <1>1 DEF Calm, Take, Find, Ask, Verify, Record, Skip, SweepEnds, SweepDies, Quiet
<1>2. CASE x = w /\ (SweepEnds(w) \/ SweepDies(w))
  BY <1>0, <1>2 DEF Calm, SweepEnds, SweepDies, Quiet
<1>3. CASE x = w /\ Take(w)
  <2>1. PICK s \in todo[w] : /\ tgt' = [tgt EXCEPT ![w] = s]
                             /\ todo' = [todo EXCEPT ![w] = todo[w] \ {s}]
    BY <1>3 DEF Take
  <2>2. pc[w] = "next" /\ pc'[w] = "find" /\ tgt'[w] = s /\ todo'[w] = todo[w] \ {s}
    BY <1>0, <1>3, <2>1 DEF Take
  <2> QED
    BY <1>3, <2>2 DEF Calm, Doomed
<1>4. CASE x = w /\ (Find(w) \/ Ask(w) \/ Verify(w) \/ Record(w) \/ Skip(w))
  <2>1. /\ pc[w] \in {"find"} \cup InSweep /\ pc'[w] \in {"next"} \cup InSweep
        /\ todo' = todo /\ tgt' = tgt
    BY <1>0, <1>4 DEF Find, Ask, Verify, Record, Skip, Refused, InSweep
  <2> QED
    BY <1>4, <2>1 DEF Calm, Doomed, InSweep
<1> QED
  BY <1>1, <1>2, <1>3, <1>4

\* The plan takes only what it can spare.
LEMMA PlanLeavesRoom ==
  ASSUME SweepInv, RoomLeft, NEW w \in Sweepers, Plan(w)
  PROVE  RoomLeft'
<1> DEFINE R == Retained(todo[w], current)
<1>0. /\ pc \in [Sweepers -> Phases] /\ todo \in [Sweepers -> SUBSET Snapshots]
      /\ rec \in [Snapshots -> {NoRec} \cup Rec]
  BY DEF SweepInv, TypeOK
<1>1. /\ pc[w] = "plan" /\ pc' = [pc EXCEPT ![w] = "next"] /\ rec' = rec /\ tgt' = tgt
      /\ todo' = [todo EXCEPT ![w] = todo[w] \ R]
  BY DEF Plan, db
<1>2. Living' = Living /\ (NothingGone' <=> NothingGone) /\ Living \in SUBSET Snapshots
  BY <1>1 DEF Living, NothingGone, Alive, Recorded
<1>3. todo[w] \subseteq Living /\ todo[w] \in SUBSET Snapshots
  BY <1>0, <1>1 DEF RoomLeft, ListedLive
<1>4. \A s \in todo[w] : rec[s] \in Rec
  BY <1>0, <1>3 DEF Living, Alive, Recorded
<1>5. R \subseteq todo[w] /\ (R = todo[w] \/ Enough(R))
  BY <1>3, <1>4, RetainedAreEnough DEF Enough
<1> HIDE DEF R
<1>6. \A x \in Sweepers \ {w} : pc[x] = "rest" /\ pc'[x] = "rest"
  BY <1>0, <1>1 DEF RoomLeft, OneSweep
<1>7. pc'[w] = "next" /\ Doomed(w)' = todo[w] \ R
  BY <1>0, <1>1 DEF Doomed, InSweep
<1>8. Doomed(w)' = {} \/ Enough(Living' \ Doomed(w)')
  <2>1. CASE R = todo[w]
    BY <1>7, <2>1
  <2>2. CASE Enough(R)
    <3>1. R \subseteq Living' \ Doomed(w)' /\ R \in SUBSET Snapshots
      BY <1>2, <1>3, <1>5, <1>7
    <3> QED
      BY <1>2, <2>2, <3>1, EnoughMore
  <2> QED
    BY <1>5, <2>1, <2>2
<1>9. OneSweep' /\ ListedLive'
  BY <1>6, <1>7 DEF OneSweep, ListedLive
<1>10. FloorHolds'
  BY <1>2 DEF RoomLeft, FloorHolds, Enough
<1>11. RoomAhead'
  BY <1>6, <1>8 DEF RoomAhead, Enough
<1> QED
  BY <1>9, <1>10, <1>11 DEF RoomLeft

\* A drop ends one of the lives the plan could spare.
LEMMA DropLeavesRoom ==
  ASSUME SweepInv, RoomLeft, NEW w \in Sweepers, Shortcut(w) \/ DropVerified(w), Drops(w),
         Living \ {tgt[w]} \subseteq Living'
  PROVE  RoomLeft'
<1>0. pc \in [Sweepers -> Phases]
  BY DEF SweepInv, TypeOK
<1>1. /\ pc[w] \in {"shortcut", "drop"} /\ pc'[w] \in {"next", "verify"}
      /\ todo' = todo /\ tgt' = tgt
      /\ \A x \in Sweepers \ {w} : pc'[x] = pc[x]
  BY <1>0 DEF Drops, Shortcut, DropVerified
<1>2. tgt[w] \in Doomed(w) /\ Doomed(w)' \subseteq Doomed(w)
  BY <1>1 DEF Doomed, InSweep
<1>3. Enough(Living \ Doomed(w))
  BY <1>1, <1>2 DEF RoomLeft, RoomAhead
<1>4. /\ Living \ Doomed(w) \in SUBSET Snapshots /\ Living' \in SUBSET Snapshots
      /\ Living' \ Doomed(w)' \in SUBSET Snapshots
  BY DEF Living
<1>5. Living \ Doomed(w) \subseteq Living' /\ Living \ Doomed(w) \subseteq Living' \ Doomed(w)'
  BY <1>2
<1>6. Enough(Living') /\ Enough(Living' \ Doomed(w)')
  BY <1>3, <1>4, <1>5, EnoughMore
<1>7. \A x \in Sweepers \ {w} : pc[x] = "rest" /\ pc'[x] = "rest"
  BY <1>1 DEF RoomLeft, OneSweep
<1>8. OneSweep' /\ ListedLive'
  BY <1>1, <1>7 DEF OneSweep, ListedLive
<1>9. FloorHolds' /\ RoomAhead'
  BY <1>6, <1>7 DEF FloorHolds, RoomAhead, Enough
<1> QED
  BY <1>8, <1>9 DEF RoomLeft

\* A sweep that begins while the others rest lists what lives.
LEMMA ListLeavesRoom ==
  ASSUME SweepInv, RoomLeft, NEW w \in Sweepers, ListLive(w),
         \A x \in Sweepers \ {w} : pc[x] = "rest"
  PROVE  RoomLeft'
<1>1. pc \in [Sweepers -> Phases] /\ todo \in [Sweepers -> SUBSET Snapshots]
  BY DEF SweepInv, TypeOK
<1>2. /\ pc' = [pc EXCEPT ![w] = "plan"] /\ rec' = rec
      /\ todo' = [todo EXCEPT ![w] = Living]
  BY DEF ListLive, db, Living
<1>3. Living' = Living /\ (NothingGone' <=> NothingGone)
  BY <1>2 DEF Living, NothingGone, Alive, Recorded
<1>4. pc'[w] = "plan" /\ todo'[w] = Living /\ \A x \in Sweepers \ {w} : pc'[x] = "rest"
  BY <1>1, <1>2
<1>5. OneSweep' /\ ListedLive' /\ RoomAhead'
  BY <1>3, <1>4 DEF OneSweep, ListedLive, RoomAhead
<1>6. FloorHolds'
  BY <1>3 DEF RoomLeft, FloorHolds, Enough
<1> QED
  BY <1>5, <1>6 DEF RoomLeft

\* The events of the small instance are steps of Eviction, and plan no sweep.
LEMMA EventsAre ==
  ASSUME NEW s \in Snapshots, MCBegin(s) \/ MCEvent(s)
  PROVE  /\ crossed' = crossed
         /\ \/ Commit(s) \/ Rot(s) \/ ArchivePart(s)
            \/ \E b \in Batches : \E R \in SUBSET ({b} \X Values) : Load(s, b, R)
<1>1. \A b \in Batches : MCBatches(b) \subseteq SUBSET ({b} \X Values)
  BY DEF MCBatches
<1>2. MCBatch(s) => \E b \in Batches : \E R \in SUBSET ({b} \X Values) : Load(s, b, R)
  BY <1>1 DEF MCBatch
<1>3. crossed' = crossed
  BY Zenon DEF MCBegin, MCEvent
<1> QED
  BY <1>2, <1>3, Zenon DEF MCBegin, MCEvent

LEMMA KeepStep == KeepInv /\ [MCNext]_mcVars => KeepInv'
<1> SUFFICES ASSUME KeepInv, [MCNext]_mcVars PROVE KeepInv'
  OBVIOUS
<1>1. CASE UNCHANGED mcVars
  <2>1. SweepInv'
    BY <1>1, SweepInvStep DEF KeepInv, mcVars
  <2>2. RoomLeft => RoomLeft'
    <3>1. /\ \A w \in Sweepers : Calm(w)
          /\ Living \subseteq Living' /\ (NothingGone => NothingGone')
      BY <1>1 DEF mcVars, vars, Calm, Living, NothingGone, Alive, Recorded
    <3> QED
      BY <3>1, CalmKeeps
  <2> QED
    BY <1>1, <2>1, <2>2 DEF KeepInv, mcVars
<1>2. CASE MCNext
  <2>0. crossed => crossed'
    <3>1. ASSUME NEW w \in Sweepers, MCListLive(w) PROVE crossed => crossed'
      BY <3>1, Zenon DEF MCListLive
    <3>2. ASSUME NEW s \in Snapshots, MCBegin(s) \/ MCEvent(s) PROVE crossed => crossed'
      BY <3>2, EventsAre
    <3>3. MCOther => (crossed => crossed')
      BY Zenon DEF MCOther
    <3> QED
      BY <1>2, <3>1, <3>2, <3>3, Zenon DEF MCNext
  <2>1. Next /\ (crossed => crossed')
    BY <1>2, <2>0, EventsAre DEF MCNext, MCListLive, MCOther, Next, Archive
  <2>2. SweepInv /\ SweepInv'
    BY <2>1, SweepInvStep DEF KeepInv
  <2>3. ASSUME ~crossed' PROVE RoomLeft'
    <3>1. RoomLeft
      BY <2>1, <2>3 DEF KeepInv
    <3>2. CASE \E w \in Sweepers : MCListLive(w)
      BY <2>2, <2>3, <3>1, <3>2, ListLeavesRoom DEF MCListLive
    <3>3. CASE \E w \in Sweepers : Plan(w)
      BY <2>2, <3>1, <3>3, PlanLeavesRoom
    <3>4. CASE \E w \in Sweepers : /\ (Shortcut(w) \/ DropVerified(w)) /\ Drops(w)
                                   /\ Living \ {tgt[w]} \subseteq Living'
      BY <2>2, <3>1, <3>4, DropLeavesRoom
    <3>5. CASE /\ Living \subseteq Living' /\ (NothingGone => NothingGone')
               /\ \A w \in Sweepers : Calm(w)
      BY <3>1, <3>5, CalmKeeps
    <3>6. ASSUME \E w \in Sweepers : Shortcut(w) \/ DropVerified(w),
                 Living \subseteq Living', NothingGone => NothingGone'
          PROVE  \A w \in Sweepers : Calm(w)
      <4>1. PICK w \in Sweepers : Shortcut(w) \/ DropVerified(w)
        BY <3>6
      <4>2. /\ pc \in [Sweepers -> Phases] /\ pc[w] \in {"shortcut", "drop"}
            /\ todo' = todo /\ tgt' = tgt
            /\ pc'[w] \in {"next", "verify"}
            /\ \A x \in Sweepers \ {w} : pc'[x] = pc[x]
        BY <2>2, <4>1 DEF SweepInv, TypeOK, Shortcut, DropVerified
      <4>3. Doomed(w)' \subseteq Doomed(w)
        BY <4>2 DEF Doomed, InSweep
      <4> QED
        BY <4>2, <4>3 DEF Calm
    <3>7. ASSUME NEW w \in Sweepers,
                 \/ Take(w) \/ Find(w) \/ Ask(w) \/ Verify(w) \/ Record(w) \/ Skip(w)
                 \/ SweepEnds(w) \/ SweepDies(w)
          PROVE  \A x \in Sweepers : Calm(x)
      BY <2>2, <3>7, SweepIsCalm
    <3>8. ASSUME NEW s \in Snapshots,
                 \/ Archive(s) \/ Rot(s) \/ Commit(s)
                 \/ \E b \in Batches : \E R \in SUBSET ({b} \X Values) : Load(s, b, R)
          PROVE  \A x \in Sweepers : Calm(x)
      BY <3>8 DEF Archive, ArchivePart, ArchiveManifest, RecordArchive, ArchiveFails, Rot, Commit,
         Load, sweeper, Calm
    <3>9. \/ \E w \in Sweepers : MCListLive(w) \/ Plan(w) \/ Shortcut(w) \/ DropVerified(w)
          \/ \A w \in Sweepers : Calm(w)
      BY <1>2, <3>7, <3>8, EventsAre DEF MCNext, MCOther, Sweep, Archive
    <3> QED
      BY <2>1, <2>2, <3>2, <3>3, <3>4, <3>5, <3>6, <3>9, LivesLost
  <2> QED
    BY <2>2, <2>3 DEF KeepInv
<1> QED
  BY <1>1, <1>2

LEMMA KeepInit == MCInit => KeepInv
<1> SUFFICES ASSUME MCInit PROVE SweepInv /\ RoomLeft
  BY DEF KeepInv
<1>1. SweepInv
  BY SweepInvInit DEF MCInit
<1>2. OneSweep /\ FloorHolds /\ ListedLive /\ RoomAhead
  BY DEF MCInit, Init, OneSweep, FloorHolds, ListedLive, RoomAhead, NothingGone, Recorded
<1> QED
  BY <1>1, <1>2 DEF RoomLeft

\* Keep loads still have their rows, or all there are, unless two sweeps planned across
\* each other: however loads land and the pointer moves, under a sweep that listed
\* before, read what is served after and drops one by one.
THEOREM LatestRemain == MCSpec => []KeepRemains
<1>1. KeepInv => KeepRemains
  <2> SUFFICES ASSUME RoomLeft PROVE Cardinality(Living) >= Keep \/ Cardinality(Living) = Now
    BY DEF KeepInv, KeepRemains, Living
  <2>1. NothingGone => Living = {s \in Snapshots : Recorded(s)}
    BY DEF NothingGone, Living, Alive
  <2> QED
    BY <2>1 DEF RoomLeft, FloorHolds, Enough, Now
<1> QED
  BY <1>1, KeepInit, KeepStep, PTL DEF MCSpec

=============================================================================

------------------------------ MODULE Eviction ------------------------------
(***************************************************************************)
(* Retention: a host copies the snapshots of a type to an archive          *)
(* (pipeline/src/snapshot-archive.ts) and sweeps away the ones a retention *)
(* policy no longer keeps (pipeline/src/snapshot-eviction.ts), while loads *)
(* write and commit, and older loads are committed again.  The store is    *)
(* the SQL one, whose commit and drop are each one transaction             *)
(* (MikroOrmStore).                                                        *)
(***************************************************************************)
EXTENDS Integers, FiniteSets

CONSTANTS Snapshots, Batches, Values, Sweepers,
          Keep,       \* retention.keep
          None,       \* no snapshot
          NoRec,      \* no record, no file
          NoArchive,  \* no archive recorded
          Rotten      \* a file that does not read back

\* A row is told by the batch it came in and what it says; rows, a file and a checksum
\* by the rows they are of.
Row     == Batches \X Values
Content == SUBSET Row

ASSUME EvictionAssumption ==
  /\ Keep \in Nat \ {0}
  /\ None \notin Snapshots
  /\ \A c \in Content : c # NoRec /\ c # NoArchive /\ c # Rotten
  /\ NoRec # Rotten

\* There are finitely many of everything.
ASSUME EvictionFiniteness == IsFiniteSet(Snapshots) /\ IsFiniteSet(Row)

VARIABLES rows,      \* [Snapshots -> the rows under its id]
          rec,       \* [Snapshots -> record, or NoRec]
          current,   \* the served snapshot
          part,      \* [Snapshots -> what the archive's file holds]
          manifest,  \* [Snapshots -> what the archive's manifest describes]
          archiving, \* [Snapshots -> the copy under way, or NoRec]
          had,       \* [Snapshots -> the rows a drop took]
          unseen,    \* [Snapshots -> its rows changed where no check looks]
          pc, todo, tgt, found

db      == <<rows, rec, current, had>>
bucket  == <<part, manifest, archiving, unseen>>
sweeper == <<pc, todo, tgt, found>>
vars    == <<rows, rec, current, had, part, manifest, archiving, unseen, pc, todo, tgt,
             found>>

Rec == [created : Nat, rowCount : Nat, committed : BOOLEAN, dropped : BOOLEAN,
        archive : {NoArchive} \cup Content]

ASSUME NoRecAssumption == NoRec \notin Rec

Phases == {"rest", "plan", "next", "find", "ask", "shortcut", "verify", "record", "drop"}

TypeOK ==
  /\ rows \in [Snapshots -> Content]
  /\ rec \in [Snapshots -> {NoRec} \cup Rec]
  /\ current \in Snapshots \cup {None}
  /\ part \in [Snapshots -> {NoRec, Rotten} \cup Content]
  /\ manifest \in [Snapshots -> {NoRec} \cup Content]
  /\ archiving \in [Snapshots -> {NoRec} \cup Content]
  /\ had \in [Snapshots -> {NoRec} \cup Content]
  /\ unseen \in [Snapshots -> BOOLEAN]
  /\ pc \in [Sweepers -> Phases]
  /\ todo \in [Sweepers -> SUBSET Snapshots]
  /\ tgt \in [Sweepers -> Snapshots \cup {None}]
  /\ found \in [Sweepers -> {NoRec} \cup Rec]

Init ==
  /\ rows = [s \in Snapshots |-> {}]
  /\ rec = [s \in Snapshots |-> NoRec]
  /\ current = None
  /\ part = [s \in Snapshots |-> NoRec]
  /\ manifest = [s \in Snapshots |-> NoRec]
  /\ archiving = [s \in Snapshots |-> NoRec]
  /\ had = [s \in Snapshots |-> NoRec]
  /\ unseen = [s \in Snapshots |-> FALSE]
  /\ pc = [w \in Sweepers |-> "rest"]
  /\ todo = [w \in Sweepers |-> {}]
  /\ tgt = [w \in Sweepers |-> None]
  /\ found = [w \in Sweepers |-> NoRec]

Recorded(s) == rec[s] # NoRec
Alive(s)    == Recorded(s) /\ ~rec[s].dropped
Now         == Cardinality({s \in Snapshots : Recorded(s)})

-----------------------------------------------------------------------------
(* The loads. *)

\* A sweep has read of the snapshot and not yet dropped it.
InHand(s) ==
  \E w \in Sweepers : tgt[w] = s /\ pc[w] \in {"ask", "shortcut", "verify", "record", "drop"}

\* What a reference says of the rows: an open load is counted when it is asked after.
Counted(s) ==
  IF rec[s].committed \/ rec[s].dropped THEN rec[s].rowCount ELSE Cardinality(rows[s])

\* Only a committed load that has its rows is counted again when a batch lands.
Recounted(s, held) ==
  IF rec[s].committed /\ ~rec[s].dropped THEN Cardinality(held) ELSE rec[s].rowCount

\* No check of an eviction notices: a sweep has already read the count, or rows that
\* were copied are replaced and there may be as many as before.
Unnoticed(s, held) ==
  /\ Alive(s) /\ held # rows[s]
  /\ InHand(s) \/ (part[s] # NoRec /\ ~(rows[s] \subseteq held))

\* A batch lands and replaces what its number held: on an open load, late on a
\* committed one, and even on a tombstone, whose record is left alone.
Load(s, b, R) ==
  LET held == (rows[s] \ ({b} \X Values)) \cup R
  IN /\ rows' = [rows EXCEPT ![s] = held]
     /\ rec' = [rec EXCEPT ![s] =
          IF ~Recorded(s)
            THEN [created |-> Now, rowCount |-> 0, committed |-> FALSE,
                  dropped |-> FALSE, archive |-> NoArchive]
            ELSE [rec[s] EXCEPT !.rowCount = Recounted(s, held)]]
     /\ unseen' = [unseen EXCEPT ![s] = @ \/ Unnoticed(s, held)]
     /\ UNCHANGED <<current, had, part, manifest, archiving, sweeper>>

\* Also of an older snapshot, which is how a rollback is expressed.
Commit(s) ==
  /\ Alive(s)
  /\ current # s
  /\ rec' = [rec EXCEPT ![s].committed = TRUE, ![s].rowCount = Cardinality(rows[s])]
  /\ current' = s
  /\ UNCHANGED <<rows, had, bucket, sweeper>>

\* The store's drop: refused for the served snapshot, nothing for a tombstone.
DropRefused(s) == current = s

Drop(s) ==
  IF rec[s].dropped THEN UNCHANGED db
  ELSE /\ rows' = [rows EXCEPT ![s] = {}]
       /\ rec' = [rec EXCEPT ![s].dropped = TRUE, ![s].rowCount = Cardinality(rows[s])]
       /\ had' = [had EXCEPT ![s] = rows[s]]
       /\ UNCHANGED current

-----------------------------------------------------------------------------
(* archiveSnapshot: stream the rows into the file and read it back, then the *)
(* manifest; the host then records the reference.                          *)

\* The stream counts what it reads against the reference's count, and an unequal one
\* throws the new file away.  A copy made with no sweep at work on the snapshot makes
\* good what went unnoticed.
ArchivePart(s) ==
  /\ archiving[s] = NoRec
  /\ Alive(s) /\ Cardinality(rows[s]) = Counted(s)
  /\ part' = [part EXCEPT ![s] = rows[s]]
  /\ archiving' = [archiving EXCEPT ![s] = rows[s]]
  /\ unseen' = [unseen EXCEPT ![s] = @ /\ InHand(s)]
  /\ UNCHANGED <<db, manifest, sweeper>>

ArchiveManifest(s) ==
  /\ archiving[s] # NoRec
  /\ manifest' = [manifest EXCEPT ![s] = archiving[s]]
  /\ UNCHANGED <<db, part, archiving, unseen, sweeper>>

RecordArchive(s) ==
  /\ archiving[s] # NoRec /\ manifest[s] = archiving[s]
  /\ rec' = [rec EXCEPT ![s].archive = archiving[s]]
  /\ archiving' = [archiving EXCEPT ![s] = NoRec]
  /\ UNCHANGED <<rows, current, had, part, manifest, unseen, sweeper>>

ArchiveFails(s) ==
  /\ archiving[s] # NoRec
  /\ archiving' = [archiving EXCEPT ![s] = NoRec]
  /\ UNCHANGED <<db, part, manifest, unseen, sweeper>>

Rot(s) ==
  /\ part[s] \notin {NoRec, Rotten}
  /\ part' = [part EXCEPT ![s] = Rotten]
  /\ UNCHANGED <<db, manifest, archiving, unseen, sweeper>>

-----------------------------------------------------------------------------
(* planSnapshotEviction. *)

\* The live snapshots, then what is served.
ListLive(w) ==
  /\ pc[w] = "rest"
  /\ todo' = [todo EXCEPT ![w] = {s \in Snapshots : Alive(s)}]
  /\ pc' = [pc EXCEPT ![w] = "plan"]
  /\ UNCHANGED <<db, bucket, tgt, found>>

\* Mutant: the served snapshot is spared beside the newest, and they are not Keep.
RetainedBeside(listed, served) ==
  {s \in listed :
     \/ s = served
     \/ Cardinality({t \in listed : rec[t].created > rec[s].created}) < Keep - 1}

\* keep is how many snapshots still have rows: the served one counts.
Retained(listed, served) ==
  LET own  == {s \in listed : s = served}
      rest == listed \ own
  IN own \cup {s \in rest :
       Cardinality({t \in rest : rec[t].created > rec[s].created}) < Keep - Cardinality(own)}

Plan(w) ==
  /\ pc[w] = "plan"
  /\ todo' = [todo EXCEPT ![w] = @ \ Retained(@, current)]
  /\ pc' = [pc EXCEPT ![w] = "next"]
  /\ UNCHANGED <<db, bucket, tgt, found>>

-----------------------------------------------------------------------------
(* evictSnapshots: every candidate, oldest first. *)

Take(w) ==
  /\ pc[w] = "next" /\ todo[w] # {}
  /\ \E s \in todo[w] :
       /\ \A t \in todo[w] : rec[s].created <= rec[t].created
       /\ tgt' = [tgt EXCEPT ![w] = s]
       /\ todo' = [todo EXCEPT ![w] = @ \ {s}]
  /\ pc' = [pc EXCEPT ![w] = "find"]
  /\ UNCHANGED <<db, bucket, found>>

\* No archive, no eviction.  A tombstone has its archive verified again.
Find(w) ==
  /\ pc[w] = "find" /\ rec[tgt[w]].archive # NoArchive
  /\ found' = [found EXCEPT ![w] = [rec[tgt[w]] EXCEPT !.rowCount = Counted(tgt[w])]]
  /\ pc' = [pc EXCEPT ![w] = IF rec[tgt[w]].dropped THEN "verify" ELSE "ask"]
  /\ UNCHANGED <<db, bucket, todo, tgt>>

\* currentSnapshot: the served one is sent to the store to be refused.
Ask(w) ==
  /\ pc[w] = "ask"
  /\ pc' = [pc EXCEPT ![w] = IF current = tgt[w] THEN "shortcut" ELSE "verify"]
  /\ UNCHANGED <<db, bucket, todo, tgt, found>>

\* The pointer has moved since, and the store drops what it was asked to refuse: the
\* rows go before anything has read the archive back.
Shortcut(w) ==
  /\ pc[w] = "shortcut" /\ ~DropRefused(tgt[w])
  /\ Drop(tgt[w])
  /\ unseen' = [unseen EXCEPT ![tgt[w]] = @ \/ ~rec[tgt[w]].dropped]
  /\ pc' = [pc EXCEPT ![w] = "verify"]
  /\ UNCHANGED <<part, manifest, archiving, todo, tgt, found>>

\* Mutant: the record is not asked how many rows it has.
ArchiveIsGoodUncounted(s, r) ==
  part[s] \notin {NoRec, Rotten} /\ manifest[s] = part[s] /\ r.archive = part[s]

\* The file reads back, and file, manifest, reference and record agree.
ArchiveIsGood(s, r) ==
  /\ part[s] \notin {NoRec, Rotten}
  /\ manifest[s] = part[s]
  /\ r.archive = part[s]
  /\ r.rowCount = Cardinality(part[s])

Verify(w) ==
  /\ pc[w] = "verify" /\ ArchiveIsGood(tgt[w], found[w])
  /\ pc' = [pc EXCEPT ![w] = "record"]
  /\ UNCHANGED <<db, bucket, todo, tgt, found>>

\* The reference it verified, before the delete.
Record(w) ==
  /\ pc[w] = "record"
  /\ rec' = [rec EXCEPT ![tgt[w]].archive = found[w].archive]
  /\ pc' = [pc EXCEPT ![w] = IF found[w].dropped THEN "next" ELSE "drop"]
  /\ UNCHANGED <<rows, current, had, bucket, todo, tgt, found>>

DropVerified(w) ==
  /\ pc[w] = "drop" /\ ~DropRefused(tgt[w])
  /\ Drop(tgt[w])
  /\ pc' = [pc EXCEPT ![w] = "next"]
  /\ UNCHANGED <<bucket, todo, tgt, found>>

\* A refusal is noted and the sweep goes on to the next.
Refused(w) ==
  \/ pc[w] = "find" /\ rec[tgt[w]].archive = NoArchive
  \/ pc[w] \in {"shortcut", "drop"} /\ DropRefused(tgt[w])
  \/ pc[w] = "verify" /\ ~ArchiveIsGood(tgt[w], found[w])

Skip(w) ==
  /\ Refused(w)
  /\ pc' = [pc EXCEPT ![w] = "next"]
  /\ UNCHANGED <<db, bucket, todo, tgt, found>>

Quiet(w) ==
  /\ pc' = [pc EXCEPT ![w] = "rest"]
  /\ todo' = [todo EXCEPT ![w] = {}]
  /\ tgt' = [tgt EXCEPT ![w] = None]
  /\ found' = [found EXCEPT ![w] = NoRec]
  /\ UNCHANGED <<db, bucket>>

SweepEnds(w) == pc[w] = "next" /\ todo[w] = {} /\ Quiet(w)
SweepDies(w) == pc[w] # "rest" /\ Quiet(w)

Sweep(w) ==
  \/ Plan(w) \/ Take(w) \/ Find(w) \/ Ask(w) \/ Shortcut(w) \/ Verify(w)
  \/ Record(w) \/ DropVerified(w) \/ Skip(w) \/ SweepEnds(w)

Archive(s) ==
  ArchivePart(s) \/ ArchiveManifest(s) \/ RecordArchive(s) \/ ArchiveFails(s)

Next ==
  \/ \E s \in Snapshots : Archive(s) \/ Rot(s) \/ Commit(s)
  \/ \E s \in Snapshots, b \in Batches : \E R \in SUBSET ({b} \X Values) : Load(s, b, R)
  \/ \E w \in Sweepers : ListLive(w) \/ Sweep(w) \/ SweepDies(w)

Spec == Init /\ [][Next]_vars

-----------------------------------------------------------------------------
(* Properties. *)

\* Rows that are gone are in the archive the tombstone names, all of them, unless they
\* changed, or went, where no check of the eviction looks (evictSnapshot: the archive
\* "is re-read and re-hashed" before a row is deleted), also while batches land and
\* are sent again, the pointer moves, copies are under way and sweeps meet.
EvictedIsArchived ==
  \A s \in Snapshots :
    Recorded(s) /\ rec[s].dropped => rec[s].archive = had[s] \/ unseen[s]
=============================================================================

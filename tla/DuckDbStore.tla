---------------------------- MODULE DuckDbStore ----------------------------
(***************************************************************************)
(* The DuckDB warehouse store: snapshots of ONE object type, kept as       *)
(* Parquet objects plus one record per snapshot and one pointer to the     *)
(* snapshot readers get (packages/store-duckdb/src).                       *)
(*                                                                         *)
(* Every public method is a sequence of separate awaits on object storage. *)
(* A client is one such call in progress; it makes one storage access per  *)
(* action, keeps what it read in its own memory, and may stop between any  *)
(* two of them (a crash, or a storage call that throws).  Nothing in the   *)
(* store serialises two calls.                                             *)
(***************************************************************************)
EXTENDS Integers, FiniteSets

CONSTANTS Snapshots,   \* snapshot ids
          Batches,     \* batch numbers a loader may write
          Keys,        \* primary-key values
          BatchRows,   \* [Batches -> the sets of keys that batch may bring]
          Clients,     \* calls that may be in progress at the same time
          Carry,       \* the object key of the carried rows, carry.parquet
          None,        \* "no snapshot": an unset pointer, an unresolved source
          NoRef,       \* "no record": what a lookup answers for an unknown id
          NoLabel,     \* the carried-from label is absent
          Nothing,     \* the label's value CARRIED_FROM_NOTHING
          Exclusive    \* BOOLEAN: calls on one snapshot never overlap

ASSUME FiniteAssumption ==
  IsFiniteSet(Snapshots) /\ IsFiniteSet(Batches) /\ IsFiniteSet(Keys)

ASSUME BatchRowsAssumption == BatchRows \in [Batches -> SUBSET SUBSET Keys]

ASSUME SentinelAssumption ==
  /\ None \notin Snapshots
  /\ Carry \notin Batches
  /\ NoLabel \notin Snapshots
  /\ Nothing \notin Snapshots
  /\ NoLabel # Nothing

ASSUME ExclusiveAssumption == Exclusive \in BOOLEAN

VARIABLES objects,     \* [Snapshots -> set of object keys under its prefix]
          rows,        \* [Snapshots -> {<<object key, row>>}], what the objects hold
          ref,         \* [Snapshots -> record, or NoRef]
          current,     \* the served pointer
          pc,          \* [Clients -> where the call stands]
          tgt,         \* [Clients -> the snapshot the call is about]
          saw,         \* [Clients -> the record the call read]
          local        \* [Clients -> the other values the call read]

store == <<objects, rows, ref, current>>
vars  == <<objects, rows, ref, current, pc, tgt, saw, local>>

-----------------------------------------------------------------------------
(* Data. *)

\* A row is its key and the load that last wrote it: carrying a row forward
\* keeps its provenance columns, so the origin travels with it.
Row == Keys \X Snapshots

ObjectKeys == Batches \cup {Carry}

Ref == [created     : Nat,                                \* createdAt, as a rank
        rowCount    : Nat,
        committed   : BOOLEAN,                            \* COMMITTED_LABEL
        carriedFrom : Snapshots \cup {NoLabel, Nothing},  \* CARRIED_FROM_LABEL
        stale       : BOOLEAN,                            \* CARRY_FORWARD_STALE_LABEL
        dropped     : BOOLEAN]                            \* droppedAt

ASSUME NoRefAssumption == NoRef \notin Ref

Local == [served  : Snapshots \cup {None},   \* what the pointer named
          prev    : Snapshots \cup {None},   \* the merge source resolved
          loaders : BOOLEAN,                 \* the load had batches of its own
          prevs   : BOOLEAN,                 \* the merge source had objects
          at      : Nat,                     \* the clock, when the call read it
          count   : Nat,                     \* rows counted
          todo    : SUBSET ObjectKeys]       \* objects left to delete

Blank == [served |-> None, prev |-> None, loaders |-> FALSE, prevs |-> FALSE,
          at |-> 0, count |-> 0, todo |-> {}]

Rest == {"idle", "done", "failed"}

WritePhases  == {"wFind", "wPut"}
CommitPhases == {"cCount", "cPut", "cSwing"}
DropPhases   == {"dCheck", "dCount", "dList", "dDelete", "dPut"}
CarryPhases  == {"fPrevious", "fList", "fFind", "fMerge", "fCount", "fPut"}

Phases == Rest \cup WritePhases \cup CommitPhases \cup DropPhases \cup CarryPhases

TypeOK ==
  /\ objects \in [Snapshots -> SUBSET ObjectKeys]
  /\ rows \in [Snapshots -> SUBSET (ObjectKeys \X Row)]
  /\ ref \in [Snapshots -> Ref \cup {NoRef}]
  /\ current \in Snapshots \cup {None}
  /\ pc \in [Clients -> Phases]
  /\ tgt \in [Clients -> Snapshots \cup {None}]
  /\ saw \in [Clients -> Ref \cup {NoRef}]
  /\ local \in [Clients -> Local]

-----------------------------------------------------------------------------
(* Helpers. *)

\* Rows staged under a snapshot, counted over every object of its prefix.
CountStaged(s) == Cardinality(rows[s])

\* Rows in the carry object only.
CarriedRows(s) == {x \in rows[s] : x[1] = Carry}

\* Keys the load's own batches hold, the incoming side of the anti-join.
IncomingKeys(s) == {x[2][1] : x \in {y \in rows[s] : y[1] # Carry}}

\* The rows of p no batch of s replaces: what the merge statement selects.
Survivors(p, s) == {r \in {x[2] : x \in rows[p]} : r[1] \notin IncomingKeys(s)}

\* The clock, as the number of records there are: two loads in progress at the
\* same time may read the same value, a load begun later never a smaller one.
Now == Cardinality({t \in Snapshots : ref[t] # NoRef})

\* A record as its first writer creates it.
Fresh(at) == [created |-> at, rowCount |-> 0, committed |-> FALSE,
              carriedFrom |-> NoLabel, stale |-> FALSE, dropped |-> FALSE]

\* What a read-modify-write starts from: the record read, or a fresh one.
Base(p, at) == IF saw[p] = NoRef THEN Fresh(at) ELSE saw[p]

\* Mutant: live is enough, so an abandoned load can be a merge source.
LiveOnly(s) == {t \in Snapshots \ {s} : ref[t] # NoRef /\ ~ref[t].dropped}

LiveCommitted(s) ==
  {t \in Snapshots \ {s} : ref[t] # NoRef /\ ref[t].committed /\ ~ref[t].dropped}

\* The merge source when the pointer does not give one: the newest live and
\* committed record other than s.  More than one only when createdAt ties.
NewestCommitted(s) ==
  IF LiveCommitted(s) = {}
    THEN {None}
    ELSE {t \in LiveCommitted(s) :
            \A u \in LiveCommitted(s) : ref[u].created <= ref[t].created}

\* COPY ... TO replaces the object at that key.
PutObject(s, o, rs) ==
  /\ objects' = [objects EXCEPT ![s] = @ \cup {o}]
  /\ rows' = [rows EXCEPT ![s] = {x \in @ : x[1] # o} \cup ({o} \X rs)]

PutRef(p, r) == ref' = [ref EXCEPT ![tgt[p]] = r]

\* A client may start a call on s: it is at rest and, where calls are
\* exclusive, nobody else has one on s in progress.
Free(p, s) ==
  /\ pc[p] \in Rest
  /\ Exclusive => \A q \in Clients : tgt[q] # s

Begin(p, s, phase) ==
  /\ pc' = [pc EXCEPT ![p] = phase]
  /\ tgt' = [tgt EXCEPT ![p] = s]

Goto(p, phase) ==
  /\ pc' = [pc EXCEPT ![p] = phase]
  /\ UNCHANGED tgt

\* The call returns ("done") or throws ("failed"); what it knew is gone.
End(p, how) ==
  /\ pc' = [pc EXCEPT ![p] = how]
  /\ tgt' = [tgt EXCEPT ![p] = None]
  /\ saw' = [saw EXCEPT ![p] = NoRef]
  /\ local' = [local EXCEPT ![p] = Blank]

-----------------------------------------------------------------------------
Init ==
  /\ objects = [s \in Snapshots |-> {}]
  /\ rows = [s \in Snapshots |-> {}]
  /\ ref = [s \in Snapshots |-> NoRef]
  /\ current = None
  /\ pc = [p \in Clients |-> "idle"]
  /\ tgt = [p \in Clients |-> None]
  /\ saw = [p \in Clients |-> NoRef]
  /\ local = [p \in Clients |-> Blank]

-----------------------------------------------------------------------------
(* write: copy the batch to its object, then create or amend the record. *)

CopyBatch(p, s, b, ks) ==
  /\ Free(p, s)
  /\ PutObject(s, b, ks \X {s})
  /\ local' = [local EXCEPT ![p].at = Now]
  /\ Begin(p, s, "wFind")
  /\ UNCHANGED <<ref, current, saw>>

\* Mutant: only new labels are looked at, so an invalidated merge is not marked.
FindWrittenLabelsOnly(p) ==
  /\ pc[p] = "wFind"
  /\ LET found == ref[tgt[p]]
     IN \E newLabels \in BOOLEAN :
          IF found = NoRef \/ newLabels
            THEN /\ Goto(p, "wPut")
                 /\ saw' = [saw EXCEPT ![p] = found]
                 /\ UNCHANGED local
            ELSE End(p, "done")
  /\ UNCHANGED store

\* The record is rewritten when it does not exist yet, when the batch brings
\* labels it lacks, or when it has to be marked as an invalidated merge.
FindWritten(p) ==
  /\ pc[p] = "wFind"
  /\ LET found == ref[tgt[p]]
     IN \E newLabels \in BOOLEAN :
          IF \/ found = NoRef
             \/ newLabels
             \/ found.carriedFrom # NoLabel /\ ~found.stale
            THEN /\ Goto(p, "wPut")
                 /\ saw' = [saw EXCEPT ![p] = found]
                 /\ UNCHANGED local
            ELSE End(p, "done")
  /\ UNCHANGED store

RecordWrittenBatch(p) ==
  /\ pc[p] = "wPut"
  /\ LET found == Base(p, local[p].at)
     IN PutRef(p, [found EXCEPT !.stale = @ \/ found.carriedFrom # NoLabel])
  /\ End(p, "done")
  /\ UNCHANGED <<objects, rows, current>>

-----------------------------------------------------------------------------
(* commit: refuse a tombstone or a stale merge, count, record, then serve. *)

\* Mutant: the tombstone is not refused.
FindCommittedDropped(p, s) ==
  /\ Free(p, s)
  /\ IF ref[s] # NoRef /\ ref[s].stale
       THEN End(p, "failed")
       ELSE /\ Begin(p, s, "cCount")
            /\ saw' = [saw EXCEPT ![p] = ref[s]]
            /\ local' = [local EXCEPT ![p].at = Now]
  /\ UNCHANGED store

FindCommitted(p, s) ==
  /\ Free(p, s)
  /\ IF ref[s] # NoRef /\ (ref[s].dropped \/ ref[s].stale)
       THEN End(p, "failed")
       ELSE /\ Begin(p, s, "cCount")
            /\ saw' = [saw EXCEPT ![p] = ref[s]]
            /\ local' = [local EXCEPT ![p].at = Now]
  /\ UNCHANGED store

CountCommitted(p) ==
  /\ pc[p] = "cCount"
  /\ local' = [local EXCEPT ![p].count = CountStaged(tgt[p])]
  /\ Goto(p, "cPut")
  /\ UNCHANGED <<store, saw>>

\* Mutant: the count already on the record is kept.
PutCommittedUncounted(p) ==
  /\ pc[p] = "cPut"
  /\ PutRef(p, [Base(p, local[p].at) EXCEPT !.committed = TRUE])
  /\ Goto(p, "cSwing")
  /\ UNCHANGED <<objects, rows, current, saw, local>>

PutCommitted(p) ==
  /\ pc[p] = "cPut"
  /\ PutRef(p, [Base(p, local[p].at) EXCEPT
       !.rowCount = local[p].count,
       !.committed = TRUE])
  /\ Goto(p, "cSwing")
  /\ UNCHANGED <<objects, rows, current, saw, local>>

SetCurrent(p) ==
  /\ pc[p] = "cSwing"
  /\ current' = tgt[p]
  /\ End(p, "done")
  /\ UNCHANGED <<objects, rows, ref>>

-----------------------------------------------------------------------------
(* dropSnapshot: refuse the served one, count, delete, then leave a tombstone. *)

FindDropped(p, s) ==
  /\ Free(p, s)
  /\ IF ref[s] # NoRef /\ ref[s].dropped
       THEN End(p, "done")
       ELSE /\ Begin(p, s, "dCheck")
            /\ saw' = [saw EXCEPT ![p] = ref[s]]
            /\ UNCHANGED local
  /\ UNCHANGED store

\* Mutant: the served snapshot is not refused.
RefuseNothing(p) ==
  /\ pc[p] = "dCheck"
  /\ Goto(p, "dCount")
  /\ UNCHANGED <<store, saw, local>>

RefuseServed(p) ==
  /\ pc[p] = "dCheck"
  /\ IF current = tgt[p]
       THEN End(p, "failed")
       ELSE Goto(p, "dCount") /\ UNCHANGED <<saw, local>>
  /\ UNCHANGED store

\* Mutant: the rows are counted again even when the record's count is final.
CountDroppedAgain(p) ==
  /\ pc[p] = "dCount"
  /\ local' = [local EXCEPT ![p].count = CountStaged(tgt[p])]
  /\ Goto(p, "dList")
  /\ UNCHANGED <<store, saw>>

CountDropped(p) ==
  /\ pc[p] = "dCount"
  /\ local' = [local EXCEPT ![p].count =
       IF saw[p] # NoRef /\ saw[p].committed THEN saw[p].rowCount
                                             ELSE CountStaged(tgt[p])]
  /\ Goto(p, "dList")
  /\ UNCHANGED <<store, saw>>

ListDropped(p) ==
  /\ pc[p] = "dList"
  /\ local' = [local EXCEPT ![p].todo = objects[tgt[p]]]
  /\ Goto(p, IF objects[tgt[p]] = {} THEN "dPut" ELSE "dDelete")
  /\ UNCHANGED <<store, saw>>

\* The prefix is emptied object by object, in any order.
DeleteObject(p, o) ==
  /\ pc[p] = "dDelete"
  /\ o \in local[p].todo
  /\ objects' = [objects EXCEPT ![tgt[p]] = @ \ {o}]
  /\ rows' = [rows EXCEPT ![tgt[p]] = {x \in @ : x[1] # o}]
  /\ local' = [local EXCEPT ![p].todo = @ \ {o}]
  /\ Goto(p, IF local[p].todo = {o} THEN "dPut" ELSE "dDelete")
  /\ UNCHANGED <<ref, current, saw>>

PutTombstone(p) ==
  /\ pc[p] = "dPut"
  /\ PutRef(p, [Base(p, Now) EXCEPT !.rowCount = local[p].count, !.dropped = TRUE])
  /\ End(p, "done")
  /\ UNCHANGED <<objects, rows, current>>

-----------------------------------------------------------------------------
(* carryForward: resolve the source, look at both sides, merge, record. *)

StartCarry(p, s) ==
  /\ Free(p, s)
  /\ local' = [local EXCEPT ![p].served = current]
  /\ Begin(p, s, "fPrevious")
  /\ UNCHANGED <<store, saw>>

\* The served snapshot, unless it is the one being built: then the newest live
\* and committed record.
ResolvePrevious(p) ==
  /\ pc[p] = "fPrevious"
  /\ LET id     == local[p].served
         served == IF id # None /\ ref[id] # NoRef THEN id ELSE None
         sources == IF served \notin {None, tgt[p]} THEN {served}
                                                    ELSE NewestCommitted(tgt[p])
     IN \E source \in sources :
          local' = [local EXCEPT ![p] =
                              [@ EXCEPT !.served = served, !.prev = source]]
  /\ Goto(p, "fList")
  /\ UNCHANGED <<store, saw>>

ListSides(p) ==
  /\ pc[p] = "fList"
  /\ LET source == local[p].prev
     IN local' = [local EXCEPT ![p] =
          [@ EXCEPT !.loaders = objects[tgt[p]] \ {Carry} # {},
                    !.prevs = source # None /\ objects[source] # {}]]
  /\ Goto(p, "fFind")
  /\ UNCHANGED <<store, saw>>

FindCarried(p) ==
  /\ pc[p] = "fFind"
  /\ saw' = [saw EXCEPT ![p] = ref[tgt[p]]]
  /\ Goto(p, "fMerge")
  /\ UNCHANGED <<store, local>>

ServedReplay(p) == local[p].served = tgt[p]

\* What the record says the snapshot was carried from.
RecordedOrigin(p) == IF saw[p] = NoRef THEN NoLabel ELSE saw[p].carriedFrom

\* Mutant: a record that names no origin is exempt.
MayMergeUnrecorded(p) ==
  /\ ServedReplay(p) => RecordedOrigin(p) \in {NoLabel, local[p].prev}
  /\ objects[local[p].prev] # {}
  /\ local[p].loaders => objects[tgt[p]] \ {Carry} # {}

\* Into a served snapshot only the recorded source may be merged again; and a
\* glob that matches no object any more is an error of the engine.
MayMerge(p) ==
  /\ ServedReplay(p) => RecordedOrigin(p) = local[p].prev
  /\ objects[local[p].prev] # {}
  /\ local[p].loaders => objects[tgt[p]] \ {Carry} # {}

\* There is a merge source and it has objects.
HasSource(p) == local[p].prev # None /\ local[p].prevs

WriteMergedCarryObject(p) ==
  /\ pc[p] = "fMerge"
  /\ HasSource(p)
  /\ MayMerge(p)
  /\ PutObject(tgt[p], Carry, Survivors(local[p].prev, tgt[p]))
  /\ Goto(p, "fCount")
  /\ UNCHANGED <<ref, current, saw, local>>

\* Emptying the carry object would take rows out of what readers get.
WouldClearServed(p) == ServedReplay(p) /\ CarriedRows(tgt[p]) # {}

ClearCarryObject(p) ==
  /\ pc[p] = "fMerge"
  /\ ~HasSource(p)
  /\ ~WouldClearServed(p)
  /\ PutObject(tgt[p], Carry, {})
  /\ Goto(p, "fCount")
  /\ UNCHANGED <<ref, current, saw, local>>

RefuseCarry(p) ==
  /\ pc[p] = "fMerge"
  /\ IF HasSource(p) THEN ~MayMerge(p) ELSE WouldClearServed(p)
  /\ End(p, "failed")
  /\ UNCHANGED store

CountCarried(p) ==
  /\ pc[p] = "fCount"
  /\ local' = [local EXCEPT ![p].count = CountStaged(tgt[p])]
  /\ Goto(p, "fPut")
  /\ UNCHANGED <<store, saw>>

PutCarried(p) ==
  /\ pc[p] = "fPut"
  /\ PutRef(p, [Base(p, Now) EXCEPT
       !.carriedFrom = IF local[p].prev = None THEN Nothing ELSE local[p].prev,
       !.stale = FALSE,
       !.rowCount = local[p].count])
  /\ End(p, "done")
  /\ UNCHANGED <<objects, rows, current>>

-----------------------------------------------------------------------------
\* The process dies, or a storage call throws, between two accesses.
Crash(p) ==
  /\ pc[p] \notin Rest
  /\ End(p, "failed")
  /\ UNCHANGED store

\* The rest of a call once it has begun.
Step(p) ==
  \/ FindWritten(p) \/ RecordWrittenBatch(p)
  \/ CountCommitted(p) \/ PutCommitted(p) \/ SetCurrent(p)
  \/ RefuseServed(p) \/ CountDropped(p) \/ ListDropped(p)
  \/ (\E o \in ObjectKeys : DeleteObject(p, o))
  \/ PutTombstone(p)
  \/ ResolvePrevious(p) \/ ListSides(p) \/ FindCarried(p)
  \/ WriteMergedCarryObject(p) \/ ClearCarryObject(p) \/ RefuseCarry(p)
  \/ CountCarried(p) \/ PutCarried(p)

\* Any call on any snapshot, in any order: nothing in the store says otherwise.
Start(p) ==
  \E s \in Snapshots :
    \/ \E b \in Batches : \E ks \in BatchRows[b] : CopyBatch(p, s, b, ks)
    \/ FindCommitted(p, s)
    \/ FindDropped(p, s)
    \/ StartCarry(p, s)

Next == \E p \in Clients : Start(p) \/ Step(p) \/ Crash(p)

Spec == Init /\ [][Next]_vars

-----------------------------------------------------------------------------
(* Properties. *)

\* What readers get without naming a snapshot has a record, was blessed, and
\* still has its rows: commit counts and records before it moves the pointer,
\* refuses a tombstone, and dropSnapshot refuses the served snapshot.  Several
\* calls have to line up to break it, and it is the reason read() skips the
\* record lookup.
ServedIsCommitted ==
  current # None => /\ ref[current] # NoRef
                    /\ ref[current].committed
                    /\ ~ref[current].dropped

\* The half of it that survives calls overlapping on one snapshot: the order
\* "record, then pointer" never leaves the pointer at a snapshot with no record.
PointerHasRecord == current # None => ref[current] # NoRef

\* The claim of the read() and SnapshotCatalog comments, with no condition on
\* who calls what when: the snapshot a type is serving is never a tombstone.
ServedNeverTombstone ==
  current # None /\ ref[current] # NoRef => ~ref[current].dropped

\* Only a load somebody blessed is ever merged into another: an abandoned load
\* leaves a live record behind, and carryForward must not take it for a source.
MergesOnlyBlessed ==
  \A s \in Snapshots :
    ref[s] # NoRef /\ ref[s].carriedFrom \in Snapshots =>
      LET t == ref[s].carriedFrom IN ref[t] # NoRef /\ ref[t].committed

\* A carry repeated on the snapshot being served may only recompute what its
\* record says it was carried from: no rows of another load slip into what
\* readers already get, without a commit.
ServedCarryKeepsOrigin ==
  [][\A p \in Clients :
       (WriteMergedCarryObject(p) \/ ClearCarryObject(p)) /\ tgt[p] = current =>
         \A x \in CarriedRows(current)' \ CarriedRows(current) :
           /\ ref[current].carriedFrom \in Snapshots
           /\ \E y \in rows[ref[current].carriedFrom] : y[2] = x[2]]_vars

\* No carry repeated on the served snapshot takes a key away from readers.
ServedKeysSurviveCarry ==
  [][\A p \in Clients :
       (WriteMergedCarryObject(p) \/ ClearCarryObject(p)) /\ tgt[p] = current =>
         {x[2][1] : x \in rows[current]} \subseteq {x[2][1] : x \in rows'[current]}]_vars

\* A drop is for ever: no later write, carry or commit on the snapshot, and no
\* call resumed after a crash, brings the record back to life.
TombstonesAreFinal ==
  [][\A s \in Snapshots :
       ref[s] # NoRef /\ ref[s].dropped => ref'[s] # NoRef /\ ref'[s].dropped]_vars

\* The tombstone of a committed load keeps the count the load was committed
\* with, also when the drop is the second attempt after one that died half-way
\* through the deletion.
TombstoneKeepsCount ==
  [][\A s \in Snapshots :
       /\ ref[s] # NoRef /\ ref[s].committed /\ ~ref[s].dropped
       /\ ref'[s].dropped
       => ref'[s].rowCount = ref[s].rowCount]_vars

\* The number a commit records is the number of rows readers can count at the
\* moment the pointer moves.
ServedCountAtCommit ==
  [][\A p \in Clients :
       SetCurrent(p) => ref[tgt[p]].rowCount = CountStaged(tgt[p])]_vars

-----------------------------------------------------------------------------
(* The store implements the contract of CatalogWriteStore. *)

SnapshotStatus(s) ==
  IF ref[s] = NoRef THEN "none"
  ELSE IF ref[s].dropped THEN "dropped"
  ELSE IF ref[s].committed THEN "committed"
  ELSE "open"

Contract == INSTANCE SnapshotContract
  WITH status <- [s \in Snapshots |-> SnapshotStatus(s)], served <- current

\* Read through the records and the pointer, every storage access of every call
\* is a step of the contract or no step at all.
ImplementsContract == Contract!ContractSpec
=============================================================================

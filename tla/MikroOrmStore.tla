--------------------------- MODULE MikroOrmStore ---------------------------
(***************************************************************************)
(* The SQL warehouse (store-mikro-orm/src/warehouse.store.ts): the rows of *)
(* one object type in a table, a record per snapshot, and the pointer on   *)
(* the type's own row.  Only commit and dropSnapshot end in a transaction  *)
(* that locks; write and carryForward are statements one after another.    *)
(* An entity is read, changed and flushed: the flush writes the columns    *)
(* that differ from what was read, and no others.                          *)
(***************************************************************************)
EXTENDS Integers, FiniteSets

CONSTANTS Snapshots, Batches, Keys, Clients,
          Carry,      \* the batch of carried rows, CARRY_FORWARD_BATCH
          None,       \* no snapshot
          NoRec,      \* no record
          NoLabel     \* the carried-from label is absent

ASSUME MikroAssumption ==
  /\ Carry \notin Batches
  /\ None \notin Snapshots /\ NoLabel \notin Snapshots \cup {None}

\* A batch is a finite list of rows, and there are finitely many of everything.
ASSUME MikroFiniteness ==
  IsFiniteSet(Snapshots) /\ IsFiniteSet(Batches) /\ IsFiniteSet(Keys)

VARIABLES rows,     \* [Snapshots -> {<<batch, row>>}]
          rec,      \* [Snapshots -> record, or NoRec]
          current,  \* the pointer on the type's row
          pc, tgt,  \* where each client stands, and the snapshot it is about
          saw,      \* the record it read
          local     \* the rest of what it read

db     == <<rows, rec, current>>
client == <<pc, tgt, saw, local>>
vars   == <<rows, rec, current, pc, tgt, saw, local>>

\* A key, and the load it came from (the provenance columns travel with the row).
Row == Keys \X Snapshots

Rec == [created : Nat, rowCount : Nat, committed : BOOLEAN,
        carriedFrom : Snapshots \cup {NoLabel, None}, stale : BOOLEAN,
        dropped : BOOLEAN]

ASSUME NoRecAssumption == NoRec \notin Rec

Local == [batch : Batches \cup {Carry}, keys : SUBSET Keys,
          prev : Snapshots \cup {None},      \* the merge source found
          count : Nat,                       \* rows counted
          pointer : Snapshots \cup {None},   \* the pointer read
          doomed : SUBSET ((Batches \cup {Carry}) \X Row)]

Blank == [batch |-> Carry, keys |-> {}, prev |-> None, count |-> 0,
          pointer |-> None, doomed |-> {}]

Phases == {"rest", "wDelete", "wInsert", "wFind", "wCount", "wFlush",
           "cFind", "cCount", "cPublish",
           "dLock", "dCommit",
           "fOwn", "fPrevious", "fDelete", "fInsert", "fCount", "fFlush"}

TypeOK ==
  /\ rows \in [Snapshots -> SUBSET ((Batches \cup {Carry}) \X Row)]
  /\ rec \in [Snapshots -> Rec \cup {NoRec}]
  /\ current \in Snapshots \cup {None}
  /\ pc \in [Clients -> Phases]
  /\ tgt \in [Clients -> Snapshots \cup {None}]
  /\ \A c \in Clients : pc[c] # "rest" => tgt[c] \in Snapshots
  /\ saw \in [Clients -> Rec \cup {NoRec}]
  /\ local \in [Clients -> Local]

Init ==
  /\ rows = [s \in Snapshots |-> {}]
  /\ rec = [s \in Snapshots |-> NoRec]
  /\ current = None
  /\ pc = [c \in Clients |-> "rest"]
  /\ tgt = [c \in Clients |-> None]
  /\ saw = [c \in Clients |-> NoRec]
  /\ local = [c \in Clients |-> Blank]

-----------------------------------------------------------------------------
(* Helpers. *)

Recorded(s) == rec[s] # NoRec
Alive(s)    == Recorded(s) /\ ~rec[s].dropped

Now == Cardinality({s \in Snapshots : Recorded(s)})

Fresh == [created |-> Now, rowCount |-> 0, committed |-> FALSE,
          carriedFrom |-> NoLabel, stale |-> FALSE, dropped |-> FALSE]

SameLabels(r, q) == r.carriedFrom = q.carriedFrom /\ r.stale = q.stale

\* A flush of an entity read as old and left as new: the count if it differs, and the
\* two labels, one JSON column, if either does.
Flushed(now, old, new) ==
  [now EXCEPT !.rowCount    = IF new.rowCount = old.rowCount THEN @ ELSE new.rowCount,
              !.carriedFrom = IF SameLabels(old, new) THEN @ ELSE new.carriedFrom,
              !.stale       = IF SameLabels(old, new) THEN @ ELSE new.stale]

\* A drop in its transaction holds the record of its snapshot and the type's row.
Dropping(c) == pc[c] = "dCommit"
Locked(s)   == \E d \in Clients : Dropping(d) /\ tgt[d] = s

\* Two that create the same record: the second is an error.
Flush(c, new) ==
  LET s == tgt[c]
  IN IF saw[c] = NoRec
       THEN ~Recorded(s) /\ rec' = [rec EXCEPT ![s] = new]
       ELSE ~Locked(s) /\ rec' = [rec EXCEPT ![s] = Flushed(@, saw[c], new)]

Goes(c, p) == pc' = [pc EXCEPT ![c] = p]

Ends(c) ==
  /\ pc' = [pc EXCEPT ![c] = "rest"]
  /\ tgt' = [tgt EXCEPT ![c] = None]
  /\ saw' = [saw EXCEPT ![c] = NoRec]
  /\ local' = [local EXCEPT ![c] = Blank]

-----------------------------------------------------------------------------
(* write: delete the batch, insert it, then the record. *)

DeleteBatch(c) ==
  /\ pc[c] = "wDelete" /\ ~Locked(tgt[c])
  /\ rows' = [rows EXCEPT ![tgt[c]] = {x \in @ : x[1] # local[c].batch}]
  /\ Goes(c, "wInsert")
  /\ UNCHANGED <<rec, current, tgt, saw, local>>

InsertBatch(c) ==
  /\ pc[c] = "wInsert"
  /\ rows' = [rows EXCEPT ![tgt[c]] =
       @ \cup ({local[c].batch} \X (local[c].keys \X {tgt[c]}))]
  /\ Goes(c, "wFind")
  /\ UNCHANGED <<rec, current, tgt, saw, local>>

\* Mutant: a batch after the commit leaves the count.
FindWrittenUncounted(c) ==
  /\ pc[c] = "wFind"
  /\ saw' = [saw EXCEPT ![c] = rec[tgt[c]]]
  /\ Goes(c, "wFlush")
  /\ local' = [local EXCEPT ![c].count =
       IF Recorded(tgt[c]) THEN rec[tgt[c]].rowCount ELSE 0]
  /\ UNCHANGED <<db, tgt>>

FindWritten(c) ==
  /\ pc[c] = "wFind"
  /\ saw' = [saw EXCEPT ![c] = rec[tgt[c]]]
  /\ Goes(c, IF Recorded(tgt[c]) /\ rec[tgt[c]].committed /\ ~rec[tgt[c]].dropped
             THEN "wCount" ELSE "wFlush")
  /\ local' = [local EXCEPT ![c].count =
       IF Recorded(tgt[c]) THEN rec[tgt[c]].rowCount ELSE 0]
  /\ UNCHANGED <<db, tgt>>

CountWritten(c) ==
  /\ pc[c] = "wCount"
  /\ local' = [local EXCEPT ![c].count = Cardinality(rows[tgt[c]])]
  /\ Goes(c, "wFlush")
  /\ UNCHANGED <<db, tgt, saw>>

\* Mutant: a batch after the merge leaves it fresh.
FlushWrittenFresh(c) ==
  /\ pc[c] = "wFlush"
  /\ Flush(c, [IF saw[c] = NoRec THEN Fresh ELSE saw[c] EXCEPT !.rowCount = local[c].count])
  /\ Ends(c)
  /\ UNCHANGED <<rows, current>>

\* A batch that lands after the merge makes the merge stale.
FlushWritten(c) ==
  LET own == IF saw[c] = NoRec THEN Fresh ELSE saw[c]
  IN /\ pc[c] = "wFlush"
     /\ Flush(c, [own EXCEPT !.rowCount = local[c].count,
                             !.stale = @ \/ own.carriedFrom # NoLabel])
     /\ Ends(c)
     /\ UNCHANGED <<rows, current>>

-----------------------------------------------------------------------------
(* carryForward. *)

FindOwn(c) ==
  /\ pc[c] = "fOwn"
  /\ saw' = [saw EXCEPT ![c] = rec[tgt[c]]]
  /\ Goes(c, "fPrevious")
  /\ UNCHANGED <<db, tgt, local>>

\* Committed, not a tombstone, not the load itself, no younger than it.
Candidates(c) ==
  {t \in Snapshots \ {tgt[c]} :
     /\ Alive(t) /\ rec[t].committed
     /\ rec[t].created <= IF saw[c] = NoRec THEN Now ELSE saw[c].created}

Newest(ts) ==
  IF ts = {} THEN {None}
  ELSE {t \in ts : \A u \in ts : rec[u].created <= rec[t].created}

FindPrevious(c) ==
  /\ pc[c] = "fPrevious"
  /\ \E t \in Newest(Candidates(c)) : local' = [local EXCEPT ![c].prev = t]
  /\ Goes(c, "fDelete")
  /\ UNCHANGED <<db, tgt, saw>>

DeleteCarried(c) ==
  /\ pc[c] = "fDelete" /\ ~Locked(tgt[c])
  /\ rows' = [rows EXCEPT ![tgt[c]] = {x \in @ : x[1] # Carry}]
  /\ Goes(c, IF local[c].prev = None THEN "fCount" ELSE "fInsert")
  /\ UNCHANGED <<rec, current, tgt, saw, local>>

Incoming(s) == {x[2][1] : x \in {y \in rows[s] : y[1] # Carry}}

\* What the anti-join selects.
Survivors(t, s) == {x[2] : x \in {y \in rows[t] : y[2][1] \notin Incoming(s)}}

InsertCarried(c) ==
  /\ pc[c] = "fInsert"
  /\ rows' = [rows EXCEPT ![tgt[c]] = @ \cup ({Carry} \X Survivors(local[c].prev, tgt[c]))]
  /\ Goes(c, "fCount")
  /\ UNCHANGED <<rec, current, tgt, saw, local>>

CountCarried(c) ==
  /\ pc[c] = "fCount"
  /\ local' = [local EXCEPT ![c].count = Cardinality(rows[tgt[c]])]
  /\ Goes(c, "fFlush")
  /\ UNCHANGED <<db, tgt, saw>>

FlushCarried(c) ==
  LET own == IF saw[c] = NoRec THEN Fresh ELSE saw[c]
  IN /\ pc[c] = "fFlush"
     /\ Flush(c, [own EXCEPT !.rowCount = local[c].count,
                             !.carriedFrom = local[c].prev, !.stale = FALSE])
     /\ Ends(c)
     /\ UNCHANGED <<rows, current>>

-----------------------------------------------------------------------------
(* commit: look, count, then a transaction that asks again about the drop. *)

FindCommitted(c) ==
  /\ pc[c] = "cFind"
  /\ Alive(tgt[c]) /\ ~rec[tgt[c]].stale
  /\ saw' = [saw EXCEPT ![c] = rec[tgt[c]]]
  /\ local' = [local EXCEPT ![c].pointer = current]
  /\ Goes(c, "cCount")
  /\ UNCHANGED <<db, tgt>>

CountCommitted(c) ==
  /\ pc[c] = "cCount"
  /\ local' = [local EXCEPT ![c].count = Cardinality(rows[tgt[c]])]
  /\ Goes(c, "cPublish")
  /\ UNCHANGED <<db, tgt, saw>>

\* Mutant: the transaction does not ask about the drop again.
PublishUnasked(c) ==
  LET s == tgt[c]
  IN /\ pc[c] = "cPublish"
     /\ \A d \in Clients : Dropping(d) => tgt[d] # s /\ local[c].pointer = s
     /\ rec' = [rec EXCEPT ![s].rowCount = local[c].count, ![s].committed = TRUE]
     /\ current' = IF local[c].pointer = s THEN current ELSE s
     /\ Ends(c)
     /\ UNCHANGED rows

\* The record and the pointer, or neither.  It waits for a drop of the snapshot, and,
\* when the pointer is to be written, for a drop of any.
Publish(c) ==
  LET s == tgt[c]
  IN /\ pc[c] = "cPublish"
     /\ \A d \in Clients : Dropping(d) => tgt[d] # s /\ local[c].pointer = s
     /\ Alive(s)
     /\ rec' = [rec EXCEPT ![s].rowCount = local[c].count, ![s].committed = TRUE]
     /\ current' = IF local[c].pointer = s THEN current ELSE s
     /\ Ends(c)
     /\ UNCHANGED rows

-----------------------------------------------------------------------------
(* dropSnapshot: one transaction that locks the record, then the type's row. *)

\* Mutant: the served snapshot may go.
LockDroppedServed(c) ==
  /\ pc[c] = "dLock"
  /\ \A d \in Clients : ~Dropping(d)
  /\ Recorded(tgt[c]) => ~rec[tgt[c]].dropped
  /\ saw' = [saw EXCEPT ![c] = rec[tgt[c]]]
  /\ local' = [local EXCEPT ![c].count = Cardinality(rows[tgt[c]]),
                           ![c].doomed = rows[tgt[c]]]
  /\ Goes(c, "dCommit")
  /\ UNCHANGED <<db, tgt>>

LockDropped(c) ==
  /\ pc[c] = "dLock"
  /\ \A d \in Clients : ~Dropping(d)
  /\ current # tgt[c]
  /\ Recorded(tgt[c]) => ~rec[tgt[c]].dropped
  /\ saw' = [saw EXCEPT ![c] = rec[tgt[c]]]
  /\ local' = [local EXCEPT ![c].count = Cardinality(rows[tgt[c]]),
                           ![c].doomed = rows[tgt[c]]]
  /\ Goes(c, "dCommit")
  /\ UNCHANGED <<db, tgt>>

\* A snapshot without a record loses its rows and leaves no tombstone.
CommitDropped(c) ==
  LET s == tgt[c]
  IN /\ pc[c] = "dCommit"
     /\ rows' = [rows EXCEPT ![s] = @ \ local[c].doomed]
     /\ rec' = IF saw[c] = NoRec THEN rec
               ELSE [rec EXCEPT ![s].rowCount = local[c].count, ![s].dropped = TRUE]
     /\ Ends(c)
     /\ UNCHANGED current

-----------------------------------------------------------------------------
(* Calls begin, and end early: a refusal, an error, a death, a rollback. *)

Begin(c) ==
  /\ pc[c] = "rest"
  /\ \E s \in Snapshots, p \in {"wDelete", "cFind", "dLock", "fOwn"} :
       /\ Goes(c, p)
       /\ tgt' = [tgt EXCEPT ![c] = s]
       /\ IF p = "wDelete"
            THEN \E b \in Batches, ks \in SUBSET Keys :
                   local' = [local EXCEPT ![c].batch = b, ![c].keys = ks]
            ELSE UNCHANGED local
  /\ UNCHANGED <<db, saw>>

Fails(c) ==
  /\ pc[c] # "rest"
  /\ Ends(c)
  /\ UNCHANGED db

Step(c) ==
  \/ DeleteBatch(c) \/ InsertBatch(c) \/ FindWritten(c) \/ CountWritten(c)
  \/ FlushWritten(c)
  \/ FindOwn(c) \/ FindPrevious(c) \/ DeleteCarried(c) \/ InsertCarried(c)
  \/ CountCarried(c) \/ FlushCarried(c)
  \/ FindCommitted(c) \/ CountCommitted(c) \/ Publish(c)
  \/ LockDropped(c) \/ CommitDropped(c)

Next == \E c \in Clients : Begin(c) \/ Step(c) \/ Fails(c)

Spec == Init /\ [][Next]_vars

-----------------------------------------------------------------------------
(* Properties. *)

\* The pointer names a load that was committed and has its rows: it is no tombstone,
\* whoever commits and drops at the same time ("this state was not reached through
\* this adapter", currentSnapshot).
ServedIsLive == current # None => Alive(current) /\ rec[current].committed

\* The state of a snapshot in the words of the store's interface.
SnapshotStatus(s) ==
  IF ~Recorded(s) THEN "none"
  ELSE IF rec[s].dropped THEN "dropped"
  ELSE IF rec[s].committed THEN "committed" ELSE "open"

Contract == INSTANCE SnapshotContract
              WITH status <- [s \in Snapshots |-> SnapshotStatus(s)], served <- current

\* The store keeps the contract of CatalogWriteStore.
ImplementsContract == Contract!ContractSpec

\* A dropped snapshot stays dropped, whatever is sent to it afterwards.
TombstonesAreFinal ==
  [][\A s \in Snapshots :
       Recorded(s) /\ rec[s].dropped => rec'[s] # NoRec /\ rec'[s].dropped]_vars
=============================================================================

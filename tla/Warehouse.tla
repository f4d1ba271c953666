----------------------------- MODULE Warehouse -----------------------------
(***************************************************************************)
(* The warehouse as its loaders meet it: each store call is one action.    *)
(* It is the store of DuckDbStore with calls that do not interleave, plus  *)
(* the row-count refusal PublishService puts in front of a commit.         *)
(* Snapshot ids are the numbers 1 .. LastSnapshot, in the order the runs   *)
(* that write them begin.                                                  *)
(***************************************************************************)
EXTENDS Integers, FiniteSets

CONSTANTS LastSnapshot,  \* the last snapshot id
          NoRec,         \* "no record"
          NoLabel        \* the carried-from label is absent

ASSUME LastSnapshotAssumption == LastSnapshot \in Nat

VARIABLES held,     \* [Ids -> {<<batch, row>>}], the rows staged under each id
          rec,      \* [Ids -> record, or NoRec]
          served    \* the snapshot readers get, 0 for none

warehouse == <<held, rec, served>>

Ids == 1 .. LastSnapshot

\* The batch number the carried rows are kept under; loaders number from 1.
Carry == 0

\* carriedFrom = 0 is the label's value CARRIED_FROM_NOTHING.
Rec == [created : Nat, rowCount : Nat, committed : BOOLEAN,
        carriedFrom : Ids \cup {0, NoLabel}, stale : BOOLEAN]

ASSUME SentinelAssumption == NoRec \notin Rec /\ NoLabel \notin Nat

WarehouseTypeOK(numbers, data) ==
  /\ held \in [Ids -> SUBSET ((numbers \cup {Carry}) \X data)]
  /\ rec \in [Ids -> Rec \cup {NoRec}]
  /\ served \in Ids \cup {0}

WarehouseInit ==
  /\ held = [s \in Ids |-> {}]
  /\ rec = [s \in Ids |-> NoRec]
  /\ served = 0

-----------------------------------------------------------------------------
\* A row is a key and a version of it.
RowsOf(s) == {x[2] : x \in held[s]}

\* What an ordinary read answers.
View == IF served = 0 THEN {} ELSE RowsOf(served)

Fresh == [created |-> Cardinality({s \in Ids : rec[s] # NoRec}), rowCount |-> 0,
          committed |-> FALSE, carriedFrom |-> NoLabel, stale |-> FALSE]

RecordOf(s) == IF rec[s] = NoRec THEN Fresh ELSE rec[s]

\* Mutant: everything staged under the id goes when a batch arrives.
WriteOverwriting(s, b, rs) ==
  /\ held' = [held EXCEPT ![s] = {b} \X rs]
  /\ rec' = [rec EXCEPT ![s] =
       [RecordOf(s) EXCEPT !.stale = @ \/ RecordOf(s).carriedFrom # NoLabel]]
  /\ UNCHANGED served

\* write: the batch replaces the batch of that number; a merge already made is
\* no longer of the whole load.
Write(s, b, rs) ==
  /\ held' = [held EXCEPT ![s] = {x \in @ : x[1] # b} \cup ({b} \X rs)]
  /\ rec' = [rec EXCEPT ![s] =
       [RecordOf(s) EXCEPT !.stale = @ \/ RecordOf(s).carriedFrom # NoLabel]]
  /\ UNCHANGED served

\* The newest committed snapshot other than s, 0 when there is none.
NewestCommitted(s) ==
  LET others == {t \in Ids \ {s} : rec[t] # NoRec /\ rec[t].committed}
  IN IF others = {} THEN 0
     ELSE CHOOSE t \in others : \A u \in others : rec[u].created <= rec[t].created

\* Mutant: a snapshot already served has no source to merge again.
SourceOnce(s) == IF served = s THEN 0 ELSE served

\* Where carryForward takes the rows from.
Source(s) == IF served \notin {0, s} THEN served ELSE NewestCommitted(s)

IncomingKeys(s) == {x[2][1] : x \in {y \in held[s] : y[1] # Carry}}

\* Mutant: every row of the source is carried, replaced or not.
SurvivorsAll(t, s) == RowsOf(t)

\* The rows of t no batch of s replaces.
Survivors(t, s) == {r \in RowsOf(t) : r[1] \notin IncomingKeys(s)}

\* Into a served snapshot only its recorded source is merged again, and its
\* carried rows are never cleared.  (Every committed snapshot has objects here,
\* be they empty: nothing drops them.)
CarryRefused(s) ==
  /\ served = s
  /\ IF Source(s) # 0
       THEN rec[s].carriedFrom # Source(s)
       ELSE \E x \in held[s] : x[1] = Carry

CarryForward(s) ==
  /\ ~CarryRefused(s)
  /\ LET t    == Source(s)
         kept == {x \in held[s] : x[1] # Carry}
         merged == kept \cup ({Carry} \X IF t = 0 THEN {} ELSE Survivors(t, s))
     IN /\ held' = [held EXCEPT ![s] = merged]
        /\ rec' = [rec EXCEPT ![s] =
             [RecordOf(s) EXCEPT !.carriedFrom = t, !.stale = FALSE,
                                 !.rowCount = Cardinality(merged)]]
  /\ UNCHANGED served

\* A load that came to nothing is not put in front of readers who have rows.
Implausible(s) ==
  /\ served \notin {0, s}
  /\ rec[s] # NoRec
  /\ rec[served].rowCount > 0
  /\ 0 = IF rec[s].committed THEN rec[s].rowCount ELSE Cardinality(held[s])

CommitRefused(s) == Implausible(s) \/ (rec[s] # NoRec /\ rec[s].stale)

Commit(s) ==
  /\ ~CommitRefused(s)
  /\ rec' = [rec EXCEPT ![s] =
       [RecordOf(s) EXCEPT !.rowCount = Cardinality(held[s]), !.committed = TRUE]]
  /\ served' = s
  /\ UNCHANGED held
=============================================================================

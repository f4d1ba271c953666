---------------------------- MODULE ConnectorRun ----------------------------
(***************************************************************************)
(* Connectors loading one object type (packages/pipeline/src): a run reads *)
(* its source, writes what it read in numbered batches under the durable   *)
(* run's id, carries the rest forward when it is incremental, commits, and *)
(* only then remembers how far it read.  A run is one durable step: an     *)
(* attempt that throws or dies is made again under the same snapshot id,   *)
(* up to MaxRetries times.                                                 *)
(***************************************************************************)
EXTENDS Warehouse

CONSTANTS Connectors,
          Incremental,       \* the connectors in mode 'incremental'
          Keys,              \* primary keys, numbers, in the order they are read
          BatchSize,         \* BATCH_SIZE
          MaxRetries,        \* retries of the step
          MaxChanges,        \* bound: changes the source ever makes
          SerializedByType,  \* BOOLEAN: one run per type, not only per connector
          Moving             \* BOOLEAN: the source changes also once a run read it

ASSUME ConnectorAssumption ==
  /\ Incremental \subseteq Connectors
  /\ Keys \subseteq Nat /\ IsFiniteSet(Keys) /\ Keys # {}
  /\ BatchSize \in Nat \ {0}
  /\ MaxRetries \in Nat /\ MaxChanges \in Nat
  /\ SerializedByType \in BOOLEAN /\ Moving \in BOOLEAN

VARIABLES src,     \* [Keys -> version], 0 for a key that is not there
          clock,   \* the last version given out: the watermark column's values
          runs,    \* runs begun
          state,   \* [Connectors -> the watermark remembered], 0 for none
          pc,      \* [Connectors -> where its run stands]
          run,     \* [Connectors -> the run's snapshot id]
          tries,   \* [Connectors -> attempts begun again]
          got,     \* [Connectors -> the rows the attempt read]
          batch    \* [Connectors -> number of the next batch]

source  == <<src, clock>>
process == <<pc, run, tries, got, batch>>
vars    == <<held, rec, served, src, clock, runs, state, pc, run, tries, got,
             batch>>

Versions == 0 .. MaxChanges
Row      == Keys \X (Versions \ {0})

\* Batch numbers: no attempt needs more batches than there are keys.
Batches == 1 .. Cardinality(Keys)

TypeOK ==
  /\ WarehouseTypeOK(Batches, Row)
  /\ src \in [Keys -> Versions]
  /\ clock \in Versions
  /\ runs \in Ids \cup {0}
  /\ state \in [Connectors -> Versions]
  /\ pc \in [Connectors -> {"idle", "read", "append", "carry", "commit", "save",
                            "finish"}]
  /\ run \in [Connectors -> Ids \cup {0}]
  /\ tries \in [Connectors -> 0 .. MaxRetries]
  /\ got \in [Connectors -> SUBSET Row]
  /\ batch \in [Connectors -> Batches \cup {Cardinality(Keys) + 1}]

Init ==
  /\ WarehouseInit
  /\ src = [k \in Keys |-> 0]
  /\ clock = 0
  /\ runs = 0
  /\ state = [c \in Connectors |-> 0]
  /\ pc = [c \in Connectors |-> "idle"]
  /\ run = [c \in Connectors |-> 0]
  /\ tries = [c \in Connectors |-> 0]
  /\ got = [c \in Connectors |-> {}]
  /\ batch = [c \in Connectors |-> 1]

-----------------------------------------------------------------------------
(* The source. *)

\* The connector's run has read, in this attempt or in an earlier one.
HasRead(c) == pc[c] \notin {"idle", "read"} \/ tries[c] > 0

MayChange == Moving \/ \A c \in Connectors : ~HasRead(c)

\* A row is inserted or updated; it takes the next value of the watermark column.
SourceWrite(k) ==
  /\ MayChange
  /\ clock < MaxChanges
  /\ clock' = clock + 1
  /\ src' = [src EXCEPT ![k] = clock + 1]
  /\ UNCHANGED <<warehouse, runs, state, process>>

SourceDelete(k) ==
  /\ src[k] # 0
  /\ MayChange
  /\ src' = [src EXCEPT ![k] = 0]
  /\ UNCHANGED <<warehouse, clock, runs, state, process>>

-----------------------------------------------------------------------------
(* A run. *)

Goto(c, where) == pc' = [pc EXCEPT ![c] = where]

\* The durable engine starts a run: the connector's previous one has ended.
StartRun(c) ==
  /\ pc[c] = "idle"
  /\ SerializedByType => \A d \in Connectors : pc[d] = "idle"
  /\ runs < LastSnapshot
  /\ runs' = runs + 1
  /\ run' = [run EXCEPT ![c] = runs + 1]
  /\ tries' = [tries EXCEPT ![c] = 0]
  /\ Goto(c, "read")
  /\ UNCHANGED <<warehouse, source, state, got, batch>>

\* An incremental read is bounded by the watermark, when there is one.
Answer(c) ==
  LET bound == IF c \in Incremental THEN state[c] ELSE 0
  IN {r \in Row : src[r[1]] = r[2] /\ r[2] > bound}

\* Mutant: the batches of a new attempt are numbered on from the last one's.
ReadResuming(c) ==
  /\ pc[c] = "read"
  /\ got' = [got EXCEPT ![c] = Answer(c)]
  /\ Goto(c, IF Answer(c) = {} /\ c \in Incremental THEN "carry" ELSE "append")
  /\ UNCHANGED <<warehouse, source, runs, state, run, tries, batch>>

\* A full load that read nothing still writes one empty batch; an incremental
\* one leaves that to the carry.
Read(c) ==
  /\ pc[c] = "read"
  /\ got' = [got EXCEPT ![c] = Answer(c)]
  /\ batch' = [batch EXCEPT ![c] = 1]
  /\ Goto(c, IF Answer(c) = {} /\ c \in Incremental THEN "carry" ELSE "append")
  /\ UNCHANGED <<warehouse, source, runs, state, run, tries>>

\* The rows read, cut into batches in the order they are read.
Batch(c, b) ==
  {r \in got[c] : b = 1 + Cardinality({q \in got[c] : q[1] < r[1]}) \div BatchSize}

\* Mutant: the last batch is never flushed.
AppendNoTail(c) ==
  /\ pc[c] = "append"
  /\ Write(run[c], batch[c], Batch(c, batch[c]))
  /\ batch' = [batch EXCEPT ![c] = @ + 1]
  /\ Goto(c, IF (batch[c] + 1) * BatchSize < Cardinality(got[c]) THEN "append"
             ELSE IF c \in Incremental THEN "carry" ELSE "commit")
  /\ UNCHANGED <<source, runs, state, run, tries, got>>

AppendBatch(c) ==
  /\ pc[c] = "append"
  /\ Write(run[c], batch[c], Batch(c, batch[c]))
  /\ batch' = [batch EXCEPT ![c] = @ + 1]
  /\ Goto(c, IF batch[c] * BatchSize < Cardinality(got[c]) THEN "append"
             ELSE IF c \in Incremental THEN "carry" ELSE "commit")
  /\ UNCHANGED <<source, runs, state, run, tries, got>>

\* The highest value of the watermark column read; the bound when none was.
Best(c) ==
  CHOOSE v \in {r[2] : r \in got[c]} \cup {state[c]} :
    \A r \in got[c] : r[2] <= v

\* The rows behind the bound are those of the snapshot served before.
CarryRest(c) ==
  /\ pc[c] = "carry"
  /\ CarryForward(run[c])
  /\ Goto(c, "commit")
  /\ UNCHANGED <<source, runs, state, run, tries, got, batch>>

Advances(c) == c \in Incremental /\ Best(c) > state[c]

\* Mutant: the watermark is remembered with the commit still to come.
CommitAfterSave(c) ==
  /\ pc[c] = "commit"
  /\ IF Advances(c)
       THEN /\ state' = [state EXCEPT ![c] = Best(c)]
            /\ UNCHANGED <<warehouse, pc>>
       ELSE Commit(run[c]) /\ Goto(c, "finish") /\ UNCHANGED state
  /\ UNCHANGED <<source, runs, run, tries, got, batch>>

CommitRun(c) ==
  /\ pc[c] = "commit"
  /\ Commit(run[c])
  /\ Goto(c, IF Advances(c) THEN "save" ELSE "finish")
  /\ UNCHANGED <<source, runs, state, run, tries, got, batch>>

SaveConnectorState(c) ==
  /\ pc[c] = "save"
  /\ state' = [state EXCEPT ![c] = Best(c)]
  /\ Goto(c, "finish")
  /\ UNCHANGED <<warehouse, source, runs, run, tries, got, batch>>

\* The run is over: what it knew is gone.
EndRun(c) ==
  /\ Goto(c, "idle")
  /\ run' = [run EXCEPT ![c] = 0]
  /\ tries' = [tries EXCEPT ![c] = 0]
  /\ got' = [got EXCEPT ![c] = {}]
  /\ batch' = [batch EXCEPT ![c] = 1]

FinishRun(c) ==
  /\ pc[c] = "finish"
  /\ EndRun(c)
  /\ UNCHANGED <<warehouse, source, runs, state>>

\* Mutant: an attempt that died is not counted.
RetryUncounted(c) ==
  /\ Goto(c, "read")
  /\ got' = [got EXCEPT ![c] = {}]
  /\ UNCHANGED <<run, tries, batch>>

\* An attempt that did not return is made again, or the run is given up.
Retry(c) ==
  IF tries[c] < MaxRetries
    THEN /\ tries' = [tries EXCEPT ![c] = @ + 1]
         /\ Goto(c, "read")
         /\ got' = [got EXCEPT ![c] = {}]
         /\ UNCHANGED <<run, batch>>
    ELSE EndRun(c)

\* The process dies, or a call throws, anywhere in the attempt.
Crash(c) ==
  /\ pc[c] # "idle"
  /\ Retry(c)
  /\ UNCHANGED <<warehouse, source, runs, state>>

\* The engine cancels a run that takes too long, with attempts left or not.
TimedOut(c) ==
  /\ pc[c] # "idle"
  /\ EndRun(c)
  /\ UNCHANGED <<warehouse, source, runs, state>>

\* The store or the plausibility bound refuses: the attempt throws.
Refused(c) ==
  /\ \/ pc[c] = "carry" /\ CarryRefused(run[c])
     \/ pc[c] = "commit" /\ CommitRefused(run[c])
  /\ Retry(c)
  /\ UNCHANGED <<warehouse, source, runs, state>>

\* The run's own progress.
Advance(c) ==
  \/ Read(c) \/ AppendBatch(c) \/ CarryRest(c) \/ CommitRun(c)
  \/ SaveConnectorState(c) \/ FinishRun(c) \/ Refused(c)

Next ==
  \/ \E k \in Keys : SourceWrite(k) \/ SourceDelete(k)
  \/ \E c \in Connectors : StartRun(c) \/ Advance(c) \/ Crash(c) \/ TimedOut(c)

Spec == Init /\ [][Next]_vars

\* The engine carries a run on until it returns.
FairSpec == Spec /\ \A c \in Connectors : WF_vars(Advance(c))

-----------------------------------------------------------------------------
(* Properties. *)

AtRest == \A c \in Connectors : pc[c] = "idle"

\* Whatever lies behind a connector's watermark, which no later run reads again,
\* is in what readers get, in the version the source holds.
WatermarkCovered ==
  AtRest => \A c \in Incremental, k \in Keys :
              src[k] \in 1 .. state[c] => <<k, src[k]>> \in View

\* Readers find each key once: merging, re-sent batches and given-up attempts
\* leave no second copy.
OneRowPerKey ==
  AtRest /\ served # 0 =>
    \A x, y \in held[served] : x[2][1] = y[2][1] => x = y

\* A full load is exactly what its last read answered, also when earlier
\* attempts left batches of their own.
FullLoadIsWhatWasRead ==
  [][\A c \in Connectors \ Incremental :
       CommitRun(c) => RowsOf(run[c]) = got[c]]_vars

\* What readers get changes when a run commits and at no other time: a run that
\* commits and is then made again re-sends what is already there.
ViewMovesAtCommit ==
  [][View' # View => \E c \in Connectors : CommitRun(c)]_vars

\* The carry of an attempt made again after its own commit is never refused: the
\* source resolved anew, with the snapshot itself now the served one, is still
\* the one its record names.  A refusal here would fail every later attempt.
ReplayNeverRefused ==
  \A c \in Connectors : pc[c] = "carry" => ~CarryRefused(run[c])

\* A run ends, whatever dies or refuses on the way.
RunEnds == \A c \in Connectors : pc[c] # "idle" ~> pc[c] = "idle"
=============================================================================

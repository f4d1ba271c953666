----------------------------- MODULE MCEviction -----------------------------
(* Eviction on a small instance: at most MaxEvents commits, copies, lost files and     *)
(* batches after the first of a load, MaxSweeps sweeps, and a note of sweeps that      *)
(* overlapped.                                                                         *)
EXTENDS Eviction, TLC

CONSTANTS MaxEvents, MaxSweeps

VARIABLES events, sweeps,
          crossed   \* two sweeps have been under way at once

mcVars == <<vars, events, sweeps, crossed>>

MCInit == Init /\ events = 0 /\ sweeps = 0 /\ crossed = FALSE

\* A batch of at most one row.
MCBatches(b) == {{}} \cup {{<<b, v>>} : v \in Values}

MCBatch(s) == \E b \in Batches : \E R \in MCBatches(b) : Load(s, b, R)

\* A batch that begins a load is not counted: there are as many as Snapshots.
MCBegin(s) ==
  /\ ~Recorded(s) /\ MCBatch(s)
  /\ UNCHANGED <<events, sweeps, crossed>>

\* Nor is one that is sent again as it was: it changes nothing.
MCEvent(s) ==
  /\ events < MaxEvents /\ events' = events + 1
  /\ Commit(s) \/ Rot(s) \/ ArchivePart(s) \/ (Recorded(s) /\ MCBatch(s))
  /\ db' # db \/ bucket' # bucket
  /\ UNCHANGED <<sweeps, crossed>>

\* With fewer than Keep loads alive there is nothing a plan could sweep away.
MCListLive(w) ==
  /\ Cardinality({s \in Snapshots : Alive(s)}) >= Keep
  /\ sweeps < MaxSweeps /\ sweeps' = sweeps + 1
  /\ crossed' = (crossed \/ \E x \in Sweepers \ {w} : pc[x] # "rest")
  /\ ListLive(w)
  /\ UNCHANGED events

MCOther ==
  /\ \/ \E s \in Snapshots : ArchiveManifest(s) \/ RecordArchive(s) \/ ArchiveFails(s)
     \/ \E w \in Sweepers : Sweep(w) \/ SweepDies(w)
  /\ UNCHANGED <<events, sweeps, crossed>>

MCNext ==
  \/ \E s \in Snapshots : MCBegin(s) \/ MCEvent(s)
  \/ \E w \in Sweepers : MCListLive(w)
  \/ MCOther

MCSpec == MCInit /\ [][MCNext]_mcVars

MCSymmetry ==
  Permutations(Snapshots) \cup Permutations(Sweepers) \cup Permutations(Batches)
    \cup Permutations(Values)

\* At least Keep loads still have their rows, or all there are, unless two sweeps
\* planned across each other (selectSnapshotsToEvict: "this many snapshots still have
\* their rows"), also while the pointer is moved under the sweep and new loads land.
KeepRemains ==
  crossed \/ LET alive == Cardinality({s \in Snapshots : Alive(s)})
             IN alive >= Keep \/ alive = Now
=============================================================================

--------------------------- MODULE MCDuckDbStore ---------------------------
(* DuckDbStore on a small instance: at most MaxCalls calls are ever made. *)
EXTENDS DuckDbStore, TLC

CONSTANTS MaxCalls, k1, k2

\* Batch 0 always brings k1 and batch 1 always brings k2: re-sent, the same rows.
MCBatchRows == [b \in Batches |-> {{IF b = 0 THEN k1 ELSE k2}}]

VARIABLES calls,   \* calls made so far
          torn     \* snapshots a batch write died on, its object already there

MCInit == Init /\ calls = 0 /\ torn = {}

MCStart(p) ==
  /\ calls < MaxCalls
  /\ calls' = calls + 1
  /\ Start(p)
  /\ UNCHANGED torn

MCStep(p) == Step(p) /\ UNCHANGED <<calls, torn>>

MCCrash(p) ==
  /\ Crash(p)
  /\ torn' = torn \cup (IF pc[p] \in WritePhases THEN {tgt[p]} ELSE {})
  /\ UNCHANGED calls

MCNext == \E p \in Clients : MCStart(p) \/ MCStep(p) \/ MCCrash(p)

MCSpec == MCInit /\ [][MCNext]_<<vars, calls, torn>>

MCSymmetry == Permutations(Snapshots) \cup Permutations(Clients)

\* A snapshot that may be committed holds no key twice because of its merge: a
\* batch that came after the merge has marked it stale, so a key is never both
\* carried and loaded.  (A write that died between its object and its mark is
\* for its caller to send again.)
MergeCoversBatches ==
  \A s \in Snapshots \ torn :
    /\ ref[s] # NoRef /\ ref[s].carriedFrom # NoLabel /\ ~ref[s].stale
    /\ \A p \in Clients : tgt[p] # s
    => \A x \in CarriedRows(s) : x[2][1] \notin IncomingKeys(s)
=============================================================================

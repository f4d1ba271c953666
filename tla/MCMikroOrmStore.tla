-------------------------- MODULE MCMikroOrmStore --------------------------
(* MikroOrmStore on a small instance: at most MaxCalls calls are ever made. *)
EXTENDS MikroOrmStore, TLC

CONSTANT MaxCalls

VARIABLES calls,  \* calls made so far
          mixed,  \* snapshots two calls have been at work on at once
          torn    \* snapshots a call has not come to its end on

mcVars == <<vars, calls, mixed, torn>>

MCInit == Init /\ calls = 0 /\ mixed = {} /\ torn = {}

MCBegin(c) ==
  /\ calls < MaxCalls
  /\ calls' = calls + 1
  /\ Begin(c)
  /\ mixed' = mixed \cup {s \in Snapshots : tgt'[c] = s /\ \E d \in Clients \ {c} : tgt[d] = s}
  /\ UNCHANGED torn

MCStep(c) == Step(c) /\ UNCHANGED <<calls, mixed, torn>>

Harmless == {"cFind", "cCount", "cPublish", "dLock", "dCommit", "wDelete", "fOwn",
             "fPrevious", "fDelete"}

MCFails(c) ==
  /\ Fails(c)
  /\ torn' = IF pc[c] \in Harmless THEN torn ELSE torn \cup {tgt[c]}
  /\ UNCHANGED <<calls, mixed>>

MCNext == \E c \in Clients : MCBegin(c) \/ MCStep(c) \/ MCFails(c)

MCSpec == MCInit /\ [][MCNext]_mcVars

MCSymmetry == Permutations(Snapshots) \cup Permutations(Clients)

\* Snapshots the durable run has had to itself, every call of it finished.
Orderly(s) == s \notin mixed \cup torn /\ \A c \in Clients : tgt[c] # s

\* A merge that covers the load: what may be committed holds no key twice, since a
\* batch sent after the merge has marked it stale (write, carryForward).
MergeCoversBatches ==
  \A s \in Snapshots :
    /\ Orderly(s) /\ Recorded(s)
    /\ rec[s].carriedFrom # NoLabel /\ ~rec[s].stale
    => \A x \in rows[s] : x[1] = Carry => x[2][1] \notin Incoming(s)

\* The count on the record of a committed snapshot is of the rows it has, also after
\* a retried run has sent batches to it again or merged it again (write, 542).
CountIsOfRows ==
  \A s \in Snapshots :
    Orderly(s) /\ Alive(s) /\ rec[s].committed => rec[s].rowCount = Cardinality(rows[s])
=============================================================================

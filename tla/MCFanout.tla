------------------------------ MODULE MCFanout ------------------------------
(* Values for the constants of Fanout: a follower that is only recorded, then *)
(* one that is required.  A note is kept of the merges a follower made of     *)
(* rows it does not hold as the primary does, and that were taken for right:  *)
(* the same base by name and the same total is all mergeForward compares.     *)
EXTENDS Fanout

CONSTANTS recorded, required

MCFollowers == <<recorded, required>>

VARIABLE misled  \* the <<follower, snapshot>> last merged so

mcVars == <<vars, misled>>

Merging(a) == At(a, "carryForward", "attempt") /\ call'[a].at = "settle"

OwnBatches(g, s) == {y \in rows[g][s] : y[1] # Carry}

\* The follower's base is not the primary's row by row, or its batches of the load are not.
Misleads(a) ==
  /\ Merging(a) /\ call'[a].ok
  /\ \/ call[a].from # 0 /\ ~SameRows(call[a].on, call[a].from)
     \/ OwnBatches(call[a].on, call[a].snap) # OwnBatches(Primary, call[a].snap)

\* A merge is judged again when it is made again, and a replay brings the primary's.
Redone ==
  {<<call[a].on, call[a].snap>> : a \in {b \in Actors : Merging(b)}}
    \cup (IF replay.at = "clear" /\ replay'.at = "copy"
            THEN {<<replay.on, replay.snap>>} ELSE {})

MCInit == Init /\ misled = {}

MCNext ==
  /\ Next
  /\ misled' = (misled \ Redone)
       \cup {<<call[a].on, call[a].snap>> : a \in {b \in Actors : Misleads(b)}}

MCSpec == MCInit /\ [][MCNext]_mcVars

\* What the comparison lets through is a best-effort follower's: a required one that
\* owes anything about the base has stopped the load that left it so.
Misled(g, s) == g \notin Required /\ <<g, s>> \in misled

\* A load that has returned, and that the primary serves, is served by every follower
\* with the same rows, or the follower is on record as behind it, or it merged other
\* rows than the primary's: a debt is never forgotten (fanout.store.ts, commit, attempt).
FinishedIsFollowedOrOwed ==
  served[Primary] \in finished =>
    \A g \in Followers :
      \/ served[g] = served[Primary] /\ SameRows(g, served[Primary])
      \/ OwesAbout(g, served[Primary])
      \/ Misled(g, served[Primary])

\* What a follower serves is complete: the primary's rows of that snapshot, or a debt
\* about it is on record ("current and wrong" is what commit's holding back is there to
\* prevent), or it merged as above.  A load at work on the snapshot is excused.
FollowerServesWhole ==
  \A g \in Followers, s \in Ids :
    served[g] = s =>
      \/ SameRows(g, s)
      \/ OwesAbout(g, s)
      \/ load.next # "none" /\ load.snap = s
      \/ Misled(g, s)

\* A debt about rows leaves the journal when the follower has those rows as the primary
\* has them, when it serves what the primary was last committed to instead, when the
\* snapshot is gone, or when the follower merged as above: never because an answer came
\* back, a merge ran on another base, or a replay gave up (attempt, supersede, clearDebt,
\* dropSnapshot).
RowDebtIsPaid ==
  [][\A d \in journal \ journal' :
       d.stage \in ReplayedStages =>
         \/ SameBatch(d.follower, d.snap, d.batch)
         \/ SameRows(d.follower, d.snap)
         \/ served[d.follower] = mark /\ mark # d.snap
         \/ status[Primary][d.snap] = "dropped"
         \/ Misled(d.follower, d.snap)]_mcVars
=============================================================================

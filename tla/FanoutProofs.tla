---------------------------- MODULE FanoutProofs ----------------------------
(***************************************************************************)
(* Proofs about Fanout and MCFanout, for any followers, required or not,   *)
(* any batches, loads, replays and failures.  First what required          *)
(* followers hold when a load is published (LoadInv), then what every      *)
(* follower serves and owes (FollowInv).                                   *)
(***************************************************************************)
EXTENDS MCFanout, FiniteSetTheorems, WellFoundedInduction, TLAPS

-----------------------------------------------------------------------------
(* What is always so of the calls and the replay. *)

Trying == {"attempt", "settle", "supersede"}

CallShape ==
  \A a \in Actors :
    /\ call[a].at = "rest" => call[a] = NoCall
    /\ call[a].at # "rest" => call[a].op \in Stages
    /\ call[a].at \in Trying => call[a].on \in Followers
    /\ call[a].op \in Stages \ {"ensureType"} => call[a].snap \in Ids
    /\ call[a].op = "write" => call[a].batch \in Batches

LoadShape ==
  /\ load.next # "none" => /\ load.snap \in Ids /\ load.batches \in Batches
                           /\ call["load"].op = load.next
                           /\ call["load"].snap = load.snap
                           /\ call["load"].batch = load.batch
                           /\ call["load"].at # "rest"
  /\ load.next = "none" => call["load"].op \in {"none", "ensureType", "drop"}
  /\ load.next = "write" => load.batch \in 1 .. load.batches
  /\ load.next = "carryForward" => load.merge

ReplayShape ==
  /\ call["replay"].op \in {"none", "ensureType", "commit"}
  /\ call["replay"].op = "commit" => /\ replay.at = "commit"
                                     /\ call["replay"].snap = replay.snap
                                     /\ call["replay"].todo \subseteq {replay.on}
                                     /\ call["replay"].at \in Trying => call["replay"].on = replay.on
  /\ replay.at \notin {"ensureType", "commit"} => call["replay"] = NoCall
  /\ replay.at # "rest" => replay.snap \in Ids /\ replay.on \in Followers

TypeInv == TypeOK /\ CallShape /\ LoadShape /\ ReplayShape

-----------------------------------------------------------------------------
(* Types. *)

RowSets == SUBSET ((Batches \cup {Carry}) \X Row)

LoadRecord ==
  [snap : Ids \cup {0}, batches : 0 .. LastBatch, merge : BOOLEAN,
   next : {"none", "write", "carryForward", "commit"}, batch : Batches \cup {0}]

CallRecord ==
  [op : Stages \cup {"none"}, snap : Ids \cup {0}, batch : Batches \cup {0},
   at : {"rest", "ask", "primary", "mark", "follow", "attempt", "settle",
         "supersede", "forget", "returned", "threw"},
   todo : SUBSET Followers, failed : SUBSET Followers, owed : SUBSET Debt,
   on : Stores, ok : BOOLEAN, from : Ids \cup {0}, total : Nat]

ReplayRecord ==
  [at : {"rest", "ensureType", "clear", "copy", "clearDebt", "commit"},
   snap : Ids \cup {0}, on : Stores, current : Ids \cup {0},
   copied : SUBSET Batches, made : 0 .. MaxReplays]

StoresOK ==
  /\ rows \in [Stores -> [Ids -> RowSets]]
  /\ status \in [Stores -> [Ids -> {"none", "open", "committed", "dropped"}]]
  /\ served \in [Stores -> Ids \cup {0}]
  /\ shape \in [Stores -> BOOLEAN]

LedgerOK == journal \subseteq Debt /\ mark \in Ids \cup {0}

CallersOK ==
  /\ finished \subseteq Ids /\ load \in LoadRecord
  /\ call \in [Actors -> CallRecord] /\ replay \in ReplayRecord
  /\ faults \in 0 .. MaxFaults

LEMMA Types == TypeOK <=> StoresOK /\ LedgerOK /\ CallersOK
BY DEF TypeOK, StoresOK, LedgerOK, CallersOK, RowSets, LoadRecord, CallRecord, ReplayRecord

\* A set of numbers with a bound has a greatest member, and a least.
LEMMA Greatest ==
  ASSUME NEW T \in SUBSET Nat, T # {}, NEW m \in Nat, \A x \in T : x <= m
  PROVE  \E x \in T : \A y \in T : y <= x
<1> DEFINE D == {m - x : x \in T}
<1>1. D \in SUBSET Nat /\ D # {}
  <2>1. \A x \in T : m - x \in Nat
    OBVIOUS
  <2> QED
    BY <2>1
<1>2. PICK d \in D : \A e \in D : ~ (<<e, d>> \in OpToRel(<, Nat))
  <2> HIDE DEF D
  <2> QED
    BY <1>1, NatLessThanWellFounded, WFMin
<1>3. PICK x \in T : d = m - x
  OBVIOUS
<1>4. ASSUME NEW y \in T PROVE y <= x
  <2>1. m - y \in D /\ m - y \in Nat /\ d \in Nat
    BY <1>1
  <2>2. ~ (m - y < d)
    BY <1>2, <2>1 DEF OpToRel
  <2> QED
    BY <2>2, <1>3
<1> QED
  BY <1>4

LEMMA Least ==
  ASSUME NEW T \in SUBSET Nat, T # {}
  PROVE  \E x \in T : \A y \in T : x <= y
<1>1. PICK x \in T : \A y \in T : ~ (<<y, x>> \in OpToRel(<, Nat))
  BY NatLessThanWellFounded, WFMin
<1>2. \A y \in T : ~ (y < x)
  BY <1>1 DEF OpToRel
<1> QED
  BY <1>2

LEMMA FiniteRows ==
  ASSUME NEW R \in RowSets PROVE IsFiniteSet(R) /\ Cardinality(R) \in Nat
<1>1. IsFiniteSet(Batches) /\ IsFiniteSet(Ids)
  BY FanoutAssumption, FS_Interval DEF Batches, Ids
<1>2. IsFiniteSet(Batches \cup {Carry})
  BY <1>1, FS_Singleton, FS_Union
<1>3. IsFiniteSet((Batches \cup {Carry}) \X Row)
  BY <1>1, <1>2, FS_Product DEF Row
<1> QED
  BY <1>3, FS_Subset, FS_CardinalityType DEF RowSets

LEMMA FiniteRowSet ==
  ASSUME NEW R \in SUBSET Row PROVE IsFiniteSet(R) /\ Cardinality(R) \in Nat
<1>1. IsFiniteSet(Batches) /\ IsFiniteSet(Ids)
  BY FanoutAssumption, FS_Interval DEF Batches, Ids
<1>2. IsFiniteSet(Row)
  BY <1>1, FS_Product DEF Row
<1> QED
  BY <1>2, FS_Subset, FS_CardinalityType

LEMMA RowsOfAreRows ==
  ASSUME StoresOK, NEW x \in Stores, NEW s \in Ids PROVE RowsOf(x, s) \in SUBSET Row
BY DEF StoresOK, RowSets, RowsOf

\* A merge takes from an earlier committed snapshot, or from none.
LEMMA BaseIs ==
  ASSUME StoresOK, NEW x \in Stores, NEW s \in Ids
  PROVE  /\ Base(x, s) \in Ids \cup {0}
         /\ Base(x, s) # 0 =>
              Base(x, s) \in Ids /\ Base(x, s) < s /\ status[x][Base(x, s)] = "committed"
<1> DEFINE others == {t \in Ids \ {s} : t < s /\ status[x][t] = "committed"}
<1>1. CASE others = {}
  BY <1>1 DEF Base
<1>2. CASE others # {}
  <2>1. others \in SUBSET Nat /\ s \in Nat /\ \A t \in others : t <= s
    BY DEF Ids
  <2>2. \E t \in others : \A u \in others : u <= t
    <3> HIDE DEF others
    <3> QED BY <1>2, <2>1, Greatest
  <2>3. Base(x, s) = CHOOSE t \in others : \A u \in others : u <= t
    BY <1>2 DEF Base
  <2>4. Base(x, s) \in others
    BY <2>2, <2>3
  <2> QED
    BY <2>4
<1> QED
  BY <1>1, <1>2

LEMMA SurvivorsAre ==
  ASSUME StoresOK, NEW x \in Stores, NEW s \in Ids
  PROVE  Survivors(x, s) \in SUBSET Row
<1>1. CASE Base(x, s) = 0
  BY <1>1 DEF Survivors
<1>2. CASE Base(x, s) # 0
  BY <1>2, BaseIs, RowsOfAreRows DEF Survivors
<1> QED
  BY <1>1, <1>2

LEMMA TotalIs ==
  ASSUME StoresOK, NEW x \in Stores, NEW s \in Ids
  PROVE  /\ Cardinality({y \in rows[x][s] : y[1] # Carry}) \in Nat
         /\ Cardinality(Survivors(x, s)) \in Nat
         /\ Total(x, s) \in Nat
<1>1. {y \in rows[x][s] : y[1] # Carry} \in RowSets
  BY DEF StoresOK, RowSets
<1>2. Cardinality({y \in rows[x][s] : y[1] # Carry}) \in Nat
  BY <1>1, FiniteRows
<1>3. Cardinality(Survivors(x, s)) \in Nat
  BY SurvivorsAre, FiniteRowSet
<1> QED
  BY <1>2, <1>3 DEF Total

\* What a store's calls keep.
LEMMA PutTypes ==
  ASSUME StoresOK, NEW x \in Stores, NEW s \in Ids, NEW b \in Batches \cup {Carry},
         NEW rs \in SUBSET Row, Put(x, s, b, rs)
  PROVE  rows' \in [Stores -> [Ids -> RowSets]]
<1>1. {y \in rows[x][s] : y[1] # b} \cup ({b} \X rs) \in RowSets
  BY DEF StoresOK, RowSets
<1> QED
  BY <1>1 DEF StoresOK, Put

LEMMA OwnRows == \A s \in Ids, b \in Batches : {<<b, s>>} \in SUBSET Row
BY DEF Row

LEMMA OpenTypes ==
  ASSUME StoresOK, NEW x \in Stores, NEW s \in Ids, Opened(x, s)
  PROVE  status' \in [Stores -> [Ids -> {"none", "open", "committed", "dropped"}]]
<1>1. status[x][s] \in {"none", "open", "committed", "dropped"}
  BY DEF StoresOK
<1> QED
  BY <1>1 DEF StoresOK, Opened

LEMMA CommitTypes ==
  ASSUME StoresOK, NEW x \in Stores, NEW s \in Ids, StoreCommit(x, s)
  PROVE  /\ status' \in [Stores -> [Ids -> {"none", "open", "committed", "dropped"}]]
         /\ served' \in [Stores -> Ids \cup {0}]
BY DEF StoresOK, StoreCommit

LEMMA DropTypes ==
  ASSUME StoresOK, NEW x \in Stores, NEW s \in Ids, StoreDrop(x, s)
  PROVE  /\ rows' \in [Stores -> [Ids -> RowSets]]
         /\ status' \in [Stores -> [Ids -> {"none", "open", "committed", "dropped"}]]
<1>1. rows[x][s] \in RowSets /\ {} \in RowSets
  BY DEF StoresOK, RowSets
<1> QED
  BY <1>1 DEF StoresOK, StoreDrop

-----------------------------------------------------------------------------
(* The required followers. *)

Keepers == {Primary} \cup Required

Alone == replay.at = "rest" \/ Resting

Brought(x, s)   == {y \in rows[x][s] : y[1] # Carry}
CarriedOf(x, s) == {y \in rows[x][s] : y[1] = Carry}

Written(x, b, s) == <<b, <<b, s>>>> \in rows[x][s]

\* Nothing has happened to snapshots to come, and calls are not about them.
Future ==
  /\ \A x \in Stores, s \in Ids : s > load.snap => rows[x][s] = {} /\ status[x][s] = "none"
  /\ \A a \in Actors : call[a].op \in Stages \ {"ensureType"} =>
       call[a].snap \in Ids /\ call[a].snap <= load.snap
  /\ replay.at # "rest" => replay.snap <= load.snap /\ status[Primary][replay.snap] = "committed"

\* A required follower committed to what the primary has committed holds nothing else.
Held(f, s) ==
  status[Primary][s] = "committed" /\ status[f][s] = "committed" =>
    RowsOf(f, s) \subseteq RowsOf(Primary, s)

AllHeld ==
  \A f \in Required, s \in Ids :
    s # load.snap \/ load.next = "none" => Held(f, s)

\* What a replay copies is the primary's, unless the follower will refuse it.
Copied ==
  replay.at \in {"copy", "clearDebt", "commit"} /\ replay.on \in Required =>
    \/ status[replay.on][replay.snap] = "dropped"
    \/ RowsOf(replay.on, replay.snap) \subseteq RowsOf(Primary, replay.snap)

\* f has had its turn in the load's call, and it went well.
Followed(f) ==
  /\ f \notin call["load"].todo /\ f \notin call["load"].failed
  /\ call["load"].at \in {"attempt", "settle"} /\ call["load"].on = f =>
       call["load"].at = "settle" /\ call["load"].ok

Pace ==
  /\ call["load"].at \in {"ask", "primary"} =>
       call["load"].op = "drop" \/ call["load"].todo = Followers
  /\ call["load"].op \in ReplayedStages =>
       /\ call["load"].at \in {"primary", "follow", "attempt", "settle", "returned", "threw"}
       /\ call["load"].at = "returned" =>
            call["load"].todo = {} /\ call["load"].failed \cap Required = {}

\* The load's own batches, and carried rows only where the load merges.
Pure(x, s) ==
  \A y \in rows[x][s] :
    IF y[1] = Carry THEN load.merge ELSE y[1] \in 1 .. load.batches /\ y[2] = <<y[1], s>>

\* The batches the attempt has been through.
Due(b) ==
  \/ load.next = "write" /\ b < load.batch
  \/ load.next \in {"carryForward", "commit"} /\ b <= load.batches

Merged(x, s) ==
  /\ Base(x, s) = Base(Primary, s)
  /\ CarriedOf(x, s) = {Carry} \X Survivors(Primary, s)

Writing(s) ==
  load.next = "write" /\ call["load"].at # "primary" =>
    /\ Written(Primary, load.batch, s)
    /\ \A f \in Required : Followed(f) => Written(f, load.batch, s)

Carrying(s) ==
  load.next = "carryForward" /\ call["load"].at # "primary" =>
    /\ call["load"].from = Base(Primary, s) /\ call["load"].total = Total(Primary, s)
    /\ Merged(Primary, s)
    /\ \A f \in Required : Followed(f) => Merged(f, s)

Committing(s) ==
  load.next = "commit" /\ load.merge => \A x \in Keepers : Merged(x, s)

\* After its commit the attempt is made again with the same outcome.
Committed(s) ==
  status[Primary][s] = "committed" =>
    /\ \A b \in 1 .. load.batches : Written(Primary, b, s)
    /\ load.merge =>
         /\ Merged(Primary, s)
         /\ \A f \in Required : /\ Base(f, s) = Base(Primary, s)
                                /\ CarriedOf(f, s) \subseteq {Carry} \X Survivors(Primary, s)

AtWork(s) ==
  /\ \A x \in Keepers : Pure(x, s)
  /\ \A x \in Keepers, b \in 1 .. load.batches : Due(b) => Written(x, b, s)
  /\ Writing(s) /\ Carrying(s) /\ Committing(s) /\ Committed(s)

Work == \A s \in Ids : load.next # "none" /\ s = load.snap => AtWork(s)

LoadInv == TypeInv /\ Alone /\ Future /\ AllHeld /\ Copied /\ Pace /\ Work
-----------------------------------------------------------------------------
(* Every step keeps the types. *)

\* The primary's steps of a load's call.
PrimaryStep ==
  \/ Ask \/ PrimaryEnsures \/ PrimaryWrites \/ PrimaryCarries \/ PrimaryCommits
  \/ MarkCommitted \/ PrimaryDrops \/ Forget

\* A step within a call: what the call is about stays, and so do loader and operator.
Proceeds(a) ==
  /\ call[a].at \notin {"rest", "returned", "threw"} /\ call'[a].at # "rest"
  /\ call'[a].op = call[a].op /\ call'[a].snap = call[a].snap
  /\ call'[a].batch = call[a].batch
  /\ call' = [call EXCEPT ![a] = call'[a]]
  /\ UNCHANGED <<load, finished, replay>>

LEMMA FollowerProceeds ==
  ASSUME CallersOK, NEW a \in Actors, FanoutCall(a)
  PROVE  Proceeds(a)
<1>0. call \in [Actors -> CallRecord] /\ call[a] \in CallRecord
  BY DEF CallersOK
<1>1. CASE \E f \in Followers : HoldBack(a, f)
  BY <1>0, <1>1 DEF HoldBack, At, Proceeds, CallRecord, loader
<1>2. CASE \E f \in Followers : Announce(a, f)
  BY <1>0, <1>2 DEF Announce, Proceeds, CallRecord, loader
<1>3. CASE FollowerEnsures(a) \/ FollowerWrites(a) \/ FollowerCarries(a) \/ FollowerCommits(a)
           \/ FollowerDrops(a) \/ FollowerFails(a) \/ FollowerRefuses(a)
  <2>1. call[a].at = "attempt" /\ UNCHANGED <<load, finished, replay>>
    BY <1>3 DEF FollowerEnsures, FollowerWrites, FollowerCarries, FollowerCommits,
       FollowerDrops, FollowerFails, FollowerRefuses, At, loader
  <2>2. \E ok : Tried(a, ok)
    BY <1>3 DEF FollowerEnsures, FollowerWrites, FollowerCarries, FollowerCommits,
       FollowerDrops, FollowerFails, FollowerRefuses
  <2>3. PICK ok : call' = [call EXCEPT ![a].at = "settle", ![a].ok = ok]
    BY <2>2 DEF Tried
  <2> QED
    BY <1>0, <2>1, <2>3 DEF Proceeds, CallRecord
<1>4. CASE Settle(a)
  BY <1>0, <1>4 DEF Settle, Goes, Proceeds, CallRecord, loader
<1>5. CASE Supersede(a)
  BY <1>0, <1>5 DEF Supersede, At, Goes, Proceeds, CallRecord, loader
<1>6. CASE Return(a)
  BY <1>0, <1>6 DEF Return, Goes, Proceeds, CallRecord, loader
<1> QED
  BY <1>1, <1>2, <1>3, <1>4, <1>5, <1>6 DEF FanoutCall

LEMMA PrimaryProceeds ==
  ASSUME CallersOK, PrimaryStep
  PROVE  Proceeds("load")
<1>0. call \in [Actors -> CallRecord] /\ "load" \in Actors /\ call["load"] \in CallRecord
  BY DEF CallersOK, Actors
<1>1. CASE Ask
  <2>1. PICK owed, at : /\ at \in {"threw", "primary"}
                        /\ call' = [call EXCEPT !["load"].owed = owed, !["load"].at = at]
    BY <1>1 DEF Ask
  <2> QED
    BY <1>0, <1>1, <2>1 DEF Ask, At, Proceeds, CallRecord, loader
<1>2. CASE PrimaryEnsures \/ PrimaryWrites \/ PrimaryCommits \/ MarkCommitted \/ PrimaryDrops
  BY <1>0, <1>2 DEF PrimaryEnsures, PrimaryWrites, PrimaryCommits, MarkCommitted,
     PrimaryDrops, Goes, At, Proceeds, CallRecord, loader
<1>3. CASE PrimaryCarries
  <2>1. PICK from, total : call' = [call EXCEPT !["load"].from = from,
                                   !["load"].total = total, !["load"].at = "follow"]
    BY <1>3 DEF PrimaryCarries
  <2> QED
    BY <1>0, <1>3, <2>1 DEF PrimaryCarries, At, Proceeds, CallRecord, loader
<1>4. CASE Forget
  BY <1>0, <1>4 DEF Forget, At, Proceeds, CallRecord, loader
<1> QED
  BY <1>1, <1>2, <1>3, <1>4 DEF PrimaryStep

\* Stores keep their types.
LEMMA StoresStep ==
  ASSUME TypeInv, Next
  PROVE  StoresOK'
<1>0. StoresOK /\ CallersOK /\ "load" \in Actors /\ Primary \in Stores /\ Followers \subseteq Stores
  BY Types DEF TypeInv, Actors, Stores
<1>1. CASE UNCHANGED stores
  BY <1>0, <1>1 DEF stores, StoresOK
<1>2. ASSUME NEW a \in Actors, call[a].at = "attempt"
      PROVE  /\ call[a].on \in Stores
             /\ call[a].op \in Stages \ {"ensureType"} => call[a].snap \in Ids
             /\ call[a].op = "write" => call[a].batch \in Batches
  BY <1>0, <1>2 DEF TypeInv, CallShape, Trying
<1>3. CASE PrimaryWrites
  <2>1. call["load"].snap \in Ids /\ call["load"].batch \in Batches
    BY <1>0, <1>3 DEF PrimaryWrites, At, TypeInv, CallShape, Stages
  <2> QED
    BY <1>0, <1>3, <2>1, PutTypes, OpenTypes, OwnRows
    DEF PrimaryWrites, StoreWrite, StoresOK
<1>4. CASE PrimaryCarries
  <2>1. call["load"].snap \in Ids
    BY <1>0, <1>4 DEF PrimaryCarries, At, TypeInv, CallShape, Stages
  <2> QED
    BY <1>0, <1>4, <2>1, PutTypes, OpenTypes, SurvivorsAre
    DEF PrimaryCarries, StoreCarry, StoresOK
<1>5. CASE PrimaryCommits \/ PrimaryDrops
  <2>1. call["load"].snap \in Ids
    BY <1>0, <1>5 DEF PrimaryCommits, PrimaryDrops, At, TypeInv, CallShape, Stages
  <2>2. CASE PrimaryCommits
    BY <1>0, <2>1, <2>2, CommitTypes DEF PrimaryCommits, StoresOK
  <2>3. CASE PrimaryDrops
    BY <1>0, <2>1, <2>3, DropTypes DEF PrimaryDrops, StoresOK
  <2> QED
    BY <1>5, <2>2, <2>3
<1>6. ASSUME NEW a \in Actors,
             FollowerEnsures(a) \/ FollowerWrites(a) \/ FollowerCarries(a)
             \/ FollowerCommits(a) \/ FollowerDrops(a) \/ FollowerFails(a)
      PROVE  StoresOK'
  <2>1. CASE FollowerEnsures(a)
    BY <1>0, <1>2, <2>1 DEF FollowerEnsures, At, StoresOK
  <2>2. CASE FollowerWrites(a)
    <3>1. call[a].snap \in Ids /\ call[a].batch \in Batches /\ call[a].on \in Stores
      BY <1>2, <2>2 DEF FollowerWrites, At, Stages
    <3> QED
      BY <1>0, <2>2, <3>1, PutTypes, OpenTypes, OwnRows
      DEF FollowerWrites, StoreWrite, StoresOK
  <2>3. CASE FollowerCarries(a)
    <3>1. call[a].snap \in Ids /\ call[a].on \in Stores
      BY <1>2, <2>3 DEF FollowerCarries, At, Stages
    <3> QED
      BY <1>0, <2>3, <3>1, PutTypes, OpenTypes, SurvivorsAre
      DEF FollowerCarries, StoreCarry, StoresOK
  <2>4. CASE FollowerCommits(a)
    <3>1. call[a].snap \in Ids /\ call[a].on \in Stores
      BY <1>2, <2>4 DEF FollowerCommits, At, Stages
    <3> QED
      BY <1>0, <2>4, <3>1, CommitTypes DEF FollowerCommits, StoresOK
  <2>5. CASE FollowerDrops(a)
    <3>1. call[a].snap \in Ids /\ call[a].on \in Stores
      BY <1>2, <2>5 DEF FollowerDrops, At, Stages
    <3> QED
      BY <1>0, <2>5, <3>1, DropTypes DEF FollowerDrops, StoresOK
  <2>6. CASE FollowerFails(a)
    <3>1. CASE UNCHANGED <<rows, status>>
      BY <1>0, <2>6, <3>1 DEF FollowerFails, StoresOK
    <3>2. CASE call[a].op \in ReplayedStages /\ \E b \in Batches \cup {Carry} :
                 Torn(call[a].on, call[a].snap, b)
      <4>1. call[a].snap \in Ids /\ call[a].on \in Stores
        BY <1>2, <2>6, <3>2 DEF FollowerFails, Stages, ReplayedStages
      <4>2. {} \in SUBSET Row
        OBVIOUS
      <4> QED
        BY <1>0, <2>6, <3>2, <4>1, <4>2, PutTypes DEF FollowerFails, Torn, StoresOK
    <3> QED
      BY <1>2, <2>6, <3>1, <3>2 DEF FollowerFails, ReplayedStages
  <2> QED
    BY <1>6, <2>1, <2>2, <2>3, <2>4, <2>5, <2>6
<1>7. CASE ClearFollowerCopy
  <2>1. replay.snap \in Ids /\ replay.on \in Stores
    BY <1>0, <1>7 DEF ClearFollowerCopy, TypeInv, ReplayShape
  <2> QED
    BY <1>0, <1>7, <2>1, DropTypes DEF ClearFollowerCopy, StoresOK
<1>8. CASE CopyPage
  <2>1. replay.snap \in Ids /\ replay.on \in Stores /\ replay.copied \in SUBSET Batches
    BY <1>0, <1>8 DEF CopyPage, TypeInv, ReplayShape, CallersOK, ReplayRecord
  <2>2. RowsOf(Primary, replay.snap) \in SUBSET Row
    BY <1>0, <2>1, RowsOfAreRows
  <2>3. PICK k \in Uncopied :
           /\ Put(replay.on, replay.snap, Cardinality(replay.copied) + 1,
                  {r \in RowsOf(Primary, replay.snap) : r[1] = k})
           /\ Opened(replay.on, replay.snap)
           /\ UNCHANGED <<served, shape>>
    <3>1. Uncopied \in SUBSET Nat /\ Uncopied # {}
      BY <1>8, <2>2 DEF CopyPage, Uncopied, Row, Batches
    <3>2. (CHOOSE i \in Uncopied : \A j \in Uncopied : i <= j) \in Uncopied
      <4> HIDE DEF Uncopied
      <4> QED BY <3>1, Least
    <3> QED
      BY <1>8, <3>2 DEF CopyPage
  <2>4. Cardinality(replay.copied) + 1 \in Batches
    <3>1. IsFiniteSet(Batches) /\ Cardinality(Batches) = LastBatch
      BY FanoutAssumption, FS_Interval DEF Batches
    <3>2. k \in Batches /\ k \notin replay.copied
      BY <2>2, <2>3 DEF Uncopied, Row
    <3>3. /\ IsFiniteSet(replay.copied) /\ Cardinality(replay.copied) \in Nat
          /\ Cardinality(replay.copied \cup {k}) = Cardinality(replay.copied) + 1
      BY <2>1, <3>1, <3>2, FS_Subset, FS_CardinalityType, FS_AddElement
    <3>4. Cardinality(replay.copied \cup {k}) <= LastBatch
      BY <2>1, <3>1, <3>2, FS_Subset
    <3> QED
      BY <3>3, <3>4, FanoutAssumption DEF Batches
  <2>5. {r \in RowsOf(Primary, replay.snap) : r[1] = k} \in SUBSET Row
    BY <2>2
  <2>6. rows' \in [Stores -> [Ids -> RowSets]]
    BY <1>0, <2>1, <2>3, <2>4, <2>5, PutTypes
  <2> QED
    BY <1>0, <2>1, <2>3, <2>6, OpenTypes DEF StoresOK
<1> QED
  <2>1. CASE LoaderStep
    <3>1. CASE PrimaryWrites \/ PrimaryCarries \/ PrimaryCommits \/ PrimaryDrops
      BY <3>1, <1>3, <1>4, <1>5
    <3>2. CASE ~(PrimaryWrites \/ PrimaryCarries \/ PrimaryCommits \/ PrimaryDrops)
      BY <1>1, <2>1, <3>2 DEF LoaderStep, StartLoad, Advance, AttemptEnds, EnsureType,
         DropSnapshot, AdminEnds, Ask, PrimaryEnsures, MarkCommitted, Forget
    <3> QED
      BY <3>1, <3>2
  <2>2. CASE ReplayStep
    <3>1. CASE ~(ClearFollowerCopy \/ CopyPage)
      BY <1>1, <2>2, <3>1 DEF ReplayStep, StartReplay, ReplayEnsured, CopiedAll, ClearDebt,
         ReplayEnds
    <3> QED
      BY <1>7, <1>8, <3>1
  <2>3. ASSUME NEW a \in Actors, FanoutCall(a) PROVE StoresOK'
    <3>1. CASE FollowerRefuses(a) \/ Settle(a) \/ Supersede(a) \/ Return(a)
               \/ \E f \in Followers : HoldBack(a, f) \/ Announce(a, f)
      BY <1>1, <3>1 DEF FollowerRefuses, Settle, Supersede, Return, HoldBack, Announce
    <3> QED
      BY <1>6, <2>3, <3>1 DEF FanoutCall
  <2> QED
    BY <2>1, <2>2, <2>3 DEF Next

LEMMA FaultTypes ==
  ASSUME CallersOK, NEW ok \in BOOLEAN, Faulty(ok) PROVE faults' \in 0 .. MaxFaults
BY FanoutAssumption DEF CallersOK, Faulty

LEMMA NoCallTypes ==
  /\ NoCall \in CallRecord
  /\ NoCall.op = "none" /\ NoCall.op \notin Stages /\ NoCall.at = "rest" /\ NoCall.todo = {} /\ NoCall.on = Primary
BY DEF NoCall, CallRecord, Stores, Stages

LEMMA BegunTypes ==
  ASSUME NEW op \in Stages, NEW s \in Ids \cup {0}, NEW b \in Batches \cup {0},
         NEW at \in {"ask", "primary", "follow"}, NEW todo, todo \subseteq Followers
  PROVE  Begun(op, s, b, at, todo) \in CallRecord
BY DEF Begun, NoCall, CallRecord, Stores

LEMMA BegunIs ==
  ASSUME NEW op, NEW s, NEW b, NEW at, NEW todo
  PROVE  /\ Begun(op, s, b, at, todo).op = op /\ Begun(op, s, b, at, todo).snap = s
         /\ Begun(op, s, b, at, todo).batch = b /\ Begun(op, s, b, at, todo).at = at
         /\ Begun(op, s, b, at, todo).todo = todo /\ Begun(op, s, b, at, todo).failed = {}
         /\ Begun(op, s, b, at, todo).on = Primary
BY DEF Begun, NoCall

\* Moving on within a call.
LEMMA GoesTypes ==
  ASSUME CallersOK, NEW a \in Actors,
         NEW at \in {"primary", "mark", "follow", "supersede", "forget", "returned", "threw"},
         Goes(a, at)
  PROVE  /\ call'[a] \in CallRecord /\ call'[a].at = at
         /\ call'[a].on = call[a].on /\ call'[a].todo = call[a].todo
         /\ call'[a].failed = call[a].failed /\ call'[a].ok = call[a].ok
         /\ call'[a].from = call[a].from /\ call'[a].total = call[a].total
<1>1. call \in [Actors -> CallRecord] /\ call[a] \in CallRecord
  BY DEF CallersOK
<1>2. call'[a] = [call[a] EXCEPT !.at = at]
  BY <1>1 DEF Goes
<1> QED
  BY <1>1, <1>2 DEF CallRecord

\* What a follower's step makes of its call.
LEMMA FollowerTypes ==
  ASSUME TypeInv, NEW a \in Actors, FanoutCall(a)
  PROVE  /\ call'[a] \in CallRecord /\ faults' \in 0 .. MaxFaults
         /\ call'[a].at \in Trying => call'[a].on \in Followers
         /\ call'[a].todo \subseteq call[a].todo
         /\ call'[a].at \in Trying => call'[a].on = call[a].on \/ call'[a].on \in call[a].todo
         /\ call[a].at \notin Trying /\ call'[a].at \in Trying => call'[a].on \in call[a].todo
         /\ call[a].op = "commit" \/ call'[a].at \notin {"supersede", "mark"}
<1>0. CallersOK /\ call \in [Actors -> CallRecord] /\ call[a] \in CallRecord
  BY Types DEF TypeInv, CallersOK
<1>1. CASE \E f \in Followers : HoldBack(a, f)
  BY <1>0, <1>1 DEF HoldBack, At, Turn, CallRecord, CallersOK, Trying
<1>2. CASE \E f \in Followers : Announce(a, f)
  BY <1>0, <1>2 DEF Announce, Turn, CallRecord, CallersOK, Trying, Stores
<1>3. CASE FollowerEnsures(a) \/ FollowerWrites(a) \/ FollowerCarries(a) \/ FollowerCommits(a)
           \/ FollowerDrops(a) \/ FollowerFails(a) \/ FollowerRefuses(a)
  <2>1. call[a].at = "attempt"
    BY <1>3 DEF FollowerEnsures, FollowerWrites, FollowerCarries, FollowerCommits,
       FollowerDrops, FollowerFails, FollowerRefuses, At
  <2>2. faults' = faults \/ \E ok \in BOOLEAN : Faulty(ok)
    BY <1>3 DEF FollowerEnsures, FollowerWrites, FollowerCarries, FollowerCommits,
       FollowerDrops, FollowerFails, FollowerRefuses
  <2>3. \E ok \in BOOLEAN : Tried(a, ok)
    BY <1>3 DEF FollowerEnsures, FollowerWrites, FollowerCarries, FollowerCommits,
       FollowerDrops, FollowerFails, FollowerRefuses
  <2>4. PICK ok \in BOOLEAN : call' = [call EXCEPT ![a].at = "settle", ![a].ok = ok]
    BY <2>3 DEF Tried
  <2>5. call'[a] = [call[a] EXCEPT !.at = "settle", !.ok = ok]
    BY <1>0, <2>4
  <2>6. call'[a] \in CallRecord
    BY <1>0, <2>5 DEF CallRecord
  <2>7. faults' \in 0 .. MaxFaults
    BY <1>0, <2>2, FaultTypes DEF CallersOK
  <2>8. call'[a].at = "settle" /\ call'[a].on = call[a].on /\ call'[a].todo = call[a].todo
    BY <1>0, <2>5 DEF CallRecord
  <2> QED
    BY <2>1, <2>6, <2>7, <2>8 DEF TypeInv, CallShape, Trying
<1>4. CASE Settle(a)
  <2>1. call[a].on \in Followers /\ call[a].at = "settle" /\ faults' = faults
    BY <1>4 DEF Settle, TypeInv, CallShape, Trying
  <2>2. CASE call[a].ok
    <3>1. PICK at \in {"follow", "supersede"} :
            Goes(a, at) /\ (at = "supersede" => call[a].op = "commit")
      BY <1>4, <2>2 DEF Settle
    <3> QED
      BY <1>0, <2>1, <3>1, GoesTypes DEF Trying, CallersOK
  <2>3. CASE ~call[a].ok
    <3>0. call[a].failed \cup {call[a].on} \in SUBSET Followers
      BY <1>0, <2>1 DEF CallRecord
    <3>1. PICK failed \in SUBSET Followers :
            call'[a] = [call[a] EXCEPT !.failed = failed, !.at = "follow"]
      BY <1>0, <1>4, <2>3, <3>0 DEF Settle
    <3>2. call'[a] \in CallRecord /\ call'[a].at = "follow" /\ call'[a].todo = call[a].todo
      BY <1>0, <2>1, <3>1 DEF CallRecord
    <3> QED
      BY <1>0, <2>1, <3>2 DEF Trying, CallersOK
  <2> QED
    BY <2>2, <2>3
<1>5. CASE Supersede(a)
  <2>1. Goes(a, "follow") /\ call[a].op = "commit" /\ faults' = faults
    BY <1>5 DEF Supersede, At
  <2> QED
    BY <1>0, <2>1, GoesTypes DEF Trying, CallersOK
<1>6. CASE Return(a)
  <2>1. PICK at \in {"primary", "threw", "returned"} : Goes(a, at)
    BY <1>6 DEF Return
  <2> QED
    BY <1>0, <1>6, <2>1, GoesTypes DEF Return, Trying, CallersOK
<1> QED
  BY <1>1, <1>2, <1>3, <1>4, <1>5, <1>6 DEF FanoutCall

LEMMA PrimaryTypes ==
  ASSUME TypeInv, PrimaryStep
  PROVE  /\ call'["load"] \in CallRecord /\ faults' \in 0 .. MaxFaults
         /\ call'["load"].at \notin Trying
<1>0. /\ StoresOK /\ LedgerOK /\ CallersOK /\ call \in [Actors -> CallRecord]
      /\ "load" \in Actors /\ call["load"] \in CallRecord
  BY Types DEF TypeInv, CallersOK, Actors
<1>1. CASE Ask
  <2>1. Outstanding(call["load"].snap) \in SUBSET Debt
    BY <1>0 DEF Outstanding, LedgerOK
  <2>2. PICK owed \in SUBSET Debt, at \in {"threw", "primary"} :
          call' = [call EXCEPT !["load"].owed = owed, !["load"].at = at]
    BY <1>1, <2>1 DEF Ask
  <2>3. call'["load"] = [call["load"] EXCEPT !.owed = owed, !.at = at]
    BY <1>0, <2>2
  <2>4. call'["load"] \in CallRecord /\ call'["load"].at = at
    BY <1>0, <2>3 DEF CallRecord
  <2> QED
    BY <1>0, <1>1, <2>4 DEF Ask, CallersOK, Trying
<1>2. CASE PrimaryEnsures \/ PrimaryWrites \/ PrimaryCommits \/ MarkCommitted \/ PrimaryDrops
  BY <1>0, <1>2 DEF PrimaryEnsures, PrimaryWrites, PrimaryCommits, MarkCommitted,
     PrimaryDrops, Goes, CallRecord, CallersOK, Trying
<1>3. CASE PrimaryCarries
  <2>1. call["load"].snap \in Ids /\ Primary \in Stores
    BY <1>3 DEF PrimaryCarries, At, TypeInv, CallShape, Stages, Stores, Actors
  <2>2. /\ Base(Primary, call["load"].snap) \in Ids \cup {0}
        /\ Total(Primary, call["load"].snap) \in Nat
    BY <1>0, <2>1, BaseIs, TotalIs
  <2> QED
    BY <1>0, <1>3, <2>2 DEF PrimaryCarries, CallRecord, CallersOK, Trying
<1>4. CASE Forget
  <2>1. PICK at \in {"threw", "returned"} : call' = [call EXCEPT !["load"].at = at]
    BY <1>4 DEF Forget
  <2> QED
    BY <1>0, <1>4, <2>1 DEF Forget, CallRecord, CallersOK, Trying
<1> QED
  BY <1>1, <1>2, <1>3, <1>4 DEF PrimaryStep

\* The journal and the mark.
LEMMA LedgerStep ==
  ASSUME TypeInv, Next
  PROVE  LedgerOK'
<1>0. LedgerOK /\ CallersOK
  BY Types DEF TypeInv
<1>1. ASSUME NEW a \in Actors, call[a].at # "rest", NEW f \in Followers
      PROVE  Key([call[a] EXCEPT !.on = f]) \in Debt
  BY <1>0, <1>1 DEF TypeInv, CallShape, CallersOK, CallRecord, Key, Debt
<1>2. ASSUME NEW a \in Actors, call[a].at = "settle" PROVE Key(call[a]) \in Debt
  BY <1>0, <1>2 DEF TypeInv, CallShape, CallersOK, CallRecord, Key, Debt, Trying
<1>3. ASSUME NEW a \in Actors, FanoutCall(a) PROVE LedgerOK'
  <2>1. CASE \E f \in Followers : HoldBack(a, f)
    <3>1. call[a].snap \in Ids \cup {0}
      BY <1>0 DEF CallersOK, CallRecord
    <3> QED
      BY <1>0, <2>1, <3>1 DEF HoldBack, LedgerOK, Debt, Stages
  <2>2. CASE \E f \in Followers : Announce(a, f)
    BY <1>0, <1>1, <2>2 DEF Announce, LedgerOK
  <2>3. CASE Settle(a)
    BY <1>0, <1>2, <2>3 DEF Settle, LedgerOK
  <2>4. CASE Supersede(a)
    BY <1>0, <2>4 DEF Supersede, LedgerOK
  <2> QED
    BY <1>0, <1>3, <2>1, <2>2, <2>3, <2>4 DEF FanoutCall, FollowerEnsures, FollowerWrites,
       FollowerCarries, FollowerCommits, FollowerDrops, FollowerFails, FollowerRefuses, Return,
       ledger, LedgerOK
<1>4. CASE LoaderStep
  <2>1. CASE Forget
    BY <1>0, <2>1 DEF Forget, LedgerOK
  <2>2. CASE MarkCommitted
    BY <1>0, <2>2 DEF MarkCommitted, LedgerOK, CallersOK, CallRecord, Actors
  <2> QED
    BY <1>0, <1>4, <2>1, <2>2 DEF LoaderStep, StartLoad, Advance, AttemptEnds, EnsureType,
       DropSnapshot, AdminEnds, Ask, PrimaryEnsures, PrimaryWrites, PrimaryCarries,
       PrimaryCommits, PrimaryDrops, ledger, LedgerOK
<1>5. CASE ReplayStep
  BY <1>0, <1>5 DEF ReplayStep, StartReplay, ReplayEnsured, ClearFollowerCopy, CopyPage,
     CopiedAll, ClearDebt, ReplayEnds, ledger, LedgerOK
<1> QED
  BY <1>3, <1>4, <1>5 DEF Next

LEMMA CallsTypes ==
  ASSUME CallersOK, load' \in LoadRecord, Calls(load')
  PROVE  /\ call' = [call EXCEPT !["load"] = call'["load"]] /\ call'["load"] \in CallRecord
         /\ IF load'.next = "none" THEN call'["load"] = NoCall
            ELSE /\ call'["load"].op = load'.next /\ call'["load"].snap = load'.snap
                 /\ call'["load"].batch = load'.batch /\ call'["load"].todo = Followers
                 /\ call'["load"].failed = {}
                 /\ call'["load"].at = IF load'.next = "commit" THEN "ask" ELSE "primary"
<1> DEFINE next == IF load'.next = "none" THEN NoCall
                   ELSE Begun(load'.next, load'.snap, load'.batch,
                              IF load'.next = "commit" THEN "ask" ELSE "primary", Followers)
<1>1. call \in [Actors -> CallRecord] /\ "load" \in Actors
  BY DEF CallersOK, Actors
<1>2. call' = [call EXCEPT !["load"] = next]
  BY DEF Calls
<1>3. call'["load"] = next
  BY <1>1, <1>2
<1>4. CASE load'.next = "none"
  BY <1>2, <1>3, <1>4, NoCallTypes
<1>5. CASE load'.next # "none"
  <2>1. load'.next \in Stages /\ load'.snap \in Ids \cup {0} /\ load'.batch \in Batches \cup {0}
    BY <1>5 DEF LoadRecord, Stages
  <2> QED
    <3>1. Followers \subseteq Followers
      OBVIOUS
    <3>2. PICK at \in {"ask", "primary", "follow"} :
            /\ at = IF load'.next = "commit" THEN "ask" ELSE "primary"
            /\ next = Begun(load'.next, load'.snap, load'.batch, at, Followers)
      BY <1>5
    <3> HIDE DEF next
    <3>3. next \in CallRecord
      <4>1. PICK op \in Stages, snap \in Ids \cup {0}, batch \in Batches \cup {0} :
              load'.next = op /\ load'.snap = snap /\ load'.batch = batch
        BY <2>1
      <4>2. next = Begun(op, snap, batch, at, Followers)
        BY <3>2, <4>1
      <4>3. Begun(op, snap, batch, at, Followers) \in CallRecord
        BY <3>1, BegunTypes
      <4> QED
        BY <4>2, <4>3
    <3>4. next.op = load'.next /\ next.snap = load'.snap /\ next.batch = load'.batch
      BY <3>2, BegunIs
    <3>5. next.at = at
      BY <3>2, BegunIs
    <3>6. next.todo = Followers /\ next.failed = {}
      BY <3>2 DEF Begun, NoCall
    <3> QED
      BY <1>2, <1>3, <1>5, <3>2, <3>3, <3>4, <3>5, <3>6
<1> QED
  BY <1>4, <1>5

\* A step of the loader between calls.
LEMMA LoaderTypes ==
  ASSUME TypeInv, StartLoad \/ Advance \/ AttemptEnds
  PROVE  /\ load' \in LoadRecord /\ Calls(load') /\ finished' \subseteq Ids
         /\ faults' \in 0 .. MaxFaults /\ UNCHANGED replay
         /\ load'.next # "none" => load'.snap \in Ids /\ load'.batches \in Batches
         /\ load'.next = "write" => load'.batch \in 1 .. load'.batches
         /\ load'.next = "carryForward" => load'.merge
<1>0. CallersOK /\ load \in LoadRecord
  BY Types DEF TypeInv, CallersOK
<1>1. CASE StartLoad
  <2>1. PICK n \in Batches, merge \in BOOLEAN :
          load' = [snap |-> load.snap + 1, batches |-> n, merge |-> merge,
                   next |-> "write", batch |-> 1]
    BY <1>1 DEF StartLoad
  <2>2. load.snap + 1 \in Ids /\ 1 \in Batches /\ n \in 0 .. LastBatch /\ 1 \in 1 .. n
    BY <1>0, <1>1, FanoutAssumption DEF StartLoad, LoadRecord, Ids, Batches
  <2> QED
    BY <1>0, <1>1, <2>1, <2>2 DEF StartLoad, LoadRecord, CallersOK
<1>2. CASE Advance
  <2>0. load.snap \in Ids /\ load.batches \in Batches
    BY <1>2 DEF Advance, TypeInv, LoadShape
  <2>1. PICK after \in {"write", "carryForward", "commit", "none"} :
          /\ load' = [load EXCEPT !.next = after,
                                  !.batch = IF after = "write" THEN load.batch + 1 ELSE 0]
          /\ after = "write" => load.next = "write" /\ load.batch < load.batches
          /\ after = "carryForward" => load.merge
    BY <1>2 DEF Advance
  <2>2. after = "write" => load.batch + 1 \in 1 .. load.batches /\ load.batch + 1 \in Batches
    BY <2>0, <2>1, FanoutAssumption DEF TypeInv, LoadShape, Batches
  <2>3. load' \in LoadRecord
    BY <1>0, <2>1, <2>2 DEF LoadRecord
  <2>4. /\ load'.next = after /\ load'.snap = load.snap /\ load'.batches = load.batches
        /\ load'.merge = load.merge /\ (after = "write" => load'.batch = load.batch + 1)
    BY <1>0, <2>1 DEF LoadRecord
  <2> QED
    BY <1>0, <1>2, <2>0, <2>1, <2>2, <2>3, <2>4 DEF Advance, CallersOK
<1>3. CASE AttemptEnds
  <2>0. load.snap \in Ids /\ load.batches \in Batches
    BY <1>3 DEF AttemptEnds, TypeInv, LoadShape
  <2>1. faults' \in 0 .. MaxFaults
    BY <1>0, <1>3, FaultTypes DEF AttemptEnds
  <2>2. CASE load' = [load EXCEPT !.next = "none", !.batch = 0]
    BY <1>0, <1>3, <2>1, <2>2 DEF AttemptEnds, LoadRecord, CallersOK
  <2>3. CASE \E n \in 1 .. load.batches :
               load' = [load EXCEPT !.batches = n, !.next = "write", !.batch = 1]
    <3>1. PICK n \in 1 .. load.batches :
            load' = [load EXCEPT !.batches = n, !.next = "write", !.batch = 1]
      BY <2>3
    <3>2. n \in Batches /\ 1 \in Batches /\ n \in 0 .. LastBatch /\ 1 \in 1 .. n
      BY <2>0, FanoutAssumption DEF Batches
    <3> QED
      BY <1>0, <1>3, <2>0, <2>1, <3>1, <3>2 DEF AttemptEnds, LoadRecord, CallersOK
  <2> QED
    BY <1>3, <2>2, <2>3 DEF AttemptEnds
<1> QED
  BY <1>1, <1>2, <1>3

LEMMA CallersStep ==
  ASSUME TypeInv, Next
  PROVE  CallersOK' /\ CallShape' /\ LoadShape' /\ ReplayShape'
<1>0. /\ CallersOK /\ call \in [Actors -> CallRecord] /\ replay \in ReplayRecord
      /\ Actors = {"load", "replay"} /\ Followers \subseteq Stores
  BY Types DEF TypeInv, CallersOK, Actors, Stores
<1>1. ASSUME NEW a \in Actors, FanoutCall(a)
      PROVE  CallersOK' /\ CallShape' /\ LoadShape' /\ ReplayShape'
  <2>1. Proceeds(a)
    BY <1>0, <1>1, FollowerProceeds
  <2>2. /\ call'[a] \in CallRecord /\ faults' \in 0 .. MaxFaults
        /\ call'[a].at \in Trying => call'[a].on \in Followers
        /\ call'[a].todo \subseteq call[a].todo
        /\ call'[a].at \in Trying => call'[a].on = call[a].on \/ call'[a].on \in call[a].todo
        /\ call[a].at \notin Trying /\ call'[a].at \in Trying => call'[a].on \in call[a].todo
    BY <1>1, FollowerTypes
  <2>3. \A b \in Actors \ {a} : call'[b] = call[b]
    BY <1>0, <2>1 DEF Proceeds
  <2>4. CallersOK'
    BY <1>0, <2>1, <2>2 DEF CallersOK, Proceeds
  <2>5. CallShape'
    BY <2>1, <2>2, <2>3 DEF Proceeds, TypeInv, CallShape
  <2>6. LoadShape'
    BY <2>1, <2>3 DEF Proceeds, TypeInv, LoadShape, Actors
  <2>7. ReplayShape'
    <3>1. CASE a = "load"
      BY <1>0, <2>1, <2>3, <3>1 DEF Proceeds, TypeInv, ReplayShape
    <3>2. CASE a = "replay"
      <4>1. replay.at \in {"ensureType", "commit"} /\ replay' = replay
        BY <2>1, <3>2, NoCallTypes DEF Proceeds, TypeInv, ReplayShape
      <4> QED
        BY <2>1, <2>2, <3>2, <4>1 DEF Proceeds, TypeInv, ReplayShape
    <3> QED
      BY <1>0, <3>1, <3>2
  <2> QED
    BY <2>4, <2>5, <2>6, <2>7
<1>2. CASE PrimaryStep
  <2>1. Proceeds("load")
    BY <1>0, <1>2, PrimaryProceeds
  <2>2. /\ call'["load"] \in CallRecord /\ faults' \in 0 .. MaxFaults
        /\ call'["load"].at \notin Trying
    BY <1>2, PrimaryTypes
  <2>3. call'["replay"] = call["replay"]
    BY <1>0, <2>1 DEF Proceeds
  <2>4. CallersOK'
    BY <1>0, <2>1, <2>2 DEF CallersOK, Proceeds
  <2>5. CallShape'
    BY <1>0, <2>1, <2>2, <2>3 DEF Proceeds, TypeInv, CallShape
  <2>6. LoadShape' /\ ReplayShape'
    BY <2>1, <2>3 DEF Proceeds, TypeInv, LoadShape, ReplayShape
  <2> QED
    BY <2>4, <2>5, <2>6
<1>3. CASE StartLoad \/ Advance \/ AttemptEnds
  <2>1. /\ load' \in LoadRecord /\ Calls(load') /\ finished' \subseteq Ids
        /\ faults' \in 0 .. MaxFaults /\ UNCHANGED replay
        /\ load'.next # "none" => load'.snap \in Ids /\ load'.batches \in Batches
        /\ load'.next = "write" => load'.batch \in 1 .. load'.batches
        /\ load'.next = "carryForward" => load'.merge
    BY <1>3, LoaderTypes
  <2>2. /\ call' = [call EXCEPT !["load"] = call'["load"]] /\ call'["load"] \in CallRecord
        /\ IF load'.next = "none" THEN call'["load"] = NoCall
           ELSE /\ call'["load"].op = load'.next /\ call'["load"].snap = load'.snap
                /\ call'["load"].batch = load'.batch
                /\ call'["load"].at = IF load'.next = "commit" THEN "ask" ELSE "primary"
    BY <1>0, <2>1, CallsTypes
  <2>3. call'["replay"] = call["replay"]
    BY <1>0, <2>2
  <2>4. CallersOK'
    BY <1>0, <2>1, <2>2 DEF CallersOK
  <2>5. LoadShape' /\ ReplayShape'
    BY <2>1, <2>2, <2>3 DEF TypeInv, LoadShape, ReplayShape, NoCall
  <2>6. CallShape'
    <3>1. load'.next \in {"none", "write", "carryForward", "commit"}
      BY <2>1 DEF LoadRecord
    <3>2. load'.next = "write" => load'.batch \in Batches
      BY <2>1, FanoutAssumption DEF Batches
    <3> QED
      BY <1>0, <2>1, <2>2, <2>3, <3>1, <3>2, NoCallTypes
      DEF TypeInv, CallShape, Trying, Stages
  <2> QED
    BY <2>4, <2>5, <2>6
<1>4. CASE EnsureType \/ DropSnapshot
  <2>1. PICK op \in {"ensureType", "drop"}, s \in Ids \cup {0}, at \in {"primary", "follow"} :
          /\ call' = [call EXCEPT !["load"] = Begun(op, s, 0, at, Followers)]
          /\ op = "drop" => s \in Ids
          /\ UNCHANGED <<load, finished, replay, faults>> /\ load.next = "none"
    <3>1. CASE EnsureType
      BY <3>1 DEF EnsureType, Resting, loader
    <3>2. CASE DropSnapshot
      BY <3>2 DEF DropSnapshot, Resting, loader
    <3> QED
      BY <1>4, <3>1, <3>2
  <2>2. call'["replay"] = call["replay"] /\ call'["load"] = Begun(op, s, 0, at, Followers)
    BY <1>0, <2>1
  <2>3. /\ call'["load"] \in CallRecord /\ call'["load"].op = op /\ call'["load"].snap = s
        /\ call'["load"].at = at
    <3>1. op \in Stages /\ s \in Ids \cup {0} /\ 0 \in Batches \cup {0}
          /\ at \in {"ask", "primary", "follow"} /\ Followers \subseteq Followers
      BY <2>1 DEF Stages
    <3>2. Begun(op, s, 0, at, Followers) \in CallRecord
      BY <3>1, BegunTypes
    <3>3. /\ Begun(op, s, 0, at, Followers).op = op /\ Begun(op, s, 0, at, Followers).snap = s
          /\ Begun(op, s, 0, at, Followers).at = at
      BY DEF Begun, NoCall
    <3> QED
      BY <2>2, <3>2, <3>3
  <2>4. CallersOK'
    BY <1>0, <2>1, <2>2, <2>3 DEF CallersOK
  <2>5. CallShape' /\ LoadShape' /\ ReplayShape'
    BY <1>0, <2>1, <2>2, <2>3 DEF TypeInv, CallShape, LoadShape, ReplayShape, Trying, Stages
  <2> QED
    BY <2>4, <2>5
<1>5. CASE AdminEnds
  <2>1. faults' \in 0 .. MaxFaults
    BY <1>0, <1>5, FanoutAssumption DEF AdminEnds, Faulty, CallersOK
  <2>2. call'["replay"] = call["replay"] /\ call'["load"] = NoCall
    BY <1>0, <1>5 DEF AdminEnds
  <2>3. CallersOK'
    BY <1>0, <1>5, <2>1, NoCallTypes DEF AdminEnds, CallersOK, loader
  <2> QED
    <3>1. UNCHANGED <<load, replay>> /\ load.next = "none"
      BY <1>5 DEF AdminEnds, loader
    <3> QED
      BY <1>0, <2>2, <2>3, <3>1, NoCallTypes
      DEF TypeInv, CallShape, LoadShape, ReplayShape, Trying
<1>6. CASE ReplayStep
  <2>1. CASE StartReplay
    <3>1. PICK s \in Ids, f \in Followers :
            /\ replay' = [at |-> "ensureType", snap |-> s, on |-> f, current |-> mark,
                          copied |-> {}, made |-> replay.made + 1]
            /\ call' = [call EXCEPT !["replay"] = Begun("ensureType", 0, 0, "follow", {f})]
      BY <2>1 DEF StartReplay
    <3>2. /\ call'["load"] = call["load"]
          /\ call'["replay"] = Begun("ensureType", 0, 0, "follow", {f})
      BY <1>0, <3>1
    <3>3. /\ call'["replay"] \in CallRecord /\ call'["replay"].op = "ensureType"
          /\ call'["replay"].at = "follow"
      <4>1. /\ "ensureType" \in Stages /\ 0 \in Batches \cup {0} /\ 0 \in Ids \cup {0}
            /\ {f} \subseteq Followers /\ "follow" \in {"ask", "primary", "follow"}
        BY DEF Stages
      <4> QED
        BY <3>2, <4>1, BegunTypes, BegunIs
    <3>4. replay' \in ReplayRecord
      <4>1. mark \in Ids \cup {0} /\ replay.made + 1 \in 0 .. MaxReplays
        BY <1>0, <2>1, Types, FanoutAssumption
        DEF TypeInv, LedgerOK, StartReplay, ReplayRecord
      <4> QED
        BY <1>0, <3>1, <4>1 DEF ReplayRecord
    <3>5. CallersOK'
      BY <1>0, <2>1, <3>1, <3>2, <3>3, <3>4 DEF StartReplay, CallersOK, loader
    <3> QED
      BY <1>0, <2>1, <3>1, <3>2, <3>3, <3>5
      DEF StartReplay, TypeInv, CallShape, LoadShape, ReplayShape, Trying, Stages, loader
  <2>2. CASE ReplayEnsured
    <3>1. call'["load"] = call["load"] /\ call'["replay"] = NoCall
      BY <1>0, <2>2 DEF ReplayEnsured
    <3>2. CallersOK'
      BY <1>0, <2>2, NoCallTypes DEF ReplayEnsured, CallersOK, ReplayRecord, loader
    <3> QED
      <4>1. /\ replay'.at = "clear" /\ replay'.snap = replay.snap /\ replay'.on = replay.on
            /\ load' = load /\ replay.at # "rest"
        BY <1>0, <2>2 DEF ReplayEnsured, ReplayRecord, loader
      <4> QED
        BY <1>0, <3>1, <3>2, <4>1, NoCallTypes
        DEF TypeInv, CallShape, LoadShape, ReplayShape, Trying
  <2>3. CASE ClearFollowerCopy \/ CopyPage \/ CopiedAll
    <3>1. PICK at \in {"copy", "clearDebt"}, copied \in SUBSET Batches :
            /\ replay' = [replay EXCEPT !.at = at, !.copied = copied]
            /\ replay.at \in {"clear", "copy"}
            /\ UNCHANGED <<load, finished, call, faults>>
      <4>1. replay.copied \in SUBSET Batches /\ replay = [replay EXCEPT !.copied = replay.copied]
            /\ replay = [replay EXCEPT !.at = replay.at]
        BY <1>0 DEF ReplayRecord
      <4>2. CASE ClearFollowerCopy
        <5>1. replay' = [replay EXCEPT !.at = "copy", !.copied = replay.copied]
          BY <1>0, <4>2 DEF ClearFollowerCopy, ReplayRecord
        <5> QED
          BY <4>1, <4>2, <5>1 DEF ClearFollowerCopy, loader
      <4>3. CASE CopyPage
        <5>1. PICK k : replay' = [replay EXCEPT !.copied = @ \cup {k}] /\ k \in Uncopied
          <6>1. Uncopied \in SUBSET Nat /\ Uncopied # {}
            <7>1. RowsOf(Primary, replay.snap) \in SUBSET Row
              BY <4>3, Types, RowsOfAreRows DEF CopyPage, TypeInv, ReplayShape, Stores
            <7> QED
              BY <4>3, <7>1 DEF CopyPage, Uncopied, Row, Batches
          <6>2. (CHOOSE i \in Uncopied : \A j \in Uncopied : i <= j) \in Uncopied
            <7> HIDE DEF Uncopied
            <7> QED BY <6>1, Least
          <6> QED
            BY <4>3, <6>2 DEF CopyPage
        <5>2. replay.copied \cup {k} \in SUBSET Batches
          <6>1. RowsOf(Primary, replay.snap) \in SUBSET Row
            BY <4>3, Types, RowsOfAreRows DEF CopyPage, TypeInv, ReplayShape, Stores
          <6> QED
            BY <4>1, <5>1, <6>1 DEF Uncopied, Row
        <5>3. replay' = [replay EXCEPT !.at = "copy", !.copied = replay.copied \cup {k}]
          BY <1>0, <4>3, <5>1 DEF CopyPage, ReplayRecord
        <5> QED
          BY <4>3, <5>2, <5>3 DEF CopyPage, loader
      <4>4. CASE CopiedAll
        <5>1. replay' = [replay EXCEPT !.at = "clearDebt", !.copied = replay.copied]
          BY <1>0, <4>4 DEF CopiedAll, ReplayRecord
        <5> QED
          BY <4>1, <4>4, <5>1 DEF CopiedAll, loader
      <4> QED
        BY <2>3, <4>2, <4>3, <4>4
    <3>2. /\ replay' \in ReplayRecord /\ replay'.at = at /\ replay'.snap = replay.snap
          /\ replay'.on = replay.on
      BY <1>0, <3>1 DEF ReplayRecord
    <3>3. CallersOK'
      BY <1>0, <3>1, <3>2 DEF CallersOK
    <3> QED
      BY <3>1, <3>2, <3>3 DEF TypeInv, CallShape, LoadShape, ReplayShape
  <2>4. CASE ClearDebt
    <3>1. CASE replay.current = replay.snap
      <4>1. /\ replay' = [replay EXCEPT !.at = "commit"]
            /\ call' = [call EXCEPT !["replay"] =
                          Begun("commit", replay.snap, 0, "follow", {replay.on})]
        BY <2>4, <3>1 DEF ClearDebt
      <4>2. /\ call'["load"] = call["load"]
            /\ call'["replay"] = Begun("commit", replay.snap, 0, "follow", {replay.on})
        BY <1>0, <4>1
      <4>3. replay.snap \in Ids /\ replay.on \in Followers
        BY <2>4 DEF ClearDebt, TypeInv, ReplayShape
      <4>4. /\ call'["replay"] \in CallRecord /\ call'["replay"].op = "commit"
            /\ call'["replay"].at = "follow" /\ call'["replay"].snap = replay.snap
            /\ call'["replay"].todo = {replay.on}
        <5>1. /\ "commit" \in Stages /\ 0 \in Batches \cup {0} /\ replay.snap \in Ids \cup {0}
              /\ {replay.on} \subseteq Followers /\ "follow" \in {"ask", "primary", "follow"}
          BY <4>3 DEF Stages
        <5> DEFINE c == Begun("commit", replay.snap, 0, "follow", {replay.on})
        <5>2. c \in CallRecord
          BY <5>1, BegunTypes
        <5>3. /\ c.op = "commit" /\ c.at = "follow" /\ c.snap = replay.snap
              /\ c.todo = {replay.on}
          BY DEF Begun, NoCall
        <5> QED
          BY <4>2, <5>2, <5>3
      <4>5. /\ replay' \in ReplayRecord /\ replay'.at = "commit" /\ replay'.snap = replay.snap
            /\ replay'.on = replay.on
        BY <1>0, <4>1 DEF ReplayRecord
      <4>6. CallersOK'
        BY <1>0, <2>4, <4>1, <4>2, <4>4, <4>5 DEF ClearDebt, CallersOK, loader
      <4>7. load' = load
        BY <2>4 DEF ClearDebt, loader
      <4>8. CallShape' /\ LoadShape'
        BY <1>0, <4>2, <4>3, <4>4, <4>7 DEF TypeInv, CallShape, LoadShape, Trying, Stages
      <4>9. ReplayShape'
        BY <4>3, <4>4, <4>5 DEF ReplayShape, Trying
      <4> QED
        BY <4>6, <4>8, <4>9
    <3>2. CASE replay.current # replay.snap
      <4>1. replay' = [NoReplay EXCEPT !.made = replay.made] /\ UNCHANGED call
        BY <2>4, <3>2 DEF ClearDebt
      <4>2. replay' \in ReplayRecord /\ replay'.at = "rest"
        BY <1>0, <4>1 DEF ReplayRecord, NoReplay, Stores
      <4>3. call["replay"] = NoCall
        BY <1>0, <2>4 DEF ClearDebt, TypeInv, ReplayShape
      <4>4. CallersOK'
        BY <1>0, <2>4, <4>1, <4>2 DEF ClearDebt, CallersOK, loader
      <4> QED
        BY <1>0, <2>4, <4>1, <4>2, <4>3, <4>4, NoCallTypes
        DEF ClearDebt, TypeInv, CallShape, LoadShape, ReplayShape, loader
    <3> QED
      BY <3>1, <3>2
  <2>5. CASE ReplayEnds
    <3>1. faults' \in 0 .. MaxFaults
      BY <1>0, <2>5, FaultTypes DEF ReplayEnds
    <3>2. call'["load"] = call["load"] /\ call'["replay"] = NoCall
      BY <1>0, <2>5 DEF ReplayEnds
    <3>3. replay' \in ReplayRecord /\ replay'.at = "rest"
      BY <1>0, <2>5 DEF ReplayEnds, ReplayRecord, NoReplay, Stores
    <3>4. CallersOK'
      BY <1>0, <2>5, <3>1, <3>3, NoCallTypes DEF ReplayEnds, CallersOK, loader
    <3> QED
      <4>1. load' = load
        BY <2>5 DEF ReplayEnds, loader
      <4> QED
        BY <1>0, <3>2, <3>3, <3>4, <4>1, NoCallTypes
        DEF TypeInv, CallShape, LoadShape, ReplayShape, Trying
  <2> QED
    BY <1>6, <2>1, <2>2, <2>3, <2>4, <2>5 DEF ReplayStep
<1> QED
  BY <1>1, <1>2, <1>3, <1>4, <1>5, <1>6 DEF Next, LoaderStep, PrimaryStep

LEMMA InitTypes == Init => TypeInv
<1> SUFFICES ASSUME Init PROVE TypeInv
  OBVIOUS
<1>1. StoresOK
  BY DEF Init, StoresOK, RowSets
<1>2. NoLoad \in LoadRecord /\ NoReplay \in ReplayRecord
  BY FanoutAssumption DEF NoLoad, NoReplay, LoadRecord, ReplayRecord, Stores
<1>3. CallersOK /\ LedgerOK
  BY <1>2, NoCallTypes, FanoutAssumption DEF Init, CallersOK, LedgerOK
<1> QED
  <2>1. TypeOK
    BY <1>1, <1>3, Types
  <2>2. call["load"] = NoCall /\ call["replay"] = NoCall /\ Actors = {"load", "replay"}
    BY DEF Init, Actors
  <2>3. load.next = "none" /\ replay.at = "rest"
    BY DEF Init, NoLoad, NoReplay
  <2> QED
    BY <2>1, <2>2, <2>3, NoCallTypes DEF TypeInv, CallShape, LoadShape, ReplayShape, Trying

LEMMA TypesKept == TypeInv /\ [Next]_vars => TypeInv'
<1> SUFFICES ASSUME TypeInv, [Next]_vars PROVE TypeInv'
  OBVIOUS
<1>1. CASE Next
  <2>1. StoresOK' /\ LedgerOK' /\ CallersOK' /\ CallShape' /\ LoadShape' /\ ReplayShape'
    BY <1>1, StoresStep, LedgerStep, CallersStep
  <2>2. TypeOK'
    <3>1. (TypeOK <=> StoresOK /\ LedgerOK /\ CallersOK)'
      BY DEF TypeOK, StoresOK, LedgerOK, CallersOK, RowSets, LoadRecord, CallRecord,
         ReplayRecord
    <3> QED
      BY <2>1, <3>1
  <2> QED
    BY <2>1, <2>2 DEF TypeInv
<1>2. CASE UNCHANGED vars
  BY <1>2 DEF vars, TypeInv, TypeOK, CallShape, LoadShape, ReplayShape
<1> QED
  BY <1>1, <1>2

\* Whatever stores, followers and deaths do: the stores' rows and records, the journal,
\* the calls, the load and the replay keep their types.
THEOREM TypeCorrect == Spec => []TypeOK
<1>1. TypeInv => TypeOK
  BY DEF TypeInv
<1> QED
  BY <1>1, InitTypes, TypesKept, PTL DEF Spec


-----------------------------------------------------------------------------
(* What a step leaves of a store. *)

\* Only snapshot s of store x is touched.
Only(x, s) ==
  \A z \in Stores, t \in Ids : z # x \/ t # s =>
    rows'[z][t] = rows[z][t] /\ status'[z][t] = status[z][t]

LEMMA PutIs ==
  ASSUME StoresOK, NEW x \in Stores, NEW s \in Ids, NEW b, NEW rs, Put(x, s, b, rs)
  PROVE  /\ rows'[x][s] = {y \in rows[x][s] : y[1] # b} \cup ({b} \X rs)
         /\ \A z \in Stores, t \in Ids : z # x \/ t # s => rows'[z][t] = rows[z][t]
<1>1. rows \in [Stores -> [Ids -> RowSets]]
  BY DEF StoresOK
<1>2. PICK new : /\ new = {y \in rows[x][s] : y[1] # b} \cup ({b} \X rs)
                 /\ rows' = [rows EXCEPT ![x][s] = new]
  BY DEF Put
<1>3. rows'[x][s] = new /\ \A z \in Stores, t \in Ids : z # x \/ t # s => rows'[z][t] = rows[z][t]
  BY <1>1, <1>2
<1> QED
  BY <1>2, <1>3

LEMMA OpenIs ==
  ASSUME StoresOK, NEW x \in Stores, NEW s \in Ids, Opened(x, s)
  PROVE  /\ status'[x][s] = IF status[x][s] = "none" THEN "open" ELSE status[x][s]
         /\ \A z \in Stores, t \in Ids : z # x \/ t # s => status'[z][t] = status[z][t]
BY DEF StoresOK, Opened

LEMMA CommitIs ==
  ASSUME StoresOK, NEW x \in Stores, NEW s \in Ids, StoreCommit(x, s)
  PROVE  /\ status'[x][s] = "committed"
         /\ \A z \in Stores, t \in Ids : z # x \/ t # s => status'[z][t] = status[z][t]
         /\ \A z \in Stores : z # x => served'[z] = served[z]
         /\ served'[x] = s
BY DEF StoresOK, StoreCommit

LEMMA DropIs ==
  ASSUME StoresOK, NEW x \in Stores, NEW s \in Ids, StoreDrop(x, s)
  PROVE  /\ status'[x][s] = IF status[x][s] = "none" THEN "none" ELSE "dropped"
         /\ status[x][s] # "dropped" => rows'[x][s] = {}
         /\ Only(x, s)
<1>1. PICK new : rows' = [rows EXCEPT ![x][s] = new] /\ (status[x][s] # "dropped" => new = {})
  BY DEF StoreDrop
<1>2. /\ rows'[x][s] = new
      /\ \A z \in Stores, t \in Ids : z # x \/ t # s => rows'[z][t] = rows[z][t]
  BY <1>1 DEF StoresOK
<1>3. /\ status'[x][s] = IF status[x][s] = "none" THEN "none" ELSE "dropped"
      /\ \A z \in Stores, t \in Ids : z # x \/ t # s => status'[z][t] = status[z][t]
  BY DEF StoresOK, StoreDrop
<1> QED
  BY <1>1, <1>2, <1>3 DEF Only

LEMMA BaseKept ==
  ASSUME NEW x \in Stores, NEW s \in Ids,
         \A t \in Ids \ {s} : status'[x][t] = status[x][t]
  PROVE  Base(x, s)' = Base(x, s)
<1> DEFINE Last(T) == IF T = {} THEN 0 ELSE CHOOSE t \in T : \A u \in T : u <= t
           before == {t \in Ids \ {s} : t < s /\ status[x][t] = "committed"}
           after  == {t \in Ids \ {s} : t < s /\ status'[x][t] = "committed"}
<1>1. after = before
  OBVIOUS
<1>2. Base(x, s) = Last(before)
  BY DEF Base
<1>3. Base(x, s)' = Last(after)
  BY DEF Base
<1> QED
  <2> HIDE DEF Last, before, after
  <2> QED BY <1>1, <1>2, <1>3

\* The keys the batches of a snapshot brought.
Keys(x, s) == {y[2][1] : y \in Brought(x, s)}

LEMMA SurvivorsIs ==
  ASSUME NEW x, NEW s
  PROVE  Survivors(x, s) = IF Base(x, s) = 0 THEN {}
                           ELSE {r \in RowsOf(x, Base(x, s)) : r[1] \notin Keys(x, s)}
BY DEF Survivors, Keys, Brought

LEMMA TotalOf ==
  ASSUME NEW x, NEW s
  PROVE  Total(x, s) = Cardinality(Brought(x, s)) + Cardinality(Survivors(x, s))
BY DEF Total, Brought

LEMMA SurvivorsKept ==
  ASSUME StoresOK, NEW x \in Stores, NEW s \in Ids,
         \A t \in Ids \ {s} : rows'[x][t] = rows[x][t] /\ status'[x][t] = status[x][t],
         Brought(x, s)' = Brought(x, s)
  PROVE  /\ Base(x, s)' = Base(x, s)
         /\ Survivors(x, s)' = Survivors(x, s)
         /\ Total(x, s)' = Total(x, s)
<1>1. Base(x, s)' = Base(x, s)
  BY BaseKept
<1>2. Keys(x, s)' = Keys(x, s)
  BY DEF Keys
<1>3. Survivors(x, s)' = Survivors(x, s)
  <2>1. CASE Base(x, s) = 0
    <3>1. Survivors(x, s) = {}
      BY <2>1, SurvivorsIs
    <3>2. Survivors(x, s)' = {}
      BY <1>1, <2>1 DEF Survivors
    <3> QED
      BY <3>1, <3>2
  <2>2. ASSUME NEW t \in Ids \ {s}, t = Base(x, s), t # 0
        PROVE  Survivors(x, s)' = Survivors(x, s)
    <3>1. RowsOf(x, t)' = RowsOf(x, t)
      BY DEF RowsOf
    <3>2. Survivors(x, s) = {r \in RowsOf(x, t) : r[1] \notin Keys(x, s)}
      BY <2>2, SurvivorsIs
    <3>3. Survivors(x, s)' = {r \in RowsOf(x, t)' : r[1] \notin Keys(x, s)'}
      BY <1>1, <2>2 DEF Survivors, RowsOf, Keys, Brought
    <3> QED
      BY <1>2, <3>1, <3>2, <3>3
  <2> QED
    <3>1. Base(x, s) = 0 \/ Base(x, s) \in Ids \ {s}
      BY BaseIs DEF Ids
    <3> QED
      BY <2>1, <2>2, <3>1
<1>4. Total(x, s)' = Total(x, s)
  <2>1. Total(x, s)' = Cardinality(Brought(x, s)') + Cardinality(Survivors(x, s)')
    BY DEF Total, Brought
  <2> QED
    BY <1>3, <2>1, TotalOf
<1> QED
  BY <1>1, <1>3, <1>4

\* A store's snapshot that no step touches stays as the load finds it.
LEMMA OthersKept ==
  ASSUME StoresOK, NEW x \in Stores, NEW s \in Ids,
         \A t \in Ids : rows'[x][t] = rows[x][t],
         \A t \in Ids \ {s} : status'[x][t] = status[x][t]
  PROVE  /\ Base(x, s)' = Base(x, s) /\ Survivors(x, s)' = Survivors(x, s)
         /\ Total(x, s)' = Total(x, s) /\ CarriedOf(x, s)' = CarriedOf(x, s)
         /\ \A b : Written(x, b, s)' = Written(x, b, s)
         /\ UNCHANGED load => Pure(x, s)' = Pure(x, s)
<1>1. Brought(x, s)' = Brought(x, s) /\ CarriedOf(x, s)' = CarriedOf(x, s)
  BY DEF Brought, CarriedOf
<1>2. \A b : Written(x, b, s)' = Written(x, b, s)
  BY DEF Written
<1>3. UNCHANGED load => Pure(x, s)' = Pure(x, s)
  BY DEF Pure
<1> QED
  BY <1>1, <1>2, <1>3, SurvivorsKept

-----------------------------------------------------------------------------
(* Followers hold what the primary holds. *)

LEMMA RowsAre ==
  ASSUME StoresOK, NEW x \in Stores, NEW s \in Ids
  PROVE  /\ \A y \in rows[x][s] : /\ y = <<y[1], y[2]>> /\ y[1] \in Batches \cup {Carry}
                                  /\ y[2] = <<y[2][1], y[2][2]>>
         /\ rows[x][s] = Brought(x, s) \cup CarriedOf(x, s)
BY DEF StoresOK, RowSets, Row, Brought, CarriedOf

\* Once every batch is in, the load's rows are these.
LEMMA FullBrought ==
  ASSUME StoresOK, NEW x \in Stores, NEW s \in Ids, load.batches \in Batches,
         Pure(x, s), \A b \in 1 .. load.batches : Written(x, b, s)
  PROVE  Brought(x, s) = {<<b, <<b, s>>>> : b \in 1 .. load.batches}
<1>1. ASSUME NEW y \in Brought(x, s) PROVE y \in {<<b, <<b, s>>>> : b \in 1 .. load.batches}
  <2>1. y \in rows[x][s] /\ y[1] # Carry
    BY <1>1 DEF Brought
  <2>2. y[1] \in 1 .. load.batches /\ y[2] = <<y[1], s>> /\ y = <<y[1], y[2]>>
    BY <2>1, RowsAre DEF Pure
  <2> QED
    BY <2>2
<1>2. ASSUME NEW b \in 1 .. load.batches PROVE <<b, <<b, s>>>> \in Brought(x, s)
  <2>1. b # Carry
    BY DEF Carry
  <2> QED
    BY <2>1 DEF Written, Brought
<1> QED
  BY <1>1, <1>2

\* The base the two have in common is held, so the follower's survivors are the primary's.
LEMMA SurvivorsHeld ==
  ASSUME StoresOK, NEW f \in Followers, NEW s \in Ids,
         Brought(f, s) = Brought(Primary, s), Base(f, s) = Base(Primary, s),
         \A t \in Ids \ {s} : Held(f, t)
  PROVE  Survivors(f, s) \subseteq Survivors(Primary, s)
<1>0. f \in Stores /\ Primary \in Stores
  BY DEF Stores
<1>1. Keys(f, s) = Keys(Primary, s)
  BY DEF Keys
<1>2. CASE Base(Primary, s) = 0
  BY <1>2, SurvivorsIs
<1>3. ASSUME NEW t \in Ids \ {s}, t = Base(Primary, s), t # 0
      PROVE  Survivors(f, s) \subseteq Survivors(Primary, s)
  <2>1. status[Primary][t] = "committed" /\ status[f][t] = "committed"
    BY <1>0, <1>3, BaseIs
  <2>2. RowsOf(f, t) \subseteq RowsOf(Primary, t)
    BY <2>1 DEF Held
  <2>3. /\ Survivors(f, s) = {r \in RowsOf(f, t) : r[1] \notin Keys(f, s)}
        /\ Survivors(Primary, s) = {r \in RowsOf(Primary, t) : r[1] \notin Keys(Primary, s)}
    BY <1>3, SurvivorsIs
  <2> QED
    BY <1>1, <2>2, <2>3
<1> QED
  <2>1. Base(Primary, s) = 0 \/ Base(Primary, s) \in Ids \ {s}
    BY <1>0, BaseIs DEF Ids
  <2> QED
    BY <1>2, <1>3, <2>1

\* And with the same total they are the same: a missing row would have shown.
LEMMA SurvivorsSame ==
  ASSUME StoresOK, NEW f \in Followers, NEW s \in Ids,
         Brought(f, s) = Brought(Primary, s),
         Survivors(f, s) \subseteq Survivors(Primary, s),
         Total(f, s) = Total(Primary, s)
  PROVE  Survivors(f, s) = Survivors(Primary, s)
<1>0. f \in Stores /\ Primary \in Stores
  BY DEF Stores
<1>1. /\ IsFiniteSet(Survivors(Primary, s)) /\ Cardinality(Survivors(Primary, s)) \in Nat
      /\ Cardinality(Survivors(f, s)) \in Nat
  BY <1>0, SurvivorsAre, FiniteRowSet
<1>2. Cardinality(Brought(Primary, s)) \in Nat
  BY <1>0, TotalIs DEF Brought
<1>3. /\ Total(Primary, s) = Cardinality(Brought(Primary, s)) + Cardinality(Survivors(Primary, s))
      /\ Total(f, s) = Cardinality(Brought(Primary, s)) + Cardinality(Survivors(f, s))
  BY TotalOf
<1>4. Cardinality(Survivors(f, s)) = Cardinality(Survivors(Primary, s))
  <2>1. \A b, m, n \in Nat : b + m = b + n => n = m
    OBVIOUS
  <2> QED
    BY <1>1, <1>2, <1>3, <2>1
<1> QED
  BY <1>1, <1>4, FS_Subset

\* A load in the order it is made.
LEMMA AtWorkCall ==
  ASSUME TypeInv, load.next # "none"
  PROVE  /\ StoresOK /\ CallersOK /\ Primary \in Stores /\ Followers \subseteq Stores
         /\ Keepers \subseteq Stores /\ "load" \in Actors
         /\ load.snap \in Ids /\ load.batches \in Batches
         /\ load.next \in {"write", "carryForward", "commit"}
         /\ call["load"].op = load.next /\ call["load"].snap = load.snap
         /\ call["load"].batch = load.batch
         /\ load.next = "write" => load.batch \in 1 .. load.batches /\ load.batch \in Batches
         /\ load.next = "carryForward" => load.merge
         /\ call["load"].at \in Trying => call["load"].on \in Followers
<1>1. StoresOK /\ CallersOK /\ load \in LoadRecord
  BY Types DEF TypeInv, CallersOK
<1> QED
  BY <1>1, FanoutAssumption
  DEF TypeInv, LoadShape, CallShape, LoadRecord, Stores, Keepers, Actors, Batches

\* A follower's turn goes well by an attempt that is heard to have.
LEMMA FollowedStep ==
  ASSUME CallersOK, FanoutCall("load"), call["load"].op \in ReplayedStages,
         NEW f, Followed(f)'
  PROVE  \/ Followed(f)
         \/ /\ call["load"].at = "attempt" /\ call["load"].on = f
            /\ call'["load"].at = "settle" /\ call'["load"].ok
<1>0. call \in [Actors -> CallRecord] /\ "load" \in Actors /\ call["load"] \in CallRecord
  BY DEF CallersOK, Actors
<1>1. CASE \E g \in Followers : HoldBack("load", g)
  BY <1>1 DEF HoldBack, At, ReplayedStages
<1>2. CASE \E g \in Followers : Announce("load", g)
  BY <1>0, <1>2 DEF Announce, Followed, CallRecord
<1>3. CASE FollowerEnsures("load") \/ FollowerWrites("load") \/ FollowerCarries("load")
           \/ FollowerCommits("load") \/ FollowerDrops("load") \/ FollowerFails("load")
           \/ FollowerRefuses("load")
  <2>1. call["load"].at = "attempt"
    BY <1>3 DEF FollowerEnsures, FollowerWrites, FollowerCarries, FollowerCommits,
       FollowerDrops, FollowerFails, FollowerRefuses, At
  <2>2. \E ok : Tried("load", ok)
    BY <1>3 DEF FollowerEnsures, FollowerWrites, FollowerCarries, FollowerCommits,
       FollowerDrops, FollowerFails, FollowerRefuses
  <2>3. PICK ok : call' = [call EXCEPT !["load"].at = "settle", !["load"].ok = ok]
    BY <2>2 DEF Tried
  <2> QED
    BY <1>0, <2>1, <2>3 DEF Followed, CallRecord
<1>4. CASE Settle("load")
  BY <1>0, <1>4 DEF Settle, Goes, Followed, CallRecord
<1>5. CASE Supersede("load")
  BY <1>5 DEF Supersede, At, ReplayedStages
<1>6. CASE Return("load")
  BY <1>0, <1>6 DEF Return, Goes, Followed, CallRecord
<1> QED
  BY <1>1, <1>2, <1>3, <1>4, <1>5, <1>6 DEF FanoutCall

-----------------------------------------------------------------------------
(* A load at work: what each of its steps does to what has been written. *)

LEMMA WriteIs ==
  ASSUME StoresOK, NEW x \in Stores, NEW s \in Ids, load.batches \in Batches,
         NEW b \in 1 .. load.batches, UNCHANGED load, StoreWrite(x, s, b)
  PROVE  /\ Only(x, s) /\ Written(x, b, s)'
         /\ Pure(x, s) => Pure(x, s)'
         /\ \A c : Written(x, c, s) => Written(x, c, s)'
         /\ CarriedOf(x, s)' = CarriedOf(x, s)
         /\ Pure(x, s) /\ (\A c \in 1 .. load.batches : Written(x, c, s)) =>
              Brought(x, s)' = Brought(x, s)
         /\ status'[x][s] = "committed" => status[x][s] = "committed"
<1>1. /\ rows'[x][s] = {y \in rows[x][s] : y[1] # b} \cup ({b} \X {<<b, s>>})
      /\ \A z \in Stores, t \in Ids : z # x \/ t # s => rows'[z][t] = rows[z][t]
  BY PutIs DEF StoreWrite
<1>2. /\ status'[x][s] = "committed" => status[x][s] = "committed"
      /\ \A z \in Stores, t \in Ids : z # x \/ t # s => status'[z][t] = status[z][t]
  BY OpenIs DEF StoreWrite
<1>3. b # Carry
  BY DEF Carry
<1>4. \A y \in rows'[x][s] : y = <<b, <<b, s>>>> \/ y \in rows[x][s]
  BY <1>1
<1>5. ASSUME Pure(x, s) PROVE Pure(x, s)'
  <2>1. ASSUME NEW y \in rows'[x][s]
        PROVE  IF y[1] = Carry THEN load.merge ELSE y[1] \in 1 .. load.batches /\ y[2] = <<y[1], s>>
    BY <1>3, <1>4, <1>5 DEF Pure
  <2> QED
    BY <2>1 DEF Pure
<1>6. Written(x, b, s)' /\ \A c : Written(x, c, s) => Written(x, c, s)'
  BY <1>1 DEF Written
<1>7. CarriedOf(x, s)' = CarriedOf(x, s)
  BY <1>1, <1>3 DEF CarriedOf
<1>8. ASSUME Pure(x, s), \A c \in 1 .. load.batches : Written(x, c, s)
      PROVE  Brought(x, s)' = Brought(x, s)
  <2>1. \A y \in rows[x][s] : y[1] = b => y = <<b, <<b, s>>>>
    BY <1>3, <1>8, RowsAre DEF Pure
  <2>2. <<b, <<b, s>>>> \in rows[x][s]
    BY <1>8 DEF Written
  <2>3. rows'[x][s] = rows[x][s]
    BY <1>1, <2>1, <2>2
  <2> QED
    BY <2>3 DEF Brought
<1> QED
  BY <1>1, <1>2, <1>5, <1>6, <1>7, <1>8 DEF Only

LEMMA CarryIs ==
  ASSUME StoresOK, NEW x \in Stores, NEW s \in Ids, load.batches \in Batches, load.merge,
         UNCHANGED load, StoreCarry(x, s)
  PROVE  /\ Only(x, s)
         /\ Pure(x, s) => Pure(x, s)'
         /\ \A c \in Batches : Written(x, c, s) => Written(x, c, s)'
         /\ CarriedOf(x, s)' = {Carry} \X Survivors(x, s)
         /\ Brought(x, s)' = Brought(x, s)
         /\ status'[x][s] = "committed" => status[x][s] = "committed"
<1>1. /\ rows'[x][s] = {y \in rows[x][s] : y[1] # Carry} \cup ({Carry} \X Survivors(x, s))
      /\ \A z \in Stores, t \in Ids : z # x \/ t # s => rows'[z][t] = rows[z][t]
  BY PutIs DEF StoreCarry
<1>2. /\ status'[x][s] = "committed" => status[x][s] = "committed"
      /\ \A z \in Stores, t \in Ids : z # x \/ t # s => status'[z][t] = status[z][t]
  BY OpenIs DEF StoreCarry
<1>3. ASSUME Pure(x, s) PROVE Pure(x, s)'
  BY <1>1, <1>3 DEF Pure
<1>4. \A c \in Batches : Written(x, c, s) => Written(x, c, s)'
  <2>1. \A c \in Batches : c # Carry
    BY DEF Carry, Batches
  <2> QED
    BY <1>1, <2>1 DEF Written
<1>5. CarriedOf(x, s)' = {Carry} \X Survivors(x, s) /\ Brought(x, s)' = Brought(x, s)
  BY <1>1 DEF CarriedOf, Brought
<1> QED
  BY <1>1, <1>2, <1>3, <1>4, <1>5 DEF Only

LEMMA TornIs ==
  ASSUME StoresOK, NEW x \in Stores, NEW s \in Ids, NEW b, UNCHANGED load, Torn(x, s, b)
  PROVE  /\ Only(x, s)
         /\ Pure(x, s) => Pure(x, s)'
         /\ \A c : c # b /\ Written(x, c, s) => Written(x, c, s)'
         /\ CarriedOf(x, s)' \subseteq CarriedOf(x, s)
         /\ status' = status
<1>1. /\ rows'[x][s] = {y \in rows[x][s] : y[1] # b} \cup ({b} \X {})
      /\ \A z \in Stores, t \in Ids : z # x \/ t # s => rows'[z][t] = rows[z][t]
      /\ status' = status
  BY PutIs DEF Torn
<1>2. rows'[x][s] = {y \in rows[x][s] : y[1] # b}
  BY <1>1
<1>3. ASSUME Pure(x, s) PROVE Pure(x, s)'
  BY <1>2, <1>3 DEF Pure
<1> QED
  BY <1>1, <1>2, <1>3 DEF Only, Written, CarriedOf

\* The two parts of a load's work that are about every store it keeps in step.
WorkPure(s) == \A x \in Keepers : Pure(x, s)
WorkDue(s)  == \A x \in Keepers, b \in 1 .. load.batches : Due(b) => Written(x, b, s)

LEMMA AtWorkIs ==
  ASSUME NEW s
  PROVE  AtWork(s) <=> /\ WorkPure(s) /\ WorkDue(s) /\ Writing(s) /\ Carrying(s)
                       /\ Committing(s) /\ Committed(s)
BY DEF AtWork, WorkPure, WorkDue

LEMMA AtWorkNextIs ==
  ASSUME NEW s
  PROVE  AtWork(s)' <=> /\ WorkPure(s)' /\ WorkDue(s)' /\ Writing(s)' /\ Carrying(s)'
                        /\ Committing(s)' /\ Committed(s)'
BY DEF AtWork, WorkPure, WorkDue

\* A step of one store leaves the others' part of the work.
LEMMA WorkKept ==
  ASSUME StoresOK, NEW s \in Ids, NEW x \in Stores, Only(x, s), UNCHANGED load,
         Keepers \subseteq Stores, WorkPure(s), WorkDue(s),
         x \in Keepers => Pure(x, s)',
         x \in Keepers => \A b \in 1 .. load.batches : Due(b) /\ Written(x, b, s) =>
                            Written(x, b, s)'
  PROVE  WorkPure(s)' /\ WorkDue(s)'
<1>1. ASSUME NEW z \in Keepers, z # x
      PROVE  Pure(z, s)' = Pure(z, s) /\ \A b : Written(z, b, s)' = Written(z, b, s)
  BY <1>1, OthersKept DEF Only
<1>2. WorkPure(s)'
  <2>1. \A z \in Keepers : Pure(z, s)'
    BY <1>1 DEF WorkPure
  <2> QED
    BY <2>1 DEF WorkPure, Keepers
<1>3. ASSUME NEW z \in Keepers, NEW b \in 1 .. load.batches, Due(b)'
      PROVE  Written(z, b, s)'
  <2>1. Due(b)
    BY <1>3 DEF Due
  <2> QED
    BY <1>1, <1>3, <2>1 DEF WorkDue
<1>4. WorkDue(s)'
  <2>1. \A z \in Keepers, b \in 1 .. load.batches : Due(b)' => Written(z, b, s)'
    BY <1>3
  <2> QED
    BY <2>1 DEF WorkDue, Keepers
<1> QED
  BY <1>2, <1>4

\* A step that leaves the primary's outcome leaves an attempt made again its own.
LEMMA CommittedKept ==
  ASSUME NEW s \in Ids, UNCHANGED load, Committed(s),
         status'[Primary][s] = "committed" => status[Primary][s] = "committed",
         status[Primary][s] = "committed" =>
           /\ Base(Primary, s)' = Base(Primary, s)
           /\ Survivors(Primary, s)' = Survivors(Primary, s)
           /\ Merged(Primary, s) => CarriedOf(Primary, s)' = CarriedOf(Primary, s),
         \A b \in 1 .. load.batches : Written(Primary, b, s) => Written(Primary, b, s)',
         status[Primary][s] = "committed" /\ load.merge =>
           \A f \in Required : /\ Base(f, s)' = Base(f, s)
                               /\ CarriedOf(f, s)' \subseteq {Carry} \X Survivors(Primary, s)
  PROVE  Committed(s)'
<1>1. ASSUME status'[Primary][s] = "committed", NEW b \in 1 .. load'.batches
      PROVE  Written(Primary, b, s)'
  BY <1>1 DEF Committed
<1>2. ASSUME status'[Primary][s] = "committed", load'.merge
      PROVE  /\ Merged(Primary, s)'
             /\ \A f \in Required :
                  /\ Base(f, s)' = Base(Primary, s)'
                  /\ CarriedOf(f, s)' \subseteq {Carry} \X Survivors(Primary, s)'
  <2>1. Merged(Primary, s) /\ \A f \in Required : Base(f, s) = Base(Primary, s)
    BY <1>2 DEF Committed
  <2>2. /\ Base(Primary, s)' = Base(Primary, s) /\ Survivors(Primary, s)' = Survivors(Primary, s)
        /\ CarriedOf(Primary, s)' = CarriedOf(Primary, s)
    BY <1>2, <2>1
  <2>3. CarriedOf(Primary, s)' = {Carry} \X Survivors(Primary, s)'
    BY <2>1, <2>2 DEF Merged
  <2>4. Merged(Primary, s)'
    BY <2>3 DEF Merged
  <2>5. ASSUME NEW f \in Required
        PROVE  /\ Base(f, s)' = Base(Primary, s)'
               /\ CarriedOf(f, s)' \subseteq {Carry} \X Survivors(Primary, s)'
    BY <1>2, <2>1, <2>2
  <2> QED
    BY <2>4, <2>5
<1> QED
  BY <1>1, <1>2 DEF Committed

LEMMA WorkPrimaryWrites ==
  ASSUME TypeInv, Pace, load.next # "none", NEW s \in Ids, s = load.snap, AtWork(s),
         PrimaryWrites
  PROVE  AtWork(s)'
<1>0. /\ StoresOK /\ CallersOK /\ Primary \in Stores /\ Keepers \subseteq Stores
      /\ load.batches \in Batches /\ load.next = "write" /\ load.batch \in 1 .. load.batches
      /\ UNCHANGED load /\ StoreWrite(Primary, s, load.batch) /\ Goes("load", "follow")
      /\ call["load"].at = "primary" /\ call["load"].op = "write" /\ "load" \in Actors
  BY AtWorkCall DEF PrimaryWrites, At, loader
<1>1. /\ WorkPure(s) /\ WorkDue(s) /\ Committed(s) /\ Pure(Primary, s)
  BY AtWorkIs DEF WorkPure, Keepers
<1>2. /\ Only(Primary, s) /\ Pure(Primary, s)' /\ Written(Primary, load.batch, s)'
      /\ \A c : Written(Primary, c, s) => Written(Primary, c, s)'
      /\ CarriedOf(Primary, s)' = CarriedOf(Primary, s)
      /\ (\A c \in 1 .. load.batches : Written(Primary, c, s)) =>
           Brought(Primary, s)' = Brought(Primary, s)
      /\ status'[Primary][s] = "committed" => status[Primary][s] = "committed"
  BY <1>0, <1>1, WriteIs
<1>3. WorkPure(s)' /\ WorkDue(s)'
  BY <1>0, <1>1, <1>2, WorkKept
<1>4. Writing(s)'
  <2>1. call'["load"].todo = Followers
    <3>1. call'["load"].todo = call["load"].todo
      BY <1>0, GoesTypes
    <3> QED
      BY <1>0, <3>1 DEF Pace
  <2>2. \A f \in Required : ~Followed(f)'
    BY <2>1, FanoutAssumption DEF Followed
  <2> QED
    BY <1>0, <1>2, <2>2 DEF Writing
<1>5. Carrying(s)' /\ Committing(s)'
  BY <1>0 DEF Carrying, Committing
<1>6. Committed(s)'
  <2>1. ASSUME status[Primary][s] = "committed"
        PROVE  /\ Base(Primary, s)' = Base(Primary, s)
               /\ Survivors(Primary, s)' = Survivors(Primary, s)
    <3>1. Brought(Primary, s)' = Brought(Primary, s)
      BY <1>1, <1>2, <2>1 DEF Committed
    <3> QED
      BY <1>0, <1>2, <3>1, SurvivorsKept DEF Only
  <2>2. ASSUME NEW f \in Required, status[Primary][s] = "committed", load.merge
        PROVE  /\ Base(f, s)' = Base(f, s)
               /\ CarriedOf(f, s)' \subseteq {Carry} \X Survivors(Primary, s)
    <3>1. f \in Stores /\ f # Primary
      BY FanoutAssumption DEF Stores
    <3>2. Base(f, s)' = Base(f, s) /\ CarriedOf(f, s)' = CarriedOf(f, s)
      BY <1>0, <1>2, <3>1, OthersKept DEF Only
    <3>3. CarriedOf(f, s) \subseteq {Carry} \X Survivors(Primary, s)
      BY <1>1, <2>2 DEF Committed
    <3> QED
      BY <3>2, <3>3
  <2> QED
    BY <1>0, <1>1, <1>2, <2>1, <2>2, CommittedKept
<1> QED
  BY <1>3, <1>4, <1>5, <1>6, AtWorkNextIs

LEMMA WorkPrimaryCarries ==
  ASSUME TypeInv, Pace, load.next # "none", NEW s \in Ids, s = load.snap, AtWork(s),
         PrimaryCarries
  PROVE  AtWork(s)'
<1>0. /\ StoresOK /\ CallersOK /\ Primary \in Stores /\ Keepers \subseteq Stores
      /\ load.batches \in Batches /\ load.next = "carryForward" /\ load.merge
      /\ UNCHANGED load /\ StoreCarry(Primary, s)
      /\ call["load"].at = "primary" /\ call["load"].op = "carryForward" /\ "load" \in Actors
      /\ call' = [call EXCEPT !["load"].from = Base(Primary, s),
                              !["load"].total = Total(Primary, s), !["load"].at = "follow"]
  BY AtWorkCall DEF PrimaryCarries, At, loader
<1>1. /\ WorkPure(s) /\ WorkDue(s) /\ Committed(s) /\ Pure(Primary, s)
  BY AtWorkIs DEF WorkPure, Keepers
<1>2. /\ Only(Primary, s) /\ Pure(Primary, s)'
      /\ \A c \in Batches : Written(Primary, c, s) => Written(Primary, c, s)'
      /\ CarriedOf(Primary, s)' = {Carry} \X Survivors(Primary, s)
      /\ Brought(Primary, s)' = Brought(Primary, s)
      /\ status'[Primary][s] = "committed" => status[Primary][s] = "committed"
  BY <1>0, <1>1, CarryIs
<1>a. 1 .. load.batches \subseteq Batches
  BY <1>0, FanoutAssumption DEF Batches
<1>3. WorkPure(s)' /\ WorkDue(s)'
  BY <1>0, <1>1, <1>2, <1>a, WorkKept
<1>4. /\ Base(Primary, s)' = Base(Primary, s) /\ Survivors(Primary, s)' = Survivors(Primary, s)
      /\ Total(Primary, s)' = Total(Primary, s)
  BY <1>0, <1>2, SurvivorsKept DEF Only
<1>5. Carrying(s)'
  <2>1. /\ call'["load"].from = Base(Primary, s) /\ call'["load"].total = Total(Primary, s)
        /\ call'["load"].todo = call["load"].todo
    BY <1>0 DEF CallersOK, CallRecord
  <2>2. call["load"].todo = Followers
    BY <1>0 DEF Pace
  <2>3. \A f \in Required : ~Followed(f)'
    BY <2>1, <2>2, FanoutAssumption DEF Followed
  <2>4. Merged(Primary, s)'
    BY <1>2, <1>4 DEF Merged
  <2> QED
    BY <1>4, <2>1, <2>3, <2>4 DEF Carrying
<1>6. Writing(s)' /\ Committing(s)'
  BY <1>0 DEF Writing, Committing
<1>7. Committed(s)'
  <2>1. \A b \in 1 .. load.batches : Written(Primary, b, s) => Written(Primary, b, s)'
    BY <1>2, <1>a
  <2>2. Merged(Primary, s) => CarriedOf(Primary, s)' = CarriedOf(Primary, s)
    BY <1>2 DEF Merged
  <2>3. ASSUME NEW f \in Required, status[Primary][s] = "committed", load.merge
        PROVE  /\ Base(f, s)' = Base(f, s)
               /\ CarriedOf(f, s)' \subseteq {Carry} \X Survivors(Primary, s)
    <3>1. f \in Stores /\ f # Primary
      BY FanoutAssumption DEF Stores
    <3>2. Base(f, s)' = Base(f, s) /\ CarriedOf(f, s)' = CarriedOf(f, s)
      BY <1>0, <1>2, <3>1, OthersKept DEF Only
    <3>3. CarriedOf(f, s) \subseteq {Carry} \X Survivors(Primary, s)
      BY <1>1, <2>3 DEF Committed
    <3> QED
      BY <3>2, <3>3
  <2> QED
    BY <1>0, <1>1, <1>2, <1>4, <2>1, <2>2, <2>3, CommittedKept
<1> QED
  BY <1>3, <1>5, <1>6, <1>7, AtWorkNextIs

\* Once it commits, a load's rows stay, and so does what it merged from.
LEMMA WorkCommits ==
  ASSUME TypeInv, load.next = "commit", NEW s \in Ids, s = load.snap, AtWork(s),
         NEW x \in Stores, StoreCommit(x, s), UNCHANGED <<rows, load>>
  PROVE  AtWork(s)'
<1>0. /\ StoresOK /\ Primary \in Stores /\ Keepers \subseteq Stores /\ load.next # "none"
  BY AtWorkCall
<1>1. WorkPure(s) /\ WorkDue(s) /\ Committing(s)
  BY AtWorkIs
<1>2. \A z \in Stores, t \in Ids \ {s} : status'[z][t] = status[z][t]
  BY <1>0, CommitIs
<1>3. ASSUME NEW z \in Keepers
      PROVE  /\ Base(z, s)' = Base(z, s) /\ Survivors(z, s)' = Survivors(z, s)
             /\ CarriedOf(z, s)' = CarriedOf(z, s) /\ Pure(z, s)' = Pure(z, s)
             /\ \A b : Written(z, b, s)' = Written(z, b, s)
  BY <1>0, <1>2, OthersKept
<1>4. Primary \in Keepers /\ Required \subseteq Keepers
  BY DEF Keepers
<1>5. WorkPure(s)' /\ WorkDue(s)'
  <2>1. WorkPure(s)'
    BY <1>1, <1>3 DEF WorkPure, Keepers
  <2>2. \A z \in Keepers, b \in 1 .. load.batches : Due(b)' => Written(z, b, s)'
    BY <1>1, <1>3 DEF WorkDue, Due
  <2> QED
    BY <2>1, <2>2 DEF WorkDue, Keepers
<1>6. Writing(s)' /\ Carrying(s)'
  BY DEF Writing, Carrying
<1>7. ASSUME load.merge, NEW z \in Keepers PROVE Merged(z, s) /\ Merged(z, s)'
  <2>1. Merged(z, s)
    BY <1>1, <1>7 DEF Committing
  <2>2. /\ Base(z, s)' = Base(z, s) /\ CarriedOf(z, s)' = CarriedOf(z, s)
        /\ Base(Primary, s)' = Base(Primary, s) /\ Survivors(Primary, s)' = Survivors(Primary, s)
    BY <1>3, <1>4, <1>7
  <2>3. CarriedOf(z, s)' = {Carry} \X Survivors(Primary, s)'
    BY <2>1, <2>2 DEF Merged
  <2> QED
    BY <2>1, <2>2, <2>3 DEF Merged
<1>8. Committing(s)'
  BY <1>7 DEF Committing, Keepers
<1>9. Committed(s)'
  <2>1. \A b \in 1 .. load'.batches : Written(Primary, b, s)'
    BY <1>1, <1>3, <1>4 DEF WorkDue, Due
  <2>2. ASSUME load'.merge
        PROVE  /\ Merged(Primary, s)'
               /\ \A f \in Required :
                    /\ Base(f, s)' = Base(Primary, s)'
                    /\ CarriedOf(f, s)' \subseteq {Carry} \X Survivors(Primary, s)'
    <3>1. \A z \in Keepers : Merged(z, s)'
      BY <1>7, <2>2
    <3>2. \A f \in Required :
            /\ Base(f, s)' = Base(Primary, s)'
            /\ CarriedOf(f, s)' = {Carry} \X Survivors(Primary, s)'
      BY <1>4, <3>1 DEF Merged
    <3> QED
      BY <1>4, <3>1, <3>2
  <2> QED
    BY <2>1, <2>2 DEF Committed
<1> QED
  BY <1>5, <1>6, <1>8, <1>9, AtWorkNextIs

\* What a follower's step leaves of its call.
LEMMA FollowerKeeps ==
  ASSUME CallersOK, FanoutCall("load")
  PROVE  /\ call["load"].at \in {"follow", "attempt", "settle", "supersede"}
         /\ call'["load"].from = call["load"].from /\ call'["load"].total = call["load"].total
<1>0. call \in [Actors -> CallRecord] /\ "load" \in Actors /\ call["load"] \in CallRecord
  BY DEF CallersOK, Actors
<1>1. CASE \E f \in Followers : HoldBack("load", f)
  BY <1>0, <1>1 DEF HoldBack, At, CallRecord
<1>2. CASE \E f \in Followers : Announce("load", f)
  BY <1>0, <1>2 DEF Announce, CallRecord
<1>3. CASE FollowerEnsures("load") \/ FollowerWrites("load") \/ FollowerCarries("load")
           \/ FollowerCommits("load") \/ FollowerDrops("load") \/ FollowerFails("load")
           \/ FollowerRefuses("load")
  <2>1. call["load"].at = "attempt"
    BY <1>3 DEF FollowerEnsures, FollowerWrites, FollowerCarries, FollowerCommits,
       FollowerDrops, FollowerFails, FollowerRefuses, At
  <2>2. \E ok : Tried("load", ok)
    BY <1>3 DEF FollowerEnsures, FollowerWrites, FollowerCarries, FollowerCommits,
       FollowerDrops, FollowerFails, FollowerRefuses
  <2>3. PICK ok : call' = [call EXCEPT !["load"].at = "settle", !["load"].ok = ok]
    BY <2>2 DEF Tried
  <2> QED
    BY <1>0, <2>1, <2>3 DEF CallRecord
<1>4. CASE Settle("load")
  BY <1>0, <1>4 DEF Settle, Goes, CallRecord
<1>5. CASE Supersede("load")
  BY <1>0, <1>5 DEF Supersede, At, Goes, CallRecord
<1>6. CASE Return("load")
  BY <1>0, <1>6 DEF Return, Goes, CallRecord
<1> QED
  BY <1>1, <1>2, <1>3, <1>4, <1>5, <1>6 DEF FanoutCall

\* A step that touches no rows and no records leaves the work as it is.
LEMMA WorkStays ==
  ASSUME TypeInv, load.next # "none", NEW s \in Ids, s = load.snap, AtWork(s),
         UNCHANGED <<rows, status, load>>,
         load.next \in ReplayedStages =>
           /\ call'["load"].at # "primary" => call["load"].at # "primary"
           /\ call'["load"].from = call["load"].from
           /\ call'["load"].total = call["load"].total
           /\ \A f \in Required : Followed(f)' => Followed(f)
  PROVE  AtWork(s)'
<1>0. /\ StoresOK /\ Primary \in Stores /\ Keepers \subseteq Stores
      /\ Primary \in Keepers /\ Required \subseteq Keepers
  BY AtWorkCall DEF Keepers
<1>1. /\ WorkPure(s) /\ WorkDue(s) /\ Writing(s) /\ Carrying(s) /\ Committing(s)
      /\ Committed(s)
  BY AtWorkIs
<1>2. ASSUME NEW z \in Keepers
      PROVE  /\ Base(z, s)' = Base(z, s) /\ Survivors(z, s)' = Survivors(z, s)
             /\ Total(z, s)' = Total(z, s)
             /\ CarriedOf(z, s)' = CarriedOf(z, s) /\ Pure(z, s)' = Pure(z, s)
             /\ \A b : Written(z, b, s)' = Written(z, b, s)
  BY <1>0, OthersKept
<1>3. WorkPure(s)'
  BY <1>1, <1>2 DEF WorkPure, Keepers
<1>4. WorkDue(s)'
  <2>1. \A z \in Keepers, b \in 1 .. load.batches : Due(b)' => Written(z, b, s)'
    BY <1>1, <1>2 DEF WorkDue, Due
  <2> QED
    BY <2>1 DEF WorkDue, Keepers
<1>5. Writing(s)'
  <2>1. ASSUME load'.next = "write", call'["load"].at # "primary"
        PROVE  /\ Written(Primary, load.batch, s)'
               /\ \A f \in Required : Followed(f)' => Written(f, load.batch, s)'
    <3>1. /\ Written(Primary, load.batch, s)
          /\ \A f \in Required : Followed(f)' => Written(f, load.batch, s)
      BY <1>1, <2>1 DEF Writing, ReplayedStages
    <3> QED
      BY <1>0, <1>2, <3>1
  <2> QED
    BY <2>1 DEF Writing
<1>6. ASSUME NEW z \in Keepers, Merged(z, s) PROVE Merged(z, s)'
  <2>1. /\ Base(z, s)' = Base(z, s) /\ CarriedOf(z, s)' = CarriedOf(z, s)
        /\ Base(Primary, s)' = Base(Primary, s) /\ Survivors(Primary, s)' = Survivors(Primary, s)
    BY <1>0, <1>2
  <2>2. CarriedOf(z, s)' = {Carry} \X Survivors(Primary, s)'
    BY <1>6, <2>1 DEF Merged
  <2> QED
    BY <1>6, <2>1, <2>2 DEF Merged
<1>7. Carrying(s)'
  <2>1. ASSUME load'.next = "carryForward", call'["load"].at # "primary"
        PROVE  /\ call'["load"].from = Base(Primary, s)' /\ call'["load"].total = Total(Primary, s)'
               /\ Merged(Primary, s)'
               /\ \A f \in Required : Followed(f)' => Merged(f, s)'
    <3>1. /\ call["load"].from = Base(Primary, s) /\ call["load"].total = Total(Primary, s)
          /\ Merged(Primary, s) /\ \A f \in Required : Followed(f) => Merged(f, s)
      BY <1>1, <2>1 DEF Carrying, ReplayedStages
    <3> QED
      BY <1>0, <1>2, <1>6, <2>1, <3>1 DEF ReplayedStages
  <2> QED
    BY <2>1 DEF Carrying
<1>8. Committing(s)'
  <2>1. load'.next = "commit" /\ load'.merge => \A z \in Keepers : Merged(z, s)'
    BY <1>1, <1>6 DEF Committing
  <2> QED
    BY <2>1 DEF Committing, Keepers
<1>9. Committed(s)'
  <2>1. ASSUME NEW f \in Required, status[Primary][s] = "committed", load.merge
        PROVE  /\ Base(f, s)' = Base(f, s)
               /\ CarriedOf(f, s)' \subseteq {Carry} \X Survivors(Primary, s)
    <3>1. CarriedOf(f, s) \subseteq {Carry} \X Survivors(Primary, s)
      BY <1>1, <2>1 DEF Committed
    <3> QED
      BY <1>0, <1>2, <3>1
  <2> QED
    BY <1>0, <1>1, <1>2, <2>1, CommittedKept
<1> QED
  BY <1>3, <1>4, <1>5, <1>7, <1>8, <1>9, AtWorkNextIs

\* What a follower's step leaves of the primary and of the other followers.
LEMMA FollowerTouches ==
  ASSUME StoresOK, NEW s \in Ids, NEW x \in Followers, Only(x, s), UNCHANGED load
  PROVE  /\ Base(Primary, s)' = Base(Primary, s)
         /\ Survivors(Primary, s)' = Survivors(Primary, s)
         /\ Total(Primary, s)' = Total(Primary, s)
         /\ CarriedOf(Primary, s)' = CarriedOf(Primary, s)
         /\ \A b : Written(Primary, b, s)' = Written(Primary, b, s)
         /\ status'[Primary][s] = status[Primary][s]
         /\ Base(x, s)' = Base(x, s)
         /\ \A f \in Required : f # x =>
              /\ Base(f, s)' = Base(f, s)
              /\ CarriedOf(f, s)' = CarriedOf(f, s)
              /\ \A b : Written(f, b, s)' = Written(f, b, s)
<1>1. /\ Primary \in Stores /\ x \in Stores /\ x # Primary
      /\ \A f \in Required : f \in Stores
  BY FanoutAssumption DEF Stores
<1>2. Base(x, s)' = Base(x, s)
  BY <1>1, BaseKept DEF Only
<1>3. /\ Base(Primary, s)' = Base(Primary, s)
      /\ Survivors(Primary, s)' = Survivors(Primary, s)
      /\ Total(Primary, s)' = Total(Primary, s)
      /\ CarriedOf(Primary, s)' = CarriedOf(Primary, s)
      /\ \A b : Written(Primary, b, s)' = Written(Primary, b, s)
  BY <1>1, OthersKept DEF Only
<1>4. ASSUME NEW f \in Required, f # x
      PROVE  /\ Base(f, s)' = Base(f, s)
             /\ CarriedOf(f, s)' = CarriedOf(f, s)
             /\ \A b : Written(f, b, s)' = Written(f, b, s)
  BY <1>1, <1>4, OthersKept DEF Only
<1>5. status'[Primary][s] = status[Primary][s]
  BY <1>1 DEF Only
<1> QED
  BY <1>2, <1>3, <1>4, <1>5

LEMMA FollowerCommitted ==
  ASSUME StoresOK, NEW s \in Ids, NEW x \in Followers, Only(x, s), UNCHANGED load,
         Committed(s),
         x \in Required /\ status[Primary][s] = "committed" /\ load.merge =>
           CarriedOf(x, s)' \subseteq {Carry} \X Survivors(Primary, s)
  PROVE  Committed(s)'
<1>1. ASSUME NEW f \in Required, status[Primary][s] = "committed", load.merge
      PROVE  /\ Base(f, s)' = Base(f, s)
             /\ CarriedOf(f, s)' \subseteq {Carry} \X Survivors(Primary, s)
  <2>1. CarriedOf(f, s) \subseteq {Carry} \X Survivors(Primary, s)
    BY <1>1 DEF Committed
  <2>2. CASE f = x
    BY <1>1, <2>2, FollowerTouches
  <2>3. CASE f # x
    BY <1>1, <2>1, <2>3, FollowerTouches
  <2> QED
    BY <2>2, <2>3
<1> QED
  BY <1>1, FollowerTouches, CommittedKept

\* The attempt a follower's step is.
LEMMA Attempted ==
  ASSUME TypeInv, load.next # "none", call["load"].at = "attempt"
  PROVE  /\ call["load"].on \in Followers /\ call["load"].on \in Stores
         /\ ~Followed(call["load"].on)
  BY AtWorkCall DEF Trying, Followed

LEMMA WorkFollowerWrites ==
  ASSUME TypeInv, load.next # "none", NEW s \in Ids, s = load.snap, AtWork(s),
         FollowerWrites("load")
  PROVE  AtWork(s)'
<1>0. PICK x \in Followers :
        /\ x = call["load"].on /\ x \in Stores /\ ~Followed(x)
        /\ StoresOK /\ CallersOK /\ Keepers \subseteq Stores /\ load.batches \in Batches
        /\ load.next = "write" /\ load.batch \in 1 .. load.batches
        /\ UNCHANGED load /\ StoreWrite(x, s, load.batch)
        /\ call["load"].at = "attempt" /\ call["load"].op = "write"
        /\ FanoutCall("load")
  BY AtWorkCall, Attempted DEF FollowerWrites, FanoutCall, At, loader
<1>1. /\ WorkPure(s) /\ WorkDue(s) /\ Writing(s) /\ Committed(s)
  BY AtWorkIs
<1>2. /\ Only(x, s) /\ Written(x, load.batch, s)'
      /\ Pure(x, s) => Pure(x, s)'
      /\ \A c : Written(x, c, s) => Written(x, c, s)'
      /\ CarriedOf(x, s)' = CarriedOf(x, s)
  BY <1>0, WriteIs
<1>3. WorkPure(s)' /\ WorkDue(s)'
  <2>1. x \in Keepers => Pure(x, s)'
    BY <1>1, <1>2 DEF WorkPure
  <2> QED
    BY <1>0, <1>1, <1>2, <2>1, WorkKept
<1>4. Writing(s)'
  <2>1. Written(Primary, load.batch, s)'
    <3>1. Written(Primary, load.batch, s)
      BY <1>0, <1>1 DEF Writing
    <3> QED
      BY <1>0, <1>2, <3>1, FollowerTouches
  <2>2. ASSUME NEW f \in Required, Followed(f)' PROVE Written(f, load.batch, s)'
    <3>1. CASE f = x
      BY <1>2, <3>1
    <3>2. CASE f # x
      <4>1. Followed(f)
        BY <1>0, <2>2, <3>2, FollowedStep DEF ReplayedStages
      <4>2. Written(f, load.batch, s)
        BY <1>0, <1>1, <4>1 DEF Writing
      <4> QED
        BY <1>0, <1>2, <3>2, <4>2, FollowerTouches
    <3> QED
      BY <3>1, <3>2
  <2> QED
    BY <1>0, <2>1, <2>2 DEF Writing
<1>5. Carrying(s)' /\ Committing(s)'
  BY <1>0 DEF Carrying, Committing
<1>6. Committed(s)'
  <2>1. ASSUME x \in Required, status[Primary][s] = "committed", load.merge
        PROVE  CarriedOf(x, s)' \subseteq {Carry} \X Survivors(Primary, s)
    BY <1>1, <1>2, <2>1 DEF Committed
  <2> QED
    BY <1>0, <1>1, <1>2, <2>1, FollowerCommitted
<1> QED
  BY <1>3, <1>4, <1>5, <1>6, AtWorkNextIs

LEMMA WorkFollowerCarries ==
  ASSUME TypeInv, load.next # "none", NEW s \in Ids, s = load.snap, AtWork(s),
         \A f \in Required, t \in Ids \ {s} : Held(f, t), FollowerCarries("load")
  PROVE  AtWork(s)'
<1>0. PICK x \in Followers :
        /\ x = call["load"].on /\ x \in Stores /\ ~Followed(x)
        /\ StoresOK /\ CallersOK /\ Keepers \subseteq Stores /\ Primary \in Stores
        /\ load.batches \in Batches /\ load.next = "carryForward" /\ load.merge
        /\ UNCHANGED load /\ StoreCarry(x, s)
        /\ call["load"].at = "attempt" /\ call["load"].op = "carryForward"
        /\ FanoutCall("load")
  BY AtWorkCall, Attempted DEF FollowerCarries, FanoutCall, At, loader
<1>1. /\ WorkPure(s) /\ WorkDue(s) /\ Carrying(s) /\ Committed(s)
  BY AtWorkIs
<1>2. /\ Only(x, s)
      /\ Pure(x, s) => Pure(x, s)'
      /\ \A c \in Batches : Written(x, c, s) => Written(x, c, s)'
      /\ CarriedOf(x, s)' = {Carry} \X Survivors(x, s)
  BY <1>0, CarryIs
<1>3. 1 .. load.batches \subseteq Batches
  BY <1>0, FanoutAssumption DEF Batches
<1>4. WorkPure(s)' /\ WorkDue(s)'
  <2>1. x \in Keepers => Pure(x, s)'
    BY <1>1, <1>2 DEF WorkPure
  <2> QED
    BY <1>0, <1>1, <1>2, <1>3, <2>1, WorkKept
<1>5. ASSUME x \in Required, Base(x, s) = Base(Primary, s)
      PROVE  /\ Brought(x, s) = Brought(Primary, s)
             /\ Survivors(x, s) \subseteq Survivors(Primary, s)
  <2>1. ASSUME NEW z \in {x, Primary}
        PROVE  Brought(z, s) = {<<b, <<b, s>>>> : b \in 1 .. load.batches}
    <3>1. z \in Keepers /\ z \in Stores
      BY <1>0, <1>5 DEF Keepers
    <3>2. Pure(z, s) /\ \A b \in 1 .. load.batches : Written(z, b, s)
      BY <1>0, <1>1, <3>1 DEF WorkPure, WorkDue, Due
    <3> QED
      BY <1>0, <3>1, <3>2, FullBrought
  <2>2. Brought(x, s) = Brought(Primary, s)
    BY <2>1
  <2>3. \A t \in Ids \ {s} : Held(x, t)
    BY <1>5
  <2> QED
    BY <1>0, <1>5, <2>2, <2>3, SurvivorsHeld
<1>6. Carrying(s)'
  <2>1. /\ call["load"].from = Base(Primary, s) /\ call["load"].total = Total(Primary, s)
        /\ Merged(Primary, s) /\ \A f \in Required : Followed(f) => Merged(f, s)
    BY <1>0, <1>1 DEF Carrying
  <2>2. call'["load"].from = Base(Primary, s)' /\ call'["load"].total = Total(Primary, s)'
    BY <1>0, <1>2, <2>1, FollowerKeeps, FollowerTouches
  <2>3. /\ Base(Primary, s)' = Base(Primary, s) /\ Survivors(Primary, s)' = Survivors(Primary, s)
        /\ CarriedOf(Primary, s)' = CarriedOf(Primary, s) /\ Base(x, s)' = Base(x, s)
    BY <1>0, <1>2, FollowerTouches
  <2>4. Merged(Primary, s)'
    <3>1. CarriedOf(Primary, s)' = {Carry} \X Survivors(Primary, s)'
      BY <2>1, <2>3 DEF Merged
    <3> QED
      BY <3>1 DEF Merged
  <2>5. ASSUME NEW f \in Required, Followed(f)' PROVE Merged(f, s)'
    <3>1. CASE f # x
      <4>1. Followed(f)
        BY <1>0, <2>5, <3>1, FollowedStep DEF ReplayedStages
      <4>2. Base(f, s)' = Base(f, s) /\ CarriedOf(f, s)' = CarriedOf(f, s)
        BY <1>0, <1>2, <3>1, FollowerTouches
      <4>3. /\ Base(f, s)' = Base(Primary, s)'
            /\ CarriedOf(f, s)' = {Carry} \X Survivors(Primary, s)'
        BY <2>1, <2>3, <4>1, <4>2 DEF Merged
      <4> QED
        BY <4>3 DEF Merged
    <3>2. CASE f = x
      <4>1. call'["load"].ok
        BY <1>0, <2>5, <3>2, FollowedStep DEF ReplayedStages
      <4>2. Base(x, s) = call["load"].from /\ Total(x, s) = call["load"].total
        <5>1. PICK ok : /\ ok => /\ Base(x, s) = call["load"].from
                                 /\ Total(x, s) = call["load"].total
                        /\ call' = [call EXCEPT !["load"].at = "settle", !["load"].ok = ok]
          BY <1>0, AtWorkCall DEF FollowerCarries, Tried
        <5>2. call'["load"].ok = ok
          BY <1>0, <5>1 DEF CallersOK, CallRecord, Actors
        <5> QED
          BY <4>1, <5>1, <5>2
      <4>3. /\ Brought(x, s) = Brought(Primary, s)
            /\ Survivors(x, s) \subseteq Survivors(Primary, s)
        BY <1>5, <2>1, <2>5, <3>2, <4>2
      <4>4. Survivors(x, s) = Survivors(Primary, s)
        BY <1>0, <2>1, <4>2, <4>3, SurvivorsSame
      <4>5. /\ Base(x, s)' = Base(Primary, s)'
            /\ CarriedOf(x, s)' = {Carry} \X Survivors(Primary, s)'
        BY <1>2, <2>1, <2>3, <4>2, <4>4
      <4> QED
        BY <3>2, <4>5 DEF Merged
    <3> QED
      BY <3>1, <3>2
  <2> QED
    BY <2>2, <2>4, <2>5 DEF Carrying
<1>7. Writing(s)' /\ Committing(s)'
  BY <1>0 DEF Writing, Committing
<1>8. Committed(s)'
  <2>1. ASSUME x \in Required, status[Primary][s] = "committed", load.merge
        PROVE  CarriedOf(x, s)' \subseteq {Carry} \X Survivors(Primary, s)
    <3>1. Base(x, s) = Base(Primary, s)
      BY <1>1, <2>1 DEF Committed
    <3>2. Survivors(x, s) \subseteq Survivors(Primary, s)
      BY <1>5, <2>1, <3>1
    <3> QED
      BY <1>2, <3>2
  <2> QED
    BY <1>0, <1>1, <1>2, <2>1, FollowerCommitted
<1> QED
  BY <1>4, <1>6, <1>7, <1>8, AtWorkNextIs

\* A write or a merge that fails half way at a follower: it has not been followed.
LEMMA WorkFollowerTears ==
  ASSUME TypeInv, load.next # "none", NEW s \in Ids, s = load.snap, AtWork(s),
         FollowerFails("load"), ~UNCHANGED <<rows, status>>
  PROVE  AtWork(s)'
<1>0. PICK x \in Followers, b \in Batches \cup {Carry} :
        /\ x = call["load"].on /\ x \in Stores /\ ~Followed(x)
        /\ StoresOK /\ CallersOK /\ Keepers \subseteq Stores /\ Primary \in Stores
        /\ load.batches \in Batches
        /\ UNCHANGED load /\ Torn(x, s, b)
        /\ \/ load.next = "write" /\ b = load.batch /\ load.batch \in 1 .. load.batches
           \/ load.next = "carryForward" /\ b = Carry
        /\ call["load"].at = "attempt" /\ call["load"].op = load.next
        /\ Tried("load", FALSE) /\ FanoutCall("load")
  BY AtWorkCall, Attempted DEF FollowerFails, FanoutCall, loader
<1>1. /\ WorkPure(s) /\ WorkDue(s) /\ Writing(s) /\ Carrying(s) /\ Committed(s)
  BY AtWorkIs
<1>2. /\ Only(x, s)
      /\ Pure(x, s) => Pure(x, s)'
      /\ \A c : c # b /\ Written(x, c, s) => Written(x, c, s)'
      /\ CarriedOf(x, s)' \subseteq CarriedOf(x, s)
  BY <1>0, TornIs
<1>3. ~call'["load"].ok
  BY <1>0 DEF Tried, CallersOK, CallRecord, Actors
<1>4. WorkPure(s)' /\ WorkDue(s)'
  <2>1. x \in Keepers => Pure(x, s)'
    BY <1>1, <1>2 DEF WorkPure
  <2>2. \A c \in 1 .. load.batches : Due(c) => c # b
    BY <1>0 DEF Due, Carry, Batches
  <2> QED
    BY <1>0, <1>1, <1>2, <2>1, <2>2, WorkKept
<1>5. ASSUME NEW f \in Required, Followed(f)', call["load"].op \in ReplayedStages
      PROVE  Followed(f) /\ f # x
  BY <1>0, <1>3, <1>5, FollowedStep
<1>6. Writing(s)'
  <2>1. ASSUME load.next = "write"
        PROVE  /\ Written(Primary, load.batch, s)'
               /\ \A f \in Required : Followed(f)' => Written(f, load.batch, s)'
    <3>1. /\ Written(Primary, load.batch, s)
          /\ \A f \in Required : Followed(f)' => f # x /\ Written(f, load.batch, s)
      BY <1>0, <1>1, <1>5, <2>1 DEF Writing, ReplayedStages
    <3> QED
      BY <1>0, <1>2, <3>1, FollowerTouches
  <2> QED
    BY <1>0, <2>1 DEF Writing
<1>7. Carrying(s)'
  <2>1. ASSUME load.next = "carryForward"
        PROVE  /\ call'["load"].from = Base(Primary, s)' /\ call'["load"].total = Total(Primary, s)'
               /\ Merged(Primary, s)'
               /\ \A f \in Required : Followed(f)' => Merged(f, s)'
    <3>1. /\ call["load"].from = Base(Primary, s) /\ call["load"].total = Total(Primary, s)
          /\ Merged(Primary, s) /\ \A f \in Required : Followed(f) => Merged(f, s)
      BY <1>0, <1>1, <2>1 DEF Carrying
    <3>2. call'["load"].from = Base(Primary, s)' /\ call'["load"].total = Total(Primary, s)'
      BY <1>0, <1>2, <3>1, FollowerKeeps, FollowerTouches
    <3>3. /\ Base(Primary, s)' = Base(Primary, s)
          /\ Survivors(Primary, s)' = Survivors(Primary, s)
          /\ CarriedOf(Primary, s)' = CarriedOf(Primary, s)
      BY <1>0, <1>2, FollowerTouches
    <3>4. Merged(Primary, s)'
      <4>1. CarriedOf(Primary, s)' = {Carry} \X Survivors(Primary, s)'
        BY <3>1, <3>3 DEF Merged
      <4> QED
        BY <4>1 DEF Merged
    <3>5. ASSUME NEW f \in Required, Followed(f)' PROVE Merged(f, s)'
      <4>1. Followed(f) /\ f # x
        BY <1>0, <1>5, <2>1, <3>5 DEF ReplayedStages
      <4>2. Base(f, s)' = Base(f, s) /\ CarriedOf(f, s)' = CarriedOf(f, s)
        BY <1>0, <1>2, <4>1, FollowerTouches
      <4>3. /\ Base(f, s)' = Base(Primary, s)'
            /\ CarriedOf(f, s)' = {Carry} \X Survivors(Primary, s)'
        BY <3>1, <3>3, <4>1, <4>2 DEF Merged
      <4> QED
        BY <4>3 DEF Merged
    <3> QED
      BY <3>2, <3>4, <3>5
  <2> QED
    BY <1>0, <2>1 DEF Carrying
<1>8. Committing(s)'
  BY <1>0 DEF Committing
<1>9. Committed(s)'
  <2>1. ASSUME x \in Required, status[Primary][s] = "committed", load.merge
        PROVE  CarriedOf(x, s)' \subseteq {Carry} \X Survivors(Primary, s)
    BY <1>1, <1>2, <2>1 DEF Committed
  <2> QED
    BY <1>0, <1>1, <1>2, <2>1, FollowerCommitted
<1> QED
  BY <1>4, <1>6, <1>7, <1>8, <1>9, AtWorkNextIs

LEMMA WorkCall ==
  ASSUME TypeInv, Pace, load.next # "none", NEW s \in Ids, s = load.snap, AtWork(s),
         \A f \in Required, t \in Ids \ {s} : Held(f, t),
         FanoutCall("load") \/ PrimaryStep
  PROVE  AtWork(s)'
<1>0. /\ StoresOK /\ CallersOK /\ Primary \in Stores /\ call["load"].op = load.next
      /\ load.next \in {"write", "carryForward", "commit"} /\ call["load"].snap = s
  BY AtWorkCall
<1>1. CASE PrimaryWrites
  BY <1>1, WorkPrimaryWrites
<1>2. CASE PrimaryCarries
  BY <1>2, WorkPrimaryCarries
<1>3. CASE PrimaryCommits
  BY <1>0, <1>3, WorkCommits DEF PrimaryCommits, At, loader
<1>4. CASE Ask \/ MarkCommitted
  <2>1. UNCHANGED <<rows, status, load>> /\ load.next = "commit"
    BY <1>0, <1>4 DEF Ask, MarkCommitted, At, stores, loader
  <2> QED
    BY <2>1, WorkStays DEF ReplayedStages
<1>5. ~PrimaryEnsures /\ ~PrimaryDrops /\ ~Forget /\ ~FollowerEnsures("load") /\ ~FollowerDrops("load")
  BY <1>0 DEF PrimaryEnsures, PrimaryDrops, Forget, FollowerEnsures, FollowerDrops, At
<1>6. CASE FollowerWrites("load")
  BY <1>6, WorkFollowerWrites
<1>7. CASE FollowerCarries("load")
  BY <1>7, WorkFollowerCarries
<1>8. CASE FollowerCommits("load")
  <2>1. /\ load.next = "commit" /\ UNCHANGED <<rows, load>>
        /\ \E x \in Stores : StoreCommit(x, s)
    BY <1>0, <1>8, Attempted DEF FollowerCommits, At, loader
  <2> QED
    BY <2>1, WorkCommits
<1>9. CASE /\ FanoutCall("load") /\ UNCHANGED <<rows, status, load>>
           /\ call["load"].at = "attempt" => Tried("load", FALSE)
  <2>1. /\ call["load"].at # "primary"
        /\ call'["load"].from = call["load"].from /\ call'["load"].total = call["load"].total
    BY <1>0, <1>9, FollowerKeeps
  <2>2. ASSUME NEW f \in Required, Followed(f)', load.next \in ReplayedStages
        PROVE  Followed(f)
    <3>1. call["load"].at = "attempt" => ~call'["load"].ok
      BY <1>0, <1>9 DEF Tried, CallersOK, CallRecord, Actors
    <3> QED
      BY <1>0, <1>9, <2>2, <3>1, FollowedStep
  <2> QED
    BY <1>9, <2>1, <2>2, WorkStays
<1>10. CASE FollowerFails("load")
  <2>1. CASE UNCHANGED <<rows, status>>
    BY <1>9, <1>10, <2>1 DEF FollowerFails, FanoutCall, loader
  <2> QED
    BY <1>10, <2>1, WorkFollowerTears
<1>11. CASE \/ FollowerRefuses("load") \/ Settle("load") \/ Supersede("load")
            \/ Return("load") \/ \E f \in Followers : HoldBack("load", f) \/ Announce("load", f)
  <2>1. FanoutCall("load")
    BY <1>11 DEF FanoutCall
  <2>2. UNCHANGED <<rows, status, load>>
    BY <1>11 DEF FollowerRefuses, Settle, Supersede, Return, HoldBack, Announce, stores, loader
  <2>3. call["load"].at = "attempt" => Tried("load", FALSE)
    BY <1>11 DEF FollowerRefuses, Settle, Supersede, Return, HoldBack, Announce, At
  <2> QED
    BY <1>9, <2>1, <2>2, <2>3
<1> QED
  BY <1>1, <1>2, <1>3, <1>4, <1>5, <1>6, <1>7, <1>8, <1>10, <1>11 DEF FanoutCall, PrimaryStep

\* A follower committed to what the load committed holds only the primary's rows.
LEMMA WorkHeld ==
  ASSUME TypeInv, load.next # "none", NEW s \in Ids, s = load.snap, AtWork(s),
         NEW f \in Required
  PROVE  Held(f, s)
<1>0. /\ StoresOK /\ f \in Stores /\ Primary \in Stores
  BY AtWorkCall DEF Keepers
<1>1. ASSUME status[Primary][s] = "committed", NEW y \in rows[f][s]
      PROVE  y \in rows[Primary][s]
  <2>1. Committed(s) /\ Pure(f, s)
    BY AtWorkIs DEF WorkPure, Keepers
  <2>2. CASE y[1] = Carry
    <3>1. load.merge
      BY <2>1, <2>2 DEF Pure
    <3>2. y \in CarriedOf(f, s)
      BY <2>2 DEF CarriedOf
    <3>3. y \in CarriedOf(Primary, s)
      BY <1>1, <2>1, <3>1, <3>2 DEF Committed, Merged
    <3> QED
      BY <3>3 DEF CarriedOf
  <2>3. CASE y[1] # Carry
    <3>1. y[1] \in 1 .. load.batches /\ y[2] = <<y[1], s>> /\ y = <<y[1], y[2]>>
      BY <1>0, <2>1, <2>3, RowsAre DEF Pure
    <3>2. Written(Primary, y[1], s)
      BY <1>1, <2>1, <3>1 DEF Committed
    <3> QED
      BY <3>1, <3>2 DEF Written
  <2> QED
    BY <2>2, <2>3
<1> QED
  BY <1>1 DEF Held, RowsOf

\* Between its calls, and when it is made again, an attempt keeps what it has done.
LEMMA WorkMovesOn ==
  ASSUME TypeInv, load.next # "none", NEW s \in Ids, s = load.snap, AtWork(s),
         UNCHANGED <<rows, status>>,
         load'.batches = load.batches, load'.merge = load.merge,
         call'["load"].at \in {"ask", "primary"},
         load'.next # "commit" => call'["load"].at = "primary",
         \A x \in Keepers, b \in 1 .. load.batches : Due(b)' => Written(x, b, s),
         load'.next = "commit" /\ load.merge => \A x \in Keepers : Merged(x, s)
  PROVE  AtWork(s)'
<1>0. /\ StoresOK /\ Primary \in Stores /\ Keepers \subseteq Stores
      /\ Primary \in Keepers /\ Required \subseteq Keepers
  BY AtWorkCall DEF Keepers
<1>1. WorkPure(s) /\ Committed(s)
  BY AtWorkIs
<1>2. ASSUME NEW z \in Keepers
      PROVE  /\ Base(z, s)' = Base(z, s) /\ Survivors(z, s)' = Survivors(z, s)
             /\ CarriedOf(z, s)' = CarriedOf(z, s)
             /\ \A b : Written(z, b, s)' = Written(z, b, s)
  BY <1>0, OthersKept
<1>3. WorkPure(s)'
  <2>1. ASSUME NEW z \in Keepers PROVE Pure(z, s)'
    BY <1>1, <2>1 DEF WorkPure, Pure
  <2> QED
    BY <2>1 DEF WorkPure, Keepers
<1>4. WorkDue(s)'
  <2>1. \A z \in Keepers, b \in 1 .. load'.batches : Due(b)' => Written(z, b, s)'
    BY <1>2
  <2> QED
    BY <2>1 DEF WorkDue, Keepers
<1>5. Writing(s)' /\ Carrying(s)'
  BY DEF Writing, Carrying
<1>6. ASSUME NEW z \in Keepers, Merged(z, s) PROVE Merged(z, s)'
  <2>1. /\ Base(z, s)' = Base(z, s) /\ CarriedOf(z, s)' = CarriedOf(z, s)
        /\ Base(Primary, s)' = Base(Primary, s) /\ Survivors(Primary, s)' = Survivors(Primary, s)
    BY <1>0, <1>2
  <2>2. CarriedOf(z, s)' = {Carry} \X Survivors(Primary, s)'
    BY <1>6, <2>1 DEF Merged
  <2> QED
    BY <1>6, <2>1, <2>2 DEF Merged
<1>7. Committing(s)'
  <2>1. load'.next = "commit" /\ load'.merge => \A z \in Keepers : Merged(z, s)'
    BY <1>6
  <2> QED
    BY <2>1 DEF Committing, Keepers
<1>8. Committed(s)'
  <2>1. ASSUME status'[Primary][s] = "committed", NEW b \in 1 .. load'.batches
        PROVE  Written(Primary, b, s)'
    BY <1>0, <1>1, <1>2, <2>1 DEF Committed
  <2>2. ASSUME status'[Primary][s] = "committed", load'.merge
        PROVE  /\ Merged(Primary, s)'
               /\ \A f \in Required :
                    /\ Base(f, s)' = Base(Primary, s)'
                    /\ CarriedOf(f, s)' \subseteq {Carry} \X Survivors(Primary, s)'
    <3>1. /\ Merged(Primary, s)
          /\ \A f \in Required : /\ Base(f, s) = Base(Primary, s)
                                 /\ CarriedOf(f, s) \subseteq {Carry} \X Survivors(Primary, s)
      BY <1>1, <2>2 DEF Committed
    <3>2. Merged(Primary, s)'
      BY <1>0, <1>6, <3>1
    <3>3. ASSUME NEW f \in Required
          PROVE  /\ Base(f, s)' = Base(Primary, s)'
                 /\ CarriedOf(f, s)' \subseteq {Carry} \X Survivors(Primary, s)'
      <4>1. /\ Base(f, s)' = Base(f, s) /\ CarriedOf(f, s)' = CarriedOf(f, s)
            /\ Base(Primary, s)' = Base(Primary, s)
            /\ Survivors(Primary, s)' = Survivors(Primary, s)
        BY <1>0, <1>2
      <4> QED
        BY <3>1, <4>1
    <3> QED
      BY <3>2, <3>3
  <2> QED
    BY <2>1, <2>2 DEF Committed
<1> QED
  BY <1>3, <1>4, <1>5, <1>7, <1>8, AtWorkNextIs

\* What the loader's next call is.
LEMMA NextCall ==
  ASSUME TypeInv, Calls(load'), load' \in LoadRecord
  PROVE  /\ load'.next = "none" => call'["load"] = NoCall
         /\ load'.next # "none" =>
              /\ call'["load"].op = load'.next /\ call'["load"].snap = load'.snap
              /\ call'["load"].todo = Followers /\ call'["load"].failed = {}
              /\ call'["load"].at = IF load'.next = "commit" THEN "ask" ELSE "primary"
         /\ call'["replay"] = call["replay"]
<1>1. CallersOK
  BY Types DEF TypeInv
<1>2. call' = [call EXCEPT !["load"] = call'["load"]]
  BY <1>1, CallsTypes
<1>3. call'["replay"] = call["replay"]
  BY <1>1, <1>2 DEF CallersOK, Actors
<1> QED
  BY <1>1, <1>3, CallsTypes

LEMMA WorkAdvance ==
  ASSUME TypeInv, Pace, NEW s \in Ids, s = load.snap, AtWork(s),
         Advance, load'.next # "none"
  PROVE  AtWork(s)' /\ load'.snap = s
<1>0. /\ StoresOK /\ load.next # "none" /\ load.batches \in Batches
      /\ load.next \in {"write", "carryForward", "commit"}
      /\ load.next = "write" => load.batch \in 1 .. load.batches
      /\ load.next = "carryForward" => load.merge
      /\ call["load"].op = load.next
      /\ call["load"].at = "returned" /\ UNCHANGED <<rows, status>> /\ Calls(load')
      /\ load' \in LoadRecord /\ load \in LoadRecord
  BY AtWorkCall, LoaderTypes DEF Advance, stores, CallersOK
<1>1. PICK after \in {"write", "carryForward", "commit"} :
        /\ load' = [load EXCEPT !.next = after,
                                !.batch = IF after = "write" THEN load.batch + 1 ELSE 0]
        /\ after = "write" => load.next = "write" /\ load.batch < load.batches
        /\ after = "carryForward" => load.next = "write" /\ ~(load.batch < load.batches)
        /\ after = "commit" => \/ load.next = "write" /\ ~(load.batch < load.batches) /\ ~load.merge
                               \/ load.next = "carryForward"
  <2> DEFINE next == IF load.next = "write" /\ load.batch < load.batches THEN "write"
                     ELSE IF load.next = "write" /\ load.merge THEN "carryForward"
                     ELSE IF load.next = "commit" THEN "none" ELSE "commit"
  <2>1. load' = [load EXCEPT !.next = next,
                             !.batch = IF next = "write" THEN load.batch + 1 ELSE 0]
    BY DEF Advance
  <2>2. load'.next = next
    BY <1>0, <2>1 DEF LoadRecord
  <2>3. /\ next \in {"write", "carryForward", "commit"}
        /\ next = "write" => load.next = "write" /\ load.batch < load.batches
        /\ next = "carryForward" => load.next = "write" /\ ~(load.batch < load.batches)
        /\ next = "commit" => \/ load.next = "write" /\ ~(load.batch < load.batches) /\ ~load.merge
                              \/ load.next = "carryForward"
    BY <1>0, <2>2
  <2> HIDE DEF next
  <2> QED
    BY <2>1, <2>3
<1>2. /\ load'.next = after /\ load'.snap = load.snap /\ load'.batches = load.batches
      /\ load'.merge = load.merge /\ (after = "write" => load'.batch = load.batch + 1)
  BY <1>0, <1>1 DEF LoadRecord
<1>3. /\ call'["load"].at \in {"ask", "primary"}
      /\ load'.next # "commit" => call'["load"].at = "primary"
  BY <1>0, NextCall
<1>4. WorkDue(s) /\ Writing(s) /\ Carrying(s)
  BY AtWorkIs
<1>5. load.next \in ReplayedStages => \A f \in Required : Followed(f)
  BY <1>0 DEF Pace, Followed
<1>6. ASSUME NEW x \in Keepers, NEW b \in 1 .. load.batches, Due(b)' PROVE Written(x, b, s)
  <2>1. CASE Due(b)
    BY <1>4, <2>1 DEF WorkDue
  <2>2. CASE ~Due(b)
    <3>1. load.next = "write" /\ b = load.batch
      BY <1>0, <1>1, <1>2, <1>6, <2>2 DEF Due, Batches
    <3>2. Written(x, load.batch, s)
      BY <1>0, <1>4, <1>5, <3>1 DEF Writing, ReplayedStages, Keepers
    <3> QED
      BY <3>1, <3>2
  <2> QED
    BY <2>1, <2>2
<1>7. ASSUME load'.next = "commit", load.merge, NEW x \in Keepers PROVE Merged(x, s)
  <2>1. load.next = "carryForward"
    BY <1>1, <1>2, <1>7
  <2> QED
    BY <1>0, <1>4, <1>5, <2>1 DEF Carrying, ReplayedStages, Keepers
<1>8. AtWork(s)'
  BY <1>0, <1>2, <1>3, <1>6, <1>7, WorkMovesOn
<1> QED
  BY <1>2, <1>8

LEMMA WorkRetry ==
  ASSUME TypeInv, ~Shrinking, NEW s \in Ids, s = load.snap, AtWork(s),
         AttemptEnds, load'.next # "none"
  PROVE  AtWork(s)' /\ load'.snap = s
<1>0. /\ load.next # "none" /\ UNCHANGED <<rows, status>> /\ Calls(load')
      /\ load' \in LoadRecord /\ load \in LoadRecord /\ load.batches \in Batches
  BY AtWorkCall, LoaderTypes DEF AttemptEnds, stores, CallersOK
<1>1. load' = [load EXCEPT !.batches = load.batches, !.next = "write", !.batch = 1]
  <2>1. load' # [load EXCEPT !.next = "none", !.batch = 0]
    BY <1>0 DEF LoadRecord
  <2> QED
    BY <2>1 DEF AttemptEnds
<1>2. /\ load'.next = "write" /\ load'.snap = load.snap /\ load'.batches = load.batches
      /\ load'.merge = load.merge /\ load'.batch = 1
  BY <1>0, <1>1 DEF LoadRecord
<1>3. call'["load"].at = "primary"
  BY <1>0, <1>2, NextCall
<1>4. \A b \in 1 .. load.batches : ~Due(b)'
  BY <1>0, <1>2 DEF Due, Batches
<1>5. AtWork(s)'
  BY <1>0, <1>2, <1>3, <1>4, WorkMovesOn
<1> QED
  BY <1>2, <1>5

\* A new load finds nothing under its id.
LEMMA WorkStarts ==
  ASSUME TypeInv, Future, NEW s \in Ids, StartLoad, s = load'.snap
  PROVE  AtWork(s)'
<1>0. /\ StoresOK /\ load \in LoadRecord /\ load' \in LoadRecord /\ Calls(load')
      /\ UNCHANGED <<rows, status>> /\ Keepers \subseteq Stores
  BY LoaderTypes, Types, FanoutAssumption
  DEF TypeInv, CallersOK, StartLoad, stores, Keepers, Stores
<1>1. PICK n \in Batches, merge \in BOOLEAN :
        load' = [snap |-> load.snap + 1, batches |-> n, merge |-> merge,
                 next |-> "write", batch |-> 1]
  BY DEF StartLoad
<1>2. load'.next = "write" /\ load'.batch = 1 /\ load'.batches = n /\ s = load.snap + 1
  BY <1>1
<1>3. \A x \in Keepers : rows'[x][s] = {} /\ status'[x][s] = "none"
  BY <1>0, <1>2 DEF Future, LoadRecord, Ids
<1>4. call'["load"].at = "primary"
  BY <1>0, <1>2, NextCall
<1>5. WorkPure(s)'
  <2>1. \A x \in Keepers : Pure(x, s)'
    BY <1>3 DEF Pure
  <2> QED
    BY <2>1 DEF WorkPure, Keepers
<1>6. WorkDue(s)'
  <2>1. \A b \in 1 .. load'.batches : ~Due(b)'
    BY <1>2 DEF Due, Batches
  <2> QED
    BY <2>1 DEF WorkDue
<1>7. Writing(s)' /\ Carrying(s)' /\ Committing(s)'
  BY <1>2, <1>4 DEF Writing, Carrying, Committing
<1>8. Committed(s)'
  BY <1>3 DEF Committed, Keepers
<1> QED
  BY <1>5, <1>6, <1>7, <1>8, AtWorkNextIs

-----------------------------------------------------------------------------
(* The loader and the operator, one at a time. *)

LoaderSide == LoaderStep \/ FanoutCall("load")
ReplaySide == ReplayStep \/ FanoutCall("replay")

\* While one of the two is at work the other rests.
LEMMA Sides ==
  ASSUME ReplayAlone, TypeInv, Alone, Next
  PROVE  \/ /\ LoaderSide /\ replay.at = "rest" /\ UNCHANGED replay
            /\ call'["replay"] = call["replay"]
         \/ /\ ReplaySide /\ Resting /\ UNCHANGED load /\ call'["load"] = call["load"]
            /\ Resting'
<1>0. CallersOK /\ call \in [Actors -> CallRecord] /\ Actors = {"load", "replay"}
  BY Types DEF TypeInv, CallersOK, Actors
<1>1. CASE FanoutCall("load") \/ PrimaryStep
  <2>1. Proceeds("load")
    BY <1>0, <1>1, FollowerProceeds, PrimaryProceeds
  <2>2. replay.at = "rest"
    BY <2>1 DEF Proceeds, Alone, Resting, Idle, NoCall
  <2>3. UNCHANGED replay /\ call'["replay"] = call["replay"]
    BY <1>0, <2>1 DEF Proceeds
  <2> QED
    BY <1>1, <2>2, <2>3 DEF LoaderSide, LoaderStep, PrimaryStep
<1>2. CASE StartLoad \/ Advance \/ AttemptEnds
  <2>1. Calls(load') /\ load' \in LoadRecord /\ UNCHANGED replay
    BY <1>2, LoaderTypes
  <2>2. replay.at = "rest"
    BY <1>2 DEF StartLoad, Advance, AttemptEnds, Quiet, Alone, Resting
  <2> QED
    BY <1>2, <2>1, <2>2, NextCall DEF LoaderSide, LoaderStep
<1>3. CASE EnsureType \/ DropSnapshot \/ AdminEnds
  <2>1. /\ UNCHANGED replay /\ replay.at = "rest"
        /\ \E c : call' = [call EXCEPT !["load"] = c]
    BY <1>3 DEF EnsureType, DropSnapshot, AdminEnds, Quiet, Alone, Resting
  <2> QED
    BY <1>0, <1>3, <2>1 DEF LoaderSide, LoaderStep
<1>4. CASE FanoutCall("replay")
  <2>1. Proceeds("replay")
    BY <1>0, <1>4, FollowerProceeds
  <2>2. replay.at # "rest"
    BY <2>1, NoCallTypes DEF Proceeds, TypeInv, ReplayShape
  <2>3. Resting /\ UNCHANGED load /\ call'["load"] = call["load"]
    BY <1>0, <2>1, <2>2 DEF Proceeds, Alone
  <2> QED
    BY <1>4, <2>3 DEF ReplaySide, Resting, Idle
<1>5. CASE ReplayStep
  <2>1. Resting
    BY <1>5 DEF ReplayStep, StartReplay, ReplayEnsured, ClearFollowerCopy, CopyPage, CopiedAll,
       ClearDebt, ReplayEnds, Alone
  <2>2. UNCHANGED load
    BY <1>5 DEF ReplayStep, StartReplay, ReplayEnsured, ClearFollowerCopy, CopyPage, CopiedAll,
       ClearDebt, ReplayEnds, loader
  <2>3. call' = call \/ \E c : call' = [call EXCEPT !["replay"] = c]
    BY <1>5 DEF ReplayStep, StartReplay, ReplayEnsured, ClearFollowerCopy, CopyPage, CopiedAll,
       ClearDebt, ReplayEnds
  <2>4. call'["load"] = call["load"]
    BY <1>0, <2>3
  <2> QED
    BY <1>5, <2>1, <2>2, <2>4 DEF ReplaySide, Resting, Idle
<1> QED
  BY <1>0, <1>1, <1>2, <1>3, <1>4, <1>5 DEF Next, LoaderStep, PrimaryStep

\* The order of a load's call.
LEMMA PaceKept ==
  ASSUME TypeInv, Pace, LoaderSide
  PROVE  Pace'
<1>0. /\ CallersOK /\ call \in [Actors -> CallRecord] /\ "load" \in Actors
      /\ call["load"] \in CallRecord
  BY Types DEF TypeInv, CallersOK, Actors
<1>1. CASE \E f \in Followers : HoldBack("load", f)
  BY <1>0, <1>1 DEF HoldBack, At, Pace, CallRecord
<1>2. CASE \E f \in Followers : Announce("load", f)
  BY <1>0, <1>2 DEF Announce, Pace, CallRecord
<1>3. CASE FollowerEnsures("load") \/ FollowerWrites("load") \/ FollowerCarries("load")
           \/ FollowerCommits("load") \/ FollowerDrops("load") \/ FollowerFails("load")
           \/ FollowerRefuses("load")
  <2>1. \E ok : Tried("load", ok)
    BY <1>3 DEF FollowerEnsures, FollowerWrites, FollowerCarries, FollowerCommits,
       FollowerDrops, FollowerFails, FollowerRefuses
  <2>2. PICK ok : call' = [call EXCEPT !["load"].at = "settle", !["load"].ok = ok]
    BY <2>1 DEF Tried
  <2> QED
    BY <1>0, <2>2 DEF Pace, CallRecord
<1>4. CASE Settle("load")
  <2>1. CASE call["load"].ok
    <3>1. PICK at \in {"follow", "supersede"} :
            Goes("load", at) /\ (at = "supersede" => call["load"].op = "commit")
      BY <1>4, <2>1 DEF Settle
    <3> QED
      BY <1>0, <3>1 DEF Goes, Pace, CallRecord, ReplayedStages
  <2>2. CASE ~call["load"].ok
    BY <1>0, <1>4, <2>2 DEF Settle, Pace, CallRecord
  <2> QED
    BY <2>1, <2>2
<1>5. CASE Supersede("load")
  BY <1>0, <1>5 DEF Supersede, At, Goes, Pace, CallRecord
<1>6. CASE Return("load")
  <2>1. PICK at \in {"primary", "threw", "returned"} :
          /\ Goes("load", at)
          /\ at = "primary" => call["load"].op = "drop"
          /\ at = "returned" => call["load"].failed \cap Required = {}
    BY <1>6 DEF Return
  <2> QED
    BY <1>0, <1>6, <2>1 DEF Return, Goes, Pace, CallRecord, ReplayedStages
<1>7. CASE PrimaryStep
  <2>1. CASE Ask
    <3>1. PICK owed, at : /\ at \in {"threw", "primary"}
                          /\ call' = [call EXCEPT !["load"].owed = owed, !["load"].at = at]
      BY <2>1 DEF Ask
    <3> QED
      BY <1>0, <2>1, <3>1 DEF Ask, At, Pace, CallRecord, ReplayedStages
  <2>2. CASE PrimaryEnsures \/ PrimaryWrites \/ PrimaryCommits \/ MarkCommitted \/ PrimaryDrops
    <3>1. PICK at \in {"follow", "mark", "forget"} :
            /\ Goes("load", at)
            /\ call["load"].op \in ReplayedStages => at = "follow"
      BY <2>2 DEF PrimaryEnsures, PrimaryWrites, PrimaryCommits, MarkCommitted, PrimaryDrops,
         At, ReplayedStages
    <3> QED
      BY <1>0, <3>1 DEF Goes, Pace, CallRecord
  <2>3. CASE PrimaryCarries
    <3>1. PICK from, total : call' = [call EXCEPT !["load"].from = from,
                                     !["load"].total = total, !["load"].at = "follow"]
      BY <2>3 DEF PrimaryCarries
    <3> QED
      BY <1>0, <3>1 DEF Pace, CallRecord
  <2>4. CASE Forget
    <3>1. PICK at \in {"threw", "returned"} : call' = [call EXCEPT !["load"].at = at]
      BY <2>4 DEF Forget
    <3> QED
      BY <1>0, <2>4, <3>1 DEF Forget, At, Pace, CallRecord, ReplayedStages
  <2> QED
    BY <1>7, <2>1, <2>2, <2>3, <2>4 DEF PrimaryStep
<1>8. CASE StartLoad \/ Advance \/ AttemptEnds
  <2>1. Calls(load') /\ load' \in LoadRecord
    BY <1>8, LoaderTypes
  <2> QED
    BY <2>1, NextCall, NoCallTypes DEF Pace, ReplayedStages
<1>9. CASE EnsureType \/ DropSnapshot \/ AdminEnds
  <2>1. \/ call'["load"] = NoCall
        \/ \E s : call'["load"] = Begun("ensureType", s, 0, "primary", Followers)
        \/ \E s : call'["load"] = Begun("drop", s, 0, "follow", Followers)
    BY <1>0, <1>9 DEF EnsureType, DropSnapshot, AdminEnds
  <2> QED
    BY <2>1, NoCallTypes DEF Begun, NoCall, Pace, ReplayedStages
<1> QED
  BY <1>1, <1>2, <1>3, <1>4, <1>5, <1>6, <1>7, <1>8, <1>9
  DEF LoaderSide, LoaderStep, FanoutCall, PrimaryStep

-----------------------------------------------------------------------------
(* Which snapshot a step is about. *)

\* What a call does to the rows and records: nothing, or to its own snapshot at one store.
Touched(c) ==
  \/ UNCHANGED <<rows, status>>
  \/ \E x \in Stores, s \in Ids :
       /\ s = c.snap /\ c.op \in Stages \ {"ensureType"} /\ Only(x, s)
       /\ c.op = "drop" => status'[x][s] # "committed"

LEMMA PutTouches ==
  ASSUME StoresOK, NEW x \in Stores, NEW s \in Ids, NEW b,
         StoreWrite(x, s, b) \/ StoreCarry(x, s) \/ Torn(x, s, b)
  PROVE  Only(x, s)
<1>1. \E c, rs : Put(x, s, c, rs)
  BY DEF StoreWrite, StoreCarry, Torn
<1>2. Opened(x, s) \/ UNCHANGED status
  BY DEF StoreWrite, StoreCarry, Torn
<1>3. \A z \in Stores, t \in Ids : z # x \/ t # s => rows'[z][t] = rows[z][t]
  BY <1>1, PutIs
<1>4. \A z \in Stores, t \in Ids : z # x \/ t # s => status'[z][t] = status[z][t]
  BY <1>2, OpenIs
<1> QED
  BY <1>3, <1>4 DEF Only

LEMMA CommitTouches ==
  ASSUME StoresOK, NEW x \in Stores, NEW s \in Ids, StoreCommit(x, s), UNCHANGED rows
  PROVE  Only(x, s)
BY CommitIs DEF Only

LEMMA PrimaryTouches ==
  ASSUME TypeInv, PrimaryStep
  PROVE  Touched(call["load"])
<1>0. StoresOK /\ Primary \in Stores /\ "load" \in Actors
  BY Types DEF TypeInv, Stores, Actors
<1>1. call["load"].op \in Stages \ {"ensureType"} => call["load"].snap \in Ids
  BY <1>0 DEF TypeInv, CallShape
<1>2. CASE PrimaryWrites \/ PrimaryCarries
  <2>1. PICK s \in Ids : /\ s = call["load"].snap
                         /\ \E b : StoreWrite(Primary, s, b) \/ StoreCarry(Primary, s)
                         /\ call["load"].op \in {"write", "carryForward"}
    BY <1>1, <1>2 DEF PrimaryWrites, PrimaryCarries, At, Stages
  <2>2. Only(Primary, s)
    BY <1>0, <2>1, PutTouches
  <2> QED
    BY <1>0, <2>1, <2>2 DEF Touched, Stages
<1>3. CASE PrimaryCommits
  <2>1. PICK s \in Ids : s = call["load"].snap /\ StoreCommit(Primary, s)
    BY <1>1, <1>3 DEF PrimaryCommits, At, Stages
  <2>2. Only(Primary, s)
    BY <1>0, <1>3, <2>1, CommitTouches DEF PrimaryCommits
  <2> QED
    BY <1>0, <1>3, <2>1, <2>2 DEF PrimaryCommits, At, Touched, Stages
<1>4. CASE PrimaryDrops
  <2>1. PICK s \in Ids : s = call["load"].snap /\ StoreDrop(Primary, s)
    BY <1>1, <1>4 DEF PrimaryDrops, At, Stages
  <2>2. Only(Primary, s) /\ status'[Primary][s] # "committed"
    BY <1>0, <2>1, DropIs
  <2> QED
    BY <1>0, <1>4, <2>1, <2>2 DEF PrimaryDrops, At, Touched, Stages
<1>5. CASE Ask \/ PrimaryEnsures \/ MarkCommitted \/ Forget
  BY <1>5 DEF Ask, PrimaryEnsures, MarkCommitted, Forget, stores, Touched
<1> QED
  BY <1>2, <1>3, <1>4, <1>5 DEF PrimaryStep

LEMMA FollowerTouched ==
  ASSUME TypeInv, NEW a \in Actors, FanoutCall(a)
  PROVE  Touched(call[a])
<1>0. StoresOK /\ Followers \subseteq Stores
  BY Types DEF TypeInv, Stores
<1>1. call[a].op \in Stages \ {"ensureType"} => call[a].snap \in Ids
  BY DEF TypeInv, CallShape
<1>2. call[a].at = "attempt" => call[a].on \in Stores
  BY <1>0 DEF TypeInv, CallShape, Trying
<1>3. CASE \/ FollowerWrites(a) \/ FollowerCarries(a)
           \/ FollowerFails(a) /\ ~UNCHANGED <<rows, status>>
  <2>1. PICK x \in Stores, s \in Ids :
          /\ s = call[a].snap /\ call[a].op \in {"write", "carryForward"}
          /\ \E b : StoreWrite(x, s, b) \/ StoreCarry(x, s) \/ Torn(x, s, b)
    BY <1>1, <1>2, <1>3 DEF FollowerWrites, FollowerCarries, FollowerFails, At, Stages
  <2>2. Only(x, s)
    BY <1>0, <2>1, PutTouches
  <2> QED
    BY <2>1, <2>2 DEF Touched, Stages
<1>4. CASE FollowerCommits(a)
  <2>1. PICK x \in Stores, s \in Ids : s = call[a].snap /\ StoreCommit(x, s)
    BY <1>1, <1>2, <1>4 DEF FollowerCommits, At, Stages
  <2>2. Only(x, s)
    BY <1>0, <1>4, <2>1, CommitTouches DEF FollowerCommits
  <2> QED
    BY <1>4, <2>1, <2>2 DEF FollowerCommits, At, Touched, Stages
<1>5. CASE FollowerDrops(a)
  <2>1. PICK x \in Stores, s \in Ids : s = call[a].snap /\ StoreDrop(x, s)
    BY <1>1, <1>2, <1>5 DEF FollowerDrops, At, Stages
  <2>2. Only(x, s) /\ status'[x][s] # "committed"
    BY <1>0, <2>1, DropIs
  <2> QED
    BY <1>5, <2>1, <2>2 DEF FollowerDrops, At, Touched, Stages
<1>6. CASE UNCHANGED <<rows, status>>
  BY <1>6 DEF Touched
<1> QED
  BY <1>3, <1>4, <1>5, <1>6 DEF FanoutCall, FollowerEnsures, FollowerRefuses, Settle, Supersede,
     Return, HoldBack, Announce, stores

\* What the operator's steps do to the copy the replay is about.
LEMMA ReplayTouched ==
  ASSUME TypeInv, Copied, ReplaySide
  PROVE  \/ UNCHANGED <<rows, status>>
         \/ \E x \in Followers, s \in Ids :
              /\ replay.at # "rest" /\ x = replay.on /\ s = replay.snap /\ Only(x, s)
              /\ x \in Required /\ Held(x, s) => Held(x, s)'
<1>0. StoresOK /\ Followers \subseteq Stores /\ "replay" \in Actors /\ Primary \notin Followers
      /\ Primary \in Stores
  BY Types, FanoutAssumption DEF TypeInv, Stores, Actors
<1>1. CASE FanoutCall("replay")
  <2>1. call["replay"].op \notin {"write", "carryForward", "drop"}
    BY DEF TypeInv, ReplayShape
  <2>2. CASE FollowerCommits("replay")
    <3>1. PICK x \in Followers, s \in Ids :
            /\ x = replay.on /\ s = replay.snap /\ replay.at = "commit"
            /\ StoreCommit(x, s) /\ Committable(x, s) /\ UNCHANGED rows
      BY <2>2 DEF FollowerCommits, At, TypeInv, ReplayShape, Trying
    <3>2. Only(x, s)
      BY <1>0, <3>1, CommitTouches
    <3>3. ASSUME x \in Required PROVE Held(x, s)'
      <4>1. RowsOf(x, s) \subseteq RowsOf(Primary, s)
        BY <3>1, <3>3 DEF Copied, Committable
      <4> QED
        BY <3>1, <4>1 DEF Held, RowsOf
    <3> QED
      BY <3>1, <3>2, <3>3
  <2>3. CASE ~FollowerCommits("replay")
    BY <1>1, <2>1, <2>3 DEF FanoutCall, FollowerEnsures, FollowerWrites, FollowerCarries,
       FollowerDrops, FollowerFails, FollowerRefuses, Settle, Supersede, Return, HoldBack,
       Announce, At, stores
  <2> QED
    BY <2>2, <2>3
<1>2. CASE ClearFollowerCopy
  <2>1. CASE UNCHANGED <<rows, status>>
    BY <2>1
  <2>2. CASE ~UNCHANGED <<rows, status>>
    <3>1. PICK x \in Followers, s \in Ids :
            /\ x = replay.on /\ s = replay.snap /\ replay.at = "clear" /\ StoreDrop(x, s)
      BY <1>2, <2>2 DEF ClearFollowerCopy, TypeInv, ReplayShape
    <3>2. Only(x, s) /\ status'[x][s] # "committed"
      BY <1>0, <3>1, DropIs
    <3>3. Held(x, s)'
      BY <3>2 DEF Held
    <3> QED
      BY <3>1, <3>2, <3>3
  <2> QED
    BY <2>1, <2>2
<1>3. CASE CopyPage
  <2>1. PICK x \in Followers, s \in Ids, page \in SUBSET RowsOf(Primary, replay.snap) :
          /\ x = replay.on /\ s = replay.snap /\ replay.at = "copy"
          /\ Opened(x, s) /\ \E n : Put(x, s, n, page)
    <3>1. PICK n, k :
            /\ Put(replay.on, replay.snap, n, {r \in RowsOf(Primary, replay.snap) : r[1] = k})
            /\ Opened(replay.on, replay.snap)
      BY <1>3 DEF CopyPage
    <3>2. {r \in RowsOf(Primary, replay.snap) : r[1] = k} \in SUBSET RowsOf(Primary, replay.snap)
      OBVIOUS
    <3>3. replay.at = "copy" /\ replay.on \in Followers /\ replay.snap \in Ids
      BY <1>3 DEF CopyPage, TypeInv, ReplayShape
    <3> QED
      BY <3>1, <3>2, <3>3
  <2>b. PICK b : Put(x, s, b, page)
    BY <2>1
  <2>2. /\ rows'[x][s] = {y \in rows[x][s] : y[1] # b} \cup ({b} \X page)
        /\ \A z \in Stores, t \in Ids : z # x \/ t # s => rows'[z][t] = rows[z][t]
    BY <1>0, <2>b, PutIs
  <2>3. /\ status'[x][s] = IF status[x][s] = "none" THEN "open" ELSE status[x][s]
        /\ \A z \in Stores, t \in Ids : z # x \/ t # s => status'[z][t] = status[z][t]
    BY <1>0, <2>1, OpenIs
  <2>4. Only(x, s)
    BY <2>2, <2>3 DEF Only
  <2>5. ASSUME Held(x, s) PROVE Held(x, s)'
    <3>1. ASSUME RowsOf(x, s) \subseteq RowsOf(Primary, s)
          PROVE  RowsOf(x, s)' \subseteq RowsOf(Primary, s)'
      <4>1. RowsOf(Primary, s)' = RowsOf(Primary, s)
        BY <1>0, <2>1, <2>4 DEF Only, RowsOf
      <4>2. \A y \in rows'[x][s] : y \in rows[x][s] \/ y[2] \in page
        BY <2>2
      <4> QED
        BY <2>1, <3>1, <4>1, <4>2 DEF RowsOf
    <3>2. /\ status'[x][s] = "committed" => status[x][s] = "committed"
          /\ status'[Primary][s] = status[Primary][s]
      BY <1>0, <2>1, <2>3
    <3> QED
      BY <2>5, <3>1, <3>2 DEF Held
  <2> QED
    BY <2>1, <2>4, <2>5
<1>4. CASE StartReplay \/ ReplayEnsured \/ CopiedAll \/ ClearDebt \/ ReplayEnds
  BY <1>4 DEF StartReplay, ReplayEnsured, CopiedAll, ClearDebt, ReplayEnds, stores
<1> QED
  BY <1>1, <1>2, <1>3, <1>4 DEF ReplaySide, ReplayStep

-----------------------------------------------------------------------------
(* The invariant, part by part. *)

LEMMA LoaderTouches ==
  ASSUME TypeInv, LoaderSide
  PROVE  \/ UNCHANGED <<rows, status>>
         \/ /\ Touched(call["load"]) /\ Proceeds("load")
<1>1. CASE FanoutCall("load") \/ PrimaryStep
  BY <1>1, Types, FollowerTouched, PrimaryTouches, FollowerProceeds, PrimaryProceeds
  DEF TypeInv, Actors
<1>2. CASE StartLoad \/ Advance \/ AttemptEnds \/ EnsureType \/ DropSnapshot \/ AdminEnds
  BY <1>2 DEF StartLoad, Advance, AttemptEnds, EnsureType, DropSnapshot, AdminEnds, stores
<1> QED
  BY <1>1, <1>2 DEF LoaderSide, LoaderStep, PrimaryStep

\* The snapshot ids a load has been given only grow.
LEMMA SnapGrows ==
  ASSUME TypeInv, LoaderSide
  PROVE  load'.snap \in Nat /\ load.snap \in Nat /\ load.snap <= load'.snap
<1>0. load \in LoadRecord
  BY Types DEF TypeInv, CallersOK
<1>1. CASE UNCHANGED load
  BY <1>0, <1>1 DEF LoadRecord, Ids
<1>2. CASE StartLoad
  BY <1>0, <1>2 DEF StartLoad, LoadRecord, Ids
<1>3. CASE Advance
  <2>1. PICK n, b : load' = [load EXCEPT !.next = n, !.batch = b]
    BY <1>3 DEF Advance
  <2> QED
    BY <1>0, <2>1 DEF LoadRecord, Ids
<1>4. CASE AttemptEnds
  <2>1. \/ load' = [load EXCEPT !.next = "none", !.batch = 0]
        \/ \E m \in 1 .. load.batches :
             load' = [load EXCEPT !.batches = m, !.next = "write", !.batch = 1]
    BY <1>4 DEF AttemptEnds
  <2>2. ASSUME load' = [load EXCEPT !.next = "none", !.batch = 0]
        PROVE  load'.snap = load.snap
    BY <1>0, <2>2 DEF LoadRecord
  <2>3. ASSUME NEW m, load' = [load EXCEPT !.batches = m, !.next = "write", !.batch = 1]
        PROVE  load'.snap = load.snap
    BY <1>0, <2>3 DEF LoadRecord
  <2>4. load'.snap = load.snap
    BY <2>1, <2>2, <2>3
  <2> QED
    BY <1>0, <2>4 DEF LoadRecord, Ids
<1> QED
  <2>1. FanoutCall("load") \/ PrimaryStep => UNCHANGED load
    BY Types, FollowerProceeds, PrimaryProceeds DEF TypeInv, Proceeds, Actors
  <2>2. EnsureType \/ DropSnapshot \/ AdminEnds => UNCHANGED load
    BY DEF EnsureType, DropSnapshot, AdminEnds, loader
  <2> QED
    BY <1>1, <1>2, <1>3, <1>4, <2>1, <2>2 DEF LoaderSide, LoaderStep, PrimaryStep

LEMMA FutureKept ==
  ASSUME ReplayAlone, TypeInv, Alone, Future, Copied, Next
  PROVE  Future'
<1>0. StoresOK /\ CallersOK /\ Primary \in Stores /\ Followers \subseteq Stores
      /\ Primary \notin Followers /\ load \in LoadRecord
      /\ call \in [Actors -> CallRecord] /\ Actors = {"load", "replay"}
  BY Types, FanoutAssumption DEF TypeInv, Stores, CallersOK, Actors
<1>1. CASE /\ LoaderSide /\ replay.at = "rest" /\ UNCHANGED replay
           /\ call'["replay"] = call["replay"]
  <2>1. load'.snap \in Nat /\ load.snap \in Nat /\ load.snap <= load'.snap
    BY <1>1, SnapGrows
  <2>2. ASSUME NEW x \in Stores, NEW s \in Ids, s > load'.snap
        PROVE  rows'[x][s] = {} /\ status'[x][s] = "none"
    <3>1. s > load.snap
      BY <2>1, <2>2 DEF Ids
    <3>2. rows'[x][s] = rows[x][s] /\ status'[x][s] = status[x][s]
      <4>1. CASE UNCHANGED <<rows, status>>
        BY <4>1
      <4>2. CASE Touched(call["load"]) /\ ~UNCHANGED <<rows, status>>
        <5>1. PICK z \in Stores, t \in Ids :
                /\ t = call["load"].snap /\ call["load"].op \in Stages \ {"ensureType"}
                /\ Only(z, t)
          BY <4>2 DEF Touched
        <5>2. t # s
          BY <1>0, <2>1, <3>1, <5>1 DEF Future, Ids
        <5> QED
          BY <5>1, <5>2 DEF Only
      <4> QED
        BY <1>1, <4>1, <4>2, LoaderTouches
    <3> QED
      BY <3>1, <3>2 DEF Future
  <2>3. call'["replay"].op \in Stages \ {"ensureType"} => FALSE
    BY <1>1, NoCallTypes DEF TypeInv, ReplayShape
  <2>4. call'["load"].op \in Stages \ {"ensureType"} =>
          call'["load"].snap \in Ids /\ call'["load"].snap <= load'.snap
    <3>1. CASE FanoutCall("load") \/ PrimaryStep
      <4>1. Proceeds("load")
        BY <1>0, <3>1, FollowerProceeds, PrimaryProceeds
      <4> QED
        BY <1>0, <4>1 DEF Proceeds, Future
    <3>2. CASE StartLoad \/ Advance \/ AttemptEnds
      <4>1. Calls(load') /\ load' \in LoadRecord /\ (load'.next # "none" => load'.snap \in Ids)
        BY <3>2, LoaderTypes
      <4> QED
        BY <2>1, <4>1, NextCall, NoCallTypes
    <3>3. CASE EnsureType \/ AdminEnds
      <4>1. call'["load"] = NoCall \/ call'["load"] = Begun("ensureType", 0, 0, "primary", Followers)
        BY <1>0, <3>3 DEF EnsureType, AdminEnds
      <4> QED
        BY <4>1, NoCallTypes DEF Begun, NoCall, Stages
    <3>4. CASE DropSnapshot
      <4>1. PICK s \in Ids : /\ status[Primary][s] # "none" /\ UNCHANGED load
                             /\ call'["load"] = Begun("drop", s, 0, "follow", Followers)
        BY <1>0, <3>4 DEF DropSnapshot, loader
      <4>2. s <= load.snap
        BY <1>0, <2>1, <4>1 DEF Future, Ids
      <4> QED
        BY <4>1, <4>2 DEF Begun, NoCall
    <3> QED
      BY <1>1, <3>1, <3>2, <3>3, <3>4 DEF LoaderSide, LoaderStep, PrimaryStep
  <2> QED
    BY <1>0, <1>1, <2>2, <2>3, <2>4 DEF Future
<1>2. CASE ReplaySide /\ Resting /\ UNCHANGED load /\ call'["load"] = call["load"]
  <2>0. load.snap \in Nat
    BY <1>0 DEF LoadRecord, Ids
  <2>1. /\ \A z \in Stores, t \in Ids : t > load.snap =>
             rows'[z][t] = rows[z][t] /\ status'[z][t] = status[z][t]
        /\ \A t \in Ids : status'[Primary][t] = status[Primary][t]
    <3>1. CASE UNCHANGED <<rows, status>>
      BY <3>1
    <3>2. CASE ~UNCHANGED <<rows, status>>
      <4>1. PICK x \in Followers, s \in Ids :
              replay.at # "rest" /\ s = replay.snap /\ Only(x, s)
        BY <1>2, <3>2, ReplayTouched
      <4>2. ~(s > load.snap)
        BY <2>0, <4>1 DEF Future, Ids
      <4> QED
        BY <1>0, <4>1, <4>2 DEF Only
    <3> QED
      BY <3>1, <3>2
  <2>2. call'["load"].op = "none"
    BY <1>2, NoCallTypes DEF Resting, Idle
  <2>3. /\ replay'.at # "rest" =>
             replay'.snap \in Ids /\ replay'.snap <= load.snap
             /\ status[Primary][replay'.snap] = "committed"
        /\ call'["replay"].op \in Stages \ {"ensureType"} =>
             call'["replay"].snap \in Ids /\ call'["replay"].snap <= load.snap
    <3>1. CASE StartReplay
      <4>1. PICK s \in Ids : /\ status[Primary][s] = "committed" /\ replay'.snap = s
                             /\ \E f : call'["replay"] = Begun("ensureType", 0, 0, "follow", {f})
        <5>1. PICK s \in Ids, f \in Followers :
                /\ status[Primary][s] = "committed"
                /\ replay' = [at |-> "ensureType", snap |-> s, on |-> f, current |-> mark,
                              copied |-> {}, made |-> replay.made + 1]
                /\ call' = [call EXCEPT !["replay"] = Begun("ensureType", 0, 0, "follow", {f})]
          BY <3>1 DEF StartReplay
        <5>2. replay'.snap = s /\ call'["replay"] = Begun("ensureType", 0, 0, "follow", {f})
          BY <1>0, <5>1
        <5> QED
          BY <5>1, <5>2
      <4>2. s <= load.snap
        BY <1>0, <2>0, <4>1 DEF Future, Ids
      <4> QED
        BY <4>1, <4>2 DEF Begun, NoCall, Stages
    <3>2. CASE ~StartReplay
      <4>1. /\ replay'.at # "rest" => replay.at # "rest" /\ replay'.snap = replay.snap
            /\ call'["replay"].op \in Stages \ {"ensureType"} =>
                 replay.at # "rest" /\ call'["replay"].snap = replay.snap
        <5>0. replay \in ReplayRecord
          BY <1>0 DEF CallersOK
        <5>1. CASE FanoutCall("replay")
          <6>1. Proceeds("replay")
            BY <1>0, <5>1, FollowerProceeds
          <6> QED
            BY <6>1, NoCallTypes DEF Proceeds, TypeInv, ReplayShape, Stages
        <5>2. CASE ReplayEnsured \/ ReplayEnds
          BY <1>0, <5>0, <5>2, NoCallTypes
          DEF ReplayEnsured, ReplayEnds, ReplayRecord, NoReplay
        <5>3. CASE ClearFollowerCopy \/ CopyPage \/ CopiedAll
          <6>1. /\ UNCHANGED call /\ replay.at \in {"clear", "copy"}
                /\ \E r : replay' = [replay EXCEPT !.at = r.at]
                          \/ replay' = [replay EXCEPT !.copied = r.copied]
            <7>1. \E at, copied : \/ replay' = [replay EXCEPT !.at = at]
                                  \/ replay' = [replay EXCEPT !.copied = copied]
              BY <5>3 DEF ClearFollowerCopy, CopyPage, CopiedAll
            <7>2. PICK at, copied : \/ replay' = [replay EXCEPT !.at = at]
                                    \/ replay' = [replay EXCEPT !.copied = copied]
              BY <7>1
            <7> DEFINE r == [at |-> at, copied |-> copied]
            <7>3. \/ replay' = [replay EXCEPT !.at = r.at]
                  \/ replay' = [replay EXCEPT !.copied = r.copied]
              BY <7>2
            <7> QED
              BY <5>3, <7>3 DEF ClearFollowerCopy, CopyPage, CopiedAll
          <6> QED
            BY <5>0, <6>1, NoCallTypes DEF ReplayRecord, TypeInv, ReplayShape
        <5>4. CASE ClearDebt
          <6>1. CASE replay.current = replay.snap
            <7>1. /\ replay' = [replay EXCEPT !.at = "commit"]
                  /\ call'["replay"] = Begun("commit", replay.snap, 0, "follow", {replay.on})
              BY <1>0, <5>4, <6>1 DEF ClearDebt
            <7> QED
              BY <5>0, <5>4, <7>1 DEF ClearDebt, ReplayRecord, Begun, NoCall
          <6>2. CASE replay.current # replay.snap
            BY <5>0, <5>4, <6>2, NoCallTypes
            DEF ClearDebt, ReplayRecord, NoReplay, TypeInv, ReplayShape
          <6> QED
            BY <6>1, <6>2
        <5> QED
          BY <1>2, <3>2, <5>1, <5>2, <5>3, <5>4 DEF ReplaySide, ReplayStep
      <4> QED
        BY <4>1 DEF Future, TypeInv, ReplayShape
    <3> QED
      BY <3>1, <3>2
  <2> QED
    BY <1>0, <1>2, <2>1, <2>2, <2>3 DEF Future, Stages
<1> QED
  BY <1>1, <1>2, Sides

LEMMA CopiedKept ==
  ASSUME ReplayAlone, TypeInv, Alone, Copied, Next
  PROVE  Copied'
<1>0. /\ StoresOK /\ CallersOK /\ Primary \in Stores /\ Followers \subseteq Stores
      /\ Primary \notin Followers /\ replay \in ReplayRecord
  BY Types, FanoutAssumption DEF TypeInv, Stores, CallersOK
<1>1. CASE replay'.at \notin {"copy", "clearDebt", "commit"}
  BY <1>1 DEF Copied
<1>2. CASE ReplaySide /\ replay'.at \in {"copy", "clearDebt", "commit"}
  <2>1. ~StartReplay /\ ~ReplayEnsured /\ ~ReplayEnds
    <3>1. ASSUME StartReplay PROVE replay'.at = "ensureType"
      BY <3>1 DEF StartReplay
    <3>2. ASSUME ReplayEnsured PROVE replay'.at = "clear"
      BY <1>0, <3>2 DEF ReplayEnsured, ReplayRecord
    <3>3. ASSUME ReplayEnds PROVE replay'.at = "rest"
      BY <3>3 DEF ReplayEnds, NoReplay
    <3> QED
      BY <1>2, <3>1, <3>2, <3>3
  <2>2. CASE ClearFollowerCopy
    <3>1. PICK x \in Followers, s \in Ids :
            /\ x = replay.on /\ s = replay.snap /\ replay'.on = x /\ replay'.snap = s
      BY <1>0, <2>2 DEF ClearFollowerCopy, TypeInv, ReplayShape, ReplayRecord
    <3>2. \/ StoreDrop(x, s)
          \/ RowsOf(x, s) = {} /\ UNCHANGED rows
      BY <2>2, <3>1 DEF ClearFollowerCopy
    <3>3. status'[x][s] = "dropped" \/ RowsOf(x, s)' = {}
      <4>1. CASE StoreDrop(x, s)
        <5>1. /\ status'[x][s] = IF status[x][s] = "none" THEN "none" ELSE "dropped"
              /\ status[x][s] # "dropped" => rows'[x][s] = {}
          BY <1>0, <3>1, <4>1, DropIs
        <5> QED
          BY <5>1 DEF RowsOf
      <4>2. CASE RowsOf(x, s) = {} /\ UNCHANGED rows
        BY <4>2 DEF RowsOf
      <4> QED
        BY <3>2, <4>1, <4>2
    <3> QED
      BY <3>1, <3>3 DEF Copied, RowsOf
  <2>3. CASE CopyPage
    <3>1. PICK x \in Followers, s \in Ids :
            /\ x = replay.on /\ s = replay.snap /\ replay.at = "copy" /\ replay'.on = x /\ replay'.snap = s
      <4>1. PICK c : replay' = [replay EXCEPT !.copied = c]
        BY <2>3 DEF CopyPage
      <4> QED
        BY <1>0, <2>3, <4>1 DEF CopyPage, TypeInv, ReplayShape, ReplayRecord
    <3>2. PICK b, page : /\ Put(x, s, b, page) /\ Opened(x, s)
                         /\ page \in SUBSET RowsOf(Primary, s)
      <4>1. PICK n, k :
              /\ Put(replay.on, replay.snap, n, {r \in RowsOf(Primary, replay.snap) : r[1] = k})
              /\ Opened(replay.on, replay.snap)
        BY <2>3 DEF CopyPage
      <4>2. {r \in RowsOf(Primary, s) : r[1] = k} \in SUBSET RowsOf(Primary, s)
        OBVIOUS
      <4> QED
        BY <3>1, <4>1, <4>2
    <3>3. /\ rows'[x][s] = {y \in rows[x][s] : y[1] # b} \cup ({b} \X page)
          /\ rows'[Primary][s] = rows[Primary][s]
      BY <1>0, <3>2, PutIs
    <3>4. status'[x][s] = IF status[x][s] = "none" THEN "open" ELSE status[x][s]
      BY <1>0, <3>2, OpenIs
    <3>5. ASSUME RowsOf(x, s) \subseteq RowsOf(Primary, s)
          PROVE  RowsOf(x, s)' \subseteq RowsOf(Primary, s)'
      <4>1. RowsOf(Primary, s)' = RowsOf(Primary, s)
        BY <3>3 DEF RowsOf
      <4>2. \A y \in rows'[x][s] : y \in rows[x][s] \/ y[2] \in page
        BY <3>3
      <4> QED
        BY <3>2, <3>5, <4>1, <4>2 DEF RowsOf
    <3>6. ASSUME x \in Required
          PROVE  \/ status'[x][s] = "dropped"
                 \/ RowsOf(x, s)' \subseteq RowsOf(Primary, s)'
      BY <3>1, <3>4, <3>5, <3>6 DEF Copied
    <3> QED
      BY <3>1, <3>6 DEF Copied, RowsOf
  <2>4. CASE CopiedAll \/ ClearDebt
    <3>1. /\ UNCHANGED <<rows, status>> /\ replay.at \in {"copy", "clearDebt"}
          /\ replay'.on = replay.on /\ replay'.snap = replay.snap
      BY <1>0, <1>2, <2>4 DEF CopiedAll, ClearDebt, stores, ReplayRecord, NoReplay
    <3> QED
      BY <3>1 DEF Copied, RowsOf
  <2>5. CASE FanoutCall("replay")
    <3>1. UNCHANGED replay
      BY <1>0, <2>5, FollowerProceeds DEF Proceeds, Actors
    <3>2. CASE UNCHANGED <<rows, status>>
      BY <3>1, <3>2 DEF Copied, RowsOf
    <3>3. CASE ~UNCHANGED <<rows, status>>
      <4>1. FollowerCommits("replay")
        <5>1. call["replay"].op \notin {"write", "carryForward", "drop"}
          BY DEF TypeInv, ReplayShape
        <5> QED
          BY <2>5, <3>3, <5>1 DEF FanoutCall, FollowerEnsures, FollowerWrites, FollowerCarries,
             FollowerDrops, FollowerFails, FollowerRefuses, Settle, Supersede, Return, HoldBack,
             Announce, At, stores
      <4>2. /\ UNCHANGED rows /\ Committable(replay.on, replay.snap) /\ replay.at = "commit"
        BY <4>1 DEF FollowerCommits, At, TypeInv, ReplayShape, Trying
      <4> QED
        BY <3>1, <4>2 DEF Copied, Committable, RowsOf
    <3> QED
      BY <3>2, <3>3
  <2> QED
    BY <1>2, <2>1, <2>2, <2>3, <2>4, <2>5 DEF ReplaySide, ReplayStep
<1> QED
  BY <1>1, <1>2, Sides

LEMMA HeldKept ==
  ASSUME NEW f, NEW s, Held(f, s),
         \A x \in {f, Primary} : rows'[x][s] = rows[x][s] /\ status'[x][s] = status[x][s]
  PROVE  Held(f, s)'
BY DEF Held, RowsOf

LEMMA AllHeldKept ==
  ASSUME ReplayAlone, TypeInv, Alone, AllHeld, Copied, Work, Next
  PROVE  AllHeld'
<1>0. /\ StoresOK /\ Primary \in Stores /\ Followers \subseteq Stores /\ Required \subseteq Followers
      /\ Primary \notin Followers
  BY Types, FanoutAssumption DEF TypeInv, Stores
<1>1. CASE LoaderSide /\ load.next # "none"
  <2>1. load.snap \in Ids /\ AtWork(load.snap)
    BY <1>1, AtWorkCall DEF Work
  <2>2. ASSUME NEW f \in Required, NEW s \in Ids, s # load.snap PROVE Held(f, s)'
    <3>1. Held(f, s)
      BY <2>2 DEF AllHeld
    <3>2. CASE UNCHANGED <<rows, status>>
      BY <3>1, <3>2, HeldKept
    <3>3. CASE Touched(call["load"]) /\ ~UNCHANGED <<rows, status>>
      <4>1. PICK z \in Stores : Only(z, load.snap)
        BY <1>1, <3>3, AtWorkCall DEF Touched
      <4> QED
        BY <1>0, <2>1, <2>2, <3>1, <4>1, HeldKept DEF Only
    <3> QED
      BY <1>1, <3>2, <3>3, LoaderTouches
  <2>3. CASE UNCHANGED load
    BY <1>1, <2>2, <2>3 DEF AllHeld
  <2>4. CASE Advance \/ AttemptEnds
    <3>1. UNCHANGED <<rows, status>> /\ load'.snap = load.snap
      <4>1. UNCHANGED <<rows, status>>
        BY <2>4 DEF Advance, AttemptEnds, stores
      <4>2. load \in LoadRecord
        BY Types DEF TypeInv, CallersOK
      <4>3. CASE Advance
        <5>1. PICK n, b : load' = [load EXCEPT !.next = n, !.batch = b]
          BY <4>3 DEF Advance
        <5> QED
          BY <4>1, <4>2, <5>1 DEF LoadRecord
      <4>4. CASE AttemptEnds
        <5>1. \/ load' = [load EXCEPT !.next = "none", !.batch = 0]
              \/ \E m \in 1 .. load.batches :
                   load' = [load EXCEPT !.batches = m, !.next = "write", !.batch = 1]
          BY <4>4 DEF AttemptEnds
        <5> QED
          BY <4>1, <4>2, <5>1 DEF LoadRecord
      <4> QED
        BY <2>4, <4>3, <4>4
    <3>2. ASSUME NEW f \in Required PROVE Held(f, load.snap)
      BY <1>1, <2>1, WorkHeld
    <3>3. ASSUME NEW f \in Required, NEW s \in Ids PROVE Held(f, s)'
      <4>1. Held(f, s)
        BY <3>2 DEF AllHeld
      <4> QED
        BY <3>1, <4>1, HeldKept
    <3> QED
      BY <3>3 DEF AllHeld
  <2> QED
    <3>1. FanoutCall("load") \/ PrimaryStep => UNCHANGED load
      BY Types, FollowerProceeds, PrimaryProceeds DEF TypeInv, Proceeds, Actors
    <3>2. EnsureType \/ DropSnapshot \/ AdminEnds => UNCHANGED load
      BY DEF EnsureType, DropSnapshot, AdminEnds, loader
    <3>3. ~StartLoad
      BY <1>1 DEF StartLoad, Resting
    <3> QED
      BY <1>1, <2>3, <2>4, <3>1, <3>2, <3>3 DEF LoaderSide, LoaderStep, PrimaryStep
<1>2. CASE LoaderSide /\ load.next = "none"
  <2>1. ASSUME NEW f \in Required, NEW s \in Ids PROVE Held(f, s)'
    <3>1. Held(f, s)
      BY <1>2 DEF AllHeld
    <3>2. CASE UNCHANGED <<rows, status>>
      BY <3>1, <3>2, HeldKept
    <3>3. CASE Touched(call["load"]) /\ ~UNCHANGED <<rows, status>>
      <4>1. call["load"].op = "drop"
        BY <1>2, <3>3 DEF Touched, TypeInv, LoadShape, Stages
      <4>2. PICK z \in Stores, t \in Ids : Only(z, t) /\ status'[z][t] # "committed"
        BY <3>3, <4>1 DEF Touched
      <4>3. CASE t = s /\ z \in {f, Primary}
        BY <4>2, <4>3 DEF Held
      <4>4. CASE ~(t = s /\ z \in {f, Primary})
        <5>1. \A x \in {f, Primary} : rows'[x][s] = rows[x][s] /\ status'[x][s] = status[x][s]
          BY <1>0, <4>2, <4>4 DEF Only
        <5> QED
          BY <3>1, <5>1, HeldKept
      <4> QED
        BY <4>3, <4>4
    <3> QED
      BY <1>2, <3>2, <3>3, LoaderTouches
  <2> QED
    BY <2>1 DEF AllHeld
<1>3. CASE ReplaySide /\ Resting
  <2>1. ASSUME NEW f \in Required, NEW s \in Ids PROVE Held(f, s)'
    <3>1. Held(f, s)
      BY <1>3 DEF AllHeld, Resting
    <3>2. CASE UNCHANGED <<rows, status>>
      BY <3>1, <3>2, HeldKept
    <3>3. CASE ~UNCHANGED <<rows, status>>
      <4>1. PICK x \in Followers, t \in Ids :
              Only(x, t) /\ (x \in Required /\ Held(x, t) => Held(x, t)')
        BY <1>3, <3>3, ReplayTouched
      <4>2. CASE x = f /\ t = s
        BY <3>1, <4>1, <4>2
      <4>3. CASE ~(x = f /\ t = s)
        <5>1. \A z \in {f, Primary} : rows'[z][s] = rows[z][s] /\ status'[z][s] = status[z][s]
          BY <1>0, <4>1, <4>3 DEF Only
        <5> QED
          BY <3>1, <5>1, HeldKept
      <4> QED
        BY <4>2, <4>3
    <3> QED
      BY <3>2, <3>3
  <2> QED
    BY <2>1 DEF AllHeld
<1> QED
  BY <1>1, <1>2, <1>3, Sides

LEMMA WorkKeptOn ==
  ASSUME ReplayAlone, ~Shrinking, TypeInv, Alone, Future, AllHeld, Pace, Work, Next
  PROVE  Work'
<1> SUFFICES ASSUME NEW s \in Ids, load'.next # "none", s = load'.snap PROVE AtWork(s)'
  BY DEF Work
<1>1. CASE ReplaySide /\ Resting /\ UNCHANGED load
  BY <1>1 DEF Resting
<1>2. CASE LoaderSide /\ (FanoutCall("load") \/ PrimaryStep)
  <2>1. UNCHANGED load
    BY <1>2, Types, FollowerProceeds, PrimaryProceeds DEF TypeInv, Proceeds, Actors
  <2>2. AtWork(s)
    BY <2>1 DEF Work
  <2>3. \A f \in Required, t \in Ids \ {s} : Held(f, t)
    BY <2>1 DEF AllHeld
  <2> QED
    BY <1>2, <2>1, <2>2, <2>3, WorkCall
<1>3. CASE StartLoad
  BY <1>3, WorkStarts
<1>4. ASSUME Advance \/ AttemptEnds PROVE load.next # "none" /\ load.snap \in Ids
  BY <1>4, AtWorkCall DEF Advance, AttemptEnds
<1>5. CASE Advance
  <2>1. PICK t \in Ids : t = load.snap /\ AtWork(t)
    BY <1>4, <1>5 DEF Work
  <2>2. load'.snap = t /\ AtWork(t)'
    BY <1>5, <2>1, WorkAdvance
  <2> QED
    BY <2>2
<1>6. CASE AttemptEnds
  <2>1. PICK t \in Ids : t = load.snap /\ AtWork(t)
    BY <1>4, <1>6 DEF Work
  <2>2. load'.snap = t /\ AtWork(t)'
    BY <1>6, <2>1, WorkRetry
  <2> QED
    BY <2>2
<1>7. ~(LoaderSide /\ (EnsureType \/ DropSnapshot \/ AdminEnds))
  BY DEF EnsureType, DropSnapshot, AdminEnds, Resting, loader
<1> QED
  BY <1>1, <1>2, <1>3, <1>5, <1>6, <1>7, Sides DEF LoaderSide, LoaderStep, PrimaryStep

LEMMA LoadInvKept ==
  ASSUME ReplayAlone, ~Shrinking, LoadInv, [Next]_vars
  PROVE  LoadInv'
<1>1. CASE Next
  <2>1. /\ TypeInv /\ Alone /\ Future /\ AllHeld /\ Copied /\ Pace /\ Work
    BY DEF LoadInv
  <2>2. TypeInv'
    BY <1>1, <2>1, TypesKept
  <2>3. Alone' /\ Pace'
    <3>1. CASE LoaderSide /\ replay.at = "rest" /\ UNCHANGED replay
      BY <2>1, <3>1, PaceKept DEF Alone
    <3>2. CASE Resting' /\ call'["load"] = call["load"]
      BY <2>1, <3>2 DEF Alone, Pace
    <3> QED
      BY <1>1, <2>1, <3>1, <3>2, Sides
  <2>4. Future' /\ Copied' /\ AllHeld' /\ Work'
    BY <1>1, <2>1, FutureKept, CopiedKept, AllHeldKept, WorkKeptOn
  <2> QED
    BY <2>2, <2>3, <2>4 DEF LoadInv
<1>2. CASE UNCHANGED vars
  <2>1. UNCHANGED <<rows, status, served, shape, journal, mark, load, finished, call, replay,
                    faults>>
    BY <1>2 DEF vars
  <2>2. TypeInv'
    BY TypesKept DEF LoadInv
  <2>3. Alone' /\ Pace' /\ Future' /\ Copied'
    BY <2>1 DEF LoadInv, Alone, Resting, Idle, Pace, Future, Copied, RowsOf
  <2>4. AllHeld'
    <3>1. ASSUME NEW f \in Required, NEW s \in Ids, Held(f, s) PROVE Held(f, s)'
      BY <2>1, <3>1, HeldKept
    <3> QED
      BY <2>1, <3>1 DEF LoadInv, AllHeld
  <2>5. Work'
    <3> SUFFICES ASSUME NEW s \in Ids, load'.next # "none", s = load'.snap PROVE AtWork(s)'
      BY DEF Work
    <3>1. load.next # "none" /\ s = load.snap /\ AtWork(s)
      BY <2>1 DEF LoadInv, Work
    <3>2. \A f \in Required : Followed(f)' => Followed(f)
      BY <2>1 DEF Followed
    <3> QED
      BY <2>1, <3>1, <3>2, WorkStays DEF LoadInv
  <2> QED
    BY <2>2, <2>3, <2>4, <2>5 DEF LoadInv
<1> QED
  BY <1>1, <1>2

LEMMA InitLoadInv ==
  ASSUME Init
  PROVE  LoadInv
<1>1. TypeInv /\ call["load"] = NoCall /\ call["replay"] = NoCall
  BY InitTypes DEF Init, Actors
<1>2. load.next = "none" /\ replay.at = "rest" /\ load.snap = 0
  BY DEF Init, NoLoad, NoReplay
<1>3. \A x \in Stores, s \in Ids : rows[x][s] = {} /\ status[x][s] = "none"
  BY DEF Init
<1>4. Future
  BY <1>1, <1>2, <1>3, NoCallTypes DEF Future, Actors
<1>5. AllHeld
  BY <1>3 DEF AllHeld, Held, Stores
<1>6. Alone /\ Copied /\ Pace /\ Work
  BY <1>1, <1>2, NoCallTypes DEF Alone, Copied, Pace, Work, ReplayedStages
<1> QED
  BY <1>1, <1>4, <1>5, <1>6 DEF LoadInv

\* When the primary begins to serve a snapshot, the load that brought it has been through
\* every batch, and through the merge, at every follower it must keep.
LEMMA PublishedIsHeld ==
  ASSUME LoadInv, [Next]_vars, served'[Primary] # served[Primary], NEW f \in Required
  PROVE  SameRows(f, served'[Primary])
<1>0. /\ TypeInv /\ StoresOK /\ Primary \in Stores /\ Followers \subseteq Stores
      /\ Primary \notin Followers /\ "load" \in Actors
  BY Types, FanoutAssumption DEF LoadInv, TypeInv, Stores, Actors
<1>1. PrimaryCommits
  <2>1. ~UNCHANGED served
    OBVIOUS
  <2>2. ASSUME NEW a \in Actors PROVE ~FollowerCommits(a)
    <3>1. ASSUME FollowerCommits(a) PROVE served'[Primary] = served[Primary]
      <4>1. call[a].on \in Followers
        BY <1>0, <3>1 DEF FollowerCommits, At, TypeInv, CallShape, Trying
      <4> QED
        BY <1>0, <3>1, <4>1 DEF FollowerCommits, StoreCommit, StoresOK
    <3> QED
      BY <3>1
  <2>3. Next
    BY <2>1 DEF vars
  <2>4. ~ReplayStep
    BY <2>1 DEF ReplayStep, StartReplay, ReplayEnsured, ClearFollowerCopy, CopyPage, CopiedAll,
       ClearDebt, ReplayEnds, stores
  <2>5. ASSUME NEW a \in Actors PROVE ~FanoutCall(a)
    BY <2>1, <2>2 DEF FanoutCall, FollowerEnsures, FollowerWrites, FollowerCarries,
       FollowerDrops, FollowerFails, FollowerRefuses, Settle, Supersede, Return, HoldBack,
       Announce, stores
  <2> QED
    BY <2>1, <2>3, <2>4, <2>5 DEF Next, LoaderStep, StartLoad, Advance, AttemptEnds,
       EnsureType, DropSnapshot, AdminEnds, Ask, PrimaryEnsures, PrimaryWrites, PrimaryCarries,
       MarkCommitted, PrimaryDrops, Forget, stores
<1>2. load.next = "commit"
  BY <1>0, <1>1 DEF PrimaryCommits, At, TypeInv, LoadShape, LoadRecord
<1>3. PICK s \in Ids : s = load.snap /\ AtWork(s)
  BY <1>0, <1>2, AtWorkCall DEF LoadInv, Work
<1>4. served'[Primary] = s
  <2>1. StoreCommit(Primary, s)
    BY <1>0, <1>1, <1>2, <1>3, AtWorkCall DEF PrimaryCommits
  <2> QED
    BY <1>0, <2>1, CommitIs
<1>5. f \in Keepers /\ Primary \in Keepers /\ Keepers \subseteq Stores /\ load.batches \in Batches
  BY <1>0, <1>2, AtWorkCall DEF Keepers
<1>6. ASSUME NEW x \in Keepers
      PROVE  Brought(x, s) = {<<b, <<b, s>>>> : b \in 1 .. load.batches}
  <2>1. Pure(x, s) /\ \A b \in 1 .. load.batches : Written(x, b, s)
    BY <1>2, <1>3, AtWorkIs DEF WorkPure, WorkDue, Due
  <2> QED
    BY <1>0, <1>5, <2>1, FullBrought
<1>7. CarriedOf(f, s) = CarriedOf(Primary, s)
  <2>1. CASE load.merge
    BY <1>2, <1>3, <1>5, <2>1, AtWorkIs DEF Committing, Merged
  <2>2. CASE ~load.merge
    <3>1. ASSUME NEW x \in Keepers PROVE CarriedOf(x, s) = {}
      <4>1. Pure(x, s)
        BY <1>3, AtWorkIs DEF WorkPure
      <4> QED
        BY <2>2, <4>1 DEF Pure, CarriedOf
    <3> QED
      BY <1>5, <3>1
  <2> QED
    BY <2>1, <2>2
<1>8. rows[f][s] = rows[Primary][s]
  <2>1. Brought(f, s) = Brought(Primary, s)
    BY <1>5, <1>6
  <2>2. /\ rows[f][s] = Brought(f, s) \cup CarriedOf(f, s)
        /\ rows[Primary][s] = Brought(Primary, s) \cup CarriedOf(Primary, s)
    BY <1>0, <1>5, RowsAre
  <2> QED
    BY <1>7, <2>1, <2>2
<1> QED
  BY <1>4, <1>8 DEF SameRows, RowsOf

\* Publishing to several stores: while no replay runs beside a load, and an attempt made
\* again brings what the first one did, every required follower holds exactly the primary's
\* rows of a snapshot at the moment the primary begins to serve it, whatever followers failed,
\* answers were lost, attempts died or replays gave up before (fanout.store.ts, commit).
THEOREM RequiredHold ==
  ASSUME ReplayAlone, ~Shrinking
  PROVE  Spec => RequiredHoldsAll
<1>1. Init => LoadInv
  BY InitLoadInv
<1>2. LoadInv /\ [Next]_vars => LoadInv'
  BY LoadInvKept
<1>3. LoadInv /\ [Next]_vars =>
        [served'[Primary] # served[Primary] =>
           \A f \in Required : SameRows(f, served'[Primary])]_vars
  BY PublishedIsHeld
<1> QED
  BY <1>1, <1>2, <1>3, PTL DEF Spec, RequiredHoldsAll
-----------------------------------------------------------------------------
(* What every follower holds, or owes. *)

InHand(s) == load.next # "none" /\ s = load.snap

Recorded(g, s, stage, b) ==
  [follower |-> g, snap |-> s, stage |-> stage, batch |-> b] \in journal

OwesRows(g, s) ==
  \E d \in journal : d.follower = g /\ d.snap = s /\ d.stage \in ReplayedStages

BatchOf(x, s, b) == {y \in rows[x][s] : y[1] = b}

BatchHeld(g, s, b) == SameBatch(g, s, b) \/ Recorded(g, s, "write", b)

MergeTaken(g, s) == SameBatch(g, s, Carry) \/ Misled(g, s)
MergeHeld(g, s)  == MergeTaken(g, s) \/ Recorded(g, s, "carryForward", 0)

\* What a follower does is on record before it is tried.
Announced ==
  \A a \in Actors : call[a].at \in {"attempt", "settle"} => Key(call[a]) \in journal

\* Followers serve what the primary has committed, if it has not dropped it since.
ServedKnown ==
  \A g \in Followers, s \in Ids : served[g] = s => status[Primary][s] \in {"committed", "dropped"}

\* A committed snapshot is of at least one batch.
NotEmpty ==
  \A s \in Ids : status[Primary][s] = "committed" => OwnBatches(Primary, s) # {}

\* A follower that would not drop what the primary dropped is on record for it.
DropOwed ==
  \A g \in Followers, s \in Ids :
    status[Primary][s] = "dropped" /\ served[g] = s => Recorded(g, s, "drop", 0)

\* Of a load that is over.
ServesWhole(g, s) ==
  \/ SameRows(g, s)
  \/ OwesRows(g, s)
  \/ Misled(g, s) /\ OwnBatches(g, s) = OwnBatches(Primary, s)

Standing ==
  \A g \in Followers, s \in Ids :
    served[g] = s /\ ~InHand(s) /\ status[Primary][s] # "dropped" => ServesWhole(g, s)

\* The number under which a replay writes the rows of key k.
Below(s, k) == {r[1] : r \in {q \in RowsOf(Primary, s) : q[1] < k}}
Page(s, k)  == Cardinality(Below(s, k)) + 1

Paged(g, s) ==
  \A y \in rows[g][s] : y[2] \in RowsOf(Primary, s) /\ y[1] = Page(s, y[2][1])

\* What is left under a tombstone is what a replay wrote there.
Tombs ==
  \A g \in Followers, s \in Ids :
    status[Primary][s] = "committed" /\ status[g][s] = "dropped" => Paged(g, s)

\* The load in hand.
BatchesHeld(g, s) == \A b \in 1 .. load.batches : BatchHeld(g, s, b)

Mending(g, s) ==
  /\ Pure(g, s) /\ status[g][s] # "dropped"
  /\ \A b \in 1 .. load.batches : Due(b) => BatchHeld(g, s, b)
  /\ load.next = "write" /\ call["load"].at # "primary" /\ g \notin call["load"].todo =>
       BatchHeld(g, s, load.batch)
  /\ load.next = "carryForward" /\ call["load"].at # "primary" /\ g \notin call["load"].todo =>
       MergeHeld(g, s)
  /\ load.next = "commit" /\ load.merge => MergeHeld(g, s)
  /\ served[g] = s => BatchesHeld(g, s) /\ (load.merge => MergeHeld(g, s))
  /\ call["load"].at = "settle" /\ call["load"].ok /\ call["load"].on = g =>
       /\ load.next = "write" => SameBatch(g, s, load.batch)
       /\ load.next = "carryForward" => MergeTaken(g, s)

Mended ==
  \A s \in Ids : InHand(s) =>
    /\ Pure(Primary, s) /\ status[Primary][s] # "dropped"
    /\ \A g \in Followers : Mending(g, s)

\* A commit, once the primary has it.
After == {"follow", "attempt", "settle", "supersede", "returned"}

Placing(s) ==
  LET c == call["load"]
  IN c.op = "commit" /\ c.snap = s =>
       /\ c.at = "mark" => c.todo = Followers
       /\ c.at = "returned" => c.todo = {}
       /\ c.at \in After \cup {"mark"} => status[Primary][s] = "committed" /\ served[Primary] = s
       /\ c.at \in After =>
            /\ mark = s
            /\ \A g \in Followers \ c.todo : served[g] = s \/ Recorded(g, s, "commit", 0)
       /\ (c.at = "settle" /\ c.ok) \/ c.at = "supersede" => served[c.on] = s

Dropping(s) ==
  LET c == call["load"]
  IN c.op = "drop" /\ c.snap = s =>
       /\ c.batch = 0 /\ status[Primary][s] # "none"
       /\ \A g \in Followers \ c.todo : served[g] # s \/ Recorded(g, s, "drop", 0)
       /\ c.at = "settle" /\ c.ok => served[c.on] # s
       /\ c.at \in {"primary", "forget"} => c.todo = {}
       /\ c.at = "forget" => status[Primary][s] = "dropped" /\ served[Primary] # s

LoaderCalls ==
  /\ load.next # "write" => load.batch = 0
  /\ \A s \in Ids : Placing(s) /\ Dropping(s)

\* A replay under way.
Copying(g, s) ==
  /\ Paged(g, s)
  /\ replay.copied \subseteq {r[1] : r \in RowsOf(Primary, s)}
  /\ \A r \in RowsOf(Primary, s) : r[1] \in replay.copied =>
       /\ r \in RowsOf(g, s)
       /\ Below(s, r[1]) \subseteq replay.copied
  /\ served[g] = s => OwesRows(g, s)

Replaying ==
  replay.at # "rest" =>
    /\ replay.current = mark
    /\ replay.at \in {"ensureType", "clear"} => replay.copied = {}
    /\ replay.at = "copy" => Copying(replay.on, replay.snap)
    /\ replay.at \in {"clearDebt", "commit"} => SameRows(replay.on, replay.snap)
    /\ replay.at = "commit" =>
         /\ replay.current = replay.snap
         /\ LET c == call["replay"]
            IN /\ c.op = "commit"
               /\ (c.at = "settle" /\ c.ok) \/ c.at = "supersede" => served[replay.on] = replay.snap

\* Loads that have returned.
Returned ==
  /\ \A s \in finished : s <= load.snap /\ ~InHand(s)
  /\ served[Primary] \in finished =>
       /\ mark = served[Primary]
       /\ \A g \in Followers :
            served[g] = served[Primary] \/ Recorded(g, served[Primary], "commit", 0)

FollowInv ==
  /\ Announced /\ ServedKnown /\ NotEmpty /\ DropOwed /\ Standing /\ Tombs
  /\ Mended /\ LoaderCalls /\ Replaying /\ Returned
-----------------------------------------------------------------------------
(* What a step does to what followers hold and owe. *)

\* No store serves or holds anything else, and no debt is taken off.
Hushed == UNCHANGED <<rows, status, served>> /\ journal \subseteq journal'

LEMMA LoaderCases ==
  ASSUME LoaderSide
  PROVE  \/ Hushed
         \/ PrimaryWrites \/ PrimaryCarries \/ PrimaryCommits \/ PrimaryDrops \/ Forget
         \/ FollowerWrites("load") \/ FollowerCarries("load") \/ FollowerCommits("load")
         \/ FollowerDrops("load") \/ FollowerFails("load")
         \/ Settle("load") /\ call["load"].ok
         \/ Supersede("load")
<1>1. CASE StartLoad \/ Advance \/ AttemptEnds \/ EnsureType \/ DropSnapshot \/ AdminEnds
  BY <1>1 DEF StartLoad, Advance, AttemptEnds, EnsureType, DropSnapshot, AdminEnds, Hushed,
     stores, ledger
<1>2. CASE Ask \/ PrimaryEnsures \/ MarkCommitted
  BY <1>2 DEF Ask, PrimaryEnsures, MarkCommitted, Hushed, stores, ledger
<1>3. CASE \E f \in Followers : HoldBack("load", f) \/ Announce("load", f)
  BY <1>3 DEF HoldBack, Announce, Hushed, stores
<1>4. CASE FollowerEnsures("load") \/ FollowerRefuses("load") \/ Return("load")
  BY <1>4 DEF FollowerEnsures, FollowerRefuses, Return, Hushed, stores, ledger
<1>5. CASE Settle("load") /\ ~call["load"].ok
  BY <1>5 DEF Settle, Hushed, stores
<1> QED
  BY <1>1, <1>2, <1>3, <1>4, <1>5 DEF LoaderSide, LoaderStep, FanoutCall

LEMMA ReplayCases ==
  ASSUME TypeInv, ReplaySide
  PROVE  \/ Hushed
         \/ ClearFollowerCopy \/ CopyPage \/ ClearDebt
         \/ FollowerCommits("replay")
         \/ Settle("replay") /\ call["replay"].ok
         \/ Supersede("replay")
<1>0. call["replay"].op \in {"none", "ensureType", "commit"}
  BY DEF TypeInv, ReplayShape
<1>1. CASE StartReplay \/ ReplayEnsured \/ CopiedAll \/ ReplayEnds
  BY <1>1 DEF StartReplay, ReplayEnsured, CopiedAll, ReplayEnds, Hushed, stores, ledger
<1>3. CASE \E f \in Followers : HoldBack("replay", f) \/ Announce("replay", f)
  BY <1>3 DEF HoldBack, Announce, Hushed, stores
<1>4. CASE FollowerEnsures("replay") \/ FollowerRefuses("replay") \/ Return("replay")
  BY <1>4 DEF FollowerEnsures, FollowerRefuses, Return, Hushed, stores, ledger
<1>5. CASE Settle("replay") /\ ~call["replay"].ok
  BY <1>5 DEF Settle, Hushed, stores
<1>6. CASE FollowerFails("replay")
  BY <1>0, <1>6 DEF FollowerFails, Hushed, ledger
<1>7. ~FollowerWrites("replay") /\ ~FollowerCarries("replay") /\ ~FollowerDrops("replay")
  BY <1>0 DEF FollowerWrites, FollowerCarries, FollowerDrops, At
<1> QED
  BY <1>1, <1>3, <1>4, <1>5, <1>6, <1>7 DEF ReplaySide, ReplayStep, FanoutCall

\* Which merges are noted.
LEMMA MisledIs ==
  ASSUME TypeInv, MCNext
  PROVE  /\ misled' = (misled \ Redone) \cup
                        (IF Misleads("load") THEN {<<call["load"].on, call["load"].snap>>} ELSE {})
         /\ Redone = (IF Merging("load") THEN {<<call["load"].on, call["load"].snap>>} ELSE {})
                       \cup (IF replay.at = "clear" /\ replay'.at = "copy"
                               THEN {<<replay.on, replay.snap>>} ELSE {})
<1>1. ~Merging("replay") /\ Actors = {"load", "replay"}
  BY DEF TypeInv, ReplayShape, Merging, At, Actors
<1>2. ~Misleads("replay")
  BY <1>1 DEF Misleads
<1>3. {b \in Actors : Merging(b)} = IF Merging("load") THEN {"load"} ELSE {}
  BY <1>1
<1>4. {b \in Actors : Misleads(b)} = IF Misleads("load") THEN {"load"} ELSE {}
  BY <1>1, <1>2
<1>5. Redone = (IF Merging("load") THEN {<<call["load"].on, call["load"].snap>>} ELSE {})
                 \cup (IF replay.at = "clear" /\ replay'.at = "copy"
                         THEN {<<replay.on, replay.snap>>} ELSE {})
  <2>1. Redone = {<<call[a].on, call[a].snap>> : a \in {b \in Actors : Merging(b)}}
                   \cup (IF replay.at = "clear" /\ replay'.at = "copy"
                           THEN {<<replay.on, replay.snap>>} ELSE {})
    BY DEF Redone
  <2>2. {<<call[a].on, call[a].snap>> : a \in {b \in Actors : Merging(b)}}
          = IF Merging("load") THEN {<<call["load"].on, call["load"].snap>>} ELSE {}
    BY <1>3
  <2> QED
    BY <2>1, <2>2
<1>6. {<<call[a].on, call[a].snap>> : a \in {b \in Actors : Misleads(b)}}
        = IF Misleads("load") THEN {<<call["load"].on, call["load"].snap>>} ELSE {}
  BY <1>4
<1> QED
  BY <1>5, <1>6 DEF MCNext

\* Only a merge on trial changes the note, and only about its own follower and snapshot.
LEMMA MisledByLoader ==
  ASSUME TypeInv, MCNext, UNCHANGED replay
  PROVE  /\ \A p : p # <<call["load"].on, call["load"].snap>> =>
              (p \in misled' <=> p \in misled)
         /\ ~At("load", "carryForward", "attempt") => misled' = misled
         /\ Misleads("load") => <<call["load"].on, call["load"].snap>> \in misled'
<1>1. /\ misled' = (misled \ Redone) \cup
                     (IF Misleads("load") THEN {<<call["load"].on, call["load"].snap>>} ELSE {})
      /\ Redone = IF Merging("load") THEN {<<call["load"].on, call["load"].snap>>} ELSE {}
  BY MisledIs
<1>2. Misleads("load") => Merging("load")
  BY DEF Misleads
<1>3. Merging("load") => At("load", "carryForward", "attempt")
  BY DEF Merging
<1> QED
  BY <1>1, <1>2, <1>3

LEMMA MisledByReplay ==
  ASSUME TypeInv, MCNext, Resting
  PROVE  /\ \A p : p # <<replay.on, replay.snap>> => (p \in misled' <=> p \in misled)
         /\ ~(replay.at = "clear" /\ replay'.at = "copy") => misled' = misled
         /\ misled' \subseteq misled
<1>1. ~Merging("load")
  BY DEF Merging, At, Resting, Idle, NoCall
<1>2. ~Misleads("load")
  BY <1>1 DEF Misleads
<1> QED
  BY <1>1, <1>2, MisledIs
-----------------------------------------------------------------------------
(* Batches and merges held or owed. *)

LEMMA BatchesAre ==
  ASSUME NEW x, NEW s
  PROVE  /\ OwnBatches(x, s) = Brought(x, s)
         /\ CarriedOf(x, s) = BatchOf(x, s, Carry)
         /\ \A g, b : SameBatch(g, s, b) <=> BatchOf(g, s, b) = BatchOf(Primary, s, b)
BY DEF OwnBatches, Brought, CarriedOf, BatchOf, SameBatch

\* Replacing a batch leaves the other batches and the other snapshots.
LEMMA PutBatches ==
  ASSUME StoresOK, NEW x \in Stores, NEW s \in Ids, NEW b, NEW rs, Put(x, s, b, rs)
  PROVE  /\ \A c : c # b => BatchOf(x, s, c)' = BatchOf(x, s, c)
         /\ \A z \in Stores, t \in Ids : z # x \/ t # s => rows'[z][t] = rows[z][t]
<1>1. /\ rows'[x][s] = {y \in rows[x][s] : y[1] # b} \cup ({b} \X rs)
      /\ \A z \in Stores, t \in Ids : z # x \/ t # s => rows'[z][t] = rows[z][t]
  BY PutIs
<1>2. ASSUME NEW c, c # b PROVE BatchOf(x, s, c)' = BatchOf(x, s, c)
  <2>1. \A y \in {b} \X rs : y[1] = b
    OBVIOUS
  <2>2. {y \in rows'[x][s] : y[1] = c} = {y \in rows[x][s] : y[1] = c}
    BY <1>1, <1>2, <2>1
  <2> QED
    BY <2>2 DEF BatchOf
<1> QED
  BY <1>1, <1>2

\* A batch of a load is one row.
LEMMA PureBatch ==
  ASSUME StoresOK, NEW x \in Stores, NEW s \in Ids, load.batches \in Batches,
         Pure(x, s), NEW b \in 1 .. load.batches, Written(x, b, s)
  PROVE  BatchOf(x, s, b) = {<<b, <<b, s>>>>}
<1>1. b # Carry
  BY DEF Carry
<1>2. \A y \in rows[x][s] : y[1] = b => y = <<b, <<b, s>>>>
  BY <1>1, RowsAre DEF Pure
<1>3. <<b, <<b, s>>>> \in rows[x][s]
  BY DEF Written
<1> QED
  BY <1>2, <1>3 DEF BatchOf

LEMMA PureBatchNext ==
  ASSUME StoresOK', NEW x \in Stores, NEW s \in Ids, load'.batches \in Batches,
         Pure(x, s)', NEW b \in 1 .. load'.batches, Written(x, b, s)'
  PROVE  BatchOf(x, s, b)' = {<<b, <<b, s>>>>}
<1>1. b # Carry
  BY DEF Carry
<1>2. \A y \in rows'[x][s] : y = <<y[1], y[2]>>
  BY DEF StoresOK, RowSets
<1>3. \A y \in rows'[x][s] : y[1] = b => y = <<b, <<b, s>>>>
  BY <1>1, <1>2 DEF Pure
<1>4. <<b, <<b, s>>>> \in rows'[x][s]
  BY DEF Written
<1> QED
  BY <1>3, <1>4 DEF BatchOf

LEMMA SameCopies ==
  ASSUME StoresOK, NEW g \in Stores, NEW s \in Ids,
         OwnBatches(g, s) = OwnBatches(Primary, s), CarriedOf(g, s) = CarriedOf(Primary, s)
  PROVE  rows[g][s] = rows[Primary][s] /\ SameRows(g, s)
<1>1. rows[g][s] = Brought(g, s) \cup CarriedOf(g, s)
  BY RowsAre
<1>2. rows[Primary][s] = Brought(Primary, s) \cup CarriedOf(Primary, s)
  BY RowsAre DEF Stores
<1>3. Brought(g, s) = Brought(Primary, s)
  BY BatchesAre
<1>4. rows[g][s] = rows[Primary][s]
  BY <1>1, <1>2, <1>3
<1> QED
  BY <1>4 DEF SameRows, RowsOf

\* A follower that holds every batch and the merge, or owes them, serves or owes the load.
LEMMA HeldIsWhole ==
  ASSUME StoresOK, NEW g \in Followers, NEW s \in Ids, load.batches \in Batches,
         Pure(g, s), Pure(Primary, s), BatchesHeld(g, s), load.merge => MergeHeld(g, s)
  PROVE  ServesWhole(g, s)
<1>0. g \in Stores /\ Primary \in Stores
  BY DEF Stores
<1>1. ASSUME NEW b, Recorded(g, s, "write", b) PROVE OwesRows(g, s)
  <2>1. PICK d \in journal : d = [follower |-> g, snap |-> s, stage |-> "write", batch |-> b]
    BY <1>1 DEF Recorded
  <2>2. d.follower = g /\ d.snap = s /\ d.stage \in ReplayedStages
    BY <2>1 DEF ReplayedStages
  <2> QED
    BY <2>1, <2>2 DEF OwesRows
<1>2. ASSUME Recorded(g, s, "carryForward", 0) PROVE OwesRows(g, s)
  <2>1. PICK d \in journal : d = [follower |-> g, snap |-> s, stage |-> "carryForward", batch |-> 0]
    BY <1>2 DEF Recorded
  <2>2. d.follower = g /\ d.snap = s /\ d.stage \in ReplayedStages
    BY <2>1 DEF ReplayedStages
  <2> QED
    BY <2>1, <2>2 DEF OwesRows
<1>3. CASE OwesRows(g, s)
  BY <1>3 DEF ServesWhole
<1>4. CASE ~OwesRows(g, s)
  <2>1. \A b \in 1 .. load.batches : BatchOf(g, s, b) = BatchOf(Primary, s, b)
    BY <1>1, <1>4, BatchesAre DEF BatchesHeld, BatchHeld
  <2>2. ASSUME NEW x \in {g, Primary}, NEW y \in rows[x][s], y[1] # Carry
        PROVE  y[1] \in 1 .. load.batches
    BY <2>2 DEF Pure
  <2>3. \A y : y \in OwnBatches(g, s) <=> y \in OwnBatches(Primary, s)
    <3>1. ASSUME NEW x \in {g, Primary}, NEW y, y \in OwnBatches(x, s)
          PROVE  y[1] \in 1 .. load.batches /\ y \in BatchOf(x, s, y[1]) /\ y[1] # Carry
      BY <2>2, <3>1 DEF OwnBatches, BatchOf
    <3>2. ASSUME NEW x \in {g, Primary}, NEW b, NEW y \in BatchOf(x, s, b), b # Carry
          PROVE  y \in OwnBatches(x, s)
      BY <3>2 DEF OwnBatches, BatchOf
    <3> QED
      BY <2>1, <3>1, <3>2
  <2>4. OwnBatches(g, s) = OwnBatches(Primary, s)
    BY <2>3
  <2>5. CASE load.merge
    <3>1. MergeTaken(g, s)
      BY <1>2, <1>4, <2>5 DEF MergeHeld
    <3>2. CASE SameBatch(g, s, Carry)
      <4>1. CarriedOf(g, s) = CarriedOf(Primary, s)
        BY <3>2, BatchesAre
      <4> QED
        BY <1>0, <2>4, <4>1, SameCopies DEF ServesWhole
    <3> QED
      BY <2>4, <3>1, <3>2 DEF MergeTaken, ServesWhole
  <2>6. CASE ~load.merge
    <3>1. CarriedOf(g, s) = {} /\ CarriedOf(Primary, s) = {}
      BY <2>6 DEF Pure, CarriedOf
    <3> QED
      BY <1>0, <2>4, <3>1, SameCopies DEF ServesWhole
  <2> QED
    BY <2>5, <2>6
<1> QED
  BY <1>3, <1>4

\* What a step that touches neither copy leaves, with the debts about it.
LEMMA HeldStays ==
  ASSUME NEW g, NEW s, rows'[g][s] = rows[g][s], rows'[Primary][s] = rows[Primary][s],
         <<g, s>> \in misled' <=> <<g, s>> \in misled,
         \A d \in journal : d.follower = g /\ d.snap = s /\ d.stage \in ReplayedStages =>
           d \in journal'
  PROVE  /\ \A b : BatchHeld(g, s, b) => BatchHeld(g, s, b)'
         /\ \A b : SameBatch(g, s, b) => SameBatch(g, s, b)'
         /\ MergeTaken(g, s) => MergeTaken(g, s)'
         /\ MergeHeld(g, s) => MergeHeld(g, s)'
         /\ ServesWhole(g, s) => ServesWhole(g, s)'
<1>1. ASSUME NEW stage \in ReplayedStages, NEW b, Recorded(g, s, stage, b)
      PROVE  Recorded(g, s, stage, b)'
  <2>1. PICK d \in journal : d = [follower |-> g, snap |-> s, stage |-> stage, batch |-> b]
    BY <1>1 DEF Recorded
  <2>2. d.follower = g /\ d.snap = s /\ d.stage \in ReplayedStages
    BY <2>1
  <2> QED
    BY <2>1, <2>2 DEF Recorded
<1>2. "write" \in ReplayedStages /\ "carryForward" \in ReplayedStages
  BY DEF ReplayedStages
<1>3. \A b : SameBatch(g, s, b) => SameBatch(g, s, b)'
  BY DEF SameBatch
<1>4. Misled(g, s) => Misled(g, s)'
  BY DEF Misled
<1>5. OwesRows(g, s) => OwesRows(g, s)'
  BY DEF OwesRows
<1>6. /\ SameRows(g, s) => SameRows(g, s)'
      /\ OwnBatches(g, s)' = OwnBatches(g, s) /\ OwnBatches(Primary, s)' = OwnBatches(Primary, s)
  BY DEF SameRows, RowsOf, OwnBatches
<1>7. \A b : BatchHeld(g, s, b) => BatchHeld(g, s, b)'
  BY <1>1, <1>2, <1>3 DEF BatchHeld
<1>8. MergeTaken(g, s) => MergeTaken(g, s)'
  BY <1>3, <1>4 DEF MergeTaken
<1>9. MergeHeld(g, s) => MergeHeld(g, s)'
  BY <1>1, <1>2, <1>8 DEF MergeHeld
<1>10. ServesWhole(g, s) => ServesWhole(g, s)'
  BY <1>4, <1>5, <1>6 DEF ServesWhole
<1> QED
  BY <1>3, <1>7, <1>8, <1>9, <1>10

\* A step within a call of the load in hand, for one follower.
LEMMA MendingFrame ==
  ASSUME NEW g, NEW s, UNCHANGED load, Mending(g, s), load.next \in {"write", "carryForward", "commit"},
         load.next = "write" => load.batch \in 1 .. load.batches,
         Pure(g, s)', status'[g][s] # "dropped",
         \A b \in 1 .. load.batches :
           BatchHeld(g, s, b) /\ (Due(b) \/ served[g] = s \/ call["load"].at # "primary") =>
             BatchHeld(g, s, b)',
         MergeHeld(g, s) /\ (load.next = "commit" \/ served[g] = s \/ call["load"].at # "primary") =>
           MergeHeld(g, s)',
         call'["load"].at # "primary" /\ g \notin call'["load"].todo =>
           \/ call["load"].at # "primary" /\ g \notin call["load"].todo
           \/ /\ load.next = "write" => BatchHeld(g, s, load.batch)'
              /\ load.next = "carryForward" => MergeHeld(g, s)',
         served'[g] = s => served[g] = s \/ load.next = "commit",
         call'["load"].at = "settle" /\ call'["load"].ok /\ call'["load"].on = g =>
           /\ load.next = "write" => SameBatch(g, s, load.batch)'
           /\ load.next = "carryForward" => MergeTaken(g, s)'
  PROVE  Mending(g, s)'
<1>1. \A b \in 1 .. load.batches : Due(b)' => BatchHeld(g, s, b)'
  BY DEF Mending, Due
<1>2. load.next = "write" /\ call'["load"].at # "primary" /\ g \notin call'["load"].todo =>
        BatchHeld(g, s, load.batch)'
  BY DEF Mending
<1>3. load.next = "carryForward" /\ call'["load"].at # "primary" /\ g \notin call'["load"].todo =>
        MergeHeld(g, s)'
  BY DEF Mending
<1>4. load.next = "commit" /\ load.merge => MergeHeld(g, s)'
  BY DEF Mending
<1>5. served'[g] = s => (\A b \in 1 .. load.batches : BatchHeld(g, s, b)')
                        /\ (load.merge => MergeHeld(g, s)')
  <2>1. CASE served[g] = s
    BY <2>1 DEF Mending, BatchesHeld
  <2>2. CASE load.next = "commit"
    BY <1>1, <1>4, <2>2 DEF Due
  <2> QED
    BY <2>1, <2>2
<1> QED
  BY <1>1, <1>2, <1>3, <1>4, <1>5 DEF Mending, BatchesHeld
-----------------------------------------------------------------------------
(* The load in hand, for every follower. *)

\* Where a step of the loader finds the load in hand.
Turning(s) ==
  /\ LoadInv /\ LoadInv' /\ MCNext /\ UNCHANGED replay
  /\ InHand(s) /\ Mended /\ Announced /\ ServedKnown /\ LoaderCalls

LEMMA TurningIs ==
  ASSUME NEW s \in Ids, Turning(s)
  PROVE  /\ TypeInv /\ TypeInv' /\ StoresOK /\ CallersOK /\ StoresOK' /\ CallersOK'
         /\ Primary \in Stores /\ Followers \subseteq Stores /\ Primary \notin Followers
         /\ "load" \in Actors /\ s = load.snap /\ load.next # "none"
         /\ load.batches \in Batches /\ load.next \in {"write", "carryForward", "commit"}
         /\ call["load"].op = load.next /\ call["load"].snap = s
         /\ call["load"].batch = load.batch
         /\ load.next = "write" => load.batch \in 1 .. load.batches
         /\ load.next # "write" => load.batch = 0
         /\ load.next = "carryForward" => load.merge
         /\ call["load"].at \in Trying => call["load"].on \in Followers
         /\ AtWork(s) /\ Pace
         /\ Pure(Primary, s) /\ status[Primary][s] # "dropped"
         /\ \A g \in Followers : Mending(g, s)
<1>1. TypeInv /\ TypeInv' /\ Work /\ Pace
  BY DEF Turning, LoadInv
<1>2. s = load.snap /\ load.next # "none"
  BY DEF Turning, InHand
<1>3. StoresOK' /\ CallersOK'
  BY <1>1, Types, PTL DEF TypeInv
<1>4. AtWork(s)
  BY <1>1, <1>2 DEF Work
<1>5. load.next # "write" => load.batch = 0
  BY DEF Turning, LoaderCalls
<1>6. /\ Pure(Primary, s) /\ status[Primary][s] # "dropped"
      /\ \A g \in Followers : Mending(g, s)
  BY DEF Turning, Mended
<1> QED
  BY <1>1, <1>2, <1>3, <1>4, <1>5, <1>6, AtWorkCall, FanoutAssumption

\* A step that leaves the rows, and the debts about them.
LEMMA MendingQuiet ==
  ASSUME NEW s \in Ids, Turning(s), UNCHANGED <<rows, load, misled>>,
         \A d \in journal : d.snap = s /\ d.stage \in ReplayedStages => d \in journal',
         \A x \in Followers : status'[x][s] # "dropped",
         \A x \in Followers : served'[x] = s => served[x] = s \/ load.next = "commit",
         \A x \in Followers : call'["load"].at # "primary" /\ x \notin call'["load"].todo =>
           \/ call["load"].at # "primary" /\ x \notin call["load"].todo
           \/ load.next \in ReplayedStages => Recorded(x, s, load.next, load.batch)',
         call'["load"].at = "settle" => load.next = "commit",
         NEW g \in Followers
  PROVE  Mending(g, s)'
<1>0. /\ Mending(g, s) /\ load.next \in {"write", "carryForward", "commit"}
      /\ load.next = "write" => load.batch \in 1 .. load.batches
      /\ load.next # "write" => load.batch = 0
  BY TurningIs
<1>1. /\ \A b : BatchHeld(g, s, b) => BatchHeld(g, s, b)'
      /\ MergeHeld(g, s) => MergeHeld(g, s)'
  BY HeldStays
<1>2. Pure(g, s)'
  BY <1>0 DEF Mending, Pure
<1>3. call'["load"].at # "primary" /\ g \notin call'["load"].todo =>
        \/ call["load"].at # "primary" /\ g \notin call["load"].todo
        \/ /\ load.next = "write" => BatchHeld(g, s, load.batch)'
           /\ load.next = "carryForward" => MergeHeld(g, s)'
  <2>1. ASSUME load.next \in ReplayedStages => Recorded(g, s, load.next, load.batch)'
        PROVE  /\ load.next = "write" => BatchHeld(g, s, load.batch)'
               /\ load.next = "carryForward" => MergeHeld(g, s)'
    BY <1>0, <2>1 DEF ReplayedStages, BatchHeld, MergeHeld
  <2> QED
    BY <2>1
<1> QED
  BY <1>0, <1>1, <1>2, <1>3, MendingFrame

\* An attempt at a follower, however it goes, is on record.
LEMMA MendingAttempt ==
  ASSUME NEW s \in Ids, Turning(s), UNCHANGED <<load, journal, served>>,
         load.next \in ReplayedStages, call["load"].at = "attempt",
         NEW x \in Followers, x = call["load"].on, NEW ok, Tried("load", ok),
         Only(x, s), Pure(x, s)', status'[x][s] # "dropped",
         \A c : c # (IF load.next = "write" THEN load.batch ELSE Carry) =>
           BatchOf(x, s, c)' = BatchOf(x, s, c),
         ok => /\ load.next = "write" => SameBatch(x, s, load.batch)'
               /\ load.next = "carryForward" => MergeTaken(x, s)',
         NEW g \in Followers
  PROVE  Mending(g, s)'
<1>0. /\ Mending(g, s) /\ load.next \in {"write", "carryForward", "commit"}
      /\ load.next = "write" => load.batch \in 1 .. load.batches
      /\ load.next # "write" => load.batch = 0
      /\ StoresOK /\ g \in Stores /\ x \in Stores /\ Primary \in Stores /\ x # Primary
      /\ call \in [Actors -> CallRecord] /\ "load" \in Actors
      /\ call["load"].op = load.next /\ call["load"].snap = s
      /\ call["load"].batch = load.batch
  BY TurningIs DEF CallersOK
<1>1. /\ call'["load"].at = "settle" /\ call'["load"].ok = ok /\ call'["load"].on = x
      /\ call'["load"].todo = call["load"].todo
  <2>1. call' = [call EXCEPT !["load"].at = "settle", !["load"].ok = ok]
    BY DEF Tried
  <2> QED
    BY <1>0, <2>1 DEF CallRecord
<1>2. rows'[Primary][s] = rows[Primary][s]
  BY <1>0 DEF Only
<1>3. Recorded(x, s, load.next, load.batch)'
  <2>1. Key(call["load"]) \in journal
    BY <1>0 DEF Turning, Announced
  <2> QED
    BY <1>0, <2>1 DEF Key, Recorded
<1>4. CASE g # x
  <2>1. rows'[g][s] = rows[g][s] /\ status'[g][s] = status[g][s]
    BY <1>0, <1>4 DEF Only
  <2>2. <<g, s>> \in misled' <=> <<g, s>> \in misled
    <3>1. <<g, s>> # <<call["load"].on, call["load"].snap>>
      BY <1>4
    <3> QED
      BY <3>1, TurningIs, MisledByLoader DEF Turning
  <2>3. /\ \A b : BatchHeld(g, s, b) => BatchHeld(g, s, b)'
        /\ MergeHeld(g, s) => MergeHeld(g, s)'
    BY <1>2, <2>1, <2>2, HeldStays
  <2>4. Pure(g, s)' /\ status'[g][s] # "dropped"
    BY <1>0, <2>1 DEF Mending, Pure
  <2>5. /\ served'[g] = s => served[g] = s
        /\ g \notin call'["load"].todo => g \notin call["load"].todo
        /\ call["load"].at # "primary" /\ call'["load"].on # g
    BY <1>1, <1>4
  <2> QED
    BY <1>0, <2>3, <2>4, <2>5, MendingFrame
<1>5. CASE g = x
  <2>1. ASSUME NEW b \in 1 .. load.batches, BatchHeld(g, s, b) PROVE BatchHeld(g, s, b)'
    <3>1. CASE load.next = "write" /\ b = load.batch
      BY <1>3, <1>5, <3>1 DEF BatchHeld
    <3>2. CASE ~(load.next = "write" /\ b = load.batch)
      <4>1. b # (IF load.next = "write" THEN load.batch ELSE Carry)
        BY <3>2 DEF Carry
      <4>2. BatchOf(g, s, b)' = BatchOf(g, s, b) /\ BatchOf(Primary, s, b)' = BatchOf(Primary, s, b)
        BY <1>2, <1>5, <4>1 DEF BatchOf
      <4>3. SameBatch(g, s, b) => SameBatch(g, s, b)'
        BY <4>2 DEF SameBatch, BatchOf
      <4>4. Recorded(g, s, "write", b) => Recorded(g, s, "write", b)'
        BY DEF Recorded
      <4> QED
        BY <2>1, <4>3, <4>4 DEF BatchHeld
    <3> QED
      BY <3>1, <3>2
  <2>2. ASSUME MergeHeld(g, s) PROVE MergeHeld(g, s)'
    <3>1. CASE load.next = "carryForward"
      BY <1>0, <1>3, <1>5, <3>1 DEF MergeHeld
    <3>2. CASE load.next = "write"
      <4>1. Carry # load.batch
        BY <1>0, <3>2 DEF Carry
      <4>2. BatchOf(g, s, Carry)' = BatchOf(g, s, Carry)
            /\ BatchOf(Primary, s, Carry)' = BatchOf(Primary, s, Carry)
        BY <1>2, <1>5, <3>2, <4>1 DEF BatchOf
      <4>3. SameBatch(g, s, Carry) => SameBatch(g, s, Carry)'
        BY <4>2 DEF SameBatch, BatchOf
      <4>4. misled' = misled
        BY <1>0, <3>2, TurningIs, MisledByLoader DEF Turning, At
      <4>5. Recorded(g, s, "carryForward", 0) => Recorded(g, s, "carryForward", 0)'
        BY DEF Recorded
      <4> QED
        BY <2>2, <4>3, <4>4, <4>5 DEF MergeHeld, MergeTaken, Misled
    <3> QED
      BY <1>0, <3>1, <3>2 DEF ReplayedStages
  <2>3. /\ load.next = "write" => BatchHeld(g, s, load.batch)'
        /\ load.next = "carryForward" => MergeHeld(g, s)'
    BY <1>0, <1>3, <1>5 DEF BatchHeld, MergeHeld
  <2> QED
    BY <1>0, <1>1, <1>5, <2>1, <2>2, <2>3, MendingFrame
<1> QED
  BY <1>4, <1>5
\* The steps of a call that leave rows, and the debts about them, as they are.
LEMMA MendedQuietly ==
  ASSUME NEW s \in Ids, Turning(s),
         \/ Ask \/ MarkCommitted \/ PrimaryCommits
         \/ \E f \in Followers : HoldBack("load", f) \/ Announce("load", f)
         \/ /\ load.next = "commit"
            /\ FollowerCommits("load") \/ FollowerFails("load") \/ FollowerRefuses("load")
         \/ Settle("load") /\ (call["load"].ok => load.next = "commit")
         \/ Supersede("load") \/ Return("load")
  PROVE  status'[Primary][s] # "dropped" /\ \A g \in Followers : Mending(g, s)'
<1>0. /\ StoresOK /\ CallersOK /\ call \in [Actors -> CallRecord] /\ "load" \in Actors
      /\ Primary \in Stores /\ Followers \subseteq Stores /\ TypeInv /\ MCNext /\ UNCHANGED replay
      /\ call["load"].op = load.next /\ call["load"].snap = s
      /\ call["load"].batch = load.batch
      /\ load.next \in {"write", "carryForward", "commit"}
      /\ call["load"].at \in Trying => call["load"].on \in Followers
      /\ status[Primary][s] # "dropped" /\ \A x \in Followers : status[x][s] # "dropped"
  BY TurningIs DEF CallersOK, Turning, Mending
<1>1. UNCHANGED <<rows, load>>
  BY <1>0 DEF Ask, MarkCommitted, PrimaryCommits, HoldBack, Announce, FollowerCommits,
     FollowerFails, FollowerRefuses, Settle, Supersede, Return, stores, loader, ReplayedStages
<1>2. misled' = misled
  <2>1. ~At("load", "carryForward", "attempt")
    BY <1>0 DEF Ask, MarkCommitted, PrimaryCommits, HoldBack, Announce, Settle, Supersede, Return, At
  <2> QED
    BY <1>0, <2>1, MisledByLoader
<1>3. \A d \in journal : d.snap = s /\ d.stage \in ReplayedStages => d \in journal'
  <2>1. CASE \E f \in Followers : HoldBack("load", f) \/ Announce("load", f)
    BY <2>1 DEF HoldBack, Announce
  <2>2. CASE Settle("load")
    <3>1. CASE call["load"].ok
      <4>1. journal' = journal \ {Key(call["load"])}
        BY <2>2, <3>1 DEF Settle
      <4>2. Key(call["load"]).stage \notin ReplayedStages
        BY <1>0, <2>2, <3>1 DEF Key, ReplayedStages, Settle, HoldBack, Announce, Supersede, Return,
           Ask, MarkCommitted, PrimaryCommits, FollowerCommits, FollowerFails, FollowerRefuses, At
      <4> QED
        BY <4>1, <4>2
    <3> QED
      BY <2>2, <3>1 DEF Settle
  <2>3. CASE Supersede("load")
    BY <1>0, <2>3 DEF Supersede
  <2> QED
    BY <2>1, <2>2, <2>3 DEF Ask, MarkCommitted, PrimaryCommits, FollowerCommits, FollowerFails,
       FollowerRefuses, Return, ledger
<1>4. /\ \A z \in Stores : status'[z][s] # "dropped"
      /\ \A z \in Stores : served'[z] = s => served[z] = s \/ load.next = "commit"
  <2>1. CASE PrimaryCommits \/ FollowerCommits("load")
    <3>1. PICK z \in Stores : StoreCommit(z, s)
      BY <1>0, <2>1 DEF PrimaryCommits, FollowerCommits, At, Trying
    <3>2. load.next = "commit"
      BY <1>0, <2>1 DEF PrimaryCommits, FollowerCommits, At
    <3> QED
      BY <1>0, <3>1, <3>2, CommitIs DEF Stores
  <2>2. CASE UNCHANGED <<status, served>>
    BY <1>0, <2>2 DEF Stores
  <2> QED
    BY <1>0, <2>1, <2>2 DEF Ask, MarkCommitted, HoldBack, Announce, FollowerFails, FollowerRefuses,
       Settle, Supersede, Return, stores, ReplayedStages, Torn
<1>5. call'["load"].at = "settle" => load.next = "commit"
  <2>1. CASE Settle("load") /\ call["load"].ok
    BY <1>0, <2>1 DEF Settle, Goes, CallRecord
  <2>2. CASE Settle("load") /\ ~call["load"].ok
    BY <1>0, <2>2 DEF Settle, CallRecord
  <2>3. CASE Return("load")
    <3>1. PICK at \in {"primary", "threw", "returned"} : Goes("load", at)
      BY <2>3 DEF Return
    <3> QED
      BY <1>0, <3>1 DEF Goes, CallRecord
  <2>4. CASE MarkCommitted \/ PrimaryCommits \/ Supersede("load")
    <3>1. PICK at \in {"mark", "follow"} : Goes("load", at)
      BY <2>4 DEF MarkCommitted, PrimaryCommits, Supersede
    <3> QED
      BY <1>0, <3>1 DEF Goes, CallRecord
  <2>5. CASE Ask
    <3>1. PICK owed, at : /\ at \in {"threw", "primary"}
                          /\ call' = [call EXCEPT !["load"].owed = owed, !["load"].at = at]
      BY <2>5 DEF Ask
    <3> QED
      BY <1>0, <3>1 DEF CallRecord
  <2>6. CASE \E f \in Followers : HoldBack("load", f) \/ Announce("load", f)
    <3>1. PICK f \in Followers : HoldBack("load", f) \/ Announce("load", f)
      BY <2>6
    <3>2. CASE HoldBack("load", f)
      BY <1>0, <3>2 DEF HoldBack, At, CallRecord
    <3>3. CASE Announce("load", f)
      BY <1>0, <3>3 DEF Announce, CallRecord
    <3> QED
      BY <3>1, <3>2, <3>3
  <2> QED
    BY <2>1, <2>2, <2>3, <2>4, <2>5, <2>6
<1>6. ASSUME NEW x \in Followers, call'["load"].at # "primary", x \notin call'["load"].todo,
             load.next \in ReplayedStages
      PROVE  \/ call["load"].at # "primary" /\ x \notin call["load"].todo
             \/ Recorded(x, s, load.next, load.batch)'
  <2>0. load.next # "commit"
    BY <1>6 DEF ReplayedStages
  <2>1. CASE \E f \in Followers : Announce("load", f)
    <3>1. PICK f \in Followers : Announce("load", f)
      BY <2>1
    <3>2. call'["load"].todo = call["load"].todo \ {f} /\ call["load"].at # "primary"
      BY <1>0, <3>1 DEF Announce, CallRecord
    <3>3. Recorded(f, s, load.next, load.batch)'
      <4>1. Key([call["load"] EXCEPT !.on = f]) \in journal'
        BY <3>1 DEF Announce
      <4>2. Key([call["load"] EXCEPT !.on = f])
              = [follower |-> f, snap |-> s, stage |-> load.next, batch |-> load.batch]
        BY <1>0 DEF Key, CallRecord
      <4> QED
        BY <1>1, <4>1, <4>2 DEF Recorded
    <3> QED
      BY <1>6, <3>2, <3>3
  <2>2. CASE Settle("load")
    <3>1. ~call["load"].ok
      BY <1>0, <2>0, <2>2 DEF Settle, HoldBack, Announce, Supersede, Return,
         Ask, MarkCommitted, PrimaryCommits, FollowerCommits, FollowerFails, FollowerRefuses, At
    <3>2. call'["load"].todo = call["load"].todo /\ call["load"].at # "primary"
      BY <1>0, <2>2, <3>1 DEF Settle, CallRecord
    <3> QED
      BY <1>6, <3>2
  <2>3. CASE Return("load")
    <3>1. PICK at \in {"primary", "threw", "returned"} : Goes("load", at)
      BY <2>3 DEF Return
    <3>2. call'["load"].todo = call["load"].todo /\ call["load"].at # "primary"
      BY <1>0, <2>3, <3>1 DEF Goes, CallRecord, Return
    <3> QED
      BY <1>6, <3>2
  <2> QED
    BY <1>0, <2>0, <2>1, <2>2, <2>3 DEF Ask, MarkCommitted, PrimaryCommits, HoldBack, Supersede, At
<1> QED
  <2>1. \A g \in Followers : Mending(g, s)'
    <3>1. \A x \in Followers : /\ status'[x][s] # "dropped"
                               /\ served'[x] = s => served[x] = s \/ load.next = "commit"
      BY <1>0, <1>4
    <3> QED
      BY <1>1, <1>2, <1>3, <3>1, <1>5, <1>6, MendingQuiet
  <2> QED
    BY <1>0, <1>4, <2>1
\* A merge that is heard to have gone well brought what the primary's brought, or is noted.
LEMMA CarryIsTaken ==
  ASSUME NEW s \in Ids, Turning(s), NEW x \in Followers, x = call["load"].on,
         FollowerCarries("load"), Tried("load", TRUE),
         Base(x, s) = call["load"].from, Total(x, s) = call["load"].total
  PROVE  MergeTaken(x, s)'
<1>0. /\ StoresOK /\ CallersOK /\ call \in [Actors -> CallRecord] /\ "load" \in Actors
      /\ Primary \in Stores /\ x \in Stores /\ x # Primary /\ TypeInv /\ MCNext
      /\ UNCHANGED <<replay, load>>
      /\ call["load"].op = load.next /\ call["load"].snap = s /\ load.batches \in Batches
      /\ load.next = "carryForward" /\ load.merge /\ call["load"].at = "attempt"
      /\ StoreCarry(x, s)
  BY TurningIs DEF CallersOK, Turning, FollowerCarries, At, loader
<1>1. /\ AtWork(s) /\ WorkPure(s) /\ WorkDue(s) /\ Carrying(s)
  BY TurningIs, AtWorkIs
<1>2. /\ Base(Primary, s) = call["load"].from /\ Total(Primary, s) = call["load"].total
      /\ Merged(Primary, s)
  BY <1>0, <1>1 DEF Carrying
<1>3. /\ Only(x, s) /\ CarriedOf(x, s)' = {Carry} \X Survivors(x, s)
  BY <1>0, CarryIs
<1>4. CarriedOf(Primary, s)' = {Carry} \X Survivors(Primary, s)
  <2>1. CarriedOf(Primary, s)' = CarriedOf(Primary, s)
    BY <1>0, <1>3, FollowerTouches
  <2> QED
    BY <1>2, <2>1 DEF Merged
<1>5. ASSUME Survivors(x, s) = Survivors(Primary, s) PROVE MergeTaken(x, s)'
  <2>1. CarriedOf(x, s)' = CarriedOf(Primary, s)'
    BY <1>3, <1>4, <1>5
  <2>2. SameBatch(x, s, Carry)'
    BY <2>1 DEF CarriedOf, SameBatch
  <2> QED
    BY <2>2 DEF MergeTaken
<1>6. CASE x \in Required
  <2>1. ASSUME NEW z \in {x, Primary}
        PROVE  Brought(z, s) = {<<b, <<b, s>>>> : b \in 1 .. load.batches}
    <3>1. z \in Keepers /\ z \in Stores
      BY <1>0, <1>6 DEF Keepers
    <3>2. Pure(z, s) /\ \A b \in 1 .. load.batches : Written(z, b, s)
      BY <1>0, <1>1, <3>1 DEF WorkPure, WorkDue, Due
    <3> QED
      BY <1>0, <3>1, <3>2, FullBrought
  <2>2. Brought(x, s) = Brought(Primary, s)
    BY <2>1
  <2>3. \A t \in Ids \ {s} : Held(x, t)
    BY <1>6, TurningIs DEF Turning, LoadInv, AllHeld
  <2>4. Survivors(x, s) \subseteq Survivors(Primary, s)
    BY <1>0, <1>2, <2>2, <2>3, SurvivorsHeld
  <2>5. Survivors(x, s) = Survivors(Primary, s)
    BY <1>0, <1>2, <2>2, <2>4, SurvivorsSame
  <2> QED
    BY <1>5, <2>5
<1>7. CASE x \notin Required /\ Misleads("load")
  <2>1. <<x, s>> \in misled'
    BY <1>0, <1>7, MisledByLoader
  <2> QED
    BY <1>7, <2>1 DEF MergeTaken, Misled
<1>8. CASE ~Misleads("load")
  <2>1. Merging("load") /\ call'["load"].ok
    BY <1>0 DEF Merging, At, Tried, CallRecord
  <2>2. /\ call["load"].from = 0 \/ SameRows(x, call["load"].from)
        /\ OwnBatches(x, s) = OwnBatches(Primary, s)
    BY <1>0, <1>8, <2>1 DEF Misleads
  <2>3. Keys(x, s) = Keys(Primary, s)
    BY <2>2, BatchesAre DEF Keys
  <2>4. CASE call["load"].from = 0
    BY <1>2, <1>5, <2>4, SurvivorsIs
  <2>5. CASE call["load"].from # 0
    <3>1. RowsOf(x, call["load"].from) = RowsOf(Primary, call["load"].from)
      BY <2>2, <2>5 DEF SameRows
    <3>2. Survivors(x, s) = Survivors(Primary, s)
      BY <1>2, <2>3, <2>5, <3>1, SurvivorsIs
    <3> QED
      BY <1>5, <3>2
  <2> QED
    BY <2>4, <2>5
<1> QED
  BY <1>6, <1>7, <1>8

\* A batch that is heard to have been written is the primary's.
LEMMA WriteIsTaken ==
  ASSUME NEW s \in Ids, Turning(s), NEW x \in Followers, FollowerWrites("load"),
         x = call["load"].on
  PROVE  Pure(x, s)' /\ Only(x, s) /\ SameBatch(x, s, load.batch)'
<1>0. /\ StoresOK /\ StoresOK' /\ x \in Stores /\ Primary \in Stores /\ x # Primary
      /\ UNCHANGED load /\ load.batches \in Batches /\ load.next = "write"
      /\ load.batch \in 1 .. load.batches /\ call["load"].at = "attempt"
      /\ StoreWrite(x, s, load.batch)
      /\ Pure(x, s) /\ Pure(Primary, s) /\ AtWork(s)
  BY TurningIs DEF FollowerWrites, At, loader, Mending
<1>1. Only(x, s) /\ Written(x, load.batch, s)' /\ Pure(x, s)'
  BY <1>0, WriteIs
<1>2. BatchOf(x, s, load.batch)' = {<<load.batch, <<load.batch, s>>>>}
  <2>1. PICK b \in 1 .. load.batches : b = load.batch
    BY <1>0
  <2>2. Written(x, b, s)'
    BY <1>0, <1>1, <2>1 DEF Written
  <2>3. BatchOf(x, s, b)' = {<<b, <<b, s>>>>}
    BY <1>0, <1>1, <2>1, <2>2, PureBatchNext
  <2> QED
    BY <1>0, <2>1, <2>3 DEF BatchOf
<1>3. Written(Primary, load.batch, s)
  BY <1>0, AtWorkIs DEF Writing
<1>4. BatchOf(Primary, s, load.batch) = {<<load.batch, <<load.batch, s>>>>}
  BY <1>0, <1>3, PureBatch
<1>5. rows'[Primary][s] = rows[Primary][s]
  BY <1>0, <1>1 DEF Only
<1>6. SameBatch(x, s, load.batch)'
  BY <1>0, <1>2, <1>4, <1>5 DEF SameBatch, BatchOf
<1> QED
  BY <1>1, <1>6

\* The attempts at a follower of a write or of a merge.
LEMMA MendedByAttempt ==
  ASSUME NEW s \in Ids, Turning(s), load.next \in ReplayedStages,
         FollowerWrites("load") \/ FollowerCarries("load") \/ FollowerFails("load")
           \/ FollowerRefuses("load")
  PROVE  status'[Primary][s] # "dropped" /\ \A g \in Followers : Mending(g, s)'
<1>0. PICK x \in Followers :
        /\ x = call["load"].on /\ x \in Stores /\ Primary \in Stores /\ x # Primary
        /\ StoresOK /\ call["load"].at = "attempt"
        /\ call["load"].op = load.next /\ call["load"].snap = s
        /\ call["load"].batch = load.batch
        /\ UNCHANGED <<load, journal, served>> /\ load.batches \in Batches
        /\ load.next = "write" => load.batch \in 1 .. load.batches
        /\ load.next = "carryForward" => load.merge
        /\ Pure(x, s) /\ status[x][s] # "dropped" /\ status[Primary][s] # "dropped"
  <2>1. call["load"].at = "attempt" /\ UNCHANGED <<load, journal, served>>
    BY DEF FollowerWrites, FollowerCarries, FollowerFails, FollowerRefuses, At, stores, ledger, loader
  <2> QED
    BY <2>1, TurningIs DEF Trying, Mending
<1> DEFINE hit == IF load.next = "write" THEN load.batch ELSE Carry
<1>1. ASSUME NEW ok, Tried("load", ok), Only(x, s), Pure(x, s)', status'[x][s] # "dropped",
             \A c : c # hit => BatchOf(x, s, c)' = BatchOf(x, s, c),
             ok => /\ load.next = "write" => SameBatch(x, s, load.batch)'
                   /\ load.next = "carryForward" => MergeTaken(x, s)'
      PROVE  status'[Primary][s] # "dropped" /\ \A g \in Followers : Mending(g, s)'
  <2>1. status'[Primary][s] = status[Primary][s]
    BY <1>0, <1>1 DEF Only
  <2>2. \A g \in Followers : Mending(g, s)'
    BY <1>0, <1>1, MendingAttempt
  <2> QED
    BY <1>0, <2>1, <2>2
<1>2. CASE UNCHANGED <<rows, status>> /\ Tried("load", FALSE)
  <2>1. Only(x, s) /\ Pure(x, s)' /\ \A c : BatchOf(x, s, c)' = BatchOf(x, s, c)
    BY <1>0, <1>2 DEF Only, Pure, BatchOf
  <2> QED
    BY <1>0, <1>1, <1>2, <2>1
<1>3. CASE FollowerWrites("load")
  <2>1. PICK ok : Tried("load", ok)
    BY <1>3 DEF FollowerWrites
  <2>2. load.next = "write" /\ StoreWrite(x, s, load.batch)
    BY <1>0, <1>3 DEF FollowerWrites, At
  <2>3. Pure(x, s)' /\ Only(x, s) /\ SameBatch(x, s, load.batch)'
    BY <1>0, <1>3, WriteIsTaken
  <2>4. status'[x][s] # "dropped"
    BY <1>0, <2>2, OpenIs DEF StoreWrite
  <2>5. \A c : c # hit => BatchOf(x, s, c)' = BatchOf(x, s, c)
    BY <1>0, <2>2, PutBatches DEF StoreWrite
  <2> QED
    BY <1>1, <2>1, <2>2, <2>3, <2>4, <2>5
<1>4. CASE FollowerCarries("load")
  <2>1. \/ Tried("load", FALSE)
        \/ /\ Tried("load", TRUE)
           /\ Base(x, s) = call["load"].from /\ Total(x, s) = call["load"].total
    <3>1. PICK heard \in BOOLEAN :
            Tried("load", /\ heard
                          /\ Base(call["load"].on, call["load"].snap) = call["load"].from
                          /\ Total(call["load"].on, call["load"].snap) = call["load"].total)
      BY <1>4 DEF FollowerCarries
    <3> DEFINE ok == /\ heard
                     /\ Base(call["load"].on, call["load"].snap) = call["load"].from
                     /\ Total(call["load"].on, call["load"].snap) = call["load"].total
    <3>2. CASE ok = TRUE
      <4>1. Tried("load", TRUE)
        BY <3>1, <3>2
      <4>2. Base(x, s) = call["load"].from /\ Total(x, s) = call["load"].total
        BY <1>0, <3>2
      <4> QED
        BY <4>1, <4>2
    <3>3. CASE ok = FALSE
      BY <3>1, <3>3
    <3>4. ok = TRUE \/ ok = FALSE
      OBVIOUS
    <3> QED
      BY <3>2, <3>3, <3>4
  <2>2. load.next = "carryForward" /\ StoreCarry(x, s)
    BY <1>0, <1>4 DEF FollowerCarries, At
  <2>3. Only(x, s) /\ Pure(x, s)'
    BY <1>0, <2>2, CarryIs
  <2>4. status'[x][s] # "dropped"
    BY <1>0, <2>2, OpenIs DEF StoreCarry
  <2>5. \A c : c # hit => BatchOf(x, s, c)' = BatchOf(x, s, c)
    BY <1>0, <2>2, PutBatches DEF StoreCarry
  <2>6. CASE Tried("load", FALSE)
    BY <1>1, <2>3, <2>4, <2>5, <2>6
  <2>7. CASE /\ Tried("load", TRUE)
             /\ Base(x, s) = call["load"].from /\ Total(x, s) = call["load"].total
    <3>1. MergeTaken(x, s)'
      BY <1>0, <1>4, <2>7, CarryIsTaken
    <3>2. load.next # "write"
      BY <2>2
    <3> QED
      BY <1>1, <2>3, <2>4, <2>5, <2>7, <3>1, <3>2
  <2> QED
    BY <2>1, <2>6, <2>7
<1>5. CASE FollowerFails("load") /\ ~UNCHANGED <<rows, status>>
  <2>1. Tried("load", FALSE) /\ Torn(x, s, hit)
    BY <1>0, <1>5 DEF FollowerFails
  <2>2. Only(x, s) /\ Pure(x, s)' /\ status' = status
    BY <1>0, <2>1, TornIs
  <2>3. \A c : c # hit => BatchOf(x, s, c)' = BatchOf(x, s, c)
    BY <1>0, <2>1, PutBatches DEF Torn
  <2> QED
    BY <1>0, <1>1, <2>1, <2>2, <2>3
<1> QED
  BY <1>2, <1>3, <1>4, <1>5 DEF FollowerFails, FollowerRefuses, stores
\* A batch the primary writes again, once it serves the load, is the one it has.
LEMMA MendedByPrimary ==
  ASSUME NEW s \in Ids, Turning(s), PrimaryWrites \/ PrimaryCarries
  PROVE  status'[Primary][s] # "dropped" /\ \A g \in Followers : Mending(g, s)'
<1>0. /\ StoresOK /\ CallersOK /\ call \in [Actors -> CallRecord] /\ "load" \in Actors
      /\ Primary \in Stores /\ Followers \subseteq Stores /\ Primary \notin Followers
      /\ TypeInv /\ MCNext /\ UNCHANGED <<replay, load, served, journal>>
      /\ call["load"].op = load.next /\ call["load"].snap = s /\ call["load"].at = "primary"
      /\ call["load"].batch = load.batch /\ load.batches \in Batches
      /\ load.next \in {"write", "carryForward"}
      /\ load.next = "write" => load.batch \in 1 .. load.batches
      /\ load.next = "carryForward" => load.merge
      /\ status[Primary][s] # "dropped" /\ \A g \in Followers : Mending(g, s)
      /\ Pure(Primary, s) /\ Pace /\ ServedKnown
  BY TurningIs DEF CallersOK, Turning, PrimaryWrites, PrimaryCarries, At, loader, ledger
<1>1. call'["load"].at = "follow" /\ call'["load"].todo = Followers
  <2>1. call["load"].todo = Followers
    BY <1>0 DEF Pace
  <2>2. CASE PrimaryWrites
    BY <1>0, <2>1, <2>2 DEF PrimaryWrites, Goes, CallRecord
  <2>3. CASE PrimaryCarries
    <3>1. PICK from, total : call' = [call EXCEPT !["load"].from = from,
                                     !["load"].total = total, !["load"].at = "follow"]
      BY <2>3 DEF PrimaryCarries
    <3> QED
      BY <1>0, <2>1, <3>1 DEF CallRecord
  <2> QED
    BY <2>2, <2>3
<1>2. misled' = misled
  <2>1. ~At("load", "carryForward", "attempt")
    BY <1>0 DEF At
  <2> QED
    BY <1>0, <2>1, MisledByLoader
<1>3. AtWork(s) /\ Committed(s) /\ WorkDue(s)
  BY TurningIs, AtWorkIs
<1>4. \/ load.next = "write" /\ StoreWrite(Primary, s, load.batch)
      \/ load.next = "carryForward" /\ StoreCarry(Primary, s)
  BY <1>0 DEF PrimaryWrites, PrimaryCarries, At
<1>5. Only(Primary, s) /\ status'[Primary][s] # "dropped"
  <2>1. Only(Primary, s)
    BY <1>0, <1>4, PutTouches
  <2>2. Opened(Primary, s)
    BY <1>4 DEF StoreWrite, StoreCarry
  <2> QED
    BY <1>0, <2>1, <2>2, OpenIs
<1>6. ASSUME NEW g \in Followers
      PROVE  /\ rows'[g][s] = rows[g][s] /\ status'[g][s] = status[g][s]
             /\ served[g] = s => status[Primary][s] = "committed"
  BY <1>0, <1>5 DEF Only, ServedKnown
<1>7. ASSUME NEW b \in 1 .. load.batches, Due(b) \/ status[Primary][s] = "committed"
      PROVE  BatchOf(Primary, s, b)' = BatchOf(Primary, s, b)
  <2>1. b # Carry
    BY DEF Carry
  <2>2. CASE load.next = "carryForward"
    BY <1>0, <1>4, <2>1, <2>2, PutBatches DEF StoreCarry
  <2>3. CASE load.next = "write" /\ b # load.batch
    BY <1>0, <1>4, <2>3, PutBatches DEF StoreWrite
  <2>4. CASE load.next = "write" /\ b = load.batch
    <3>1. ~Due(b)
      BY <1>0, <2>4 DEF Due, Batches
    <3>2. \A c \in 1 .. load.batches : Written(Primary, c, s)
      BY <1>3, <1>7, <3>1 DEF Committed
    <3>3. Brought(Primary, s)' = Brought(Primary, s)
      BY <1>0, <1>4, <2>4, <3>2, WriteIs
    <3>4. BatchOf(Primary, s, b) = {y \in Brought(Primary, s) : y[1] = b}
      BY <2>1 DEF BatchOf, Brought
    <3>5. BatchOf(Primary, s, b)' = {y \in Brought(Primary, s)' : y[1] = b}
      BY <2>1 DEF BatchOf, Brought
    <3> QED
      BY <3>3, <3>4, <3>5
  <2> QED
    BY <1>0, <2>2, <2>3, <2>4
<1>8. ASSUME load.next = "write" \/ (status[Primary][s] = "committed" /\ load.merge)
      PROVE  BatchOf(Primary, s, Carry)' = BatchOf(Primary, s, Carry)
  <2>1. CASE load.next = "write"
    <3>1. load.batch # Carry
      BY <1>0, <2>1 DEF Carry
    <3> QED
      BY <1>0, <1>4, <2>1, <3>1, PutBatches DEF StoreWrite
  <2>2. CASE load.next # "write"
    <3>1. Merged(Primary, s)
      BY <1>3, <1>8, <2>2 DEF Committed
    <3>2. CarriedOf(Primary, s)' = {Carry} \X Survivors(Primary, s)
      BY <1>0, <1>4, <2>2, CarryIs
    <3>3. CarriedOf(Primary, s)' = CarriedOf(Primary, s)
      BY <3>1, <3>2 DEF Merged
    <3> QED
      BY <3>3 DEF CarriedOf, BatchOf
  <2> QED
    BY <2>1, <2>2
<1>9. ASSUME NEW g \in Followers PROVE Mending(g, s)'
  <2>1. ASSUME NEW b, BatchOf(Primary, s, b)' = BatchOf(Primary, s, b), SameBatch(g, s, b)
        PROVE  SameBatch(g, s, b)'
    BY <1>6, <2>1 DEF SameBatch, BatchOf
  <2>2. /\ \A b : Recorded(g, s, "write", b)' = Recorded(g, s, "write", b)
        /\ Recorded(g, s, "carryForward", 0)' = Recorded(g, s, "carryForward", 0)
    BY <1>0 DEF Recorded
  <2>3. ASSUME NEW b \in 1 .. load.batches, BatchHeld(g, s, b), Due(b) \/ served[g] = s
        PROVE  BatchHeld(g, s, b)'
    BY <1>6, <1>7, <2>1, <2>2, <2>3 DEF BatchHeld
  <2>4. ASSUME MergeHeld(g, s), load.next = "commit" \/ served[g] = s PROVE MergeHeld(g, s)'
    <3>1. load.next # "commit" /\ served[g] = s
      BY <1>0, <2>4
    <3>2. BatchOf(Primary, s, Carry)' = BatchOf(Primary, s, Carry)
      BY <1>0, <1>6, <1>8, <3>1
    <3>3. SameBatch(g, s, Carry) => SameBatch(g, s, Carry)'
      BY <2>1, <3>2
    <3> QED
      BY <1>2, <2>2, <2>4, <3>3 DEF MergeHeld, MergeTaken, Misled
  <2>5. Mending(g, s) /\ Pure(g, s)' /\ status'[g][s] # "dropped"
    BY <1>0, <1>6 DEF Mending, Pure
  <2>6. /\ load.next \in {"write", "carryForward", "commit"}
        /\ ~(call'["load"].at # "primary" /\ g \notin call'["load"].todo)
        /\ call'["load"].at # "settle" /\ call["load"].at = "primary" /\ UNCHANGED <<load, served>>
    BY <1>0, <1>1
  <2> QED
    BY <1>0, <2>3, <2>4, <2>5, <2>6, MendingFrame
<1> QED
  BY <1>5, <1>9

\* A debt about a batch or a merge of the load in hand is taken off when it is paid.
LEMMA MendedBySettle ==
  ASSUME NEW s \in Ids, Turning(s), Settle("load"), call["load"].ok, load.next \in ReplayedStages
  PROVE  status'[Primary][s] # "dropped" /\ \A g \in Followers : Mending(g, s)'
<1>0. PICK x \in Followers :
        /\ x = call["load"].on /\ call \in [Actors -> CallRecord] /\ "load" \in Actors
        /\ TypeInv /\ MCNext /\ UNCHANGED <<replay, load, rows, status, served>>
        /\ call["load"].op = load.next /\ call["load"].snap = s /\ call["load"].at = "settle"
        /\ call["load"].batch = load.batch /\ load.next \in {"write", "carryForward"}
        /\ load.next = "write" => load.batch \in 1 .. load.batches
        /\ load.next # "write" => load.batch = 0
        /\ status[Primary][s] # "dropped" /\ \A g \in Followers : Mending(g, s)
        /\ journal' = journal \ {Key(call["load"])}
  BY TurningIs DEF CallersOK, Turning, Settle, loader, stores, Trying, ReplayedStages
<1>1. call'["load"].at = "follow" /\ call'["load"].todo = call["load"].todo
  BY <1>0 DEF Settle, Goes, CallRecord
<1>2. misled' = misled
  <2>1. ~At("load", "carryForward", "attempt")
    BY <1>0 DEF At
  <2> QED
    BY <1>0, <2>1, MisledByLoader
<1>3. Key(call["load"])
        = [follower |-> x, snap |-> s, stage |-> load.next, batch |-> load.batch]
  BY <1>0 DEF Key
<1>4. ASSUME NEW g \in Followers PROVE Mending(g, s)'
  <2>1. Mending(g, s) /\ Pure(g, s)' /\ status'[g][s] # "dropped"
    BY <1>0 DEF Mending, Pure
  <2>2. ASSUME NEW stage, NEW b, Recorded(g, s, stage, b),
               ~(g = x /\ stage = load.next /\ b = load.batch)
        PROVE  Recorded(g, s, stage, b)'
    BY <1>0, <1>3, <2>2 DEF Recorded
  <2>3. /\ \A b : SameBatch(g, s, b) => SameBatch(g, s, b)'
        /\ MergeTaken(g, s) => MergeTaken(g, s)'
    BY <1>0, <1>2 DEF SameBatch, MergeTaken, Misled
  <2>4. ASSUME NEW b \in 1 .. load.batches, BatchHeld(g, s, b) PROVE BatchHeld(g, s, b)'
    <3>1. CASE g = x /\ load.next = "write" /\ b = load.batch
      BY <1>0, <2>1, <2>3, <3>1 DEF Mending, BatchHeld
    <3>2. CASE ~(g = x /\ load.next = "write" /\ b = load.batch)
      BY <2>2, <2>3, <2>4, <3>2 DEF BatchHeld
    <3> QED
      BY <3>1, <3>2
  <2>5. ASSUME MergeHeld(g, s) PROVE MergeHeld(g, s)'
    <3>1. CASE g = x /\ load.next = "carryForward"
      BY <1>0, <2>1, <2>3, <3>1 DEF Mending, MergeHeld
    <3>2. CASE ~(g = x /\ load.next = "carryForward")
      BY <2>2, <2>3, <2>5, <3>2 DEF MergeHeld
    <3> QED
      BY <3>1, <3>2
  <2>6. /\ load.next \in {"write", "carryForward", "commit"}
        /\ call'["load"].at # "primary" /\ g \notin call'["load"].todo =>
             call["load"].at # "primary" /\ g \notin call["load"].todo
        /\ call'["load"].at # "settle" /\ UNCHANGED <<load, served>>
    BY <1>0, <1>1
  <2> QED
    BY <1>0, <2>1, <2>4, <2>5, <2>6, MendingFrame
<1> QED
  BY <1>0, <1>4

\* Every step of a call of the load in hand.
LEMMA MendedByCall ==
  ASSUME NEW s \in Ids, Turning(s), FanoutCall("load") \/ PrimaryStep
  PROVE  /\ Pure(Primary, s)' /\ status'[Primary][s] # "dropped"
         /\ \A g \in Followers : Mending(g, s)'
<1>0. /\ TypeInv /\ StoresOK /\ CallersOK /\ call["load"].op = load.next
      /\ load.next \in {"write", "carryForward", "commit"} /\ "load" \in Actors
      /\ s = load.snap /\ load.next # "none"
  BY TurningIs
<1>1. UNCHANGED load
  BY <1>0, FollowerProceeds, PrimaryProceeds DEF Proceeds
<1>2. Pure(Primary, s)'
  <2>1. AtWork(s)'
    BY <1>0, <1>1 DEF Turning, LoadInv, Work
  <2> QED
    BY <2>1 DEF AtWork, Keepers
<1>3. status'[Primary][s] # "dropped" /\ \A g \in Followers : Mending(g, s)'
  <2>1. ~PrimaryEnsures /\ ~PrimaryDrops /\ ~Forget /\ ~FollowerEnsures("load") /\ ~FollowerDrops("load")
    BY <1>0 DEF PrimaryEnsures, PrimaryDrops, Forget, FollowerEnsures, FollowerDrops, At
  <2>2. CASE FollowerWrites("load") \/ FollowerCarries("load")
    <3>1. load.next \in ReplayedStages
      BY <1>0, <2>2 DEF FollowerWrites, FollowerCarries, At, ReplayedStages
    <3> QED
      BY <2>2, <3>1, MendedByAttempt
  <2>3. CASE FollowerFails("load") \/ FollowerRefuses("load")
    <3>1. CASE load.next \in ReplayedStages
      BY <2>3, <3>1, MendedByAttempt
    <3>2. CASE load.next = "commit"
      BY <2>3, <3>2, MendedQuietly
    <3> QED
      BY <1>0, <3>1, <3>2 DEF ReplayedStages
  <2>4. CASE Settle("load")
    <3>1. CASE call["load"].ok /\ load.next \in ReplayedStages
      BY <2>4, <3>1, MendedBySettle
    <3>2. CASE ~(call["load"].ok /\ load.next \in ReplayedStages)
      BY <1>0, <2>4, <3>2, MendedQuietly DEF ReplayedStages
    <3> QED
      BY <3>1, <3>2
  <2>5. CASE FollowerCommits("load")
    <3>1. load.next = "commit"
      BY <1>0, <2>5 DEF FollowerCommits, At
    <3> QED
      BY <2>5, <3>1, MendedQuietly
  <2>6. CASE PrimaryWrites \/ PrimaryCarries
    BY <2>6, MendedByPrimary
  <2>7. CASE \/ Ask \/ MarkCommitted \/ PrimaryCommits \/ Supersede("load") \/ Return("load")
             \/ \E f \in Followers : HoldBack("load", f) \/ Announce("load", f)
    BY <2>7, MendedQuietly
  <2> QED
    BY <2>1, <2>2, <2>3, <2>4, <2>5, <2>6, <2>7 DEF FanoutCall, PrimaryStep
<1> QED
  BY <1>2, <1>3
LEMMA MisledQuiet ==
  ASSUME TypeInv, MCNext, UNCHANGED replay, call'["load"].at # "settle"
  PROVE  misled' = misled
<1>1. ~Merging("load")
  BY DEF Merging
<1>2. ~Misleads("load")
  BY <1>1 DEF Misleads
<1> QED
  BY <1>1, <1>2, MisledIs

\* Between its calls, and when it is made again, a load keeps what followers hold or owe.
LEMMA MendingMovesOn ==
  ASSUME NEW g, NEW s, Mending(g, s), UNCHANGED <<rows, status, served, journal, misled>>,
         load'.batches = load.batches, load'.merge = load.merge,
         load.next \in {"write", "carryForward", "commit"},
         load'.next \in {"write", "carryForward", "commit"},
         call'["load"].at \in {"ask", "primary"},
         load'.next # "commit" => call'["load"].at = "primary",
         \A b \in 1 .. load.batches : Due(b)' =>
           \/ Due(b)
           \/ /\ load.next = "write" /\ b = load.batch
              /\ call["load"].at # "primary" /\ g \notin call["load"].todo,
         load'.next = "commit" /\ load.merge =>
           /\ load.next = "carryForward"
           /\ call["load"].at # "primary" /\ g \notin call["load"].todo
  PROVE  Mending(g, s)'
<1>1. /\ \A b : BatchHeld(g, s, b) => BatchHeld(g, s, b)'
      /\ MergeHeld(g, s) => MergeHeld(g, s)'
  BY HeldStays
<1>2. Pure(g, s)' /\ status'[g][s] # "dropped"
  BY DEF Mending, Pure
<1>3. \A b \in 1 .. load'.batches : Due(b)' => BatchHeld(g, s, b)'
  <2>1. ASSUME NEW b \in 1 .. load.batches, Due(b)' PROVE BatchHeld(g, s, b)
    BY <2>1 DEF Mending
  <2> QED
    BY <1>1, <2>1
<1>4. load'.next = "commit" /\ load'.merge => MergeHeld(g, s)'
  BY <1>1 DEF Mending
<1>5. served'[g] = s => (\A b \in 1 .. load'.batches : BatchHeld(g, s, b)')
                        /\ (load'.merge => MergeHeld(g, s)')
  BY <1>1 DEF Mending, BatchesHeld
<1> QED
  BY <1>2, <1>3, <1>4, <1>5 DEF Mending, BatchesHeld

LEMMA MendedByAdvance ==
  ASSUME NEW s \in Ids, Turning(s), Advance, load'.next # "none"
  PROVE  load'.snap = s /\ \A g \in Followers : Mending(g, s)'
<1>0. /\ TypeInv /\ MCNext /\ UNCHANGED replay /\ CallersOK /\ s = load.snap
      /\ load.batches \in Batches
      /\ load.next \in {"write", "carryForward", "commit"}
      /\ load.next = "write" => load.batch \in 1 .. load.batches
      /\ load.next = "carryForward" => load.merge
      /\ call["load"].op = load.next /\ Pace /\ \A g \in Followers : Mending(g, s)
      /\ call["load"].at = "returned" /\ UNCHANGED <<rows, status, served, journal>>
      /\ Calls(load') /\ load' \in LoadRecord /\ load \in LoadRecord
  BY TurningIs, LoaderTypes DEF Turning, Advance, stores, ledger, CallersOK
<1>1. PICK after \in {"write", "carryForward", "commit"} :
        /\ load' = [load EXCEPT !.next = after,
                                !.batch = IF after = "write" THEN load.batch + 1 ELSE 0]
        /\ after = "write" => load.next = "write" /\ load.batch < load.batches
        /\ after = "carryForward" => load.next = "write" /\ ~(load.batch < load.batches)
        /\ after = "commit" => \/ load.next = "write" /\ ~(load.batch < load.batches) /\ ~load.merge
                               \/ load.next = "carryForward"
  <2> DEFINE next == IF load.next = "write" /\ load.batch < load.batches THEN "write"
                     ELSE IF load.next = "write" /\ load.merge THEN "carryForward"
                     ELSE IF load.next = "commit" THEN "none" ELSE "commit"
  <2>1. load' = [load EXCEPT !.next = next,
                             !.batch = IF next = "write" THEN load.batch + 1 ELSE 0]
    BY DEF Advance
  <2>2. load'.next = next
    BY <1>0, <2>1 DEF LoadRecord
  <2>3. /\ next \in {"write", "carryForward", "commit"}
        /\ next = "write" => load.next = "write" /\ load.batch < load.batches
        /\ next = "carryForward" => load.next = "write" /\ ~(load.batch < load.batches)
        /\ next = "commit" => \/ load.next = "write" /\ ~(load.batch < load.batches) /\ ~load.merge
                              \/ load.next = "carryForward"
    BY <1>0, <2>2
  <2> HIDE DEF next
  <2> QED
    BY <2>1, <2>3
<1>2. /\ load'.next = after /\ load'.snap = load.snap /\ load'.batches = load.batches
      /\ load'.merge = load.merge /\ (after = "write" => load'.batch = load.batch + 1)
  BY <1>0, <1>1 DEF LoadRecord
<1>3. /\ call'["load"].at \in {"ask", "primary"}
      /\ load'.next # "commit" => call'["load"].at = "primary"
  BY <1>0, NextCall
<1>4. misled' = misled
  BY <1>0, <1>3, MisledQuiet
<1>5. load.next \in {"write", "carryForward"} /\ call["load"].todo = {}
  BY <1>0, <1>1 DEF Pace, ReplayedStages
<1>6. ASSUME NEW b \in 1 .. load.batches, Due(b)', ~Due(b)
      PROVE  load.next = "write" /\ b = load.batch
  BY <1>0, <1>1, <1>2, <1>6 DEF Due, Batches
<1>7. load'.next = "commit" /\ load.merge => load.next = "carryForward"
  BY <1>1, <1>2
<1>8. ASSUME NEW g \in Followers PROVE Mending(g, s)'
  <2>1. call["load"].at # "primary" /\ g \notin call["load"].todo
    BY <1>0, <1>5
  <2>2. \A b \in 1 .. load.batches : Due(b)' =>
           \/ Due(b)
           \/ /\ load.next = "write" /\ b = load.batch
              /\ call["load"].at # "primary" /\ g \notin call["load"].todo
    BY <1>6, <2>1
  <2>3. load'.next \in {"write", "carryForward", "commit"}
    BY <1>2
  <2> QED
    BY <1>0, <1>2, <1>3, <1>4, <1>7, <2>1, <2>2, <2>3, MendingMovesOn
<1> QED
  BY <1>0, <1>2, <1>8

LEMMA MendedByRetry ==
  ASSUME NEW s \in Ids, ~Shrinking, Turning(s), AttemptEnds, load'.next # "none"
  PROVE  load'.snap = s /\ \A g \in Followers : Mending(g, s)'
<1>0. /\ TypeInv /\ MCNext /\ UNCHANGED replay /\ s = load.snap
      /\ load.batches \in Batches /\ load.next \in {"write", "carryForward", "commit"}
      /\ \A g \in Followers : Mending(g, s)
      /\ UNCHANGED <<rows, status, served, journal>>
      /\ Calls(load') /\ load' \in LoadRecord /\ load \in LoadRecord
  BY TurningIs, LoaderTypes DEF Turning, AttemptEnds, stores, ledger, CallersOK
<1>1. load' = [load EXCEPT !.batches = load.batches, !.next = "write", !.batch = 1]
  <2>1. load' # [load EXCEPT !.next = "none", !.batch = 0]
    BY <1>0 DEF LoadRecord
  <2> QED
    BY <2>1 DEF AttemptEnds
<1>2. /\ load'.next = "write" /\ load'.snap = load.snap /\ load'.batches = load.batches
      /\ load'.merge = load.merge /\ load'.batch = 1
  BY <1>0, <1>1 DEF LoadRecord
<1>3. call'["load"].at = "primary"
  BY <1>0, <1>2, NextCall
<1>4. misled' = misled
  BY <1>0, <1>3, MisledQuiet
<1>5. \A b \in 1 .. load.batches : ~Due(b)'
  BY <1>0, <1>2 DEF Due, Batches
<1>6. ASSUME NEW g \in Followers PROVE Mending(g, s)'
  BY <1>0, <1>2, <1>3, <1>4, <1>5, MendingMovesOn
<1> QED
  BY <1>0, <1>2, <1>6

LEMMA MendedByStart ==
  ASSUME NEW s \in Ids, LoadInv, ServedKnown, StartLoad, s = load'.snap
  PROVE  \A g \in Followers : Mending(g, s)'
<1>0. /\ StoresOK /\ TypeInv /\ Future /\ load \in LoadRecord /\ load' \in LoadRecord
      /\ Calls(load') /\ UNCHANGED <<rows, status, served>>
      /\ Followers \subseteq Stores /\ Primary \in Stores
  BY LoaderTypes, Types, FanoutAssumption
  DEF LoadInv, TypeInv, CallersOK, StartLoad, stores, Stores
<1>1. PICK n \in Batches, merge \in BOOLEAN :
        load' = [snap |-> load.snap + 1, batches |-> n, merge |-> merge,
                 next |-> "write", batch |-> 1]
  BY DEF StartLoad
<1>2. load'.next = "write" /\ load'.batch = 1 /\ load'.batches = n /\ s = load.snap + 1
  BY <1>1
<1>3. \A x \in Stores : rows'[x][s] = {} /\ status'[x][s] = "none" /\ status[x][s] = "none"
  BY <1>0, <1>2 DEF Future, LoadRecord, Ids
<1>4. call'["load"].at = "primary"
  BY <1>0, <1>2, NextCall
<1>5. \A b \in 1 .. load'.batches : ~Due(b)'
  BY <1>2 DEF Due, Batches
<1>6. ASSUME NEW g \in Followers PROVE Mending(g, s)'
  <2>1. served'[g] # s
    BY <1>0, <1>3 DEF ServedKnown
  <2>2. Pure(g, s)' /\ status'[g][s] # "dropped"
    BY <1>0, <1>3 DEF Pure
  <2> QED
    BY <1>2, <1>4, <1>5, <2>1, <2>2 DEF Mending
<1> QED
  BY <1>6

LEMMA MendedKept ==
  ASSUME ReplayAlone, ~Shrinking, LoadInv, LoadInv', MCNext, FollowInv
  PROVE  Mended'
<1> SUFFICES ASSUME NEW s \in Ids, InHand(s)'
             PROVE  /\ Pure(Primary, s)' /\ status'[Primary][s] # "dropped"
                    /\ \A g \in Followers : Mending(g, s)'
  BY DEF Mended
<1>0. /\ TypeInv /\ Alone /\ Next /\ StoresOK /\ CallersOK /\ "load" \in Actors
      /\ load'.next # "none" /\ s = load'.snap /\ Primary \in Stores
      /\ Mended /\ Announced /\ ServedKnown /\ LoaderCalls
  BY Types DEF LoadInv, TypeInv, MCNext, InHand, FollowInv, Stores, Actors
<1>1. Pure(Primary, s)'
  <2>1. AtWork(s)'
    BY <1>0 DEF LoadInv, Work
  <2> QED
    BY <2>1 DEF AtWork, Keepers
<1>2. CASE Resting /\ UNCHANGED load
  BY <1>0, <1>2 DEF Resting
<1>3. CASE LoaderSide /\ UNCHANGED replay
  <2>1. CASE FanoutCall("load") \/ PrimaryStep
    <3>1. UNCHANGED load
      BY <1>0, <2>1, FollowerProceeds, PrimaryProceeds DEF Proceeds
    <3>2. Turning(s)
      BY <1>0, <1>3, <3>1 DEF Turning, InHand
    <3> QED
      BY <2>1, <3>2, MendedByCall
  <2>2. CASE EnsureType \/ DropSnapshot \/ AdminEnds
    BY <1>0, <2>2 DEF EnsureType, DropSnapshot, AdminEnds, Resting, loader
  <2>3. CASE StartLoad
    <3>1. UNCHANGED status /\ load \in LoadRecord /\ load'.snap = load.snap + 1
      BY <1>0, <2>3 DEF StartLoad, stores, CallersOK
    <3>2. status[Primary][s] = "none"
      BY <1>0, <3>1 DEF LoadInv, Future, LoadRecord, Ids
    <3> QED
      BY <1>0, <1>1, <2>3, <3>1, <3>2, MendedByStart
  <2>4. CASE Advance \/ AttemptEnds
    <3>1. load.next # "none" /\ UNCHANGED status
      BY <2>4 DEF Advance, AttemptEnds, stores
    <3>2. load.snap \in Ids
      BY <1>0, <3>1, AtWorkCall
    <3>3. PICK t \in Ids : t = load.snap
      BY <3>2
    <3>4. Turning(t)
      BY <1>0, <1>3, <3>1, <3>3 DEF Turning, InHand
    <3>5. load'.snap = t /\ \A g \in Followers : Mending(g, t)'
      BY <1>0, <2>4, <3>4, MendedByAdvance, MendedByRetry
    <3>6. t = s
      BY <1>0, <3>5
    <3>7. status'[Primary][s] # "dropped"
      BY <3>1, <3>4, <3>6, TurningIs
    <3> QED
      BY <1>1, <3>5, <3>6, <3>7
  <2> QED
    BY <1>3, <2>1, <2>2, <2>3, <2>4 DEF LoaderSide, LoaderStep, PrimaryStep
<1> QED
  BY <1>0, <1>2, <1>3, Sides
-----------------------------------------------------------------------------
(* What the loader's steps change. *)

LEMMA CallIs ==
  ASSUME TypeInv
  PROVE  /\ StoresOK /\ LedgerOK /\ CallersOK /\ call \in [Actors -> CallRecord]
         /\ Actors = {"load", "replay"} /\ Primary \in Stores /\ Primary \notin Followers
         /\ Followers \subseteq Stores /\ Stores = {Primary} \cup Followers
         /\ Required \subseteq Followers
         /\ \A a \in Actors :
              /\ call[a].at \in Trying => call[a].on \in Followers
              /\ call[a].op \in Stages \ {"ensureType"} => call[a].snap \in Ids
         /\ load.next # "none" => /\ call["load"].op = load.next
                                  /\ call["load"].snap = load.snap
                                  /\ call["load"].batch = load.batch
                                  /\ load.snap \in Ids
         /\ load.next = "none" => call["load"].op \in {"none", "ensureType", "drop"}
         /\ call["load"].op \in {"write", "carryForward", "commit"} => load.next = call["load"].op
         /\ call["load"].op = "drop" => load.next = "none"
<1>1. StoresOK /\ LedgerOK /\ CallersOK /\ load \in LoadRecord
  BY Types DEF TypeInv, CallersOK
<1> QED
  BY <1>1, FanoutAssumption
  DEF TypeInv, CallersOK, CallShape, LoadShape, LoadRecord, Stores, Actors

LEMMA LoaderServes ==
  ASSUME TypeInv, LoaderSide, NEW x \in Stores, served'[x] # served[x]
  PROVE  /\ load.next = "commit" /\ call["load"].op = "commit" /\ call["load"].snap \in Ids
         /\ served'[x] = call["load"].snap
         /\ \/ PrimaryCommits /\ x = Primary
            \/ /\ FollowerCommits("load") /\ x \in Followers
               /\ x = call["load"].on /\ call["load"].at = "attempt"
<1>0. /\ StoresOK /\ "load" \in Actors /\ Primary \in Stores /\ Followers \subseteq Stores
      /\ call["load"].at \in Trying => call["load"].on \in Followers
      /\ call["load"].op \in Stages \ {"ensureType"} => call["load"].snap \in Ids
      /\ call["load"].op = "commit" => load.next = "commit"
  BY CallIs
<1>1. CASE PrimaryCommits
  <2>1. PICK s \in Ids : s = call["load"].snap /\ StoreCommit(Primary, s)
    BY <1>0, <1>1 DEF PrimaryCommits, At, Stages
  <2>2. x = Primary /\ served'[x] = s
    BY <1>0, <2>1, CommitIs
  <2> QED
    BY <1>0, <1>1, <2>1, <2>2 DEF PrimaryCommits, At
<1>2. CASE FollowerCommits("load")
  <2>1. PICK s \in Ids, z \in Followers :
          s = call["load"].snap /\ z = call["load"].on /\ StoreCommit(z, s)
    BY <1>0, <1>2 DEF FollowerCommits, At, Stages, Trying
  <2>2. x = z /\ served'[x] = s
    BY <1>0, <2>1, CommitIs
  <2> QED
    BY <1>0, <1>2, <2>1, <2>2 DEF FollowerCommits, At
<1>3. CASE Hushed
  BY <1>3 DEF Hushed
<1>4. CASE \/ PrimaryWrites \/ PrimaryCarries \/ PrimaryDrops \/ Forget
           \/ FollowerWrites("load") \/ FollowerCarries("load")
           \/ FollowerDrops("load") \/ FollowerFails("load")
           \/ Settle("load") \/ Supersede("load")
  BY <1>4 DEF PrimaryWrites, PrimaryCarries, PrimaryDrops, Forget, FollowerWrites, FollowerCarries,
     FollowerDrops, FollowerFails, Settle, Supersede, stores
<1> QED
  BY <1>1, <1>2, <1>3, <1>4, LoaderCases

LEMMA LoaderPays ==
  ASSUME TypeInv, LoaderSide, NEW d \in journal, d \notin journal'
  PROVE  /\ UNCHANGED <<rows, status, served, shape, mark, load, finished>>
         /\ \/ /\ Settle("load") /\ call["load"].at = "settle" /\ call["load"].ok
               /\ d = Key(call["load"])
            \/ /\ Supersede("load") /\ call["load"].at = "supersede" /\ call["load"].op = "commit"
               /\ d.follower = call["load"].on /\ d.snap \notin {call["load"].snap, 0}
            \/ /\ Forget /\ call["load"].at = "forget" /\ call["load"].op = "drop"
               /\ d.snap = call["load"].snap /\ d.stage # "drop"
<1>1. CASE Hushed
  BY <1>1 DEF Hushed
<1>2. CASE \/ PrimaryWrites \/ PrimaryCarries \/ PrimaryCommits \/ PrimaryDrops
           \/ FollowerWrites("load") \/ FollowerCarries("load") \/ FollowerCommits("load")
           \/ FollowerDrops("load") \/ FollowerFails("load")
  BY <1>2 DEF PrimaryWrites, PrimaryCarries, PrimaryCommits, PrimaryDrops, FollowerWrites,
     FollowerCarries, FollowerCommits, FollowerDrops, FollowerFails, ledger
<1>3. CASE Settle("load") /\ call["load"].ok
  BY <1>3 DEF Settle, stores, loader
<1>4. CASE Supersede("load")
  BY <1>4 DEF Supersede, At, Owes, stores, loader
<1>5. CASE Forget
  BY <1>5 DEF Forget, At, stores, loader
<1> QED
  BY <1>1, <1>2, <1>3, <1>4, <1>5, LoaderCases

\* A snapshot's record, at a store, once it is final.
LEMMA LoaderRecords ==
  ASSUME TypeInv, LoaderSide, NEW x \in Stores, NEW s \in Ids,
         rows'[x][s] # rows[x][s] \/ status'[x][s] # status[x][s]
  PROVE  /\ s = call["load"].snap /\ UNCHANGED load
         /\ \/ /\ load.next # "none" /\ s = load.snap
               /\ status[x][s] \in {"committed", "dropped"} => status'[x][s] = status[x][s]
               /\ status'[x][s] = "dropped" => status[x][s] = "dropped"
               /\ status'[x][s] = "committed" => status[x][s] = "committed" \/ load.next = "commit"
            \/ /\ load.next = "none" /\ call["load"].op = "drop"
               /\ StoreDrop(x, s) /\ served[x] # s /\ UNCHANGED served
               /\ x = Primary => PrimaryDrops
<1>0. /\ StoresOK /\ "load" \in Actors /\ Primary \in Stores /\ Followers \subseteq Stores
      /\ call["load"].at \in Trying => call["load"].on \in Followers
      /\ call["load"].op \in Stages \ {"ensureType"} => call["load"].snap \in Ids
      /\ call["load"].op \in {"write", "carryForward", "commit"} => load.next = call["load"].op
      /\ load.next # "none" => load.snap = call["load"].snap /\ call["load"].op = load.next
      /\ load.next = "none" => call["load"].op \in {"none", "ensureType", "drop"}
      /\ call["load"].op = "drop" => load.next = "none"
      /\ status \in [Stores -> [Ids -> {"none", "open", "committed", "dropped"}]]
      /\ Primary \notin Followers
  BY CallIs DEF StoresOK
<1>1. CASE \/ PrimaryWrites \/ PrimaryCarries \/ FollowerWrites("load") \/ FollowerCarries("load")
           \/ FollowerFails("load")
  <2>1. PICK z \in Stores, t \in Ids :
          /\ t = call["load"].snap /\ call["load"].op \in {"write", "carryForward"}
          /\ UNCHANGED load /\ Only(z, t)
          /\ Opened(z, t) \/ UNCHANGED status
    <3>1. PICK z \in Stores, t \in Ids :
            /\ t = call["load"].snap /\ call["load"].op \in {"write", "carryForward"}
            /\ UNCHANGED load
            /\ \E b : StoreWrite(z, t, b) \/ StoreCarry(z, t) \/ Torn(z, t, b)
      BY <1>0, <1>1 DEF PrimaryWrites, PrimaryCarries, FollowerWrites, FollowerCarries,
         FollowerFails, At, Stages, Trying, loader
    <3>2. Only(z, t)
      BY <1>0, <3>1, PutTouches
    <3>3. Opened(z, t) \/ UNCHANGED status
      BY <3>1 DEF StoreWrite, StoreCarry, Torn
    <3> QED
      BY <3>1, <3>2, <3>3
  <2>2. x = z /\ s = t
    BY <2>1 DEF Only
  <2>3. status'[x][s] = status[x][s] \/ (status[x][s] = "none" /\ status'[x][s] = "open")
    BY <1>0, <2>1, <2>2, OpenIs
  <2> QED
    BY <1>0, <2>1, <2>2, <2>3
<1>2. CASE PrimaryCommits \/ FollowerCommits("load")
  <2>1. PICK z \in Stores, t \in Ids :
          /\ t = call["load"].snap /\ call["load"].op = "commit" /\ UNCHANGED <<rows, load>>
          /\ Committable(z, t) /\ StoreCommit(z, t)
    BY <1>0, <1>2 DEF PrimaryCommits, FollowerCommits, At, Stages, Trying, loader
  <2>2. x = z /\ s = t /\ status'[x][s] = "committed" /\ status[x][s] # "dropped"
    BY <1>0, <2>1, CommitIs DEF Committable
  <2> QED
    BY <1>0, <2>1, <2>2
<1>3. CASE PrimaryDrops \/ FollowerDrops("load")
  <2>1. PICK z \in Stores, t \in Ids :
          /\ t = call["load"].snap /\ call["load"].op = "drop" /\ UNCHANGED <<served, load>>
          /\ Droppable(z, t) /\ StoreDrop(z, t)
          /\ z = Primary => PrimaryDrops
    BY <1>0, <1>3 DEF PrimaryDrops, FollowerDrops, At, Stages, Trying, loader
  <2>2. x = z /\ s = t
    BY <1>0, <2>1, DropIs DEF Only
  <2>3. load.next = "none"
    BY <1>0, <2>1
  <2> QED
    BY <1>0, <2>1, <2>2, <2>3 DEF Droppable
<1>4. CASE Hushed \/ Forget \/ Settle("load") \/ Supersede("load")
  BY <1>4 DEF Hushed, Forget, Settle, Supersede, stores
<1> QED
  BY <1>1, <1>2, <1>3, <1>4, LoaderCases
-----------------------------------------------------------------------------
(* What the operator's steps change. *)

LEMMA ReplayIs ==
  ASSUME TypeInv
  PROVE  /\ replay \in ReplayRecord
         /\ call["replay"].op \in {"none", "ensureType", "commit"}
         /\ call["replay"].op = "commit" =>
              /\ replay.at = "commit" /\ call["replay"].snap = replay.snap
              /\ call["replay"].at \in Trying => call["replay"].on = replay.on
         /\ replay.at \notin {"ensureType", "commit"} => call["replay"] = NoCall
         /\ replay.at # "rest" => replay.snap \in Ids /\ replay.on \in Followers
                                  /\ replay.on \in Stores /\ replay.on # Primary
BY CallIs DEF TypeInv, ReplayShape, CallersOK

LEMMA ReplayServes ==
  ASSUME TypeInv, ReplaySide, NEW x \in Stores, served'[x] # served[x]
  PROVE  /\ FollowerCommits("replay") /\ replay.at = "commit"
         /\ x = replay.on /\ x \in Followers
         /\ served'[x] = replay.snap /\ replay.snap \in Ids /\ UNCHANGED <<rows, journal>>
<1>0. StoresOK /\ "replay" \in Actors
  BY CallIs
<1>1. CASE FollowerCommits("replay")
  <2>1. PICK s \in Ids, z \in Followers :
          /\ s = replay.snap /\ z = replay.on /\ z \in Stores /\ replay.at = "commit"
          /\ StoreCommit(z, s)
    BY <1>1, ReplayIs DEF FollowerCommits, At, Trying
  <2>2. x = z /\ served'[x] = s
    BY <1>0, <2>1, CommitIs
  <2> QED
    BY <1>1, <2>1, <2>2 DEF FollowerCommits, ledger
<1>2. CASE Hushed
  BY <1>2 DEF Hushed
<1>3. CASE ClearFollowerCopy \/ CopyPage \/ ClearDebt \/ Settle("replay") \/ Supersede("replay")
  BY <1>3 DEF ClearFollowerCopy, CopyPage, ClearDebt, Settle, Supersede, stores
<1> QED
  BY <1>1, <1>2, <1>3, ReplayCases

LEMMA ReplayRecords ==
  ASSUME TypeInv, ReplaySide, NEW x \in Stores, NEW s \in Ids,
         rows'[x][s] # rows[x][s] \/ status'[x][s] # status[x][s]
  PROVE  /\ replay.at # "rest" /\ x = replay.on /\ x \in Followers /\ s = replay.snap
         /\ UNCHANGED journal
         /\ \/ ClearFollowerCopy /\ Droppable(x, s) /\ StoreDrop(x, s)
            \/ CopyPage
            \/ /\ FollowerCommits("replay") /\ UNCHANGED rows /\ status'[x][s] = "committed"
<1>0. StoresOK /\ "replay" \in Actors
  BY CallIs
<1>1. CASE FollowerCommits("replay")
  <2>1. PICK t \in Ids, z \in Followers :
          /\ t = replay.snap /\ z = replay.on /\ z \in Stores /\ replay.at = "commit"
          /\ StoreCommit(z, t) /\ UNCHANGED <<rows, journal>>
    BY <1>1, ReplayIs DEF FollowerCommits, At, Trying, ledger
  <2>2. x = z /\ s = t /\ status'[x][s] = "committed"
    BY <1>0, <2>1, CommitIs
  <2> QED
    BY <1>1, <2>1, <2>2
<1>2. CASE ClearFollowerCopy
  <2>1. PICK t \in Ids, z \in Followers : t = replay.snap /\ z = replay.on /\ z \in Stores
    BY <1>2, ReplayIs DEF ClearFollowerCopy
  <2>2. UNCHANGED journal /\ replay.at # "rest"
    BY <1>2 DEF ClearFollowerCopy, ledger
  <2>3. Droppable(z, t) /\ StoreDrop(z, t)
    BY <1>2, <2>1 DEF ClearFollowerCopy
  <2>4. x = z /\ s = t
    BY <1>0, <2>1, <2>3, DropIs DEF Only
  <2> QED
    BY <1>2, <2>1, <2>2, <2>3, <2>4
<1>3. CASE CopyPage
  <2>1. PICK t \in Ids, z \in Followers : t = replay.snap /\ z = replay.on /\ z \in Stores
    BY <1>3, ReplayIs DEF CopyPage
  <2>2. UNCHANGED journal /\ replay.at # "rest"
    BY <1>3 DEF CopyPage, ledger
  <2>3. PICK b, rs : Put(z, t, b, rs)
    BY <1>3, <2>1 DEF CopyPage
  <2>4. Opened(z, t)
    BY <1>3, <2>1 DEF CopyPage
  <2>5. x = z /\ s = t
    BY <1>0, <2>1, <2>3, <2>4, PutIs, OpenIs
  <2> QED
    BY <1>3, <2>1, <2>2, <2>5
<1>4. CASE Hushed \/ ClearDebt \/ Settle("replay") \/ Supersede("replay")
  BY <1>4 DEF Hushed, ClearDebt, Settle, Supersede, stores
<1> QED
  BY <1>1, <1>2, <1>3, <1>4, ReplayCases

LEMMA ReplayPays ==
  ASSUME TypeInv, ReplaySide, NEW d \in journal, d \notin journal'
  PROVE  /\ UNCHANGED <<rows, status, served, mark, load, finished>>
         /\ \/ /\ Settle("replay") /\ call["replay"].at = "settle" /\ call["replay"].ok
               /\ d = Key(call["replay"]) /\ d.stage \in {"ensureType", "commit"}
               /\ d.stage = "commit" =>
                    replay.at = "commit" /\ d.follower = replay.on /\ d.snap = replay.snap
            \/ /\ Supersede("replay") /\ call["replay"].at = "supersede" /\ replay.at = "commit"
               /\ d.follower = replay.on /\ d.snap \notin {replay.snap, 0}
            \/ /\ ClearDebt /\ replay.at = "clearDebt" /\ d.follower = replay.on
               /\ d.snap = replay.snap /\ d.stage \in ReplayedStages
<1>1. CASE Settle("replay") /\ call["replay"].ok
  <2>1. /\ UNCHANGED <<rows, status, served, mark, load, finished>>
        /\ call["replay"].at = "settle" /\ d = Key(call["replay"])
    BY <1>1 DEF Settle, stores, loader
  <2>2. call["replay"].op \in {"ensureType", "commit"}
    <3>1. call["replay"].at # "rest" /\ "replay" \in Actors
      BY <2>1, CallIs
    <3> QED
      BY <3>1, ReplayIs DEF TypeInv, CallShape, Stages
  <2>3. /\ d.stage = call["replay"].op /\ d.follower = call["replay"].on
        /\ d.snap = call["replay"].snap
    BY <2>1 DEF Key
  <2> QED
    BY <1>1, <2>1, <2>2, <2>3, ReplayIs DEF Trying
<1>2. CASE Supersede("replay")
  <2>1. /\ UNCHANGED <<rows, status, served, mark, load, finished>>
        /\ call["replay"].at = "supersede" /\ call["replay"].op = "commit"
        /\ d.follower = call["replay"].on /\ d.snap \notin {call["replay"].snap, 0}
    BY <1>2 DEF Supersede, At, Owes, stores, loader
  <2> QED
    BY <1>2, <2>1, ReplayIs DEF Trying
<1>3. CASE ClearDebt
  BY <1>3 DEF ClearDebt, Owes, stores, loader
<1>4. CASE Hushed
  BY <1>4 DEF Hushed
<1>5. CASE ClearFollowerCopy \/ CopyPage \/ FollowerCommits("replay")
  BY <1>5 DEF ClearFollowerCopy, CopyPage, FollowerCommits, ledger
<1> QED
  BY <1>1, <1>2, <1>3, <1>4, <1>5, ReplayCases
-----------------------------------------------------------------------------
(* What is tried is on record. *)

\* The steps that are not of a call towards a follower leave none of those under way.
LEMMA LoaderQuiet ==
  ASSUME TypeInv, LoaderStep
  PROVE  call'["load"].at \in {"rest", "ask", "primary", "mark", "follow", "forget", "returned", "threw"}
<1>0. CallersOK /\ call \in [Actors -> CallRecord] /\ "load" \in Actors
  BY CallIs
<1>1. CASE StartLoad \/ Advance \/ AttemptEnds
  <2>1. Calls(load') /\ load' \in LoadRecord
    BY <1>1, LoaderTypes
  <2> QED
    BY <2>1, NextCall, NoCallTypes
<1>2. CASE EnsureType \/ DropSnapshot \/ AdminEnds
  <2>1. \/ call'["load"] = NoCall
        \/ \E s : call'["load"] = Begun("ensureType", s, 0, "primary", Followers)
        \/ \E s : call'["load"] = Begun("drop", s, 0, "follow", Followers)
    BY <1>0, <1>2 DEF EnsureType, DropSnapshot, AdminEnds
  <2> QED
    BY <2>1, NoCallTypes DEF Begun, NoCall
<1>3. CASE Ask
  <2>1. PICK owed, at : /\ at \in {"threw", "primary"}
                        /\ call' = [call EXCEPT !["load"].owed = owed, !["load"].at = at]
    BY <1>3 DEF Ask
  <2> QED
    BY <1>0, <2>1 DEF CallRecord
<1>4. CASE PrimaryEnsures \/ PrimaryWrites \/ PrimaryCommits \/ MarkCommitted \/ PrimaryDrops
  <2>1. PICK at \in {"follow", "mark", "forget"} : Goes("load", at)
    BY <1>4 DEF PrimaryEnsures, PrimaryWrites, PrimaryCommits, MarkCommitted, PrimaryDrops
  <2> QED
    BY <1>0, <2>1 DEF Goes, CallRecord
<1>5. CASE PrimaryCarries
  <2>1. PICK from, total : call' = [call EXCEPT !["load"].from = from,
                                   !["load"].total = total, !["load"].at = "follow"]
    BY <1>5 DEF PrimaryCarries
  <2> QED
    BY <1>0, <2>1 DEF CallRecord
<1>6. CASE Forget
  <2>1. PICK at \in {"threw", "returned"} : call' = [call EXCEPT !["load"].at = at]
    BY <1>6 DEF Forget
  <2> QED
    BY <1>0, <2>1 DEF CallRecord
<1> QED
  BY <1>1, <1>2, <1>3, <1>4, <1>5, <1>6 DEF LoaderStep

LEMMA ReplayQuiet ==
  ASSUME TypeInv, ReplayStep
  PROVE  call'["replay"].at \in {"rest", "follow"}
<1>0. CallersOK /\ call \in [Actors -> CallRecord] /\ "replay" \in Actors /\ NoCall.at = "rest"
  BY CallIs, NoCallTypes
<1>1. CASE ReplayEnsured \/ ReplayEnds
  BY <1>0, <1>1 DEF ReplayEnsured, ReplayEnds
<1>2. CASE StartReplay
  <2>1. PICK f : call'["replay"] = Begun("ensureType", 0, 0, "follow", {f})
    BY <1>0, <1>2 DEF StartReplay
  <2> QED
    BY <2>1 DEF Begun, NoCall
<1>3. CASE ClearFollowerCopy \/ CopyPage \/ CopiedAll
  BY <1>0, <1>3, ReplayIs DEF ClearFollowerCopy, CopyPage, CopiedAll
<1>4. CASE ClearDebt
  <2>1. CASE call' = call
    BY <1>0, <1>4, <2>1, ReplayIs DEF ClearDebt
  <2>2. CASE call' = [call EXCEPT !["replay"] =
                        Begun("commit", replay.snap, 0, "follow", {replay.on})]
    BY <1>0, <2>2 DEF Begun, NoCall
  <2> QED
    BY <1>4, <2>1, <2>2 DEF ClearDebt
<1> QED
  BY <1>1, <1>2, <1>3, <1>4 DEF ReplayStep

LEMMA AnnouncedByCall ==
  ASSUME CallersOK, NEW a \in Actors, FanoutCall(a), call'[a].at \in {"attempt", "settle"},
         call[a].at \in {"attempt", "settle"} => Key(call[a]) \in journal
  PROVE  Key(call'[a]) \in journal'
<1>0. call \in [Actors -> CallRecord] /\ call[a] \in CallRecord
  BY DEF CallersOK
<1>1. CASE \E f \in Followers : Announce(a, f)
  <2>1. PICK f \in Followers : Announce(a, f)
    BY <1>1
  <2>2. Key([call[a] EXCEPT !.on = f]) \in journal'
    BY <2>1 DEF Announce
  <2>3. Key(call'[a]) = Key([call[a] EXCEPT !.on = f])
    BY <1>0, <2>1 DEF Announce, Key, CallRecord
  <2> QED
    BY <2>2, <2>3
<1>2. CASE FollowerEnsures(a) \/ FollowerWrites(a) \/ FollowerCarries(a) \/ FollowerCommits(a)
           \/ FollowerDrops(a) \/ FollowerFails(a) \/ FollowerRefuses(a)
  <2>1. call[a].at = "attempt" /\ UNCHANGED journal /\ \E ok : Tried(a, ok)
    BY <1>2 DEF FollowerEnsures, FollowerWrites, FollowerCarries, FollowerCommits,
       FollowerDrops, FollowerFails, FollowerRefuses, At, ledger
  <2>2. PICK ok : call' = [call EXCEPT ![a].at = "settle", ![a].ok = ok]
    BY <2>1 DEF Tried
  <2>3. Key(call'[a]) = Key(call[a])
    BY <1>0, <2>2 DEF Key, CallRecord
  <2> QED
    BY <2>1, <2>3
<1>3. ~\E f \in Followers : HoldBack(a, f)
  BY <1>0 DEF HoldBack, At, CallRecord
<1>4. ~Settle(a)
  <2>1. CASE Settle(a) /\ call[a].ok
    BY <1>0, <2>1 DEF Settle, Goes, CallRecord
  <2>2. CASE Settle(a) /\ ~call[a].ok
    BY <1>0, <2>2 DEF Settle, CallRecord
  <2> QED
    BY <2>1, <2>2
<1>5. ~Supersede(a)
  BY <1>0 DEF Supersede, Goes, CallRecord
<1>6. ~Return(a)
  <2>1. ASSUME Return(a) PROVE FALSE
    <3>1. PICK at \in {"primary", "threw", "returned"} : Goes(a, at)
      BY <2>1 DEF Return
    <3> QED
      BY <1>0, <3>1 DEF Goes, CallRecord
  <2> QED
    BY <2>1
<1> QED
  BY <1>1, <1>2, <1>3, <1>4, <1>5, <1>6 DEF FanoutCall

LEMMA AnnouncedKept ==
  ASSUME ReplayAlone, LoadInv, MCNext, Announced
  PROVE  Announced'
<1>0. /\ TypeInv /\ Alone /\ Next /\ CallersOK /\ Actors = {"load", "replay"}
      /\ NoCall.at = "rest"
  BY CallIs, NoCallTypes DEF LoadInv, MCNext
<1>1. CASE LoaderSide /\ replay.at = "rest" /\ call'["replay"] = call["replay"]
  <2>1. call'["replay"].at = "rest"
    BY <1>0, <1>1, ReplayIs
  <2>2. ASSUME call'["load"].at \in {"attempt", "settle"} PROVE Key(call'["load"]) \in journal'
    <3>1. FanoutCall("load")
      BY <1>0, <1>1, <2>2, LoaderQuiet DEF LoaderSide
    <3> QED
      BY <1>0, <2>2, <3>1, AnnouncedByCall DEF Announced
  <2> QED
    BY <1>0, <2>1, <2>2 DEF Announced
<1>2. CASE ReplaySide /\ Resting /\ call'["load"] = call["load"]
  <2>1. call'["load"].at = "rest"
    BY <1>0, <1>2 DEF Resting, Idle
  <2>2. ASSUME call'["replay"].at \in {"attempt", "settle"} PROVE Key(call'["replay"]) \in journal'
    <3>1. FanoutCall("replay")
      BY <1>0, <1>2, <2>2, ReplayQuiet DEF ReplaySide
    <3> QED
      BY <1>0, <2>2, <3>1, AnnouncedByCall DEF Announced
  <2> QED
    BY <1>0, <2>1, <2>2 DEF Announced
<1> QED
  BY <1>0, <1>1, <1>2, Sides
-----------------------------------------------------------------------------
(* The primary's records, and what followers serve. *)

\* Who moves.
LEMMA Movers ==
  ASSUME ReplayAlone, LoadInv, MCNext
  PROVE  \/ /\ LoaderSide /\ replay.at = "rest" /\ UNCHANGED replay
            /\ call["replay"] = NoCall /\ call'["replay"] = NoCall
         \/ /\ ReplaySide /\ Resting /\ Resting' /\ UNCHANGED load
            /\ call["load"] = NoCall /\ call'["load"] = NoCall
<1>1. TypeInv /\ Alone /\ Next
  BY DEF LoadInv, MCNext
<1> QED
  BY <1>1, Sides, ReplayIs DEF Resting, Idle

LEMMA PrimaryRecords ==
  ASSUME ReplayAlone, LoadInv, MCNext, NEW s \in Ids
  PROVE  /\ status[Primary][s] \in {"committed", "dropped"} =>
              status'[Primary][s] \in {"committed", "dropped"}
         /\ status[Primary][s] = "dropped" => status'[Primary][s] = "dropped"
         /\ status'[Primary][s] = "dropped" /\ status[Primary][s] # "dropped" =>
              LoaderSide /\ PrimaryDrops /\ s = call["load"].snap
         /\ ~InHand(s)' /\ status'[Primary][s] = "committed" =>
              status[Primary][s] = "committed" /\ rows'[Primary][s] = rows[Primary][s]
<1>0. TypeInv /\ StoresOK /\ Primary \in Stores /\ Primary \notin Followers
  BY CallIs DEF LoadInv
<1>1. CASE rows'[Primary][s] = rows[Primary][s] /\ status'[Primary][s] = status[Primary][s]
  BY <1>1
<1>2. CASE /\ rows'[Primary][s] # rows[Primary][s] \/ status'[Primary][s] # status[Primary][s]
           /\ LoaderSide
  <2>1. /\ s = call["load"].snap /\ UNCHANGED load
        /\ \/ /\ load.next # "none" /\ s = load.snap
              /\ status[Primary][s] \in {"committed", "dropped"} =>
                   status'[Primary][s] = status[Primary][s]
              /\ status'[Primary][s] = "dropped" => status[Primary][s] = "dropped"
           \/ StoreDrop(Primary, s) /\ PrimaryDrops
    BY <1>0, <1>2, LoaderRecords
  <2>2. CASE load.next # "none" /\ s = load.snap
    <3>1. InHand(s)'
      BY <2>1, <2>2 DEF InHand
    <3>2. /\ status[Primary][s] \in {"committed", "dropped"} =>
               status'[Primary][s] = status[Primary][s]
          /\ status'[Primary][s] = "dropped" => status[Primary][s] = "dropped"
               \/ (LoaderSide /\ PrimaryDrops /\ s = call["load"].snap)
      <4>1. CASE StoreDrop(Primary, s) /\ PrimaryDrops
        BY <1>0, <2>2, <4>1, CallIs DEF PrimaryDrops, At
      <4> QED
        BY <2>1, <4>1
    <3> QED
      BY <3>1, <3>2
  <2>3. CASE StoreDrop(Primary, s) /\ PrimaryDrops
    <3>1. status'[Primary][s] = IF status[Primary][s] = "none" THEN "none" ELSE "dropped"
      BY <1>0, <2>3, DropIs
    <3> QED
      BY <1>2, <2>1, <2>3, <3>1
  <2> QED
    BY <2>1, <2>2, <2>3
<1>3. CASE /\ rows'[Primary][s] # rows[Primary][s] \/ status'[Primary][s] # status[Primary][s]
           /\ ReplaySide
  BY <1>0, <1>3, ReplayRecords
<1> QED
  BY <1>1, <1>2, <1>3, Movers

\* What a follower begins to serve, the primary has committed.
LEMMA FollowersServe ==
  ASSUME ReplayAlone, LoadInv, MCNext, FollowInv, NEW g \in Followers, served'[g] # served[g]
  PROVE  /\ UNCHANGED <<rows, journal, mark, load, finished, replay>>
         /\ status[Primary][served'[g]] = "committed" /\ status'[Primary][served'[g]] = "committed"
         /\ served'[Primary] = served[Primary]
         /\ \/ /\ load.next = "commit" /\ served'[g] = load.snap /\ served'[g] = served[Primary]
               /\ LoaderSide /\ load.snap \in Ids
            \/ /\ load.next = "none" /\ served'[g] = replay.snap /\ replay.at = "commit"
               /\ g = replay.on /\ ReplaySide /\ replay.snap \in Ids
<1>0. /\ TypeInv /\ StoresOK /\ CallersOK /\ Primary \in Stores /\ Primary \notin Followers
      /\ g \in Stores /\ Actors = {"load", "replay"}
  BY CallIs DEF LoadInv
<1>1. CASE LoaderSide
  <2>1. /\ load.next = "commit" /\ call["load"].op = "commit" /\ call["load"].snap \in Ids
        /\ served'[g] = call["load"].snap /\ call["load"].at = "attempt"
        /\ FollowerCommits("load") /\ g = call["load"].on /\ load.snap = call["load"].snap
    BY <1>0, <1>1, LoaderServes, CallIs
  <2>2. PICK s \in Ids : s = call["load"].snap
    BY <2>1
  <2>3. status[Primary][s] = "committed" /\ served[Primary] = s
    BY <2>1, <2>2 DEF FollowInv, LoaderCalls, Placing, After
  <2>4. StoreCommit(g, s) /\ UNCHANGED <<rows, journal, mark, load, finished, replay>>
    BY <2>1, <2>2 DEF FollowerCommits, ledger, loader
  <2>5. served'[Primary] = served[Primary] /\ status'[Primary][s] = status[Primary][s]
    BY <1>0, <2>4, CommitIs
  <2> QED
    BY <1>1, <2>1, <2>2, <2>3, <2>4, <2>5
<1>2. CASE ReplaySide /\ Resting
  <2>1. /\ FollowerCommits("replay") /\ replay.at = "commit"
        /\ g = replay.on /\ served'[g] = replay.snap /\ replay.snap \in Ids
    BY <1>0, <1>2, ReplayServes
  <2>2. PICK s \in Ids : s = replay.snap
    BY <2>1
  <2>3. status[Primary][s] = "committed"
    BY <2>1, <2>2 DEF LoadInv, Future
  <2>4. call["replay"].op = "commit" /\ call["replay"].at = "attempt"
    BY <2>1 DEF FollowerCommits, At
  <2>5. call["replay"].on = g /\ call["replay"].snap = s
    BY <1>0, <2>1, <2>2, <2>4, ReplayIs DEF Trying
  <2>6. StoreCommit(g, s) /\ UNCHANGED <<rows, journal, mark, load, finished, replay>>
    BY <2>1, <2>5 DEF FollowerCommits, ledger, loader
  <2>7. served'[Primary] = served[Primary] /\ status'[Primary][s] = status[Primary][s]
    BY <1>0, <2>6, CommitIs
  <2> QED
    BY <1>2, <2>1, <2>2, <2>3, <2>6, <2>7 DEF Resting
<1> QED
  BY <1>1, <1>2, Movers

LEMMA ServedKnownKept ==
  ASSUME ReplayAlone, LoadInv, MCNext, FollowInv
  PROVE  ServedKnown'
<1> SUFFICES ASSUME NEW g \in Followers, NEW s \in Ids, served'[g] = s
             PROVE  status'[Primary][s] \in {"committed", "dropped"}
  BY DEF ServedKnown
<1>1. CASE served[g] = s
  BY <1>1, PrimaryRecords DEF FollowInv, ServedKnown
<1>2. CASE served[g] # s
  BY <1>2, FollowersServe
<1> QED
  BY <1>1, <1>2

LEMMA NotEmptyKept ==
  ASSUME ReplayAlone, LoadInv, LoadInv', MCNext, FollowInv
  PROVE  NotEmpty'
<1> SUFFICES ASSUME NEW s \in Ids, status'[Primary][s] = "committed"
             PROVE  OwnBatches(Primary, s)' # {}
  BY DEF NotEmpty
<1>1. CASE InHand(s)'
  <2>1. AtWork(s)' /\ TypeInv' /\ load'.next # "none"
    BY <1>1 DEF LoadInv, Work, InHand
  <2>2. load'.batches \in Batches
    <3>1. load' \in LoadRecord /\ LoadShape'
      <4>1. CallersOK' /\ TypeInv'
        BY <2>1, Types, PTL DEF TypeInv
      <4> QED
        BY <4>1 DEF CallersOK, TypeInv
    <3> QED
      BY <2>1, <3>1 DEF LoadShape
  <2>3. 1 \in 1 .. load'.batches
    BY <2>2 DEF Batches
  <2>4. <<1, <<1, s>>>> \in rows'[Primary][s]
    BY <2>1, <2>3 DEF AtWork, Committed, Written
  <2>5. <<1, <<1, s>>>> \in OwnBatches(Primary, s)'
    BY <2>4 DEF OwnBatches, Carry
  <2> QED
    BY <2>5
<1>2. CASE ~InHand(s)'
  <2>1. status[Primary][s] = "committed" /\ rows'[Primary][s] = rows[Primary][s]
    BY <1>2, PrimaryRecords
  <2> QED
    BY <2>1 DEF FollowInv, NotEmpty, OwnBatches
<1> QED
  BY <1>1, <1>2

LEMMA DropOwedKept ==
  ASSUME ReplayAlone, LoadInv, MCNext, FollowInv
  PROVE  DropOwed'
<1>0. TypeInv /\ StoresOK /\ Actors = {"load", "replay"} /\ Followers \subseteq Stores
  BY CallIs DEF LoadInv
<1> SUFFICES ASSUME NEW g \in Followers, NEW s \in Ids,
                    status'[Primary][s] = "dropped", served'[g] = s
             PROVE  Recorded(g, s, "drop", 0)'
  BY DEF DropOwed
<1>1. served[g] = s
  BY FollowersServe
<1>2. CASE status[Primary][s] # "dropped"
  <2>1. PrimaryDrops /\ s = call["load"].snap
    BY <1>2, PrimaryRecords
  <2>2. call["load"].op = "drop" /\ call["load"].at = "primary" /\ UNCHANGED journal
    BY <2>1 DEF PrimaryDrops, At, ledger
  <2>3. Recorded(g, s, "drop", 0)
    BY <1>1, <2>1, <2>2 DEF FollowInv, LoaderCalls, Dropping
  <2> QED
    BY <2>2, <2>3 DEF Recorded
<1>3. CASE status[Primary][s] = "dropped"
  <2> DEFINE d == [follower |-> g, snap |-> s, stage |-> "drop", batch |-> 0]
  <2>1. d \in journal
    BY <1>1, <1>3 DEF FollowInv, DropOwed, Recorded
  <2>2. d.follower = g /\ d.snap = s /\ d.stage = "drop" /\ s # 0
    BY DEF Ids
  <2> HIDE DEF d
  <2>3. ASSUME d \notin journal', LoaderSide PROVE FALSE
    <3>1. CASE call["load"].at = "settle" /\ call["load"].ok /\ d = Key(call["load"])
      <4>1. /\ call["load"].op = "drop" /\ call["load"].snap = s
            /\ call["load"].on = g
        BY <2>2, <3>1 DEF Key
      <4> QED
        BY <1>1, <3>1, <4>1 DEF FollowInv, LoaderCalls, Dropping
    <3>2. CASE /\ call["load"].at = "supersede" /\ call["load"].op = "commit"
               /\ d.follower = call["load"].on /\ d.snap \notin {call["load"].snap, 0}
      <4>1. PICK t \in Ids : t = call["load"].snap
        BY <1>0, <3>2, CallIs DEF Stages
      <4>2. served[g] = t
        BY <2>2, <3>2, <4>1 DEF FollowInv, LoaderCalls, Placing
      <4> QED
        BY <1>1, <2>2, <3>2, <4>1, <4>2
    <3> QED
      BY <1>0, <2>1, <2>2, <2>3, <3>1, <3>2, LoaderPays
  <2>4. ASSUME d \notin journal', ReplaySide PROVE FALSE
    <3>1. CASE /\ call["replay"].at = "supersede" /\ replay.at = "commit"
               /\ d.follower = replay.on /\ d.snap \notin {replay.snap, 0}
      <4>1. served[g] = replay.snap
        BY <2>2, <3>1 DEF FollowInv, Replaying
      <4> QED
        BY <1>1, <2>2, <3>1, <4>1
    <3> QED
      BY <1>0, <2>1, <2>2, <2>4, <3>1, ReplayPays DEF ReplayedStages
  <2>5. d \in journal'
    BY <2>3, <2>4, Movers
  <2> QED
    BY <2>5 DEF Recorded, d
<1> QED
  BY <1>2, <1>3
-----------------------------------------------------------------------------
(* A replay's copy, and what is left under a tombstone. *)

\* The keys below another's are fewer, and there are finitely many.
LEMMA BelowIs ==
  ASSUME StoresOK, Primary \in Stores, NEW s \in Ids, NEW j \in Nat, NEW k \in Nat
  PROVE  /\ Page(s, k) \in Nat
         /\ j \in Below(s, k) => Page(s, j) < Page(s, k)
<1>1. RowsOf(Primary, s) \in SUBSET Row
  BY RowsOfAreRows
<1>2. \A r \in RowsOf(Primary, s) : r[1] \in Batches /\ r[1] \in Nat
  BY <1>1 DEF Row, Batches
<1>3. IsFiniteSet(Batches)
  BY FS_Interval, FanoutAssumption DEF Batches
<1>4. \A i \in Nat : Below(s, i) \in SUBSET Batches
  BY <1>2 DEF Below
<1>5. \A i \in Nat : IsFiniteSet(Below(s, i)) /\ Cardinality(Below(s, i)) \in Nat
  BY <1>3, <1>4, FS_Subset, FS_CardinalityType
<1>6. ASSUME j \in Below(s, k) PROVE Page(s, j) < Page(s, k)
  <2>1. j < k
    BY <1>6 DEF Below
  <2>2. Below(s, j) \subseteq Below(s, k)
    BY <1>2, <2>1 DEF Below
  <2>3. j \notin Below(s, j)
    BY DEF Below
  <2>4. Below(s, j) # Below(s, k)
    BY <1>6, <2>3
  <2>5. /\ Cardinality(Below(s, j)) <= Cardinality(Below(s, k))
        /\ Cardinality(Below(s, j)) = Cardinality(Below(s, k)) => Below(s, j) = Below(s, k)
    BY <1>5, <2>2, FS_Subset
  <2>6. Cardinality(Below(s, j)) # Cardinality(Below(s, k))
    BY <2>4, <2>5
  <2>7. Cardinality(Below(s, j)) < Cardinality(Below(s, k))
    BY <1>5, <2>5, <2>6
  <2> QED
    BY <1>5, <2>7 DEF Page
<1> QED
  BY <1>5, <1>6 DEF Page

\* A page is written under the number of the keys below it.
LEMMA CopyPageIs ==
  ASSUME TypeInv, CopyPage, Replaying, NEW g \in Followers, NEW s \in Ids,
         g = replay.on, s = replay.snap
  PROVE  /\ UNCHANGED <<served, shape, journal, mark, load, finished, call>>
         /\ replay'.at = "copy" /\ replay'.on = g /\ replay'.snap = s
         /\ replay'.current = replay.current
         /\ rows'[Primary][s] = rows[Primary][s]
         /\ Copying(g, s)'
<1>0. /\ StoresOK /\ CallersOK /\ Primary \in Stores /\ Primary \notin Followers
      /\ Followers \subseteq Stores /\ g \in Stores /\ replay \in ReplayRecord
  BY CallIs, ReplayIs
<1>1. replay.at = "copy" /\ Copying(g, s)
  BY DEF CopyPage, Replaying
<1> DEFINE k == CHOOSE i \in Uncopied : \A j \in Uncopied : i <= j
           page == {r \in RowsOf(Primary, s) : r[1] = k}
           n == Cardinality(replay.copied) + 1
<1>2. RowsOf(Primary, s) \in SUBSET Row
  BY <1>0, RowsOfAreRows
<1>3. Uncopied = {r[1] : r \in RowsOf(Primary, s)} \ replay.copied
  BY DEF Uncopied
<1>4. Uncopied \in SUBSET Nat /\ Uncopied # {}
  BY <1>2, <1>3 DEF CopyPage, Row, Batches
<1>5. k \in Uncopied /\ \A j \in Uncopied : k <= j
  BY <1>4, Least
<1>6. Put(g, s, n, page) /\ replay' = [replay EXCEPT !.copied = @ \cup {k}]
  BY DEF CopyPage
<1> HIDE DEF k
<1>7. k \in Nat /\ k \notin replay.copied /\ \A r \in RowsOf(Primary, s) : r[1] \in Nat
  BY <1>2, <1>3, <1>4, <1>5 DEF Row, Batches
<1>8. PICK q \in RowsOf(Primary, s) : q[1] = k
  BY <1>3, <1>5
<1>9. replay.copied = Below(s, k)
  <2>1. ASSUME NEW c \in replay.copied PROVE c \in Below(s, k)
    <3>1. PICK r \in RowsOf(Primary, s) : r[1] = c
      BY <1>1 DEF Copying
    <3>2. Below(s, c) \subseteq replay.copied
      BY <1>1, <2>1, <3>1 DEF Copying
    <3>3. k \notin Below(s, c)
      BY <1>7, <3>2
    <3>4. ~(k < c)
      BY <1>8, <3>3 DEF Below
    <3>5. c # k /\ c \in Nat
      BY <1>7, <2>1, <3>1
    <3>6. c < k
      BY <1>7, <3>4, <3>5
    <3> QED
      BY <3>1, <3>6 DEF Below
  <2>2. ASSUME NEW c \in Below(s, k), c \notin replay.copied PROVE FALSE
    <3>1. PICK r \in RowsOf(Primary, s) : r[1] = c /\ r[1] < k
      BY <2>2 DEF Below
    <3>2. c \in Uncopied
      BY <1>3, <2>2, <3>1
    <3>3. k <= c /\ c < k /\ c \in Nat
      BY <1>5, <1>7, <3>1, <3>2
    <3> QED
      BY <1>7, <3>3
  <2> QED
    BY <2>1, <2>2
<1>10. n = Page(s, k)
  BY <1>9 DEF Page
<1>11. rows'[g][s] = {y \in rows[g][s] : y[1] # n} \cup ({n} \X page)
  BY <1>0, <1>6, PutIs
<1>12. rows'[Primary][s] = rows[Primary][s]
  BY <1>0, <1>6, PutIs
<1>13. RowsOf(Primary, s)' = RowsOf(Primary, s)
  BY <1>12 DEF RowsOf
<1>14. \A i : Below(s, i)' = Below(s, i) /\ Page(s, i)' = Page(s, i)
  BY <1>13 DEF Below, Page
<1>15. replay'.copied = replay.copied \cup {k}
  BY <1>0, <1>6 DEF ReplayRecord
<1>16. Paged(g, s)'
  <2> SUFFICES ASSUME NEW y \in rows'[g][s]
               PROVE  y[2] \in RowsOf(Primary, s) /\ y[1] = Page(s, y[2][1])
    BY <1>13, <1>14 DEF Paged
  <2>1. CASE y \in rows[g][s]
    BY <1>1, <2>1 DEF Copying, Paged
  <2>2. CASE y \in {n} \X page
    <3>1. y[1] = n /\ y[2] \in page
      BY <2>2
    <3>2. y[2] \in RowsOf(Primary, s) /\ y[2][1] = k
      BY <3>1
    <3> QED
      BY <1>10, <3>1, <3>2
  <2> QED
    BY <1>11, <2>1, <2>2
<1>17. replay'.copied \subseteq {r[1] : r \in RowsOf(Primary, s)'}
  <2>1. replay.copied \subseteq {r[1] : r \in RowsOf(Primary, s)}
    BY <1>1 DEF Copying
  <2> QED
    BY <1>8, <1>13, <1>15, <2>1
<1>18. ASSUME NEW r \in RowsOf(Primary, s), r[1] \in replay'.copied
       PROVE  r \in RowsOf(g, s)' /\ Below(s, r[1])' \subseteq replay'.copied
  <2>1. CASE r[1] = k
    <3>1. <<n, r>> \in {n} \X page
      BY <2>1
    <3>2. <<n, r>> \in rows'[g][s]
      BY <1>11, <3>1
    <3>3. r \in RowsOf(g, s)'
      BY <3>2 DEF RowsOf
    <3>4. Below(s, r[1])' = replay.copied
      <4>1. Below(s, r[1])' = Below(s, r[1])
        BY <1>14
      <4>2. Below(s, r[1]) = Below(s, k)
        BY <2>1 DEF Below
      <4> QED
        BY <1>9, <4>1, <4>2
    <3> QED
      BY <1>15, <3>3, <3>4
  <2>2. CASE r[1] \in replay.copied
    <3>1. r \in RowsOf(g, s) /\ Below(s, r[1]) \subseteq replay.copied
      BY <1>1, <2>2 DEF Copying
    <3>2. PICK y \in rows[g][s] : y[2] = r
      BY <3>1 DEF RowsOf
    <3>3. y[1] = Page(s, r[1])
      BY <1>1, <3>2 DEF Copying, Paged
    <3>4. r[1] \in Below(s, k) /\ r[1] \in Nat
      BY <1>7, <1>9, <2>2
    <3>5. Page(s, r[1]) < Page(s, k) /\ Page(s, r[1]) \in Nat /\ Page(s, k) \in Nat
      BY <1>0, <1>7, <3>4, BelowIs
    <3>6. y[1] # n
      BY <1>10, <3>3, <3>5
    <3>7. y \in rows'[g][s]
      BY <1>11, <3>2, <3>6
    <3>8. r \in RowsOf(g, s)'
      BY <3>2, <3>7 DEF RowsOf
    <3> QED
      BY <1>14, <1>15, <3>1, <3>8
  <2> QED
    BY <1>15, <1>18, <2>1, <2>2
<1>19. UNCHANGED <<served, shape, journal, mark, load, finished, call>>
  BY DEF CopyPage, ledger, loader
<1>20. served'[g] = s => OwesRows(g, s)'
  BY <1>1, <1>19 DEF Copying, OwesRows
<1>21. Copying(g, s)'
  BY <1>13, <1>16, <1>17, <1>18, <1>20 DEF Copying
<1>22. /\ replay'.at = "copy" /\ replay'.on = g /\ replay'.snap = s
       /\ replay'.current = replay.current
  BY <1>0, <1>1, <1>6 DEF ReplayRecord
<1> QED
  BY <1>12, <1>19, <1>21, <1>22

\* Dropping what is a tombstone already leaves its rows.
LEMMA DropAgain ==
  ASSUME StoresOK, NEW x \in Stores, NEW s \in Ids, StoreDrop(x, s), status[x][s] = "dropped"
  PROVE  rows'[x][s] = rows[x][s]
BY DEF StoresOK, StoreDrop

LEMMA PagedKept ==
  ASSUME NEW g, NEW s, rows'[Primary][s] = rows[Primary][s]
  PROVE  /\ rows'[g][s] = {} => Paged(g, s)'
         /\ rows'[g][s] = rows[g][s] /\ Paged(g, s) => Paged(g, s)'
<1>1. RowsOf(Primary, s)' = RowsOf(Primary, s)
  BY DEF RowsOf
<1>2. \A k : Page(s, k)' = Page(s, k)
  BY <1>1 DEF Page, Below
<1> QED
  BY <1>1, <1>2 DEF Paged

LEMMA TombsKept ==
  ASSUME ReplayAlone, LoadInv, LoadInv', MCNext, FollowInv, Mended'
  PROVE  Tombs'
<1>0. /\ TypeInv /\ StoresOK /\ Primary \in Stores /\ Primary \notin Followers
      /\ Followers \subseteq Stores
  BY CallIs DEF LoadInv
<1> SUFFICES ASSUME NEW g \in Followers, NEW s \in Ids,
                    status'[Primary][s] = "committed", status'[g][s] = "dropped"
             PROVE  Paged(g, s)'
  BY DEF Tombs
<1>1. ~InHand(s)'
  BY DEF Mended, Mending
<1>2. status[Primary][s] = "committed" /\ rows'[Primary][s] = rows[Primary][s]
  BY <1>1, PrimaryRecords
<1>3. status[g][s] = "dropped" => Paged(g, s)
  BY <1>2 DEF FollowInv, Tombs
<1>4. CASE rows'[g][s] = rows[g][s] /\ status'[g][s] = status[g][s]
  BY <1>2, <1>3, <1>4, PagedKept
<1>5. CASE StoreDrop(g, s)
  BY <1>0, <1>2, <1>3, <1>5, DropIs, DropAgain, PagedKept
<1>6. CASE /\ rows'[g][s] # rows[g][s] \/ status'[g][s] # status[g][s]
           /\ LoaderSide
  <2>1. \/ load.next # "none" /\ s = load.snap /\ UNCHANGED load
        \/ StoreDrop(g, s)
    BY <1>0, <1>6, LoaderRecords
  <2> QED
    BY <1>1, <1>5, <2>1 DEF InHand
<1>7. CASE /\ rows'[g][s] # rows[g][s] \/ status'[g][s] # status[g][s]
           /\ ReplaySide
  <2>1. /\ g = replay.on /\ s = replay.snap
        /\ StoreDrop(g, s) \/ CopyPage \/ status'[g][s] = "committed"
    BY <1>0, <1>7, ReplayRecords
  <2>2. CASE CopyPage
    BY <1>0, <2>1, <2>2, CopyPageIs DEF FollowInv, Copying
  <2> QED
    BY <1>5, <2>1, <2>2
<1> QED
  BY <1>4, <1>6, <1>7, Movers
-----------------------------------------------------------------------------
(* A replay goes by what the primary holds. *)

\* A call of the replay's moves no rows, and the mark is the loader's.
LEMMA ReplayCalls ==
  ASSUME TypeInv, FanoutCall("replay")
  PROVE  /\ UNCHANGED <<rows, mark, load, finished, replay>>
         /\ replay.at \in {"ensureType", "commit"}
         /\ call["replay"].op = "commit" =>
              /\ (call'["replay"].at = "settle" /\ call'["replay"].ok) =>
                   call["replay"].at = "attempt" /\ FollowerCommits("replay")
              /\ call'["replay"].at = "supersede" =>
                   /\ call["replay"].at = "settle" /\ call["replay"].ok
                   /\ UNCHANGED served
<1>0. /\ call["replay"].op \in {"none", "ensureType", "commit"} /\ CallersOK
      /\ call \in [Actors -> CallRecord] /\ "replay" \in Actors
  BY CallIs, ReplayIs
<1>1. /\ replay.at \in {"ensureType", "commit"} /\ UNCHANGED <<load, finished, replay>>
  <2>1. Proceeds("replay")
    BY <1>0, FollowerProceeds
  <2>2. call["replay"] # NoCall
    BY <2>1 DEF Proceeds, NoCall
  <2> QED
    BY <2>1, <2>2, ReplayIs DEF Proceeds
<1>2. UNCHANGED <<rows, mark>>
  <2>1. CASE \E f \in Followers : HoldBack("replay", f) \/ Announce("replay", f)
    BY <2>1 DEF HoldBack, Announce, stores
  <2>2. CASE FollowerEnsures("replay") \/ FollowerRefuses("replay") \/ Return("replay")
    BY <2>2 DEF FollowerEnsures, FollowerRefuses, Return, stores, ledger
  <2>3. CASE Settle("replay") \/ Supersede("replay")
    BY <2>3 DEF Settle, Supersede, stores
  <2>4. CASE FollowerFails("replay")
    BY <1>0, <2>4 DEF FollowerFails, ledger
  <2>5. CASE FollowerCommits("replay")
    BY <2>5 DEF FollowerCommits, ledger
  <2>6. ~FollowerWrites("replay") /\ ~FollowerCarries("replay") /\ ~FollowerDrops("replay")
    BY <1>0 DEF FollowerWrites, FollowerCarries, FollowerDrops, At
  <2> QED
    BY <2>1, <2>2, <2>3, <2>4, <2>5, <2>6 DEF FanoutCall
<1>3. ASSUME call["replay"].op = "commit", call'["replay"].at = "settle", call'["replay"].ok
      PROVE  call["replay"].at = "attempt" /\ FollowerCommits("replay")
  <2>1. CASE \E f \in Followers : HoldBack("replay", f)
    BY <1>0, <1>3, <2>1 DEF HoldBack, At, CallRecord
  <2>2. CASE \E f \in Followers : Announce("replay", f)
    BY <1>0, <1>3, <2>2 DEF Announce, CallRecord
  <2>3. CASE FollowerEnsures("replay")
    BY <1>3, <2>3 DEF FollowerEnsures, At
  <2>4. CASE FollowerRefuses("replay") \/ FollowerFails("replay")
    <3>1. Tried("replay", FALSE)
      BY <2>4 DEF FollowerRefuses, FollowerFails
    <3> QED
      BY <1>0, <1>3, <3>1 DEF Tried
  <2>5. CASE Settle("replay")
    BY <1>0, <1>3, <2>5 DEF Settle, Goes, CallRecord
  <2>6. CASE Supersede("replay")
    BY <1>0, <1>3, <2>6 DEF Supersede, Goes, CallRecord
  <2>7. CASE Return("replay")
    BY <1>0, <1>3, <2>7 DEF Return, Goes, CallRecord
  <2>8. CASE FollowerCommits("replay")
    BY <2>8 DEF FollowerCommits, At
  <2>9. ~FollowerWrites("replay") /\ ~FollowerCarries("replay") /\ ~FollowerDrops("replay")
    BY <1>0 DEF FollowerWrites, FollowerCarries, FollowerDrops, At
  <2> QED
    BY <2>1, <2>2, <2>3, <2>4, <2>5, <2>6, <2>7, <2>8, <2>9 DEF FanoutCall
<1>4. ASSUME call["replay"].op = "commit", call'["replay"].at = "supersede"
      PROVE  call["replay"].at = "settle" /\ call["replay"].ok /\ UNCHANGED served
  <2>1. CASE \E f \in Followers : HoldBack("replay", f)
    BY <1>0, <1>4, <2>1 DEF HoldBack, At, CallRecord
  <2>2. CASE \E f \in Followers : Announce("replay", f)
    BY <1>0, <1>4, <2>2 DEF Announce, CallRecord
  <2>3. CASE FollowerEnsures("replay")
    BY <1>4, <2>3 DEF FollowerEnsures, At
  <2>4. CASE FollowerRefuses("replay") \/ FollowerFails("replay")
    <3>1. Tried("replay", FALSE)
      BY <2>4 DEF FollowerRefuses, FollowerFails
    <3> QED
      BY <1>0, <1>4, <3>1 DEF Tried, CallRecord
  <2>5. CASE Settle("replay")
    <3>1. call["replay"].at = "settle" /\ UNCHANGED served
      BY <2>5 DEF Settle, stores
    <3>2. ASSUME ~call["replay"].ok PROVE FALSE
      BY <1>0, <1>4, <2>5, <3>2 DEF Settle, CallRecord
    <3> QED
      BY <3>1, <3>2
  <2>6. CASE Supersede("replay")
    BY <1>0, <1>4, <2>6 DEF Supersede, Goes, CallRecord
  <2>7. CASE Return("replay")
    BY <1>0, <1>4, <2>7 DEF Return, Goes, CallRecord
  <2>8. CASE FollowerCommits("replay")
    <3>1. PICK ok \in BOOLEAN : Tried("replay", ok)
      BY <2>8 DEF FollowerCommits
    <3> QED
      BY <1>0, <1>4, <3>1 DEF Tried, CallRecord
  <2>9. ~FollowerWrites("replay") /\ ~FollowerCarries("replay") /\ ~FollowerDrops("replay")
    BY <1>0 DEF FollowerWrites, FollowerCarries, FollowerDrops, At
  <2> QED
    BY <2>1, <2>2, <2>3, <2>4, <2>5, <2>6, <2>7, <2>8, <2>9 DEF FanoutCall
<1> QED
  BY <1>1, <1>2, <1>3, <1>4

\* A follower that will not drop its copy and holds none of it owes the rows.
LEMMA EmptyOwes ==
  ASSUME StoresOK, NEW g \in Followers, NEW s \in Ids, ServesWhole(g, s),
         OwnBatches(Primary, s) # {}, RowsOf(g, s) = {}
  PROVE  OwesRows(g, s)
<1>1. PICK y \in rows[Primary][s] : TRUE
  BY DEF OwnBatches
<1>2. RowsOf(Primary, s) # {}
  BY <1>1 DEF RowsOf
<1>3. rows[g][s] = {}
  BY DEF RowsOf
<1>4. OwnBatches(g, s) = {}
  BY <1>3 DEF OwnBatches
<1> QED
  BY <1>2, <1>4 DEF ServesWhole, SameRows

\* The follower's copy cleared, what is left of it is what a replay wrote.
LEMMA CopyingBegins ==
  ASSUME LoadInv, MCNext, FollowInv, Resting, ClearFollowerCopy,
         NEW g \in Followers, NEW s \in Ids, g = replay.on, s = replay.snap
  PROVE  Copying(g, s)' /\ replay' = [replay EXCEPT !.at = "copy"] /\ UNCHANGED mark
<1>0. /\ TypeInv /\ StoresOK /\ Primary \in Stores /\ Primary \notin Followers
      /\ Followers \subseteq Stores /\ replay \in ReplayRecord
  BY CallIs, ReplayIs DEF LoadInv
<1>1. /\ replay.at = "clear" /\ replay' = [replay EXCEPT !.at = "copy"]
      /\ UNCHANGED <<served, journal, mark>>
  BY DEF ClearFollowerCopy, ledger
<1>2. status[Primary][s] = "committed" /\ replay.copied = {}
  BY <1>1 DEF LoadInv, Future, FollowInv, Replaying
<1>3. replay'.copied = {}
  BY <1>0, <1>1, <1>2 DEF ReplayRecord
<1>4. Paged(g, s)' /\ (served'[g] = s => OwesRows(g, s)')
  <2>1. CASE Droppable(g, s) /\ StoreDrop(g, s)
    <3>1. rows'[Primary][s] = rows[Primary][s]
      BY <1>0, <2>1, DropIs DEF Only
    <3>2. status[g][s] = "dropped" => Paged(g, s)
      BY <1>2 DEF FollowInv, Tombs
    <3>3. Paged(g, s)'
      BY <1>0, <2>1, <3>1, <3>2, DropIs, DropAgain, PagedKept
    <3> QED
      BY <1>1, <2>1, <3>3 DEF Droppable
  <2>2. CASE ~Droppable(g, s) /\ RowsOf(g, s) = {} /\ UNCHANGED <<rows, status>>
    <3>1. rows'[g][s] = {} /\ rows'[Primary][s] = rows[Primary][s]
      BY <2>2 DEF RowsOf
    <3>2. Paged(g, s)'
      BY <3>1, PagedKept
    <3>3. ServesWhole(g, s)
      BY <1>2, <2>2 DEF FollowInv, Standing, Droppable, InHand, Resting
    <3>4. OwnBatches(Primary, s) # {}
      BY <1>2 DEF FollowInv, NotEmpty
    <3>5. OwesRows(g, s)
      BY <1>0, <2>2, <3>3, <3>4, EmptyOwes
    <3>6. OwesRows(g, s)'
      BY <1>1, <3>5 DEF OwesRows
    <3> QED
      BY <3>2, <3>6
  <2> QED
    BY <2>1, <2>2 DEF ClearFollowerCopy
<1>5. Copying(g, s)'
  BY <1>3, <1>4 DEF Copying
<1> QED
  BY <1>1, <1>5

\* Every page copied, the copy is the primary's.
LEMMA CopiedIsSame ==
  ASSUME NEW g, NEW s, Copying(g, s), {r[1] : r \in RowsOf(Primary, s)} \subseteq replay.copied
  PROVE  SameRows(g, s)
<1>1. \A r \in RowsOf(Primary, s) : r \in RowsOf(g, s)
  BY DEF Copying
<1>2. \A r \in RowsOf(g, s) : r \in RowsOf(Primary, s)
  BY DEF Copying, Paged, RowsOf
<1> QED
  BY <1>1, <1>2 DEF SameRows

LEMMA ReplayingKept ==
  ASSUME ReplayAlone, LoadInv, MCNext, FollowInv
  PROVE  Replaying'
<1>0. /\ TypeInv /\ StoresOK /\ Primary \in Stores /\ Primary \notin Followers
      /\ Followers \subseteq Stores /\ replay \in ReplayRecord
      /\ "replay" \in Actors /\ call \in [Actors -> CallRecord]
  BY CallIs, ReplayIs DEF LoadInv
<1>1. CASE replay.at = "rest" /\ UNCHANGED replay
  BY <1>1 DEF Replaying
<1>2. CASE StartReplay
  BY <1>2 DEF StartReplay, Replaying, ledger
<1>3. CASE ReplayEnsured
  <2>1. replay' = [replay EXCEPT !.at = "clear"] /\ UNCHANGED mark /\ replay.at = "ensureType"
    BY <1>3 DEF ReplayEnsured, ledger
  <2> QED
    BY <1>0, <2>1 DEF FollowInv, Replaying, ReplayRecord
<1>4. CASE ClearFollowerCopy /\ Resting
  <2>1. PICK g \in Followers, s \in Ids : g = replay.on /\ s = replay.snap
    BY <1>0, <1>4, ReplayIs DEF ClearFollowerCopy
  <2>2. Copying(g, s)' /\ replay' = [replay EXCEPT !.at = "copy"] /\ UNCHANGED mark
    BY <1>4, <2>1, CopyingBegins
  <2>3. /\ replay'.at = "copy" /\ replay'.on = g /\ replay'.snap = s
        /\ replay'.current = replay.current
    BY <1>0, <2>1, <2>2 DEF ReplayRecord
  <2>4. replay.current = mark
    BY <1>4 DEF ClearFollowerCopy, FollowInv, Replaying
  <2>5. Copying(replay.on, replay.snap)'
    BY <2>2, <2>3 DEF Copying, Paged, OwesRows, Page, Below, RowsOf
  <2> QED
    BY <2>2, <2>3, <2>4, <2>5 DEF Replaying
<1>5. CASE CopyPage
  <2>1. PICK g \in Followers, s \in Ids : g = replay.on /\ s = replay.snap
    BY <1>0, <1>5, ReplayIs DEF CopyPage
  <2>2. /\ UNCHANGED mark
        /\ replay'.at = "copy" /\ replay'.on = g /\ replay'.snap = s
        /\ replay'.current = replay.current
        /\ Copying(g, s)'
    BY <1>0, <1>5, <2>1, CopyPageIs DEF FollowInv
  <2>4. replay.current = mark
    BY <1>5 DEF CopyPage, FollowInv, Replaying
  <2>5. Copying(replay.on, replay.snap)'
    BY <2>2 DEF Copying, Paged, OwesRows, Page, Below, RowsOf
  <2> QED
    BY <2>2, <2>4, <2>5 DEF Replaying
<1>6. CASE CopiedAll
  <2>1. PICK g \in Followers, s \in Ids : g = replay.on /\ s = replay.snap
    BY <1>0, <1>6, ReplayIs DEF CopiedAll
  <2>2. /\ replay.at = "copy" /\ replay' = [replay EXCEPT !.at = "clearDebt"]
        /\ UNCHANGED <<rows, mark>> /\ Uncopied = {}
    BY <1>6 DEF CopiedAll, stores, ledger
  <2>3. Copying(g, s) /\ replay.current = mark
    BY <2>1, <2>2 DEF FollowInv, Replaying
  <2>4. {r[1] : r \in RowsOf(Primary, s)} \subseteq replay.copied
    BY <2>1, <2>2 DEF Uncopied
  <2>5. SameRows(g, s)
    BY <2>3, <2>4, CopiedIsSame
  <2>6. /\ replay'.at = "clearDebt" /\ replay'.on = g /\ replay'.snap = s
        /\ replay'.current = mark'
    BY <1>0, <2>1, <2>2, <2>3 DEF ReplayRecord
  <2>7. SameRows(replay.on, replay.snap)'
    BY <2>2, <2>5, <2>6 DEF SameRows, RowsOf
  <2> QED
    BY <2>6, <2>7 DEF Replaying
<1>7. CASE ClearDebt
  <2>1. /\ replay.at = "clearDebt" /\ SameRows(replay.on, replay.snap)
        /\ replay.current = mark /\ UNCHANGED <<rows, mark>>
    BY <1>7 DEF ClearDebt, FollowInv, Replaying, stores
  <2>2. CASE replay.current = replay.snap
    <3>1. replay' = [replay EXCEPT !.at = "commit"]
      BY <1>7, <2>2 DEF ClearDebt
    <3>2. /\ replay'.at = "commit" /\ replay'.on = replay.on /\ replay'.snap = replay.snap
          /\ replay'.current = replay.current
      BY <1>0, <3>1 DEF ReplayRecord
    <3>3. call'["replay"] = Begun("commit", replay.snap, 0, "follow", {replay.on})
      BY <1>0, <1>7, <2>2 DEF ClearDebt
    <3>4. call'["replay"].at = "follow" /\ call'["replay"].op = "commit"
      BY <3>3 DEF Begun, NoCall
    <3>5. SameRows(replay.on, replay.snap)'
      BY <2>1, <3>2 DEF SameRows, RowsOf
    <3> QED
      BY <2>1, <2>2, <3>2, <3>4, <3>5 DEF Replaying
  <2>3. CASE replay.current # replay.snap
    BY <1>7, <2>3 DEF ClearDebt, Replaying, NoReplay
  <2> QED
    BY <2>2, <2>3
<1>8. CASE ReplayEnds
  BY <1>8 DEF ReplayEnds, Replaying, NoReplay
<1>9. CASE FanoutCall("replay")
  <2>1. /\ UNCHANGED <<rows, mark, replay>> /\ replay.at \in {"ensureType", "commit"}
    BY <1>0, <1>9, ReplayCalls
  <2>2. CASE replay.at = "ensureType"
    BY <2>1, <2>2 DEF FollowInv, Replaying
  <2>3. CASE replay.at = "commit"
    <3>1. /\ replay.current = mark /\ replay.current = replay.snap
          /\ SameRows(replay.on, replay.snap)
          /\ (call["replay"].at = "settle" /\ call["replay"].ok) => served[replay.on] = replay.snap
      BY <2>3 DEF FollowInv, Replaying
    <3>2. SameRows(replay.on, replay.snap)'
      BY <2>1, <3>1 DEF SameRows, RowsOf
    <3>3. ASSUME \/ call'["replay"].at = "settle" /\ call'["replay"].ok
                 \/ call'["replay"].at = "supersede"
          PROVE  served'[replay.on] = replay.snap
      <4>1. call["replay"].op = "commit"
        BY <2>3 DEF FollowInv, Replaying
      <4>2. CASE call'["replay"].at = "settle" /\ call'["replay"].ok
        <5>1. call["replay"].at = "attempt" /\ FollowerCommits("replay")
          BY <1>0, <1>9, <4>1, <4>2, ReplayCalls
        <5>2. PICK g \in Followers, s \in Ids : g = replay.on /\ s = replay.snap
          BY <1>0, <2>3, ReplayIs
        <5>3. call["replay"].on = g /\ call["replay"].snap = s
          BY <1>0, <4>1, <5>1, <5>2, ReplayIs DEF Trying
        <5>4. StoreCommit(g, s)
          BY <5>1, <5>3 DEF FollowerCommits
        <5>5. served'[g] = s
          BY <1>0, <5>4, CommitIs
        <5> QED
          BY <5>2, <5>5
      <4>3. CASE call'["replay"].at = "supersede"
        BY <1>0, <1>9, <3>1, <4>1, <4>3, ReplayCalls
      <4> QED
        BY <3>3, <4>2, <4>3
    <3>4. call'["replay"].op = "commit"
      <4>1. Proceeds("replay") /\ call["replay"].op = "commit"
        BY <1>0, <1>9, <2>3, CallIs, FollowerProceeds DEF FollowInv, Replaying
      <4> QED
        BY <4>1 DEF Proceeds
    <3> QED
      BY <2>1, <2>3, <3>1, <3>2, <3>3, <3>4 DEF Replaying
  <2> QED
    BY <2>1, <2>2, <2>3
<1> QED
  BY <1>1, <1>2, <1>3, <1>4, <1>5, <1>6, <1>7, <1>8, <1>9, Movers DEF ReplaySide, ReplayStep
-----------------------------------------------------------------------------
(* The calls of a commit and of a drop. *)

\* The commit of the load in hand.
Committer(s) ==
  /\ LoadInv /\ LoadInv' /\ MCNext /\ FollowInv
  /\ call["load"].op = "commit" /\ call["load"].snap = s

LEMMA CommitterIs ==
  ASSUME NEW s \in Ids, Committer(s)
  PROVE  /\ TypeInv /\ StoresOK /\ CallersOK /\ LedgerOK /\ call \in [Actors -> CallRecord]
         /\ "load" \in Actors /\ Primary \in Stores /\ Primary \notin Followers
         /\ Followers \subseteq Stores /\ call["load"].batch = 0 /\ load.next = "commit"
         /\ call["load"].at \in Trying => call["load"].on \in Followers
         /\ Placing(s)
         /\ Key(call["load"])
              = [follower |-> call["load"].on, snap |-> s, stage |-> "commit", batch |-> 0]
<1>1. TypeInv /\ LoaderCalls
  BY DEF Committer, LoadInv, FollowInv
<1>2. load.next = "commit" /\ call["load"].batch = 0
  BY <1>1, CallIs DEF Committer, LoaderCalls
<1> QED
  BY <1>1, <1>2, CallIs DEF Committer, LoaderCalls, Key

LEMMA PlacingByPrimary ==
  ASSUME NEW s \in Ids, Committer(s), Ask \/ PrimaryCommits \/ MarkCommitted
  PROVE  Placing(s)'
<1>0. /\ StoresOK /\ call \in [Actors -> CallRecord] /\ "load" \in Actors /\ Primary \in Stores
      /\ Placing(s) /\ Pace /\ call["load"].op = "commit" /\ call["load"].snap = s
  BY CommitterIs DEF Committer, LoadInv
<1>1. CASE Ask
  <2>1. PICK at \in {"threw", "primary"} : call'["load"].at = at
    BY <1>0, <1>1 DEF Ask, CallRecord
  <2> QED
    BY <2>1 DEF Placing, After
<1>2. CASE PrimaryCommits
  <2>1. /\ StoreCommit(Primary, s) /\ call["load"].at = "primary" /\ Goes("load", "mark")
    BY <1>0, <1>2 DEF PrimaryCommits, At
  <2>2. call'["load"].at = "mark" /\ call'["load"].todo = call["load"].todo
    BY <1>0, <2>1 DEF Goes, CallRecord
  <2>3. call["load"].todo = Followers
    BY <1>0, <2>1 DEF Pace
  <2>4. status'[Primary][s] = "committed" /\ served'[Primary] = s
    BY <1>0, <2>1, CommitIs
  <2> QED
    BY <2>2, <2>3, <2>4 DEF Placing, After
<1>3. CASE MarkCommitted
  <2>1. /\ call["load"].at = "mark" /\ Goes("load", "follow") /\ mark' = s
        /\ UNCHANGED <<status, served>>
    BY <1>0, <1>3 DEF MarkCommitted, At, stores
  <2>2. call'["load"].at = "follow" /\ call'["load"].todo = call["load"].todo
    BY <1>0, <2>1 DEF Goes, CallRecord
  <2>3. /\ call["load"].todo = Followers
        /\ status[Primary][s] = "committed" /\ served[Primary] = s
    BY <1>0, <2>1 DEF Placing
  <2> QED
    BY <2>1, <2>2, <2>3 DEF Placing, After
<1> QED
  BY <1>1, <1>2, <1>3

\* The primary and the mark left alone, and no one recorded lost.
LEMMA PlacingFrame ==
  ASSUME NEW s \in Ids, Committer(s), call["load"].at \in After,
         status'[Primary][s] = status[Primary][s], served'[Primary] = served[Primary],
         UNCHANGED mark, call'["load"].at \in After \cup {"threw"},
         \A g \in Followers \ call'["load"].todo :
           \/ g \notin call["load"].todo /\ (served[g] = s => served'[g] = s)
              /\ (Recorded(g, s, "commit", 0) => Recorded(g, s, "commit", 0)' \/ served'[g] = s)
           \/ served'[g] = s \/ Recorded(g, s, "commit", 0)',
         call'["load"].at = "returned" => call'["load"].todo = {},
         (call'["load"].at = "settle" /\ call'["load"].ok) \/ call'["load"].at = "supersede" =>
           served'[call'["load"].on] = s
  PROVE  Placing(s)'
<1>1. /\ status[Primary][s] = "committed" /\ served[Primary] = s /\ mark = s
      /\ \A g \in Followers \ call["load"].todo : served[g] = s \/ Recorded(g, s, "commit", 0)
  BY CommitterIs DEF Placing, Committer
<1>2. \A g \in Followers \ call'["load"].todo : served'[g] = s \/ Recorded(g, s, "commit", 0)'
  BY <1>1
<1>3. status'[Primary][s] = "committed" /\ served'[Primary] = s /\ mark' = s
  BY <1>1
<1>4. call'["load"].at # "mark"
  BY DEF After
<1> QED
  BY <1>2, <1>3, <1>4 DEF Placing, After

LEMMA PlacingByFollower ==
  ASSUME NEW s \in Ids, Committer(s), FanoutCall("load")
  PROVE  Placing(s)'
<1>0. /\ StoresOK /\ call \in [Actors -> CallRecord] /\ "load" \in Actors /\ Primary \in Stores
      /\ Primary \notin Followers /\ CallersOK
      /\ Placing(s) /\ call["load"].op = "commit" /\ call["load"].snap = s
      /\ call["load"].batch = 0 /\ Followers \subseteq Stores
      /\ call["load"].at \in Trying => call["load"].on \in Followers
      /\ Key(call["load"])
           = [follower |-> call["load"].on, snap |-> s, stage |-> "commit", batch |-> 0]
  BY CommitterIs DEF Committer
<1>00. call["load"].at \in After
  BY <1>0, FollowerKeeps DEF After
<1>1. ASSUME NEW f \in Followers, HoldBack("load", f) PROVE Placing(s)'
  <2>1. /\ UNCHANGED <<status, served, mark>> /\ journal \subseteq journal'
        /\ Recorded(f, s, "commit", 0)'
        /\ call' = [call EXCEPT !["load"].todo = @ \ {f}] /\ call["load"].at = "follow"
    BY <1>0, <1>1 DEF HoldBack, At, stores, Recorded
  <2>2. call'["load"].at = "follow" /\ call'["load"].todo = call["load"].todo \ {f}
    BY <1>0, <2>1 DEF CallRecord
  <2>3. \A g : Recorded(g, s, "commit", 0) => Recorded(g, s, "commit", 0)'
    BY <2>1 DEF Recorded
  <2> QED
    BY <1>00, <2>1, <2>2, <2>3, PlacingFrame DEF After
<1>2. ASSUME NEW f \in Followers, Announce("load", f) PROVE Placing(s)'
  <2>1. /\ UNCHANGED <<status, served, mark>> /\ journal \subseteq journal'
        /\ call' = [call EXCEPT !["load"].todo = @ \ {f}, !["load"].on = f, !["load"].at = "attempt"]
        /\ Key([call["load"] EXCEPT !.on = f]) \in journal'
    BY <1>0, <1>2 DEF Announce, stores
  <2>2. call'["load"].at = "attempt" /\ call'["load"].todo = call["load"].todo \ {f}
    BY <1>0, <2>1 DEF CallRecord
  <2>3. Recorded(f, s, "commit", 0)'
    BY <1>0, <2>1 DEF Key, Recorded, CallRecord
  <2>4. \A g : Recorded(g, s, "commit", 0) => Recorded(g, s, "commit", 0)'
    BY <2>1 DEF Recorded
  <2> QED
    BY <1>00, <2>1, <2>2, <2>3, <2>4, PlacingFrame DEF After
<1>3. CASE FollowerCommits("load")
  <2>1. PICK x \in Followers : x = call["load"].on
    BY <1>0, <1>3 DEF FollowerCommits, At, Trying
  <2>2. StoreCommit(x, s) /\ UNCHANGED <<journal, mark>>
    BY <1>0, <1>3, <2>1 DEF FollowerCommits, ledger
  <2>3. PICK ok \in BOOLEAN : Tried("load", ok)
    BY <1>3 DEF FollowerCommits
  <2>4. /\ call'["load"].at = "settle" /\ call'["load"].todo = call["load"].todo
        /\ call'["load"].on = x
    BY <1>0, <2>1, <2>3 DEF Tried, CallRecord
  <2>5. /\ served'[x] = s /\ \A z \in Stores : z # x => served'[z] = served[z]
        /\ status'[Primary][s] = status[Primary][s]
    BY <1>0, <2>2, CommitIs
  <2>6. \A g : Recorded(g, s, "commit", 0)' <=> Recorded(g, s, "commit", 0)
    BY <2>2 DEF Recorded
  <2>7. served'[Primary] = served[Primary] /\ \A g \in Followers : served[g] = s => served'[g] = s
    BY <1>0, <2>5
  <2> QED
    BY <1>00, <2>2, <2>4, <2>5, <2>6, <2>7, PlacingFrame DEF After
<1>4. CASE FollowerFails("load") \/ FollowerRefuses("load")
  <2>1. Tried("load", FALSE) /\ UNCHANGED <<status, served, journal, mark>>
    BY <1>0, <1>4 DEF FollowerFails, FollowerRefuses, stores, ledger
  <2>2. /\ call'["load"].at = "settle" /\ ~call'["load"].ok
        /\ call'["load"].todo = call["load"].todo
    BY <1>0, <2>1 DEF Tried, CallRecord
  <2>3. \A g : Recorded(g, s, "commit", 0)' <=> Recorded(g, s, "commit", 0)
    BY <2>1 DEF Recorded
  <2> QED
    BY <1>00, <2>1, <2>2, <2>3, PlacingFrame DEF After
<1>5. CASE Settle("load") /\ call["load"].ok
  <2>1. PICK x \in Followers : x = call["load"].on
    BY <1>0, <1>5 DEF Settle, Trying
  <2>2. /\ call["load"].at = "settle" /\ journal' = journal \ {Key(call["load"])}
        /\ Goes("load", "supersede") /\ UNCHANGED <<status, served, mark>>
    BY <1>0, <1>5 DEF Settle, stores
  <2>3. /\ call'["load"].at = "supersede" /\ call'["load"].todo = call["load"].todo
        /\ call'["load"].on = x
    BY <1>0, <2>1, <2>2 DEF Goes, CallRecord
  <2>4. served[x] = s
    BY <1>0, <1>5, <2>1, <2>2 DEF Placing
  <2>5. \A g : g # x /\ Recorded(g, s, "commit", 0) => Recorded(g, s, "commit", 0)'
    BY <1>0, <2>1, <2>2 DEF Recorded
  <2> QED
    BY <1>00, <2>1, <2>2, <2>3, <2>4, <2>5, PlacingFrame DEF After
<1>6. CASE Settle("load") /\ ~call["load"].ok
  <2>1. /\ journal \subseteq journal' /\ UNCHANGED <<status, served, mark>>
        /\ call' = [call EXCEPT !["load"].failed = @ \cup {call["load"].on},
                                !["load"].at = "follow"]
    BY <1>6 DEF Settle, stores
  <2>2. call'["load"].at = "follow" /\ call'["load"].todo = call["load"].todo
    BY <1>0, <2>1 DEF CallRecord
  <2>3. \A g : Recorded(g, s, "commit", 0) => Recorded(g, s, "commit", 0)'
    BY <2>1 DEF Recorded
  <2> QED
    BY <1>00, <2>1, <2>2, <2>3, PlacingFrame DEF After
<1>7. CASE Supersede("load")
  <2>1. /\ journal' = {d \in journal : Owes(d, call["load"].on) => d.snap \in {s, 0}}
        /\ Goes("load", "follow") /\ UNCHANGED <<status, served, mark>>
    BY <1>0, <1>7 DEF Supersede, stores
  <2>2. call'["load"].at = "follow" /\ call'["load"].todo = call["load"].todo
    BY <1>0, <2>1 DEF Goes, CallRecord
  <2>3. \A g : Recorded(g, s, "commit", 0) => Recorded(g, s, "commit", 0)'
    BY <2>1 DEF Recorded
  <2> QED
    BY <1>00, <2>1, <2>2, <2>3, PlacingFrame DEF After
<1>8. CASE Return("load")
  <2>1. PICK at \in {"returned", "threw"} : Goes("load", at)
    BY <1>0, <1>8 DEF Return
  <2>2. call["load"].todo = {} /\ UNCHANGED <<status, served, mark, journal>>
    BY <1>8 DEF Return, stores, ledger
  <2>3. call'["load"].at = at /\ call'["load"].todo = call["load"].todo
    BY <1>0, <2>1 DEF Goes, CallRecord
  <2>4. \A g : Recorded(g, s, "commit", 0)' <=> Recorded(g, s, "commit", 0)
    BY <2>2 DEF Recorded
  <2> QED
    BY <1>00, <2>1, <2>2, <2>3, <2>4, PlacingFrame DEF After
<1>9. /\ ~FollowerEnsures("load") /\ ~FollowerWrites("load") /\ ~FollowerCarries("load")
      /\ ~FollowerDrops("load")
  BY <1>0 DEF FollowerEnsures, FollowerWrites, FollowerCarries, FollowerDrops, At
<1> QED
  BY <1>1, <1>2, <1>3, <1>4, <1>5, <1>6, <1>7, <1>8, <1>9 DEF FanoutCall
Dropper(s) ==
  /\ LoadInv /\ LoadInv' /\ MCNext /\ FollowInv
  /\ call["load"].op = "drop" /\ call["load"].snap = s

LEMMA DropperIs ==
  ASSUME NEW s \in Ids, Dropper(s)
  PROVE  /\ StoresOK /\ CallersOK /\ call \in [Actors -> CallRecord]
         /\ "load" \in Actors /\ Primary \in Stores /\ Primary \notin Followers
         /\ Followers \subseteq Stores /\ load.next = "none"
         /\ call["load"].at \in Trying => call["load"].on \in Followers
         /\ call["load"].op = "drop" /\ call["load"].snap = s /\ call["load"].batch = 0
         /\ status[Primary][s] # "none" /\ Dropping(s) /\ ~InHand(s)
         /\ Key(call["load"])
              = [follower |-> call["load"].on, snap |-> s, stage |-> "drop", batch |-> 0]
<1>1. TypeInv /\ LoaderCalls
  BY DEF Dropper, LoadInv, FollowInv
<1>2. Dropping(s) /\ call["load"].batch = 0 /\ status[Primary][s] # "none"
  BY <1>1 DEF Dropper, LoaderCalls, Dropping
<1> QED
  BY <1>1, <1>2, CallIs DEF Dropper, Key, InHand

\* The primary left alone, and no one recorded lost.
LEMMA DroppingFrame ==
  ASSUME NEW s \in Ids, Dropper(s), FanoutCall("load"), status'[Primary][s] # "none",
         UNCHANGED served,
         \A g \in Followers \ call'["load"].todo :
           \/ /\ g \notin call["load"].todo
              /\ Recorded(g, s, "drop", 0) => Recorded(g, s, "drop", 0)' \/ served[g] # s
           \/ Recorded(g, s, "drop", 0)',
         call'["load"].at = "settle" /\ call'["load"].ok => served[call'["load"].on] # s,
         call'["load"].at = "primary" => call'["load"].todo = {},
         call'["load"].at # "forget"
  PROVE  Dropping(s)'
<1>1. /\ call["load"].batch = 0
      /\ \A g \in Followers \ call["load"].todo : served[g] # s \/ Recorded(g, s, "drop", 0)
  BY DropperIs DEF Dropping
<1>2. \A g \in Followers \ call'["load"].todo : served'[g] # s \/ Recorded(g, s, "drop", 0)'
  BY <1>1
<1>3. call'["load"].batch = 0
  BY <1>1, DropperIs, FollowerProceeds DEF Proceeds
<1>4. call'["load"].at = "settle" /\ call'["load"].ok => served'[call'["load"].on] # s
  OBVIOUS
<1> QED
  BY <1>2, <1>3, <1>4 DEF Dropping

LEMMA DroppingByFollower ==
  ASSUME NEW s \in Ids, Dropper(s), FanoutCall("load")
  PROVE  Dropping(s)'
<1>0. /\ StoresOK /\ call \in [Actors -> CallRecord] /\ "load" \in Actors /\ Primary \in Stores
      /\ Primary \notin Followers /\ CallersOK /\ Followers \subseteq Stores
      /\ Dropping(s) /\ call["load"].op = "drop" /\ call["load"].snap = s
      /\ call["load"].batch = 0 /\ status[Primary][s] # "none"
      /\ call["load"].at \in Trying => call["load"].on \in Followers
      /\ Key(call["load"])
           = [follower |-> call["load"].on, snap |-> s, stage |-> "drop", batch |-> 0]
  BY DropperIs
<1>1. ASSUME NEW f \in Followers, Announce("load", f) PROVE Dropping(s)'
  <2>1. /\ UNCHANGED <<status, served>> /\ journal \subseteq journal'
        /\ call' = [call EXCEPT !["load"].todo = @ \ {f}, !["load"].on = f, !["load"].at = "attempt"]
        /\ Key([call["load"] EXCEPT !.on = f]) \in journal'
    BY <1>0, <1>1 DEF Announce, stores
  <2>2. call'["load"].at = "attempt" /\ call'["load"].todo = call["load"].todo \ {f}
    BY <1>0, <2>1 DEF CallRecord
  <2>3. Recorded(f, s, "drop", 0)'
    BY <1>0, <2>1 DEF Key, Recorded, CallRecord
  <2>4. \A g : Recorded(g, s, "drop", 0) => Recorded(g, s, "drop", 0)'
    BY <2>1 DEF Recorded
  <2> QED
    BY <1>0, <2>1, <2>2, <2>3, <2>4, DroppingFrame
<1>2. CASE FollowerDrops("load")
  <2>1. PICK x \in Followers : x = call["load"].on
    BY <1>0, <1>2 DEF FollowerDrops, At, Trying
  <2>2. StoreDrop(x, s) /\ served[x] # s /\ UNCHANGED <<served, journal>>
    BY <1>0, <1>2, <2>1 DEF FollowerDrops, ledger, Droppable
  <2>3. PICK ok \in BOOLEAN : Tried("load", ok)
    BY <1>2 DEF FollowerDrops
  <2>4. /\ call'["load"].at = "settle" /\ call'["load"].todo = call["load"].todo
        /\ call'["load"].on = x
    BY <1>0, <2>1, <2>3 DEF Tried, CallRecord
  <2>5. status'[Primary][s] = status[Primary][s]
    BY <1>0, <2>2, DropIs DEF Only
  <2>6. \A g : Recorded(g, s, "drop", 0)' <=> Recorded(g, s, "drop", 0)
    BY <2>2 DEF Recorded
  <2> QED
    BY <1>0, <2>2, <2>4, <2>5, <2>6, DroppingFrame
<1>3. CASE FollowerFails("load") \/ FollowerRefuses("load")
  <2>1. Tried("load", FALSE) /\ UNCHANGED <<status, served, journal>>
    BY <1>0, <1>3 DEF FollowerFails, FollowerRefuses, stores, ledger
  <2>2. /\ call'["load"].at = "settle" /\ ~call'["load"].ok
        /\ call'["load"].todo = call["load"].todo
    BY <1>0, <2>1 DEF Tried, CallRecord
  <2>3. \A g : Recorded(g, s, "drop", 0)' <=> Recorded(g, s, "drop", 0)
    BY <2>1 DEF Recorded
  <2> QED
    BY <1>0, <2>1, <2>2, <2>3, DroppingFrame
<1>4. CASE Settle("load") /\ call["load"].ok
  <2>1. PICK x \in Followers : x = call["load"].on
    BY <1>0, <1>4 DEF Settle, Trying
  <2>2. /\ call["load"].at = "settle" /\ journal' = journal \ {Key(call["load"])}
        /\ Goes("load", "follow") /\ UNCHANGED <<status, served>>
    BY <1>0, <1>4 DEF Settle, stores
  <2>3. call'["load"].at = "follow" /\ call'["load"].todo = call["load"].todo
    BY <1>0, <2>2 DEF Goes, CallRecord
  <2>4. served[x] # s
    BY <1>0, <1>4, <2>1, <2>2 DEF Dropping
  <2>5. \A g : g # x /\ Recorded(g, s, "drop", 0) => Recorded(g, s, "drop", 0)'
    BY <1>0, <2>1, <2>2 DEF Recorded
  <2> QED
    BY <1>0, <2>2, <2>3, <2>4, <2>5, DroppingFrame
<1>5. CASE Settle("load") /\ ~call["load"].ok
  <2>1. /\ journal \subseteq journal' /\ UNCHANGED <<status, served>>
        /\ call' = [call EXCEPT !["load"].failed = @ \cup {call["load"].on},
                                !["load"].at = "follow"]
    BY <1>5 DEF Settle, stores
  <2>2. call'["load"].at = "follow" /\ call'["load"].todo = call["load"].todo
    BY <1>0, <2>1 DEF CallRecord
  <2>3. \A g : Recorded(g, s, "drop", 0) => Recorded(g, s, "drop", 0)'
    BY <2>1 DEF Recorded
  <2> QED
    BY <1>0, <2>1, <2>2, <2>3, DroppingFrame
<1>6. CASE Return("load")
  <2>1. call["load"].todo = {} /\ UNCHANGED <<status, served, journal>>
    BY <1>6 DEF Return, stores, ledger
  <2>2. PICK at \in {"primary", "returned", "threw"} : Goes("load", at)
    BY <1>0, <1>6 DEF Return
  <2>4. call'["load"].at = at /\ call'["load"].todo = call["load"].todo
    BY <1>0, <2>2 DEF Goes, CallRecord
  <2>3. \A g : Recorded(g, s, "drop", 0)' <=> Recorded(g, s, "drop", 0)
    BY <2>1 DEF Recorded
  <2> QED
    BY <1>0, <2>1, <2>4, <2>3, DroppingFrame
<1>7. /\ ~FollowerEnsures("load") /\ ~FollowerWrites("load") /\ ~FollowerCarries("load")
      /\ ~FollowerCommits("load") /\ ~Supersede("load") /\ \A f : ~HoldBack("load", f)
  BY <1>0 DEF FollowerEnsures, FollowerWrites, FollowerCarries, FollowerCommits, Supersede,
     HoldBack, At
<1> QED
  BY <1>1, <1>2, <1>3, <1>4, <1>5, <1>6, <1>7 DEF FanoutCall

LEMMA DroppingByPrimary ==
  ASSUME NEW s \in Ids, Dropper(s), PrimaryDrops \/ Forget
  PROVE  Dropping(s)'
<1>0. /\ StoresOK /\ call \in [Actors -> CallRecord] /\ "load" \in Actors /\ Primary \in Stores
      /\ Dropping(s) /\ call["load"].op = "drop" /\ call["load"].snap = s
      /\ call["load"].batch = 0 /\ status[Primary][s] # "none"
  BY DropperIs
<1>1. \A g \in Followers \ call["load"].todo : served[g] # s \/ Recorded(g, s, "drop", 0)
  BY <1>0 DEF Dropping
<1>2. CASE PrimaryDrops
  <2>1. /\ StoreDrop(Primary, s) /\ served[Primary] # s /\ call["load"].at = "primary"
        /\ Goes("load", "forget") /\ UNCHANGED <<served, journal>>
    BY <1>0, <1>2 DEF PrimaryDrops, At, Droppable, ledger
  <2>2. /\ call'["load"].at = "forget" /\ call'["load"].todo = call["load"].todo
        /\ call'["load"].batch = 0
    BY <1>0, <2>1 DEF Goes, CallRecord
  <2>3. call["load"].todo = {}
    BY <1>0, <2>1 DEF Dropping
  <2>4. status'[Primary][s] = "dropped"
    BY <1>0, <2>1, DropIs
  <2>5. \A g : Recorded(g, s, "drop", 0)' <=> Recorded(g, s, "drop", 0)
    BY <2>1 DEF Recorded
  <2>6. \A g \in Followers \ call'["load"].todo : served'[g] # s \/ Recorded(g, s, "drop", 0)'
    BY <1>1, <2>1, <2>2, <2>5
  <2> QED
    BY <2>1, <2>2, <2>3, <2>4, <2>6 DEF Dropping
<1>3. CASE Forget
  <2>1. /\ journal' = {d \in journal : d.snap = s => d.stage = "drop"}
        /\ UNCHANGED <<status, served>>
    BY <1>0, <1>3 DEF Forget, stores
  <2>2. PICK at \in {"returned", "threw"} : Goes("load", at)
    BY <1>3 DEF Forget, Goes
  <2>3. /\ call'["load"].at = at /\ call'["load"].todo = call["load"].todo
        /\ call'["load"].batch = 0
    BY <1>0, <2>2 DEF Goes, CallRecord
  <2>4. \A g : Recorded(g, s, "drop", 0) => Recorded(g, s, "drop", 0)'
    BY <2>1 DEF Recorded
  <2>5. \A g \in Followers \ call'["load"].todo : served'[g] # s \/ Recorded(g, s, "drop", 0)'
    BY <1>1, <2>1, <2>3, <2>4
  <2> QED
    BY <1>0, <2>1, <2>3, <2>5 DEF Dropping
<1> QED
  BY <1>2, <1>3

\* A call just made.
LEMMA BatchOfLoad ==
  ASSUME TypeInv, StartLoad \/ Advance \/ AttemptEnds
  PROVE  load'.next # "write" => load'.batch = 0
<1>0. load \in LoadRecord
  BY CallIs DEF CallersOK
<1>1. CASE StartLoad
  BY <1>1 DEF StartLoad
<1>2. CASE Advance
  BY <1>0, <1>2 DEF Advance, LoadRecord
<1>3. CASE AttemptEnds
  BY <1>0, <1>3 DEF AttemptEnds, LoadRecord
<1> QED
  BY <1>1, <1>2, <1>3

LEMMA LoaderCallsBegin ==
  ASSUME TypeInv, StartLoad \/ Advance \/ AttemptEnds, NEW s \in Ids
  PROVE  Placing(s)' /\ Dropping(s)'
<1>0. CallersOK /\ load \in LoadRecord /\ load' \in LoadRecord /\ Calls(load')
  BY LoaderTypes, CallIs DEF CallersOK
<1>1. /\ call'["load"].at \in {"rest", "ask", "primary"}
      /\ call'["load"].op = load'.next \/ call'["load"] = NoCall
  BY <1>0, NextCall DEF NoCall
<1>2. call'["load"].op # "drop"
  BY <1>0, <1>1 DEF LoadRecord, NoCall
<1> QED
  BY <1>1, <1>2 DEF Placing, Dropping, After

\* Between the steps of a call the load is as it was.
LEMMA LoaderMoves ==
  ASSUME TypeInv, LoaderSide
  PROVE  \/ StartLoad \/ Advance \/ AttemptEnds
         \/ UNCHANGED load /\ (EnsureType \/ DropSnapshot \/ AdminEnds)
         \/ UNCHANGED load /\ PrimaryStep /\ Proceeds("load")
         \/ UNCHANGED load /\ FanoutCall("load") /\ Proceeds("load")
<1>0. CallersOK /\ "load" \in Actors
  BY CallIs
<1>1. CASE EnsureType \/ DropSnapshot \/ AdminEnds
  BY <1>1 DEF EnsureType, DropSnapshot, AdminEnds, loader
<1>2. CASE PrimaryStep
  BY <1>0, <1>2, PrimaryProceeds DEF Proceeds
<1>3. CASE FanoutCall("load")
  BY <1>0, <1>3, FollowerProceeds DEF Proceeds
<1> QED
  BY <1>1, <1>2, <1>3 DEF LoaderSide, LoaderStep, PrimaryStep

LEMMA LoaderCallsKept ==
  ASSUME ReplayAlone, LoadInv, LoadInv', MCNext, FollowInv
  PROVE  LoaderCalls'
<1>0. /\ TypeInv /\ StoresOK /\ CallersOK /\ call \in [Actors -> CallRecord] /\ "load" \in Actors
      /\ load.next # "write" => load.batch = 0
  BY CallIs DEF LoadInv, FollowInv, LoaderCalls
<1>1. CASE ReplaySide /\ Resting' /\ UNCHANGED load
  BY <1>0, <1>1 DEF LoaderCalls, Placing, Dropping, Resting, Idle, NoCall
<1>2. CASE StartLoad \/ Advance \/ AttemptEnds
  <2>1. \A s \in Ids : Placing(s)' /\ Dropping(s)'
    BY <1>0, <1>2, LoaderCallsBegin
  <2>2. load'.next # "write" => load'.batch = 0
    BY <1>0, <1>2, BatchOfLoad
  <2> QED
    BY <2>1, <2>2 DEF LoaderCalls
<1>3. CASE UNCHANGED load /\ (EnsureType \/ AdminEnds)
  <2>1. call'["load"].op \notin {"commit", "drop"}
    <3>1. CASE EnsureType
      <4>1. call'["load"] = Begun("ensureType", 0, 0, "primary", Followers)
        BY <1>0, <3>1 DEF EnsureType
      <4> QED
        BY <4>1 DEF Begun, NoCall
    <3>2. CASE AdminEnds
      BY <1>0, <3>2 DEF AdminEnds, NoCall
    <3> QED
      BY <1>3, <3>1, <3>2
  <2> QED
    BY <1>0, <1>3, <2>1 DEF LoaderCalls, Placing, Dropping
<1>4. CASE UNCHANGED load /\ DropSnapshot
  <2>1. PICK t \in Ids :
          /\ status[Primary][t] \in {"open", "committed"} /\ UNCHANGED status
          /\ call'["load"] = Begun("drop", t, 0, "follow", Followers)
    BY <1>0, <1>4 DEF DropSnapshot, stores
  <2>2. /\ call'["load"].op = "drop" /\ call'["load"].snap = t /\ call'["load"].batch = 0
        /\ call'["load"].at = "follow" /\ call'["load"].todo = Followers
    BY <2>1 DEF Begun, NoCall
  <2> QED
    BY <1>0, <1>4, <2>1, <2>2 DEF LoaderCalls, Placing, Dropping
<1>5. CASE UNCHANGED load /\ Proceeds("load") /\ (PrimaryStep \/ FanoutCall("load"))
  <2>1. call'["load"].op = call["load"].op /\ call'["load"].snap = call["load"].snap
    BY <1>5 DEF Proceeds
  <2>2. ASSUME NEW s \in Ids, call["load"].op = "commit", call["load"].snap = s
        PROVE  Placing(s)' /\ Dropping(s)'
    <3>1. Committer(s)
      BY <2>2 DEF Committer
    <3>2. PrimaryStep => Ask \/ PrimaryCommits \/ MarkCommitted
      BY <2>2 DEF PrimaryStep, PrimaryEnsures, PrimaryWrites, PrimaryCarries, PrimaryDrops,
         Forget, At
    <3>3. Placing(s)'
      BY <1>5, <3>1, <3>2, PlacingByPrimary, PlacingByFollower
    <3>4. call'["load"].op # "drop"
      BY <2>1, <2>2
    <3> QED
      BY <3>3, <3>4 DEF Dropping
  <2>3. ASSUME NEW s \in Ids, call["load"].op = "drop", call["load"].snap = s
        PROVE  Placing(s)' /\ Dropping(s)'
    <3>1. Dropper(s)
      BY <2>3 DEF Dropper
    <3>2. PrimaryStep => PrimaryDrops \/ Forget
      BY <2>3 DEF PrimaryStep, PrimaryEnsures, PrimaryWrites, PrimaryCarries, PrimaryCommits,
         Ask, MarkCommitted, At
    <3>3. Dropping(s)'
      BY <1>5, <3>1, <3>2, DroppingByPrimary, DroppingByFollower
    <3>4. call'["load"].op # "commit"
      BY <2>1, <2>3
    <3> QED
      BY <3>3, <3>4 DEF Placing
  <2>4. ASSUME NEW s \in Ids, call["load"].op \notin {"commit", "drop"} \/ call["load"].snap # s
        PROVE  Placing(s)' /\ Dropping(s)'
    BY <2>1, <2>4 DEF Placing, Dropping
  <2>5. \A s \in Ids : Placing(s)' /\ Dropping(s)'
    BY <2>2, <2>3, <2>4
  <2> QED
    BY <1>0, <1>5, <2>5 DEF LoaderCalls
<1> QED
  BY <1>0, <1>1, <1>2, <1>3, <1>4, <1>5, Movers, LoaderMoves
-----------------------------------------------------------------------------
(* The loads that are over. *)

\* A load that ends leaves every follower that serves it whole, or owing.
LEMMA StandingEnds ==
  ASSUME LoadInv, MCNext, FollowInv, LoaderSide, UNCHANGED replay,
         NEW g \in Followers, NEW s \in Ids, served[g] = s, InHand(s), ~InHand(s)'
  PROVE  ServesWhole(g, s)'
<1>0. TypeInv /\ StoresOK /\ load.batches \in Batches
  BY CallIs, AtWorkCall DEF LoadInv, InHand
<1>1. Advance \/ AttemptEnds
  BY <1>0, LoaderMoves DEF InHand, StartLoad, Resting
<1>2. UNCHANGED <<rows, journal>> /\ LoaderStep
  BY <1>1 DEF Advance, AttemptEnds, stores, ledger, LoaderStep
<1>3. misled' = misled
  BY <1>0, <1>2, LoaderQuiet, MisledQuiet
<1>4. Pure(Primary, s) /\ Mending(g, s)
  BY DEF FollowInv, Mended
<1>5. Pure(g, s) /\ BatchesHeld(g, s) /\ (load.merge => MergeHeld(g, s))
  BY <1>4 DEF Mending
<1>6. ServesWhole(g, s)
  BY <1>0, <1>4, <1>5, HeldIsWhole
<1> QED
  BY <1>2, <1>3, <1>6, HeldStays

\* The loader's calls are about the load in hand, or about a drop.
LEMMA StandingByLoader ==
  ASSUME LoadInv, MCNext, FollowInv, LoaderSide, UNCHANGED replay,
         NEW g \in Followers, NEW s \in Ids, served[g] = s, ~InHand(s),
         status[Primary][s] = "committed", rows'[Primary][s] = rows[Primary][s]
  PROVE  ServesWhole(g, s)'
<1>0. /\ TypeInv /\ StoresOK /\ Followers \subseteq Stores /\ Primary \notin Followers
      /\ LoaderCalls /\ s # 0
  BY CallIs DEF LoadInv, FollowInv, Ids
<1>1. ServesWhole(g, s)
  BY DEF FollowInv, Standing
<1>2. rows'[g][s] = rows[g][s]
  BY <1>0, LoaderRecords DEF InHand
<1>3. <<g, s>> \in misled' <=> <<g, s>> \in misled
  <2>1. CASE <<g, s>> # <<call["load"].on, call["load"].snap>>
    BY <1>0, <2>1, MisledByLoader
  <2>2. CASE ~At("load", "carryForward", "attempt")
    BY <1>0, <2>2, MisledByLoader
  <2>3. CASE s = call["load"].snap /\ At("load", "carryForward", "attempt")
    BY <1>0, <2>3, CallIs DEF At, InHand
  <2> QED
    BY <2>1, <2>2, <2>3
<1>4. ASSUME NEW d \in journal, d.follower = g, d.snap = s, d.stage \in ReplayedStages,
             d \notin journal'
      PROVE  FALSE
  <2>1. CASE call["load"].at = "settle" /\ d = Key(call["load"])
    <3>1. call["load"].op \in {"write", "carryForward"} /\ call["load"].snap = s
      BY <1>4, <2>1 DEF Key, ReplayedStages
    <3> QED
      BY <1>0, <3>1, CallIs DEF InHand
  <2>2. CASE /\ call["load"].at = "supersede" /\ call["load"].op = "commit"
             /\ d.follower = call["load"].on /\ d.snap \notin {call["load"].snap, 0}
    <3>1. PICK t \in Ids : t = call["load"].snap
      BY <1>0, <2>2, CallIs DEF Stages
    <3>2. served[call["load"].on] = t
      BY <1>0, <2>2, <3>1 DEF LoaderCalls, Placing
    <3> QED
      BY <1>4, <2>2, <3>1, <3>2
  <2>3. CASE call["load"].at = "forget" /\ call["load"].op = "drop" /\ d.snap = call["load"].snap
    BY <1>0, <1>4, <2>3 DEF LoaderCalls, Dropping
  <2> QED
    BY <1>0, <1>4, <2>1, <2>2, <2>3, LoaderPays
<1> QED
  BY <1>1, <1>2, <1>3, <1>4, HeldStays

\* A replay that touches what its follower serves keeps the debt until it is whole.
LEMMA StandingByReplay ==
  ASSUME LoadInv, MCNext, FollowInv, ReplaySide, Resting,
         NEW g \in Followers, NEW s \in Ids, served[g] = s, served'[g] = s, ~InHand(s),
         status[Primary][s] = "committed", rows'[Primary][s] = rows[Primary][s]
  PROVE  ServesWhole(g, s)'
<1>0. /\ TypeInv /\ StoresOK /\ Followers \subseteq Stores /\ Primary \notin Followers
      /\ Replaying /\ s # 0
  BY CallIs DEF LoadInv, FollowInv, Ids
<1>1. ServesWhole(g, s)
  BY DEF FollowInv, Standing
<1>2. CASE CopyPage /\ g = replay.on /\ s = replay.snap
  <2>1. Copying(g, s)'
    BY <1>0, <1>2, CopyPageIs
  <2> QED
    BY <2>1 DEF Copying, ServesWhole
<1>3. CASE ClearFollowerCopy /\ g = replay.on /\ s = replay.snap
  <2>1. Copying(g, s)'
    BY <1>3, CopyingBegins
  <2> QED
    BY <2>1 DEF Copying, ServesWhole
<1>4. CASE ClearDebt /\ g = replay.on /\ s = replay.snap
  <2>1. SameRows(g, s) /\ UNCHANGED rows
    BY <1>0, <1>4 DEF ClearDebt, Replaying, stores
  <2>2. SameRows(g, s)'
    BY <2>1 DEF SameRows, RowsOf
  <2> QED
    BY <2>2 DEF ServesWhole
<1>5. CASE /\ ~(CopyPage /\ g = replay.on /\ s = replay.snap)
           /\ ~(ClearFollowerCopy /\ g = replay.on /\ s = replay.snap)
           /\ ~(ClearDebt /\ g = replay.on /\ s = replay.snap)
  <2>1. rows'[g][s] = rows[g][s]
    BY <1>0, <1>5, ReplayRecords
  <2>2. <<g, s>> \in misled' <=> <<g, s>> \in misled
    <3>1. CASE <<g, s>> # <<replay.on, replay.snap>>
      BY <1>0, <3>1, MisledByReplay
    <3>2. CASE ~(replay.at = "clear" /\ replay'.at = "copy")
      BY <1>0, <3>2, MisledByReplay
    <3>3. CASE g = replay.on /\ s = replay.snap /\ replay.at = "clear" /\ replay'.at = "copy"
      <4>1. ClearFollowerCopy
        <5>1. ~FanoutCall("replay")
          BY <1>0, <3>3, ReplayCalls
        <5>2. ~StartReplay /\ ~ReplayEnsured /\ ~CopyPage /\ ~CopiedAll /\ ~ClearDebt
          BY <3>3 DEF StartReplay, ReplayEnsured, CopyPage, CopiedAll, ClearDebt
        <5>3. ~ReplayEnds
          BY <3>3 DEF ReplayEnds, NoReplay
        <5> QED
          BY <5>1, <5>2, <5>3 DEF ReplaySide, ReplayStep
      <4> QED
        BY <1>5, <3>3, <4>1
    <3> QED
      BY <3>1, <3>2, <3>3
  <2>3. ASSUME NEW d \in journal, d.follower = g, d.snap = s, d.stage \in ReplayedStages,
               d \notin journal'
        PROVE  FALSE
    <3>1. CASE /\ call["replay"].at = "supersede" /\ replay.at = "commit"
               /\ d.follower = replay.on /\ d.snap \notin {replay.snap, 0}
      <4>1. served[replay.on] = replay.snap
        BY <1>0, <3>1 DEF Replaying
      <4> QED
        BY <2>3, <3>1, <4>1
    <3>2. CASE ClearDebt /\ d.follower = replay.on /\ d.snap = replay.snap
      BY <1>5, <2>3, <3>2
    <3> QED
      BY <1>0, <2>3, <3>1, <3>2, ReplayPays DEF ReplayedStages
  <2> QED
    BY <1>1, <2>1, <2>2, <2>3, HeldStays
<1> QED
  BY <1>2, <1>3, <1>4, <1>5

LEMMA StandingKept ==
  ASSUME ReplayAlone, LoadInv, MCNext, FollowInv, ServedKnown'
  PROVE  Standing'
<1>0. TypeInv /\ StoresOK
  BY CallIs DEF LoadInv
<1> SUFFICES ASSUME NEW g \in Followers, NEW s \in Ids, served'[g] = s, ~InHand(s)',
                    status'[Primary][s] # "dropped"
             PROVE  ServesWhole(g, s)'
  BY DEF Standing
<1>1. status'[Primary][s] = "committed"
  BY DEF ServedKnown
<1>2. status[Primary][s] = "committed" /\ rows'[Primary][s] = rows[Primary][s]
  BY <1>1, PrimaryRecords
<1>3. CASE served[g] # s
  <2>1. /\ UNCHANGED <<rows, load>>
        /\ \/ load.next = "commit" /\ s = load.snap
           \/ s = replay.snap /\ g = replay.on /\ replay.at = "commit"
    BY <1>3, FollowersServe
  <2>2. s = replay.snap /\ g = replay.on /\ replay.at = "commit"
    BY <2>1 DEF InHand
  <2>3. SameRows(g, s)
    BY <2>2 DEF FollowInv, Replaying
  <2>4. SameRows(g, s)'
    BY <2>1, <2>3 DEF SameRows, RowsOf
  <2> QED
    BY <2>4 DEF ServesWhole
<1>4. CASE served[g] = s /\ LoaderSide /\ UNCHANGED replay
  <2>1. CASE InHand(s)
    BY <1>4, <2>1, StandingEnds
  <2>2. CASE ~InHand(s)
    BY <1>2, <1>4, <2>2, StandingByLoader
  <2> QED
    BY <2>1, <2>2
<1>5. CASE served[g] = s /\ ReplaySide /\ Resting
  <2>1. ~InHand(s)
    BY <1>5 DEF InHand, Resting
  <2> QED
    BY <1>2, <1>5, <2>1, StandingByReplay
<1> QED
  BY <1>3, <1>4, <1>5, Movers

\* The mark is set by the load in hand, once the primary serves it.
LEMMA MarkIs ==
  ASSUME ReplayAlone, LoadInv, MCNext, FollowInv
  PROVE  /\ mark' # mark => load.next = "commit" /\ served[Primary] = load.snap
         /\ finished' # finished => Advance /\ load.next = "commit"
                                    /\ finished' = finished \cup {load.snap}
<1>0. TypeInv /\ StoresOK /\ LoaderCalls
  BY CallIs DEF LoadInv, FollowInv
<1>1. ASSUME mark' # mark PROVE load.next = "commit" /\ served[Primary] = load.snap
  <2>1. CASE ReplaySide
    <3>1. ~FanoutCall("replay")
      BY <1>0, <1>1, ReplayCalls
    <3> QED
      BY <1>1, <2>1, <3>1 DEF ReplaySide, ReplayStep, StartReplay, ReplayEnsured,
         ClearFollowerCopy, CopyPage, CopiedAll, ClearDebt, ReplayEnds, ledger
  <2>2. CASE LoaderSide
    <3>1. ~FanoutCall("load")
      BY <1>1 DEF FanoutCall, HoldBack, Announce, FollowerEnsures, FollowerWrites,
         FollowerCarries, FollowerCommits, FollowerDrops, FollowerFails, FollowerRefuses,
         Settle, Supersede, Return, ledger
    <3>2. MarkCommitted
      BY <1>1, <2>2, <3>1 DEF LoaderSide, LoaderStep, StartLoad, Advance, AttemptEnds,
         EnsureType, DropSnapshot, AdminEnds, Ask, PrimaryEnsures, PrimaryWrites,
         PrimaryCarries, PrimaryCommits, PrimaryDrops, Forget, ledger
    <3>3. call["load"].op = "commit" /\ call["load"].at = "mark"
      BY <3>2 DEF MarkCommitted, At
    <3>4. load.next = "commit" /\ call["load"].snap = load.snap /\ load.snap \in Ids
      BY <1>0, <3>3, CallIs
    <3>5. PICK s \in Ids : s = load.snap
      BY <3>4
    <3> QED
      BY <1>0, <3>3, <3>4, <3>5 DEF LoaderCalls, Placing
  <2> QED
    BY <2>1, <2>2, Movers
<1>2. ASSUME finished' # finished
      PROVE  Advance /\ load.next = "commit" /\ finished' = finished \cup {load.snap}
  <2>1. CASE ReplaySide
    <3>1. ~FanoutCall("replay")
      BY <1>0, <1>2, ReplayCalls
    <3> QED
      BY <1>2, <2>1, <3>1 DEF ReplaySide, ReplayStep, StartReplay, ReplayEnsured,
         ClearFollowerCopy, CopyPage, CopiedAll, ClearDebt, ReplayEnds, loader
  <2>2. CASE LoaderSide
    <3>1. ~Proceeds("load")
      BY <1>2 DEF Proceeds
    <3>2. ~StartLoad /\ ~AttemptEnds /\ ~EnsureType /\ ~DropSnapshot /\ ~AdminEnds
      BY <1>2 DEF StartLoad, AttemptEnds, EnsureType, DropSnapshot, AdminEnds, loader
    <3>3. Advance
      BY <1>0, <2>2, <3>1, <3>2, LoaderMoves
    <3> QED
      BY <1>2, <3>3 DEF Advance
  <2> QED
    BY <2>1, <2>2, Movers
<1> QED
  BY <1>1, <1>2

\* A load that has returned is not in hand again, and later ones are of later snapshots.
LEMMA FinishedKept ==
  ASSUME ReplayAlone, LoadInv, MCNext, FollowInv
  PROVE  \A t \in finished' : t <= load'.snap /\ ~InHand(t)'
<1>0. /\ TypeInv /\ load \in LoadRecord /\ finished \subseteq Ids
      /\ \A t \in finished : t <= load.snap /\ ~InHand(t)
  BY CallIs DEF LoadInv, FollowInv, Returned, CallersOK
<1>1. load.snap \in Nat /\ \A t \in finished : t \in Nat
  BY <1>0 DEF LoadRecord, Ids
<1>2. CASE finished' = finished
  <2>1. CASE UNCHANGED load
    BY <1>0, <1>2, <2>1 DEF InHand
  <2>2. CASE StartLoad
    <3>1. load'.snap = load.snap + 1
      BY <2>2 DEF StartLoad
    <3> QED
      BY <1>0, <1>1, <1>2, <3>1 DEF InHand
  <2>3. CASE Advance \/ AttemptEnds
    <3>1. load.next # "none" /\ load'.snap = load.snap
      BY <1>0, <2>3 DEF Advance, AttemptEnds, LoadRecord
    <3> QED
      BY <1>0, <1>2, <3>1 DEF InHand
  <2> QED
    BY <1>0, <2>1, <2>2, <2>3, Movers, LoaderMoves
<1>3. CASE Advance /\ load.next = "commit" /\ finished' = finished \cup {load.snap}
  <2>1. load'.next = "none" /\ load'.snap = load.snap
    BY <1>0, <1>3 DEF Advance, LoadRecord
  <2> QED
    BY <1>0, <1>1, <1>3, <2>1 DEF InHand
<1> QED
  BY <1>2, <1>3, MarkIs

\* What followers of a load that has returned are on record for.
LEMMA CommitOwed ==
  ASSUME ReplayAlone, LoadInv, MCNext, FollowInv, NEW g \in Followers, NEW s \in Ids,
         s = served[Primary], s \in finished
  PROVE  served'[g] = s \/ Recorded(g, s, "commit", 0)'
<1>0. /\ TypeInv /\ StoresOK /\ LoaderCalls /\ Replaying /\ s # 0 /\ ~InHand(s) /\ mark = s
      /\ served[g] = s \/ Recorded(g, s, "commit", 0)
  BY CallIs DEF LoadInv, FollowInv, Returned, Ids
<1>1. CASE served[g] = s
  <2>1. CASE served'[g] # served[g]
    BY <1>0, <2>1, FollowersServe DEF Replaying, InHand
  <2> QED
    BY <1>1, <2>1
<1>2. CASE Recorded(g, s, "commit", 0) /\ served[g] # s
  <2> DEFINE d == [follower |-> g, snap |-> s, stage |-> "commit", batch |-> 0]
  <2>1. d \in journal /\ d.follower = g /\ d.snap = s /\ d.stage = "commit"
    BY <1>2 DEF Recorded
  <2> HIDE DEF d
  <2>2. ASSUME d \notin journal', LoaderSide PROVE FALSE
    <3>1. CASE d = Key(call["load"])
      <4>1. call["load"].op = "commit" /\ call["load"].snap = s
        BY <2>1, <3>1 DEF Key
      <4> QED
        BY <1>0, <4>1, CallIs DEF InHand
    <3>2. CASE /\ call["load"].at = "supersede" /\ call["load"].op = "commit"
               /\ d.snap \notin {call["load"].snap, 0}
      <4>1. PICK t \in Ids : t = call["load"].snap
        BY <1>0, <3>2, CallIs DEF Stages
      <4>2. served[Primary] = t
        BY <1>0, <3>2, <4>1 DEF LoaderCalls, Placing, After
      <4> QED
        BY <2>1, <3>2, <4>1, <4>2
    <3>3. CASE call["load"].at = "forget" /\ call["load"].op = "drop" /\ d.snap = call["load"].snap
      BY <1>0, <2>1, <3>3 DEF LoaderCalls, Dropping
    <3> QED
      BY <1>0, <2>1, <2>2, <3>1, <3>2, <3>3, LoaderPays
  <2>3. ASSUME d \notin journal', ReplaySide PROVE FALSE
    <3>1. CASE /\ call["replay"].at = "settle" /\ call["replay"].ok
               /\ replay.at = "commit" /\ d.follower = replay.on /\ d.snap = replay.snap
      BY <1>0, <1>2, <2>1, <3>1 DEF Replaying
    <3>2. CASE /\ call["replay"].at = "supersede" /\ replay.at = "commit"
               /\ d.snap \notin {replay.snap, 0}
      BY <1>0, <2>1, <3>2 DEF Replaying
    <3> QED
      BY <1>0, <2>1, <2>3, <3>1, <3>2, ReplayPays DEF ReplayedStages
  <2>4. d \in journal'
    BY <2>2, <2>3, Movers
  <2> QED
    BY <2>4 DEF Recorded, d
<1> QED
  BY <1>0, <1>1, <1>2

LEMMA ReturnedKept ==
  ASSUME ReplayAlone, LoadInv, MCNext, FollowInv
  PROVE  Returned'
<1>0. /\ TypeInv /\ StoresOK /\ CallersOK /\ Primary \in Stores /\ Primary \notin Followers
      /\ finished \subseteq Ids /\ load \in LoadRecord
      /\ \A t \in finished : ~InHand(t)
  BY CallIs DEF LoadInv, FollowInv, Returned, CallersOK
<1>1. CASE /\ Advance /\ load.next = "commit" /\ finished' = finished \cup {load.snap}
  <2>1. PICK s \in Ids : s = load.snap
    BY <1>0, <1>1, CallIs
  <2>2. call["load"].op = "commit" /\ call["load"].snap = s /\ call["load"].at = "returned"
    BY <1>0, <1>1, <2>1, CallIs DEF Advance
  <2>3. /\ call["load"].todo = {} /\ mark = s /\ served[Primary] = s
        /\ \A g \in Followers \ call["load"].todo : served[g] = s \/ Recorded(g, s, "commit", 0)
    BY <2>2 DEF FollowInv, LoaderCalls, Placing, After
  <2>4. UNCHANGED <<served, journal, mark>>
    BY <1>1 DEF Advance, stores, ledger
  <2>5. \A g \in Followers : served'[g] = s \/ Recorded(g, s, "commit", 0)'
    BY <2>3, <2>4 DEF Recorded
  <2> QED
    BY <2>3, <2>4, <2>5, FinishedKept DEF Returned, Recorded
<1>2. CASE finished' = finished
  <2> SUFFICES ASSUME NEW s \in Ids, s = served'[Primary], s \in finished
               PROVE  mark' = s /\ \A g \in Followers : served'[g] = s \/ Recorded(g, s, "commit", 0)'
    BY <1>0, <1>2, FinishedKept DEF Returned, Recorded
  <2>1. s = served[Primary]
    <3>1. ASSUME served'[Primary] # served[Primary] PROVE FALSE
      <4>1. ~ReplaySide
        BY <1>0, <3>1, ReplayServes
      <4>2. load.next = "commit" /\ s = call["load"].snap /\ call["load"].snap = load.snap
        BY <1>0, <3>1, <4>1, LoaderServes, CallIs, Movers
      <4> QED
        BY <1>0, <4>2 DEF InHand
    <3> QED
      BY <3>1
  <2>2. mark = s
    BY <2>1 DEF FollowInv, Returned
  <2>3. mark' = mark
    BY <1>0, <2>1, MarkIs DEF InHand
  <2>4. \A g \in Followers : served'[g] = s \/ Recorded(g, s, "commit", 0)'
    BY <2>1, CommitOwed
  <2> QED
    BY <2>2, <2>3, <2>4
<1> QED
  BY <1>1, <1>2, MarkIs
-----------------------------------------------------------------------------
(* What followers serve, owe and have paid. *)

LEMMA FollowInvKept ==
  ASSUME ReplayAlone, ~Shrinking, LoadInv, FollowInv, [MCNext]_mcVars
  PROVE  LoadInv' /\ FollowInv'
<1>1. CASE MCNext
  <2>1. LoadInv'
    BY <1>1, LoadInvKept DEF MCNext
  <2>2. Announced' /\ ServedKnown' /\ NotEmpty' /\ DropOwed'
    BY <1>1, <2>1, AnnouncedKept, ServedKnownKept, NotEmptyKept, DropOwedKept DEF FollowInv
  <2>3. Mended' /\ LoaderCalls' /\ Replaying' /\ Returned'
    BY <1>1, <2>1, MendedKept, LoaderCallsKept, ReplayingKept, ReturnedKept
  <2>4. Standing' /\ Tombs'
    BY <1>1, <2>1, <2>2, <2>3, StandingKept, TombsKept
  <2> QED
    BY <2>1, <2>2, <2>3, <2>4 DEF FollowInv
<1>2. CASE UNCHANGED mcVars
  <2>1. UNCHANGED vars /\ misled' = misled
    BY <1>2 DEF mcVars
  <2>2. LoadInv'
    BY <2>1, LoadInvKept
  <2>3. UNCHANGED <<rows, status, served, shape, journal, mark, load, finished, call, replay,
                    faults>>
    BY <2>1 DEF vars
  <2>4. Announced' /\ ServedKnown' /\ NotEmpty' /\ DropOwed'
    BY <2>3 DEF FollowInv, Announced, ServedKnown, NotEmpty, DropOwed, Key, OwnBatches, Recorded
  <2>5. \A g, s : ServesWhole(g, s) => ServesWhole(g, s)'
    BY <2>1, <2>3, HeldStays
  <2>6. Standing'
    BY <2>3, <2>5 DEF FollowInv, Standing, InHand
  <2>7. \A s : RowsOf(Primary, s)' = RowsOf(Primary, s)
    BY <2>3 DEF RowsOf
  <2>8. \A g, s : Paged(g, s) => Paged(g, s)'
    BY <2>3, PagedKept
  <2>9. Tombs'
    BY <2>3, <2>8 DEF FollowInv, Tombs
  <2>10. LoaderCalls'
    BY <2>3 DEF FollowInv, LoaderCalls, Placing, Dropping, Recorded
  <2>11. Returned'
    BY <2>3 DEF FollowInv, Returned, InHand, Recorded
  <2>12. Replaying'
    BY <2>3 DEF FollowInv, Replaying, Copying, Paged, Page, Below, RowsOf, SameRows, OwesRows
  <2>13. Mended'
    BY <2>1, <2>3 DEF FollowInv, Mended, Mending, InHand, Pure, Due, BatchesHeld, BatchHeld,
       SameBatch, MergeHeld, MergeTaken, Misled, Recorded
  <2> QED
    BY <2>2, <2>4, <2>6, <2>9, <2>10, <2>11, <2>12, <2>13 DEF FollowInv
<1> QED
  BY <1>1, <1>2

LEMMA InitFollowInv ==
  ASSUME MCInit
  PROVE  LoadInv /\ FollowInv
<1>0. LoadInv /\ TypeInv
  BY InitLoadInv DEF MCInit, LoadInv
<1>1. /\ load = NoLoad /\ finished = {} /\ journal = {} /\ mark = 0 /\ replay = NoReplay
      /\ call = [a \in Actors |-> NoCall] /\ Primary \in Stores /\ Followers \subseteq Stores
      /\ served = [x \in Stores |-> 0]
      /\ status = [x \in Stores |-> [s \in Ids |-> "none"]]
  BY <1>0, CallIs DEF MCInit, Init
<1>2. /\ load.next = "none" /\ load.batch = 0 /\ replay.at = "rest"
      /\ \A a \in Actors : call[a].at = "rest" /\ call[a].op = "none"
      /\ "load" \in Actors /\ "replay" \in Actors
      /\ \A x \in Stores, s \in Ids : served[x] # s /\ status[x][s] = "none"
  BY <1>1 DEF NoLoad, NoReplay, NoCall, Actors, Ids
<1>3. Announced /\ ServedKnown /\ NotEmpty /\ DropOwed /\ Standing /\ Tombs
  BY <1>1, <1>2 DEF Announced, ServedKnown, NotEmpty, DropOwed, Standing, Tombs
<1>4. Mended /\ LoaderCalls /\ Replaying /\ Returned
  BY <1>1, <1>2 DEF Mended, InHand, LoaderCalls, Placing, Dropping, Replaying, Returned
<1> QED
  BY <1>0, <1>3, <1>4 DEF FollowInv

\* What a follower serves, and no load is at work on.
LEMMA ServedIs ==
  ASSUME FollowInv, NEW g \in Followers, NEW s \in Ids, served[g] = s, ~InHand(s)
  PROVE  SameRows(g, s) \/ OwesAbout(g, s) \/ Misled(g, s)
<1>1. CASE status[Primary][s] = "dropped"
  BY <1>1 DEF FollowInv, DropOwed, Recorded, OwesAbout
<1>2. CASE status[Primary][s] # "dropped"
  BY <1>2 DEF FollowInv, Standing, ServesWhole, OwesRows, OwesAbout
<1> QED
  BY <1>1, <1>2

LEMMA ServesWholeHolds ==
  ASSUME FollowInv
  PROVE  FollowerServesWhole
BY ServedIs DEF FollowerServesWhole, InHand

LEMMA FollowedHolds ==
  ASSUME LoadInv, FollowInv
  PROVE  FinishedIsFollowedOrOwed
<1> SUFFICES ASSUME NEW s \in Ids, s = served[Primary], s \in finished, NEW g \in Followers
             PROVE  \/ served[g] = s /\ SameRows(g, s)
                    \/ OwesAbout(g, s)
                    \/ Misled(g, s)
  <2>1. finished \subseteq Ids
    BY CallIs DEF LoadInv, CallersOK
  <2> QED
    BY <2>1 DEF FinishedIsFollowedOrOwed
<1>1. ~InHand(s) /\ (served[g] = s \/ Recorded(g, s, "commit", 0))
  BY DEF FollowInv, Returned
<1>2. CASE served[g] = s
  BY <1>1, <1>2, ServedIs
<1>3. CASE Recorded(g, s, "commit", 0)
  BY <1>3 DEF Recorded, OwesAbout
<1> QED
  BY <1>1, <1>2, <1>3

\* How a debt about rows comes off, whoever takes it off.
LEMMA DebtPaid ==
  ASSUME ReplayAlone, LoadInv, FollowInv, MCNext, NEW d \in journal, d \notin journal',
         d.stage \in ReplayedStages
  PROVE  \/ SameBatch(d.follower, d.snap, d.batch)
         \/ SameRows(d.follower, d.snap)
         \/ served[d.follower] = mark /\ mark # d.snap
         \/ status[Primary][d.snap] = "dropped"
         \/ Misled(d.follower, d.snap)
<1>0. TypeInv /\ LoaderCalls /\ Replaying
  BY DEF LoadInv, FollowInv
<1>1. CASE LoaderSide
  <2>1. CASE call["load"].at = "settle" /\ call["load"].ok /\ d = Key(call["load"])
    <3>1. /\ d.follower = call["load"].on /\ d.snap = call["load"].snap
          /\ d.stage = call["load"].op /\ d.batch = call["load"].batch
      BY <2>1 DEF Key
    <3>2. PICK g \in Followers : g = call["load"].on
      BY <1>0, <2>1, CallIs DEF Trying
    <3>3. load.next = d.stage /\ load.next \in {"write", "carryForward"}
      BY <1>0, <3>1, CallIs DEF ReplayedStages
    <3>4. PICK s \in Ids : s = load.snap
      BY <1>0, <3>3, CallIs
    <3>5. d.snap = s /\ d.batch = load.batch /\ InHand(s)
      BY <1>0, <3>1, <3>3, <3>4, CallIs DEF InHand
    <3>6. Mending(g, s)
      BY <3>5 DEF FollowInv, Mended
    <3>7. /\ load.next = "write" => SameBatch(g, s, load.batch)
          /\ load.next = "carryForward" => MergeTaken(g, s)
      BY <2>1, <3>2, <3>6 DEF Mending
    <3>8. load.next = "carryForward" => load.batch = Carry
      BY <1>0 DEF LoaderCalls, Carry
    <3> QED
      BY <3>1, <3>2, <3>3, <3>5, <3>7, <3>8 DEF MergeTaken
  <2>2. CASE /\ call["load"].at = "supersede" /\ call["load"].op = "commit"
             /\ d.follower = call["load"].on /\ d.snap \notin {call["load"].snap, 0}
    <3>1. PICK t \in Ids : t = call["load"].snap
      BY <1>0, <2>2, CallIs DEF Stages
    <3>2. served[call["load"].on] = t /\ mark = t
      BY <1>0, <2>2, <3>1 DEF LoaderCalls, Placing, After
    <3> QED
      BY <2>2, <3>1, <3>2
  <2>3. CASE call["load"].at = "forget" /\ call["load"].op = "drop" /\ d.snap = call["load"].snap
    <3>1. PICK t \in Ids : t = call["load"].snap
      BY <1>0, <2>3, CallIs DEF Stages
    <3> QED
      BY <1>0, <2>3, <3>1 DEF LoaderCalls, Dropping
  <2> QED
    BY <1>0, <1>1, <2>1, <2>2, <2>3, LoaderPays
<1>2. CASE ReplaySide
  <2>1. CASE /\ call["replay"].at = "supersede" /\ replay.at = "commit"
             /\ d.follower = replay.on /\ d.snap \notin {replay.snap, 0}
    BY <1>0, <2>1 DEF Replaying
  <2>2. CASE replay.at = "clearDebt" /\ d.follower = replay.on /\ d.snap = replay.snap
    BY <1>0, <2>2 DEF Replaying
  <2> QED
    BY <1>0, <1>2, <2>1, <2>2, ReplayPays DEF ReplayedStages
<1> QED
  BY <1>1, <1>2, Movers

\* What followers serve: while no replay runs beside a load, and an attempt made again
\* brings what the first one did, a follower serves only what it holds as the primary
\* does, or is on record as behind, or what its own merge brought, however calls failed,
\* answers were lost, callers died and replays were made (fanout.store.ts, commit).
THEOREM ServedWhole ==
  ASSUME ReplayAlone, ~Shrinking
  PROVE  MCSpec => []FollowerServesWhole
<1>1. MCInit => LoadInv /\ FollowInv
  BY InitFollowInv
<1>2. LoadInv /\ FollowInv /\ [MCNext]_mcVars => LoadInv' /\ FollowInv'
  BY FollowInvKept
<1>3. FollowInv => FollowerServesWhole
  BY ServesWholeHolds
<1> QED
  BY <1>1, <1>2, <1>3, PTL DEF MCSpec

\* A debt is never forgotten: of a load that has returned and that the primary serves,
\* every follower serves the primary's rows, or owes something about it, or merged others
\* (fanout.store.ts, commit, attempt).
THEOREM FinishedIsFollowed ==
  ASSUME ReplayAlone, ~Shrinking
  PROVE  MCSpec => []FinishedIsFollowedOrOwed
<1>1. MCInit => LoadInv /\ FollowInv
  BY InitFollowInv
<1>2. LoadInv /\ FollowInv /\ [MCNext]_mcVars => LoadInv' /\ FollowInv'
  BY FollowInvKept
<1>3. LoadInv /\ FollowInv => FinishedIsFollowedOrOwed
  BY FollowedHolds
<1> QED
  BY <1>1, <1>2, <1>3, PTL DEF MCSpec

\* A debt about rows comes off the journal only when it is paid: the follower has those rows
\* as the primary has them, or they do not matter any more (fanout.store.ts, attempt,
\* supersede, dropSnapshot; migration.ts, clearDebt).
THEOREM DebtsArePaid ==
  ASSUME ReplayAlone, ~Shrinking
  PROVE  MCSpec => RowDebtIsPaid
<1>1. MCInit => LoadInv /\ FollowInv
  BY InitFollowInv
<1>2. LoadInv /\ FollowInv /\ [MCNext]_mcVars => LoadInv' /\ FollowInv'
  BY FollowInvKept
<1>3. LoadInv /\ FollowInv /\ [MCNext]_mcVars =>
       [\A d \in journal \ journal' :
          d.stage \in ReplayedStages =>
            \/ SameBatch(d.follower, d.snap, d.batch)
            \/ SameRows(d.follower, d.snap)
            \/ served[d.follower] = mark /\ mark # d.snap
            \/ status[Primary][d.snap] = "dropped"
            \/ Misled(d.follower, d.snap)]_mcVars
  BY DebtPaid
<1> QED
  BY <1>1, <1>2, <1>3, PTL DEF MCSpec, RowDebtIsPaid
=============================================================================

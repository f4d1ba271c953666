------------------------------- MODULE Fanout -------------------------------
(***************************************************************************)
(* Writing one object type to several stores (packages/store-fanout/src):  *)
(* the primary decides, the followers are kept in step, and what a         *)
(* follower may not hold is a debt in the journal.  Every step towards a   *)
(* follower is announced there before it is tried and taken off when it    *)
(* has succeeded.  Two callers: a loader, whose attempts are made again    *)
(* from the first batch under the same snapshot id when they throw or die, *)
(* and an operator who replays a snapshot from the primary to a follower.  *)
(***************************************************************************)
EXTENDS Integers, FiniteSets, Sequences

CONSTANTS Primary,       \* the name of the primary
          FollowerList,  \* the names of the followers, in their order
          Required,      \* the followers of strictness 'required'
          LastBatch,     \* bound: batches are 1 .. LastBatch; batch b brings key b
          LastSnapshot,  \* bound: snapshot ids are 1 .. LastSnapshot
          MaxReplays,    \* bound: replays started
          MaxFaults,     \* bound: failures of followers, deaths of callers
          ReplayAlone,   \* no replay while a load is at work
          Shrinking      \* an attempt made again may bring fewer batches

Followers == {FollowerList[i] : i \in DOMAIN FollowerList}

ASSUME FanoutAssumption ==
  /\ FollowerList \in Seq(Followers)
  /\ Primary \notin Followers
  /\ Required \subseteq Followers
  /\ LastBatch \in Nat \ {0}
  /\ LastSnapshot \in Nat /\ MaxReplays \in Nat /\ MaxFaults \in Nat
  /\ ReplayAlone \in BOOLEAN /\ Shrinking \in BOOLEAN

VARIABLES rows,      \* [Stores -> [Ids -> {<<batch, row>>}]]
          status,    \* [Stores -> [Ids -> status of the snapshot's record]]
          served,    \* [Stores -> the snapshot the store serves, 0 for none]
          shape,     \* [Stores -> BOOLEAN], the store has the type's columns
          journal,   \* the debts on record
          mark,      \* the snapshot the fan-out last committed on the primary
          load,      \* the load in progress, or the last one
          finished,  \* the loads that have returned
          call,      \* [Actors -> the fan-out call in progress]
          replay,    \* the replay in progress
          faults     \* the failures and deaths there have been

stores == <<rows, status, served, shape>>
ledger == <<journal, mark>>
loader == <<load, finished>>
vars   == <<rows, status, served, shape, journal, mark, load, finished, call, replay,
          faults>>

Stores  == {Primary} \cup Followers
Ids     == 1 .. LastSnapshot
Batches == 1 .. LastBatch
Carry   == 0               \* the batch carried rows are kept under
Row     == Batches \X Ids  \* a key and the load that brought the row
Actors  == {"load", "replay"}

Stages == {"ensureType", "write", "carryForward", "commit", "drop"}

\* The stages a replay's copy stands in for.
ReplayedStages == {"write", "carryForward"}

\* What a follower owes.  snap = 0 is the schema scope, batch = 0 a whole snapshot.
Debt == [follower : Followers, snap : Ids \cup {0}, stage : Stages,
         batch : Batches \cup {0}]

NoLoad == [snap |-> 0, batches |-> 0, merge |-> FALSE, next |-> "none", batch |-> 0]

NoCall == [op |-> "none", snap |-> 0, batch |-> 0, at |-> "rest", todo |-> {},
           failed |-> {}, owed |-> {}, on |-> Primary, ok |-> FALSE, from |-> 0,
           total |-> 0]

NoReplay == [at |-> "rest", snap |-> 0, on |-> Primary, current |-> 0, copied |-> {},
             made |-> 0]

TypeOK ==
  /\ rows \in [Stores -> [Ids -> SUBSET ((Batches \cup {Carry}) \X Row)]]
  /\ status \in [Stores -> [Ids -> {"none", "open", "committed", "dropped"}]]
  /\ served \in [Stores -> Ids \cup {0}]
  /\ shape \in [Stores -> BOOLEAN]
  /\ journal \subseteq Debt
  /\ mark \in Ids \cup {0}
  /\ finished \subseteq Ids
  /\ load \in [snap : Ids \cup {0}, batches : 0 .. LastBatch, merge : BOOLEAN,
               next : {"none", "write", "carryForward", "commit"},
               batch : Batches \cup {0}]
  /\ call \in [Actors ->
       [op : Stages \cup {"none"}, snap : Ids \cup {0}, batch : Batches \cup {0},
        at : {"rest", "ask", "primary", "mark", "follow", "attempt", "settle",
              "supersede", "forget", "returned", "threw"},
        todo : SUBSET Followers, failed : SUBSET Followers, owed : SUBSET Debt,
        on : Stores, ok : BOOLEAN, from : Ids \cup {0}, total : Nat]]
  /\ replay \in [at : {"rest", "ensureType", "clear", "copy", "clearDebt", "commit"},
                 snap : Ids \cup {0}, on : Stores, current : Ids \cup {0},
                 copied : SUBSET Batches, made : 0 .. MaxReplays]
  /\ faults \in 0 .. MaxFaults

Init ==
  /\ rows = [x \in Stores |-> [s \in Ids |-> {}]]
  /\ status = [x \in Stores |-> [s \in Ids |-> "none"]]
  /\ served = [x \in Stores |-> 0]
  /\ shape = [x \in Stores |-> x = Primary]
  /\ journal = {}
  /\ mark = 0
  /\ load = NoLoad
  /\ finished = {}
  /\ call = [a \in Actors |-> NoCall]
  /\ replay = NoReplay
  /\ faults = 0

-----------------------------------------------------------------------------
(* One store: what its calls do to it. *)

RowsOf(x, s) == {y[2] : y \in rows[x][s]}

Put(x, s, b, rs) ==
  rows' = [rows EXCEPT ![x][s] = {y \in @ : y[1] # b} \cup ({b} \X rs)]

Opened(x, s) ==
  status' = [status EXCEPT ![x][s] = IF @ = "none" THEN "open" ELSE @]

\* A failed replacement: the old rows deleted, the new ones not inserted.
Torn(x, s, b) ==
  /\ Put(x, s, b, {})
  /\ UNCHANGED status

StoreWrite(x, s, b) ==
  /\ Put(x, s, b, {<<b, s>>})
  /\ Opened(x, s)

\* The newest committed snapshot still holding its rows, other than s; 0 for none.
Base(x, s) ==
  LET others == {t \in Ids \ {s} : t < s /\ status[x][t] = "committed"}
  IN IF others = {} THEN 0 ELSE CHOOSE t \in others : \A u \in others : u <= t

\* The rows of the base no batch of s replaces.
Survivors(x, s) ==
  LET t == Base(x, s)
      incoming == {y[2][1] : y \in {z \in rows[x][s] : z[1] # Carry}}
  IN IF t = 0 THEN {} ELSE {r \in RowsOf(x, t) : r[1] \notin incoming}

StoreCarry(x, s) ==
  /\ Put(x, s, Carry, Survivors(x, s))
  /\ Opened(x, s)

Total(x, s) ==
  Cardinality({y \in rows[x][s] : y[1] # Carry}) + Cardinality(Survivors(x, s))

\* A store serves only a snapshot that has a record and is not a tombstone.
Committable(x, s) == status[x][s] \in {"open", "committed"}

StoreCommit(x, s) ==
  /\ status' = [status EXCEPT ![x][s] = "committed"]
  /\ served' = [served EXCEPT ![x] = s]

Droppable(x, s) == served[x] # s

\* Dropping a tombstone is a no-op, dropping what has no record leaves none.
StoreDrop(x, s) ==
  /\ rows' = [rows EXCEPT ![x][s] = IF status[x][s] = "dropped" THEN @ ELSE {}]
  /\ status' = [status EXCEPT ![x][s] = IF @ = "none" THEN "none" ELSE "dropped"]

-----------------------------------------------------------------------------
(* A call of the fan-out, by either actor. *)

At(a, op, at) == call[a].op = op /\ call[a].at = at

Goes(a, at) == call' = [call EXCEPT ![a].at = at]

Begun(op, s, b, at, todo) ==
  [NoCall EXCEPT !.op = op, !.snap = s, !.batch = b, !.at = at, !.todo = todo]

\* The debts that hold a follower back from serving s.
Outstanding(s) == {d \in journal : d.snap \in {s, 0}}

Owes(d, f) == d.follower = f

Ask ==
  /\ At("load", "commit", "ask")
  /\ LET owed == Outstanding(call["load"].snap)
         blocked == \E d \in owed : d.follower \in Required
     IN call' = [call EXCEPT !["load"].owed = owed,
                             !["load"].at = IF blocked THEN "threw" ELSE "primary"]
  /\ UNCHANGED <<stores, ledger, loader, replay, faults>>

PrimaryEnsures ==
  /\ At("load", "ensureType", "primary")
  /\ Goes("load", "follow")
  /\ UNCHANGED <<stores, ledger, loader, replay, faults>>

PrimaryWrites ==
  /\ At("load", "write", "primary")
  /\ StoreWrite(Primary, call["load"].snap, call["load"].batch)
  /\ Goes("load", "follow")
  /\ UNCHANGED <<served, shape, ledger, loader, replay, faults>>

PrimaryCarries ==
  /\ At("load", "carryForward", "primary")
  /\ LET s == call["load"].snap
     IN /\ StoreCarry(Primary, s)
        /\ call' = [call EXCEPT !["load"].from = Base(Primary, s),
                                !["load"].total = Total(Primary, s),
                                !["load"].at = "follow"]
  /\ UNCHANGED <<served, shape, ledger, loader, replay, faults>>

PrimaryCommits ==
  /\ At("load", "commit", "primary")
  /\ Committable(Primary, call["load"].snap)
  /\ StoreCommit(Primary, call["load"].snap)
  /\ Goes("load", "mark")
  /\ UNCHANGED <<rows, shape, ledger, loader, replay, faults>>

MarkCommitted ==
  /\ At("load", "commit", "mark")
  /\ mark' = call["load"].snap
  /\ Goes("load", "follow")
  /\ UNCHANGED <<stores, journal, loader, replay, faults>>

\* The followers have had theirs; the primary's refusal is the call's.
PrimaryDrops ==
  /\ At("load", "drop", "primary")
  /\ Droppable(Primary, call["load"].snap)
  /\ StoreDrop(Primary, call["load"].snap)
  /\ Goes("load", "forget")
  /\ UNCHANGED <<served, shape, ledger, loader, replay, faults>>

Forget ==
  /\ At("load", "drop", "forget")
  /\ journal' = {d \in journal : d.snap = call["load"].snap => d.stage = "drop"}
  /\ call' = [call EXCEPT !["load"].at =
               IF call["load"].failed \cap Required = {} THEN "returned" ELSE "threw"]
  /\ UNCHANGED <<stores, mark, loader, replay, faults>>

\* The followers take their turns in the order of the list.
Turn(f, todo) ==
  /\ f \in todo
  /\ \E i \in DOMAIN FollowerList :
       FollowerList[i] = f /\ \A j \in 1 .. i - 1 : FollowerList[j] \notin todo

\* A follower that owes is not committed; that it was not is one more debt.
HoldBack(a, f) ==
  /\ At(a, "commit", "follow") /\ Turn(f, call[a].todo)
  /\ \E d \in call[a].owed : Owes(d, f)
  /\ journal' = journal \cup {[follower |-> f, snap |-> call[a].snap,
                               stage |-> "commit", batch |-> 0]}
  /\ call' = [call EXCEPT ![a].todo = @ \ {f}]
  /\ UNCHANGED <<stores, mark, loader, replay, faults>>

Key(c) == [follower |-> c.on, snap |-> c.snap, stage |-> c.op, batch |-> c.batch]

Announce(a, f) ==
  /\ call[a].at = "follow" /\ Turn(f, call[a].todo)
  /\ call[a].op = "commit" => \A d \in call[a].owed : ~Owes(d, f)
  /\ call' = [call EXCEPT ![a].todo = @ \ {f}, ![a].on = f, ![a].at = "attempt"]
  /\ journal' = journal \cup {Key([call[a] EXCEPT !.on = f])}
  /\ UNCHANGED <<stores, mark, loader, replay, faults>>

\* An attempt that fails without a reason in the state is a fault.
Faulty(ok) ==
  /\ ~ok => faults < MaxFaults
  /\ faults' = IF ok THEN faults ELSE faults + 1

Tried(a, ok) == call' = [call EXCEPT ![a].at = "settle", ![a].ok = ok]

\* The follower does it.  An answer may still be lost on the way back.
FollowerEnsures(a) ==
  /\ At(a, "ensureType", "attempt")
  /\ shape' = [shape EXCEPT ![call[a].on] = TRUE]
  /\ \E heard \in BOOLEAN : Tried(a, heard) /\ Faulty(heard)
  /\ UNCHANGED <<rows, status, served, ledger, loader, replay>>

FollowerWrites(a) ==
  /\ At(a, "write", "attempt")
  /\ shape[call[a].on]
  /\ StoreWrite(call[a].on, call[a].snap, call[a].batch)
  /\ \E heard \in BOOLEAN : Tried(a, heard) /\ Faulty(heard)
  /\ UNCHANGED <<served, shape, ledger, loader, replay>>

\* Mutant: what the follower merged from is not compared.
FollowerCarriesUnchecked(a) ==
  /\ At(a, "carryForward", "attempt")
  /\ shape[call[a].on]
  /\ StoreCarry(call[a].on, call[a].snap)
  /\ \E heard \in BOOLEAN : Tried(a, heard) /\ Faulty(heard)
  /\ UNCHANGED <<served, shape, ledger, loader, replay>>

\* Merged from another base, or to another total: an error, after the fact.
FollowerCarries(a) ==
  /\ At(a, "carryForward", "attempt")
  /\ shape[call[a].on]
  /\ StoreCarry(call[a].on, call[a].snap)
  /\ \E heard \in BOOLEAN :
       /\ Faulty(heard)
       /\ Tried(a, /\ heard
                   /\ Base(call[a].on, call[a].snap) = call[a].from
                   /\ Total(call[a].on, call[a].snap) = call[a].total)
  /\ UNCHANGED <<served, shape, ledger, loader, replay>>

FollowerCommits(a) ==
  /\ At(a, "commit", "attempt")
  /\ Committable(call[a].on, call[a].snap)
  /\ StoreCommit(call[a].on, call[a].snap)
  /\ \E heard \in BOOLEAN : Tried(a, heard) /\ Faulty(heard)
  /\ UNCHANGED <<rows, shape, ledger, loader, replay>>

FollowerDrops(a) ==
  /\ At(a, "drop", "attempt")
  /\ Droppable(call[a].on, call[a].snap)
  /\ StoreDrop(call[a].on, call[a].snap)
  /\ \E heard \in BOOLEAN : Tried(a, heard) /\ Faulty(heard)
  /\ UNCHANGED <<served, shape, ledger, loader, replay>>

\* The follower refuses: no such table, no such record, a tombstone, the served one.
FollowerRefuses(a) ==
  /\ call[a].at = "attempt"
  /\ \/ call[a].op \in ReplayedStages /\ ~shape[call[a].on]
     \/ call[a].op = "commit" /\ ~Committable(call[a].on, call[a].snap)
     \/ call[a].op = "drop" /\ ~Droppable(call[a].on, call[a].snap)
  /\ Tried(a, FALSE)
  /\ UNCHANGED <<stores, ledger, loader, replay, faults>>

\* The follower is away, fails half way, or lands short.
FollowerFails(a) ==
  /\ call[a].at = "attempt"
  /\ Tried(a, FALSE)
  /\ Faulty(FALSE)
  /\ \/ UNCHANGED <<rows, status>>
     \/ call[a].op = "write" /\ shape[call[a].on]
        /\ Torn(call[a].on, call[a].snap, call[a].batch)
     \/ call[a].op = "carryForward" /\ shape[call[a].on]
        /\ Torn(call[a].on, call[a].snap, Carry)
  /\ UNCHANGED <<served, shape, ledger, loader, replay>>

\* Mutant: the entry is taken off however the attempt went.
SettleEither(a) ==
  /\ call[a].at = "settle"
  /\ journal' = journal \ {Key(call[a])}
  /\ call' = [call EXCEPT ![a].failed = IF call[a].ok THEN @ ELSE @ \cup {call[a].on},
                         ![a].at = IF call[a].ok /\ call[a].op = "commit"
                                   THEN "supersede" ELSE "follow"]
  /\ UNCHANGED <<stores, mark, loader, replay, faults>>

Settle(a) ==
  /\ call[a].at = "settle"
  /\ IF call[a].ok
       THEN /\ journal' = journal \ {Key(call[a])}
            /\ Goes(a, IF call[a].op = "commit" THEN "supersede" ELSE "follow")
       ELSE /\ call' = [call EXCEPT ![a].failed = @ \cup {call[a].on}, ![a].at = "follow"]
            /\ journal' = journal \cup {Key(call[a])}
  /\ UNCHANGED <<stores, mark, loader, replay, faults>>

\* The follower has moved on: what it owed about other snapshots is closed.
Supersede(a) ==
  /\ At(a, "commit", "supersede")
  /\ journal' = {d \in journal : Owes(d, call[a].on) => d.snap \in {call[a].snap, 0}}
  /\ Goes(a, "follow")
  /\ UNCHANGED <<stores, mark, loader, replay, faults>>

\* Every follower has had its turn.
Return(a) ==
  /\ call[a].at = "follow" /\ call[a].todo = {}
  /\ Goes(a, CASE call[a].op = "drop" -> "primary"
              [] a = "replay" /\ call[a].failed # {} -> "threw"
              [] a = "load" /\ call[a].failed \cap Required # {} -> "threw"
              [] OTHER -> "returned")
  /\ UNCHANGED <<stores, ledger, loader, replay, faults>>

FanoutCall(a) ==
  \/ \E f \in Followers : HoldBack(a, f) \/ Announce(a, f)
  \/ FollowerEnsures(a) \/ FollowerWrites(a) \/ FollowerCarries(a)
  \/ FollowerCommits(a) \/ FollowerDrops(a) \/ FollowerFails(a)
  \/ FollowerRefuses(a)
  \/ Settle(a) \/ Supersede(a) \/ Return(a)

-----------------------------------------------------------------------------
(* The loader: a load, or a schema change or retention between loads. *)

Idle(a) == call[a] = NoCall
Resting == load.next = "none" /\ Idle("load")
Quiet   == ReplayAlone => replay.at = "rest"

Calls(l) ==
  call' = [call EXCEPT !["load"] =
    IF l.next = "none" THEN NoCall
    ELSE Begun(l.next, l.snap, l.batch,
               IF l.next = "commit" THEN "ask" ELSE "primary", Followers)]

StartLoad ==
  /\ Resting /\ Quiet /\ load.snap < LastSnapshot
  /\ \E n \in Batches, merge \in BOOLEAN :
       load' = [snap |-> load.snap + 1, batches |-> n, merge |-> merge,
                next |-> "write", batch |-> 1]
  /\ Calls(load')
  /\ UNCHANGED <<stores, ledger, finished, replay, faults>>

\* Mutant: one batch too many.
AdvanceTooFar ==
  /\ load.next # "none" /\ call["load"].at = "returned"
  /\ load' = IF load.next = "write" /\ load.batch <= load.batches
              THEN [load EXCEPT !.batch = @ + 1]
              ELSE [load EXCEPT !.next = "none", !.batch = 0]
  /\ finished' = finished
  /\ Calls(load')
  /\ UNCHANGED <<stores, ledger, replay, faults>>

\* The call has returned and the loader makes the next; after the commit it is done.
Advance ==
  /\ load.next # "none" /\ call["load"].at = "returned"
  /\ LET after == IF load.next = "write" /\ load.batch < load.batches THEN "write"
                  ELSE IF load.next = "write" /\ load.merge THEN "carryForward"
                  ELSE IF load.next = "commit" THEN "none" ELSE "commit"
     IN load' = [load EXCEPT !.next = after,
                             !.batch = IF after = "write" THEN load.batch + 1 ELSE 0]
  /\ finished' = IF load.next = "commit" THEN finished \cup {load.snap} ELSE finished
  /\ Calls(load')
  /\ UNCHANGED <<stores, ledger, replay, faults>>

\* The attempt throws or dies anywhere.  It is made again from its first batch,
\* or the load is given up.
AttemptEnds ==
  /\ load.next # "none"
  /\ Faulty(call["load"].at = "threw")
  /\ \/ \E n \in 1 .. load.batches :
          /\ Shrinking \/ n = load.batches
          /\ load' = [load EXCEPT !.batches = n, !.next = "write", !.batch = 1]
     \/ load' = [load EXCEPT !.next = "none", !.batch = 0]
  /\ Calls(load')
  /\ UNCHANGED <<stores, ledger, finished, replay>>

EnsureType ==
  /\ Resting /\ Quiet
  /\ \E f \in Followers : ~shape[f] \/ \E d \in journal : d.stage = "ensureType"
  /\ call' = [call EXCEPT !["load"] = Begun("ensureType", 0, 0, "primary", Followers)]
  /\ UNCHANGED <<stores, ledger, loader, replay, faults>>

DropSnapshot ==
  /\ Resting /\ Quiet
  /\ \E s \in Ids :
       /\ status[Primary][s] \in {"open", "committed"}
       /\ call' = [call EXCEPT !["load"] = Begun("drop", s, 0, "follow", Followers)]
  /\ UNCHANGED <<stores, ledger, loader, replay, faults>>

\* A schema change or a drop returns, throws or dies.
AdminEnds ==
  /\ load.next = "none" /\ ~Idle("load")
  /\ Faulty(call["load"].at \in {"returned", "threw"})
  /\ call' = [call EXCEPT !["load"] = NoCall]
  /\ UNCHANGED <<stores, ledger, loader, replay>>

LoaderStep ==
  \/ StartLoad \/ Advance \/ AttemptEnds
  \/ EnsureType \/ DropSnapshot \/ AdminEnds
  \/ Ask \/ PrimaryEnsures \/ PrimaryWrites \/ PrimaryCarries \/ PrimaryCommits
  \/ MarkCommitted \/ PrimaryDrops \/ Forget

-----------------------------------------------------------------------------
(* The operator: replay a snapshot the primary holds to one follower. *)

StartReplay ==
  /\ replay.at = "rest" /\ replay.made < MaxReplays
  /\ ReplayAlone => Resting
  /\ \E s \in Ids, f \in Followers :
       /\ status[Primary][s] = "committed"
       /\ replay' = [at |-> "ensureType", snap |-> s, on |-> f, current |-> mark,
                     copied |-> {}, made |-> replay.made + 1]
       /\ call' = [call EXCEPT !["replay"] = Begun("ensureType", 0, 0, "follow", {f})]
  /\ UNCHANGED <<stores, ledger, loader, faults>>

ReplayEnsured ==
  /\ replay.at = "ensureType" /\ call["replay"].at = "returned"
  /\ replay' = [replay EXCEPT !.at = "clear"]
  /\ call' = [call EXCEPT !["replay"] = NoCall]
  /\ UNCHANGED <<stores, ledger, loader, faults>>

\* A follower that will not drop its copy must hold none of it.
ClearFollowerCopy ==
  /\ replay.at = "clear"
  /\ \/ Droppable(replay.on, replay.snap) /\ StoreDrop(replay.on, replay.snap)
     \/ ~Droppable(replay.on, replay.snap) /\ RowsOf(replay.on, replay.snap) = {}
        /\ UNCHANGED <<rows, status>>
  /\ replay' = [replay EXCEPT !.at = "copy"]
  /\ UNCHANGED <<served, shape, ledger, loader, call, faults>>

Uncopied ==
  {r[1] : r \in RowsOf(Primary, replay.snap)} \ replay.copied

\* Mutant: every page is written under the first page's number.
CopyPageOver ==
  /\ replay.at = "copy" /\ Uncopied # {}
  /\ \E k \in Uncopied :
       /\ Put(replay.on, replay.snap, 1, {r \in RowsOf(Primary, replay.snap) : r[1] = k})
       /\ replay' = [replay EXCEPT !.copied = @ \cup {k}]
  /\ Opened(replay.on, replay.snap)
  /\ UNCHANGED <<served, shape, ledger, loader, call, faults>>

\* A page is one key, read from the primary and written under its page number.
CopyPage ==
  /\ replay.at = "copy" /\ Uncopied # {}
  /\ LET k == CHOOSE i \in Uncopied : \A j \in Uncopied : i <= j
         page == {r \in RowsOf(Primary, replay.snap) : r[1] = k}
     IN /\ Put(replay.on, replay.snap, Cardinality(replay.copied) + 1, page)
        /\ replay' = [replay EXCEPT !.copied = @ \cup {k}]
  /\ Opened(replay.on, replay.snap)
  /\ UNCHANGED <<served, shape, ledger, loader, call, faults>>

CopiedAll ==
  /\ replay.at = "copy" /\ Uncopied = {}
  /\ replay' = [replay EXCEPT !.at = "clearDebt"]
  /\ UNCHANGED <<stores, ledger, loader, call, faults>>

\* Mutant: the held-back commit goes with the rows, committed or not.
ClearDebtWhole ==
  /\ replay.at = "clearDebt"
  /\ journal' = {d \in journal : ~(Owes(d, replay.on) /\ d.snap = replay.snap)}
  /\ replay' = [NoReplay EXCEPT !.made = replay.made]
  /\ UNCHANGED <<stores, mark, loader, call, faults>>

\* The commit is asked for only when the snapshot was the one served at the start.
ClearDebt ==
  /\ replay.at = "clearDebt"
  /\ journal' = {d \in journal : ~( /\ Owes(d, replay.on) /\ d.snap = replay.snap
                                    /\ d.stage \in ReplayedStages )}
  /\ IF replay.current = replay.snap
       THEN /\ replay' = [replay EXCEPT !.at = "commit"]
            /\ call' = [call EXCEPT !["replay"] =
                          Begun("commit", replay.snap, 0, "follow", {replay.on})]
       ELSE /\ replay' = [NoReplay EXCEPT !.made = replay.made]
            /\ UNCHANGED call
  /\ UNCHANGED <<stores, mark, loader, faults>>

\* The replay returns or throws, or dies anywhere.
ReplayEnds ==
  /\ replay.at # "rest"
  /\ Faulty(\/ call["replay"].at = "threw"
            \/ replay.at = "commit" /\ call["replay"].at = "returned"
            \/ /\ replay.at = "clear" /\ ~Droppable(replay.on, replay.snap)
               /\ RowsOf(replay.on, replay.snap) # {})
  /\ replay' = [NoReplay EXCEPT !.made = replay.made]
  /\ call' = [call EXCEPT !["replay"] = NoCall]
  /\ UNCHANGED <<stores, ledger, loader>>

ReplayStep ==
  \/ StartReplay \/ ReplayEnsured \/ ClearFollowerCopy \/ CopyPage \/ CopiedAll
  \/ ClearDebt \/ ReplayEnds

Next == LoaderStep \/ ReplayStep \/ \E a \in Actors : FanoutCall(a)

Spec == Init /\ [][Next]_vars

-----------------------------------------------------------------------------
(* Properties. *)

SameRows(f, s) == RowsOf(f, s) = RowsOf(Primary, s)

OwesAbout(f, s) == \E d \in journal : d.follower = f /\ d.snap \in {s, 0}

SameBatch(f, s, b) ==
  {y \in rows[f][s] : y[1] = b} = {y \in rows[Primary][s] : y[1] = b}

\* When the primary begins to serve a load, the required followers hold all of it.
RequiredHoldsAll ==
  [][served'[Primary] # served[Primary] =>
       \A f \in Required : SameRows(f, served'[Primary])]_vars

\* A commit refused because a required follower owes has published nothing ("was
\* not committed anywhere ... Nothing has been published", fanout.store.ts:626).
RefusalPublishedNothing ==
  [][At("load", "commit", "ask") /\ call'["load"].at = "threw" =>
       served[Primary] # call["load"].snap]_vars

\* A follower repaired to the end can be committed: what the replay did to clear
\* the follower's copy is not what its commit is refused for (migration.ts:339).
ReplayIsNotRefused ==
  At("replay", "commit", "attempt") => Committable(call["replay"].on, call["replay"].snap)

\* A replay never takes a follower to a snapshot the primary no longer serves
\* ("must not repoint the follower at last week", migration.ts:328).
ReplayRepointsForward ==
  [][\A f \in Followers :
       At("replay", "commit", "attempt") /\ served'[f] # served[f] =>
         served'[f] = served[Primary]]_vars
=============================================================================

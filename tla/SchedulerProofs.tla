-------------------------- MODULE SchedulerProofs --------------------------
(***************************************************************************)
(* Proofs about Scheduler, for any number of replicas, users, connectors   *)
(* and moments and any crons: the state keeps its types, what a replica    *)
(* has settled is decided for good, and a window is started once as long   *)
(* as publications do not overlap.                                         *)
(***************************************************************************)
EXTENDS Scheduler, WellFoundedInduction, TLAPS

\* Whoever speaks of a connector speaks of one that has been minted.
MintedOnly ==
  /\ \A u \in Users : call[u].at = "keep" => call[u].conn \in Minted
  /\ \A s \in Replicas : tick[s].at = "start" => tick[s].conn \in Minted
  /\ \A k \in Connectors : open[k] # <<>> => k \in Minted

\* A version is one of the calls there have been, and nothing is touched ahead of time.
Counted ==
  /\ flow.version <= calls
  /\ \A k \in Minted : conn[k].updated <= now

TypeInv == TypeOK /\ MintedOnly /\ Counted

-----------------------------------------------------------------------------

\* A cron that fires at all is in a window at every moment.
LEMMA WindowThereIs ==
  ASSUME NEW c \in Schedules, c # {}, NEW t \in Times
  PROVE  /\ prevCronFire(c, t) \in c
         /\ prevCronFire(c, t) \in Times
<1> USE SchedulerAssumption DEF Times, Schedules
<1> DEFINE S == {f \in c : f <= t}
           T == {t - f : f \in S}
<1>1. c \subseteq Nat /\ 0 \in S
  OBVIOUS
<1>2. T \subseteq Nat /\ T # {}
  <2>1. \A f \in S : f \in Nat /\ f <= t /\ t \in Nat
    BY <1>1
  <2>2. \A f \in S : t - f \in Nat
    <3> HIDE DEF S
    <3> QED BY <2>1
  <2>3. t - 0 \in T
    BY <1>1
  <2> QED BY <2>2, <2>3
<1>3. PICK x \in T : \A y \in T : ~ (<<y, x>> \in OpToRel(<, Nat))
  <2> HIDE DEF T
  <2> QED BY <1>2, NatLessThanWellFounded, WFMin
<1>4. PICK f \in S : x = t - f
  OBVIOUS
<1>5. ASSUME NEW g \in S PROVE g <= f
  <2>1. t - g \in T /\ t - g \in Nat /\ x \in Nat
    BY <1>1, <1>2, <1>5
  <2>2. ~ (t - g < x)
    BY <1>3, <2>1 DEF OpToRel
  <2> QED BY <2>2, <1>4, <1>5, <1>1
<1>6. \E h \in c : h <= t /\ \A g \in c : g <= t => g <= h
  BY <1>4, <1>5
<1>7. prevCronFire(c, t) \in c
  BY <1>6 DEF prevCronFire
<1> QED BY <1>7, <1>1


-----------------------------------------------------------------------------
(* Types. *)

\* What the record of a call holds, by its kind.
LEMMA CallKinds ==
  ASSUME NEW c \in CallRows
  PROVE  /\ c = Idle <=> c.at = "idle"
         /\ c # Idle => c.was \in Flows
         /\ c.at \in {"publish", "mint", "new", "disable", "draft"} =>
              c \in [at : {"publish", "mint", "new", "disable", "draft"}, was : Flows]
         /\ c.at = "keep" =>
              c \in [at : {"keep"}, was : Flows, conn : Connectors, seen : Conns]
         /\ c.at \in {"copy", "schedule"} =>
              c \in [at : {"copy", "schedule"}, was : Flows, cron : Schedules,
                     enabled : BOOLEAN]
<1>1. CASE c = Idle
  BY <1>1 DEF Idle
<1>2. CASE c \in [at : {"publish", "mint", "new", "disable", "draft"}, was : Flows]
  BY <1>2 DEF Idle
<1>3. CASE c \in [at : {"keep"}, was : Flows, conn : Connectors, seen : Conns]
  BY <1>3 DEF Idle
<1>4. CASE c \in [at : {"copy", "schedule"}, was : Flows, cron : Schedules, enabled : BOOLEAN]
  BY <1>4 DEF Idle
<1> QED BY <1>1, <1>2, <1>3, <1>4 DEF CallRows

\* A call moves on, and what it writes is well typed and in time.
LEMMA CallMoves ==
  ASSUME TypeInv, NEW u \in Users, NEW c \in CallRows, call' = [call EXCEPT ![u] = c],
         UNCHANGED <<now, tick, settled, engine>>,
         flow' \in Flows, flow'.version <= calls',
         conn' \in [Connectors -> Conns \cup {None}],
         \A k \in Connectors : conn[k] # None => conn'[k] # None,
         \A k \in Connectors : conn'[k] # None => conn'[k].updated <= now,
         c.at = "keep" => conn'[c.conn] # None,
         calls' \in 0 .. MaxCalls, faults' \in 0 .. MaxFaults
  PROVE  TypeInv'
<1> USE DEF TypeInv, Minted
<1>1. TypeOK'
  BY DEF TypeOK, engine
<1>2. MintedOnly'
  <2>1. \A v \in Users : call[v].at = "keep" => call[v].conn \in Connectors
    BY CallKinds DEF TypeOK
  <2>2. \A s \in Replicas : tick[s].at = "start" => tick[s].conn \in Connectors
    BY DEF TypeOK, TickRows, Idle
  <2>3. \A v \in Users : call'[v].at = "keep" => call'[v].conn \in {k \in Connectors : conn'[k] # None}
    <3> TAKE v \in Users
    <3>1. CASE v = u
      BY <3>1 DEF TypeOK, CallRows, Idle
    <3>2. CASE v # u
      BY <3>2, <2>1 DEF TypeOK, MintedOnly
    <3> QED BY <3>1, <3>2
  <2>4. \A s \in Replicas : tick'[s].at = "start" => tick'[s].conn \in {k \in Connectors : conn'[k] # None}
    BY <2>2 DEF MintedOnly
  <2>5. \A k \in Connectors : open'[k] # <<>> => conn'[k] # None
    BY DEF MintedOnly, engine
  <2> QED BY <2>3, <2>4, <2>5 DEF MintedOnly
<1>3. Counted'
  BY DEF Counted
<1> QED BY <1>1, <1>2, <1>3

\* A replica moves on, the store as it is.
LEMMA TickMoves ==
  ASSUME TypeInv, NEW s \in Replicas, NEW t \in TickRows, tick' = [tick EXCEPT ![s] = t],
         UNCHANGED <<now, store, call, calls>>,
         t.at = "start" => t.conn \in Minted,
         settled' \in [Replicas -> Settlements \cup {None}],
         runs' \subseteq RunRows, open' \in [Connectors -> Seq(RunRows)],
         \A k \in Connectors : open[k] # <<>> => open'[k] # <<>>,
         \A k \in Connectors : open'[k] # <<>> => k \in Minted,
         UNCHANGED planned, faults' \in 0 .. MaxFaults
  PROVE  TypeInv'
<1> USE DEF TypeInv, Minted, store
<1>1. TypeOK'
  BY DEF TypeOK
<1>2. MintedOnly'
  <2>1. \A r \in Replicas : tick'[r].at = "start" => tick'[r].conn \in Minted
    BY DEF TypeOK, MintedOnly
  <2> QED BY <2>1 DEF MintedOnly
<1>3. Counted'
  BY DEF Counted
<1> QED BY <1>1, <1>2, <1>3

\* The queue of a connector moves on, which may touch its row.
LEMMA WorkMoves ==
  ASSUME TypeInv, NEW k \in Connectors, open[k] # <<>>,
         UNCHANGED <<now, flow, call, tick, settled, runs, calls>>,
         conn' = [conn EXCEPT ![k].updated = now] \/ UNCHANGED conn,
         open' \in [Connectors -> Seq(RunRows)],
         \A j \in Connectors : open'[j] # <<>> => open[j] # <<>>,
         planned' \subseteq {j \in Connectors : open'[j] # <<>>},
         faults' \in 0 .. MaxFaults
  PROVE  TypeInv'
<1> USE DEF TypeInv, Minted
<1>1. conn[k] \in Conns /\ now \in Times
  BY DEF TypeOK, MintedOnly
<1>2. /\ conn' \in [Connectors -> Conns \cup {None}]
      /\ \A j \in Connectors : conn'[j] # None <=> conn[j] # None
      /\ \A j \in Connectors : conn'[j] # None => conn'[j].updated <= now
  <2>1. CASE UNCHANGED conn
    BY <2>1 DEF TypeOK, Counted
  <2>2. CASE conn' = [conn EXCEPT ![k].updated = now]
    <3>1. conn'[k] = [conn[k] EXCEPT !.updated = now] /\ conn'[k] \in Conns
      BY <2>2, <1>1 DEF TypeOK, Conns
    <3>2. conn'[k] # None /\ conn'[k].updated = now /\ now <= now
      BY <3>1, <1>1, NoneAssumption, SchedulerAssumption DEF Conns, Times
    <3>3. \A j \in Connectors \ {k} : conn'[j] = conn[j]
      BY <2>2 DEF TypeOK
    <3>4. DOMAIN conn' = Connectors /\ conn' \in [Connectors -> Conns \cup {None}]
      BY <2>2, <3>1, <3>3 DEF TypeOK
    <3> QED BY <3>1, <3>2, <3>3, <3>4, <1>1, NoneAssumption DEF Counted
  <2> QED BY <2>1, <2>2
<1>3. TypeOK'
  BY <1>2 DEF TypeOK
<1>4. MintedOnly'
  <2>1. \A v \in Users : call[v].at = "keep" => call[v].conn \in Connectors
    BY CallKinds DEF TypeOK
  <2>2. \A s \in Replicas : tick[s].at = "start" => tick[s].conn \in Connectors
    BY DEF TypeOK, TickRows, Idle
  <2> QED BY <2>1, <2>2, <1>2 DEF MintedOnly
<1>5. Counted'
  BY <1>2 DEF Counted
<1> QED BY <1>3, <1>4, <1>5


\* The calls of a user.
LEMMA CallStep ==
  ASSUME TypeInv, NEW u \in Users, Calls(u)
  PROVE  TypeInv'
<1> USE SchedulerAssumption DEF Times
<1> DEFINE c == call[u]
<1>1. /\ flow \in Flows /\ flow.version <= calls /\ calls \in 0 .. MaxCalls
      /\ now \in Times /\ faults \in 0 .. MaxFaults /\ c \in CallRows
      /\ conn \in [Connectors -> Conns \cup {None}]
      /\ \A k \in Connectors : conn[k] # None => conn[k].updated <= now
  BY DEF TypeInv, TypeOK, Counted, Minted
<1>2. /\ calls <= calls /\ now <= now
      /\ c = Idle <=> c.at = "idle"
      /\ c # Idle => c.was \in Flows
  BY <1>1, CallKinds
<1>3. ASSUME NEW d \in CallRows, d.at # "keep", Begin(u, d)
      PROVE  TypeInv'
  <2>1. calls' \in 0 .. MaxCalls /\ flow.version <= calls'
    BY <1>1, <1>3 DEF Begin, Flows
  <2>2. /\ call' = [call EXCEPT ![u] = d]
        /\ UNCHANGED <<now, tick, settled, engine>>
        /\ flow' = flow /\ conn' = conn /\ faults' = faults
    BY <1>3 DEF Begin, store
  <2> QED BY <2>1, <2>2, <1>1, <1>3, CallMoves
<1>4. ASSUME NEW d \in CallRows, Goes(u, d), UNCHANGED store, d.at = "keep" => d.conn \in Minted
      PROVE  TypeInv'
  BY <1>1, <1>2, <1>4, CallMoves DEF Goes, store, Minted
<1>5. ASSUME NEW d \in CallRows, Goes(u, d), UNCHANGED conn, d.at # "keep", flow' \in Flows,
             flow'.version = flow.version
      PROVE  TypeInv'
  BY <1>1, <1>2, <1>5, CallMoves DEF Goes
<1>6. ASSUME NEW d \in CallRows, Goes(u, d), UNCHANGED flow, d.at # "keep",
             conn' \in [Connectors -> Conns \cup {None}],
             \A k \in Connectors : conn[k] # None => conn'[k] # None,
             \A k \in Connectors : conn'[k] # None => conn'[k].updated <= now
      PROVE  TypeInv'
  BY <1>1, <1>2, <1>6, CallMoves DEF Goes
<1>7. Idle \in CallRows
  BY DEF CallRows
<1>8. CASE BeginPublish(u) \/ BeginUnpublish(u)
  <2>1. /\ [at |-> "publish", was |-> flow] \in CallRows
        /\ [at |-> "disable", was |-> flow] \in CallRows
    BY <1>1 DEF CallRows
  <2> QED BY <2>1, <1>3, <1>8 DEF BeginPublish, BeginUnpublish
<1>9. CASE BeginSchedule(u)
  <2>1. flow.cron \in Schedules /\ flow.enabled \in BOOLEAN
    BY <1>1 DEF Flows
  <2>2. ASSUME NEW s \in Schedules, NEW e \in BOOLEAN
        PROVE  [at |-> "copy", was |-> flow, cron |-> s, enabled |-> e] \in CallRows
    BY <1>1, <2>2 DEF CallRows
  <2>3. CASE \E s \in Schedules \ {flow.cron} :
               Begin(u, [at |-> "copy", was |-> flow, cron |-> s, enabled |-> flow.enabled])
    BY <2>1, <2>2, <2>3, <1>3
  <2>4. CASE Begin(u, [at |-> "copy", was |-> flow, cron |-> flow.cron,
                       enabled |-> ~flow.enabled])
    BY <2>1, <2>2, <2>4, <1>3
  <2> QED BY <2>3, <2>4, <1>9 DEF BeginSchedule
<1>10. CASE FlushReady(u)
  <2>1. [c EXCEPT !.at = "mint"] \in CallRows /\ [c EXCEPT !.at = "mint"].at # "keep"
    BY <1>1, <1>10, CallKinds DEF FlushReady, CallRows
  <2>2. flow' \in Flows /\ flow'.version = flow.version
    BY <1>1, <1>10 DEF FlushReady, Flows
  <2> QED BY <2>1, <2>2, <1>5, <1>10 DEF FlushReady
<1>11. CASE FindMinted(u)
  <2>1. c.was \in Flows
    BY <1>2, <1>11 DEF FindMinted, Idle
  <2>2. [at |-> "new", was |-> c.was] \in CallRows
    BY <2>1 DEF CallRows
  <2>3. ASSUME NEW k \in Minted
        PROVE  [at |-> "keep", was |-> c.was, conn |-> k, seen |-> conn[k]] \in CallRows
    BY <2>1, <1>1 DEF CallRows, Minted
  <2> QED BY <2>2, <2>3, <1>4, <1>11 DEF FindMinted
<1>12. CASE Mint(u)
  <2>1. c.was \in Flows
    BY <1>2, <1>12 DEF Mint, Idle
  <2>2. c.was.enabled \in BOOLEAN
    BY <2>1 DEF Flows
  <2>3. ASSUME NEW k \in Connectors, NEW row \in Conns, row.updated = now,
               conn' = [conn EXCEPT ![k] = row]
        PROVE  TypeInv'
    <3>1. row # None
      BY NoneAssumption
    <3> QED BY <2>3, <3>1, <1>1, <1>2, <1>6, <1>7, <1>12 DEF Mint, Idle
  <2>4. CASE c.at = "new"
    <3>1. PICK k \in Connectors \ Minted :
            conn' = [conn EXCEPT ![k] = [enabled |-> c.was.enabled, updated |-> now]]
      BY <2>4, <1>12 DEF Mint
    <3> QED BY <2>2, <2>3, <3>1, <1>1 DEF Conns
  <2>5. CASE c.at = "keep"
    <3>1. c.conn \in Connectors /\ conn[c.conn] \in Conns /\ c.seen \in Conns
      BY <2>5, <1>1, CallKinds DEF TypeInv, MintedOnly, Minted
    <3>2. conn' = [conn EXCEPT ![c.conn] =
                     [enabled |-> Column(c.seen.enabled, c.was.enabled, conn[c.conn].enabled),
                      updated |-> now]]
      BY <2>5, <3>1, <1>1, <1>12 DEF Mint
    <3>3. Column(c.seen.enabled, c.was.enabled, conn[c.conn].enabled) \in BOOLEAN
      BY <2>2, <3>1 DEF Column, Conns
    <3> DEFINE row == [enabled |-> Column(c.seen.enabled, c.was.enabled,
                                           conn[c.conn].enabled), updated |-> now]
    <3>4. row \in Conns /\ row.updated = now
      BY <3>3, <1>1 DEF Conns
    <3> HIDE DEF row
    <3> QED BY <2>3, <3>1, <3>2, <3>4 DEF row
  <2> QED BY <2>4, <2>5, <1>12 DEF Mint
<1>13. ASSUME NEW d \in CallRows, Goes(u, d), UNCHANGED flow, d.at # "keep",
              NEW e \in BOOLEAN,
              conn' = [k \in Connectors |->
                         IF k \in Minted THEN [conn[k] EXCEPT !.enabled = e] ELSE None]
       PROVE  TypeInv'
  <2>1. ASSUME NEW k \in Minted
        PROVE  conn'[k] \in Conns /\ conn'[k].updated = conn[k].updated
    BY <1>1, <1>13, <2>1 DEF Minted, Conns
  <2>2. /\ \A k \in Connectors : conn[k] # None => conn'[k] # None
        /\ \A k \in Connectors : conn'[k] # None => conn'[k].updated <= now
    BY <2>1, <1>1, <1>13, NoneAssumption DEF Minted
  <2>3. conn' \in [Connectors -> Conns \cup {None}]
    BY <2>1, <1>13 DEF Minted
  <2> QED BY <2>2, <2>3, <1>6, <1>13
<1>14. CASE DisableCopy(u)
  <2>1. [c EXCEPT !.at = "draft"] \in CallRows /\ [c EXCEPT !.at = "draft"].at # "keep"
    BY <1>1, <1>14, CallKinds DEF DisableCopy, CallRows
  <2> QED BY <2>1, <1>13, <1>14 DEF DisableCopy
<1>15. CASE WriteCopy(u)
  <2>1. c \in [at : {"copy", "schedule"}, was : Flows, cron : Schedules, enabled : BOOLEAN]
    BY <1>1, <1>15, CallKinds DEF WriteCopy
  <2>2. [c EXCEPT !.at = "schedule"] \in CallRows /\ [c EXCEPT !.at = "schedule"].at # "keep"
    BY <2>1 DEF CallRows
  <2> QED BY <2>1, <2>2, <1>13, <1>15 DEF WriteCopy
<1>16. CASE FlushDraft(u)
  <2>1. flow' \in Flows /\ flow'.version = flow.version
    BY <1>1, <1>16 DEF FlushDraft, Flows
  <2> QED BY <2>1, <1>5, <1>7, <1>16 DEF FlushDraft, Idle
<1>17. CASE FlushSchedule(u)
  <2>1. c \in [at : {"copy", "schedule"}, was : Flows, cron : Schedules, enabled : BOOLEAN]
    BY <1>1, <1>17, CallKinds DEF FlushSchedule
  <2>2. flow' \in Flows /\ flow'.version = flow.version
    BY <2>1, <1>1, <1>17 DEF FlushSchedule, Flows, Column
  <2> QED BY <2>2, <1>5, <1>7, <1>17 DEF FlushSchedule, Idle
<1>18. CASE UserDies(u)
  <2>1. faults' \in 0 .. MaxFaults
    BY <1>1, <1>18 DEF UserDies
  <2>2. /\ call' = [call EXCEPT ![u] = Idle]
        /\ UNCHANGED <<now, tick, settled, engine>>
        /\ flow' = flow /\ conn' = conn /\ calls' = calls
    BY <1>18 DEF UserDies, store
  <2>3. Idle.at # "keep"
    BY DEF Idle
  <2> QED BY <2>1, <2>2, <2>3, <1>1, <1>7, CallMoves
<1> QED BY <1>8, <1>9, <1>10, <1>11, <1>12, <1>14, <1>15, <1>16, <1>17, <1>18
        DEF Calls


\* What the record of a tick holds, by its kind.
LEMMA TickKinds ==
  ASSUME NEW t \in TickRows
  PROVE  /\ t.at = "ask" => t \in [at : {"ask"}, flow : Flows, fire : Times]
         /\ t.at = "start" =>
              t \in [at : {"start"}, flow : Flows, fire : Times, conn : Connectors]
         /\ t.at \in {"ask", "start"} =>
              settlementOf(t.flow, t.fire) \in Settlements /\ t.fire \in Times
<1>1. CASE t = Idle
  BY <1>1 DEF Idle
<1>2. CASE t \in [at : {"ask"}, flow : Flows, fire : Times]
  BY <1>2 DEF Flows, Settlements, settlementOf
<1>3. CASE t \in [at : {"start"}, flow : Flows, fire : Times, conn : Connectors]
  BY <1>3 DEF Flows, Settlements, settlementOf
<1> QED BY <1>1, <1>2, <1>3 DEF TickRows

\* A run a tick asks for is well typed, and admitting it keeps the queues so.
LEMMA AdmitKeeps ==
  ASSUME TypeInv, NEW s \in Replicas, tick[s].at = "start",
         Admit(Taken(s)) \/ UNCHANGED engine
  PROVE  /\ Taken(s) \in RunRows /\ Taken(s).conn \in Minted
         /\ runs' \subseteq RunRows /\ open' \in [Connectors -> Seq(RunRows)]
         /\ \A k \in Connectors : open[k] # <<>> => open'[k] # <<>>
         /\ \A k \in Connectors : open'[k] # <<>> => k \in Minted
         /\ UNCHANGED planned
<1>1. tick[s] \in [at : {"start"}, flow : Flows, fire : Times, conn : Connectors]
  BY TickKinds DEF TypeInv, TypeOK
<1>2. Taken(s) \in RunRows /\ Taken(s).conn \in Minted
  BY <1>1 DEF Taken, RunRows, Flows, TypeInv, MintedOnly
<1>3. open \in [Connectors -> Seq(RunRows)] /\ runs \subseteq RunRows
  BY DEF TypeInv, TypeOK
<1>4. CASE UNCHANGED engine
  BY <1>2, <1>3, <1>4 DEF engine, TypeInv, MintedOnly
<1>5. CASE Admit(Taken(s))
  <2>1. CASE Known(Taken(s))
    BY <1>4, <1>5, <2>1 DEF Admit
  <2>2. CASE ~Known(Taken(s))
    <3> DEFINE k == Taken(s).conn
    <3>1. /\ runs' = runs \cup {Taken(s)} /\ UNCHANGED planned
          /\ open' = [open EXCEPT ![k] = Append(open[k], Taken(s))]
      BY <1>5, <2>2 DEF Admit
    <3>2. k \in Connectors /\ open[k] \in Seq(RunRows)
      BY <1>2, <1>3 DEF Minted
    <3>3. Append(open[k], Taken(s)) \in Seq(RunRows) /\ Append(open[k], Taken(s)) # <<>>
      <4> HIDE DEF k
      <4> QED BY <1>2, <3>2
    <3> QED BY <3>1, <3>2, <3>3, <1>2, <1>3 DEF TypeInv, MintedOnly
  <2> QED BY <2>1, <2>2
<1> QED BY <1>2, <1>4, <1>5

\* The ticks of a replica.
LEMMA TickStep ==
  ASSUME TypeInv, NEW s \in Replicas, Poll(s) \/ Failed(s)
  PROVE  TypeInv'
<1> USE SchedulerAssumption DEF Times
<1>1. /\ tick[s] \in TickRows /\ flow \in Flows
      /\ now \in Times /\ faults \in 0 .. MaxFaults
      /\ settled \in [Replicas -> Settlements \cup {None}]
      /\ runs \subseteq RunRows /\ open \in [Connectors -> Seq(RunRows)]
      /\ \A k \in Connectors : open[k] # <<>> => k \in Minted
  BY DEF TypeInv, TypeOK, MintedOnly
<1>2. Idle \in TickRows /\ Idle.at # "start"
  BY DEF TickRows, Idle
<1>3. /\ tick[s].at = "ask" => tick[s] \in [at : {"ask"}, flow : Flows, fire : Times]
      /\ tick[s].at \in {"ask", "start"} =>
           settlementOf(tick[s].flow, tick[s].fire) \in Settlements
  BY <1>1, TickKinds
<1>4. Settles(s) /\ tick[s].at \in {"ask", "start"} =>
        settled' \in [Replicas -> Settlements \cup {None}]
  BY <1>1, <1>3 DEF Settles
<1>5. ASSUME NEW t \in TickRows, tick' = [tick EXCEPT ![s] = t],
             UNCHANGED <<now, store, call, calls, engine>>,
             t.at = "start" => t.conn \in Minted,
             settled' \in [Replicas -> Settlements \cup {None}],
             faults' \in 0 .. MaxFaults
      PROVE  TypeInv'
  BY <1>1, <1>5, TickMoves DEF engine
<1>6. CASE Tick(s)
  <2> DEFINE t == [at |-> "ask", flow |-> flow, fire |-> prevCronFire(flow.cron, now)]
  <2>1. flow.cron \in Schedules /\ flow.cron # {}
    BY <1>1, <1>6 DEF Tick, Undecided, hasCron, Flows
  <2>2. t \in TickRows /\ t.at # "start"
    BY <2>1, <1>1, WindowThereIs DEF TickRows
  <2> HIDE DEF t
  <2>3. tick' = [tick EXCEPT ![s] = t]
    BY <1>1, <1>6 DEF Tick, t
  <2> QED BY <2>2, <2>3, <1>1, <1>5, <1>6 DEF Tick
<1>7. CASE Ask(s)
  <2>1. CASE TickEnds(s) /\ settled' \in [Replicas -> Settlements \cup {None}]
    BY <2>1, <1>1, <1>2, <1>5, <1>7 DEF Ask, TickEnds
  <2>2. ASSUME NEW k \in Minted,
               tick' = [tick EXCEPT ![s] = [at |-> "start", flow |-> tick[s].flow,
                                            fire |-> tick[s].fire, conn |-> k]],
               UNCHANGED settled
        PROVE  TypeInv'
    <3> DEFINE t == [at |-> "start", flow |-> tick[s].flow, fire |-> tick[s].fire, conn |-> k]
    <3>1. t \in TickRows /\ t.conn \in Minted
      BY <1>3, <1>7 DEF Ask, TickRows, Minted
    <3> HIDE DEF t
    <3> QED BY <2>2, <3>1, <1>1, <1>5, <1>7 DEF Ask, t
  <2>3. tick[s].at = "ask" /\ tick \in [Replicas -> TickRows]
    BY <1>7 DEF Ask, TypeInv, TypeOK
  <2>4. CASE \E k \in Minted :
               /\ tick' = [tick EXCEPT ![s] = [at |-> "start", flow |-> @.flow,
                                               fire |-> @.fire, conn |-> k]]
               /\ UNCHANGED settled
    BY <2>2, <2>3, <2>4
  <2>5. CASE TickEnds(s) /\ (UNCHANGED settled \/ Settles(s))
    BY <2>1, <2>3, <2>5, <1>1, <1>4
  <2> QED BY <2>4, <2>5, <1>7 DEF Ask
<1>8. CASE Start(s)
  BY <1>1, <1>2, <1>4, <1>8, AdmitKeeps, TickMoves DEF Start, TickEnds
<1>9. CASE StartRefused(s)
  BY <1>1, <1>2, <1>5, <1>9 DEF StartRefused, TickEnds
<1>10. CASE TickFails(s) \/ ReplicaRestarts(s)
  <2>1. faults' \in 0 .. MaxFaults
    BY <1>1, <1>10 DEF TickFails, ReplicaRestarts
  <2>2. settled' \in [Replicas -> Settlements \cup {None}]
    BY <1>1, <1>10 DEF TickFails, ReplicaRestarts
  <2> QED BY <2>1, <2>2, <1>1, <1>2, <1>5, <1>10 DEF TickFails, ReplicaRestarts, TickEnds
<1>11. CASE StartFails(s)
  <2>1. faults' \in 0 .. MaxFaults
    BY <1>1, <1>11 DEF StartFails
  <2> QED BY <2>1, <1>1, <1>2, <1>11, AdmitKeeps, TickMoves DEF StartFails, TickEnds
<1> QED BY <1>6, <1>7, <1>8, <1>9, <1>10, <1>11 DEF Poll, Failed

\* Runs, edits and the clock.
LEMMA WorkStep ==
  ASSUME TypeInv, NEW k \in Connectors, Work(k) \/ RunExpires(k)
  PROVE  TypeInv'
<1> USE SchedulerAssumption DEF Times
<1>1. /\ open \in [Connectors -> Seq(RunRows)] /\ open[k] # <<>>
      /\ planned \subseteq {j \in Connectors : open[j] # <<>>}
      /\ faults \in 0 .. MaxFaults
  BY DEF TypeInv, TypeOK, Work, RunStarts, RunEnds, RunExpires
<1>2. CASE RunStarts(k)
  BY <1>1, <1>2, WorkMoves DEF RunStarts, Touch
<1>3. Leaves(k) =>
        /\ open' \in [Connectors -> Seq(RunRows)]
        /\ \A j \in Connectors : open'[j] # <<>> => open[j] # <<>>
        /\ planned' \subseteq {j \in Connectors : open'[j] # <<>>}
  <2>1. open[k] \in Seq(RunRows) /\ open[k] # <<>> => Tail(open[k]) \in Seq(RunRows)
    OBVIOUS
  <2> QED BY <2>1, <1>1 DEF Leaves
<1>4. CASE RunEnds(k)
  BY <1>1, <1>3, <1>4, WorkMoves DEF RunEnds, Touch
<1>5. CASE RunExpires(k)
  <2>1. faults' \in 0 .. MaxFaults
    BY <1>1, <1>5 DEF RunExpires
  <2> QED BY <2>1, <1>1, <1>3, <1>5, WorkMoves DEF RunExpires, store
<1> QED BY <1>2, <1>4, <1>5 DEF Work

LEMMA TypeStep == TypeInv /\ [Next]_vars => TypeInv'
<1> SUFFICES ASSUME TypeInv, [Next]_vars PROVE TypeInv'
  OBVIOUS
<1> USE SchedulerAssumption DEF Times
<1>1. CASE Edit
  <2>1. calls' \in 0 .. MaxCalls /\ flow' \in Flows /\ flow'.version <= calls'
    <3>1. /\ flow \in Flows /\ now \in Times /\ flow.version <= calls
          /\ calls \in 0 .. MaxCalls
      BY DEF TypeInv, TypeOK, Counted
    <3>2. flow.version \in 0 .. MaxCalls
      BY <3>1 DEF Flows
    <3>3. /\ calls' \in 0 .. MaxCalls /\ flow.version + 1 <= calls'
          /\ flow.version + 1 \in 0 .. MaxCalls
      BY <1>1, <3>1, <3>2 DEF Edit
    <3>4. flow' = [flow EXCEPT !.version = flow.version + 1, !.updated = now]
      BY <1>1 DEF Edit
    <3>5. flow' \in Flows /\ flow'.version = flow.version + 1
      BY <3>1, <3>3, <3>4 DEF Flows
    <3> QED BY <3>3, <3>5
  <2> QED BY <2>1, <1>1 DEF Edit, TypeInv, TypeOK, MintedOnly, Counted, Minted, engine
<1>2. CASE Advance
  <2>1. now' \in Times /\ now <= now'
    BY <1>2 DEF Advance, TypeInv, TypeOK
  <2>2. \A k \in Minted : conn[k].updated \in Times /\ conn[k].updated <= now
    BY DEF TypeInv, TypeOK, Counted, Minted, Conns
  <2>3. \A k \in Minted : conn[k].updated <= now'
    <3>1. now \in Times
      BY DEF TypeInv, TypeOK
    <3> QED BY <2>1, <2>2, <3>1
  <2> QED BY <2>1, <2>3, <1>2
          DEF Advance, TypeInv, TypeOK, MintedOnly, Counted, Minted, engine, store
<1>3. CASE UNCHANGED vars
  BY <1>3 DEF vars, TypeInv, TypeOK, MintedOnly, Counted, Minted, engine, store
<1> QED BY <1>1, <1>2, <1>3, CallStep, TickStep, WorkStep DEF Next

LEMMA TypesHold == Spec => []TypeInv
<1>1. Init => TypeInv
  <2> SUFFICES ASSUME Init PROVE TypeInv
    OBVIOUS
  <2> USE SchedulerAssumption DEF Times, Init
  <2>1. TypeOK
    BY DEF TypeOK, Flows, CallRows, TickRows
  <2>2. MintedOnly
    BY DEF MintedOnly, Idle
  <2>3. Counted
    BY DEF Counted, Minted
  <2> QED BY <2>1, <2>2, <2>3 DEF TypeInv
<1> QED BY <1>1, TypeStep, PTL DEF Spec

\* The state keeps its types: a window is always one of the cron's, a queue that is being
\* worked on is not empty, counters stay below their bounds.
THEOREM TypeCorrect == Spec => []TypeOK
<1>1. TypeInv => TypeOK
  BY DEF TypeInv
<1> QED BY <1>1, TypesHold, PTL

-----------------------------------------------------------------------------
(* What is settled, and what is started once. *)

\* A connector is minted for good, and never touched back in time.
LEMMA TouchedForward ==
  ASSUME TypeInv, [Next]_vars, NEW k \in Minted
  PROVE  k \in Minted' /\ conn[k].updated <= conn'[k].updated
<1> USE DEF Minted
<1>1. /\ conn[k] \in Conns /\ conn[k].updated <= now /\ now \in Nat
      /\ conn[k].updated \in Nat /\ conn[k].updated <= conn[k].updated
  BY SchedulerAssumption DEF TypeInv, TypeOK, Counted, Conns, Times
<1>2. CASE UNCHANGED conn
  BY <1>1, <1>2
<1>3. ASSUME NEW j \in Connectors, NEW row \in Conns, row.updated = now,
             conn' = [conn EXCEPT ![j] = row]
      PROVE  k \in Minted' /\ conn[k].updated <= conn'[k].updated
  <2>1. conn'[k] = row \/ conn'[k] = conn[k]
    BY <1>3 DEF TypeInv, TypeOK
  <2> QED BY <2>1, <1>1, <1>3, NoneAssumption
<1>4. ASSUME NEW e \in BOOLEAN,
             conn' = [j \in Connectors |->
                        IF j \in Minted THEN [conn[j] EXCEPT !.enabled = e] ELSE None]
      PROVE  k \in Minted' /\ conn[k].updated <= conn'[k].updated
  <2>1. conn'[k] = [conn[k] EXCEPT !.enabled = e] /\ conn'[k] \in Conns
    BY <1>1, <1>4 DEF Conns
  <2> QED BY <2>1, <1>1, NoneAssumption DEF Conns
<1>5. ASSUME NEW j \in Connectors, Work(j) \/ RunExpires(j)
      PROVE  k \in Minted' /\ conn[k].updated <= conn'[k].updated
  <2>1. UNCHANGED conn \/ conn' = [conn EXCEPT ![j].updated = now]
    BY <1>5 DEF Work, RunStarts, RunEnds, RunExpires, Touch, store
  <2>2. CASE conn' = [conn EXCEPT ![j].updated = now]
    <3>1. conn'[k] = conn[k] \/ conn'[k] = [conn[k] EXCEPT !.updated = now]
      BY <2>2 DEF TypeInv, TypeOK
    <3>2. [conn[k] EXCEPT !.updated = now] \in Conns
      BY <1>1 DEF Conns, TypeInv, TypeOK
    <3> QED BY <3>1, <3>2, <1>1, NoneAssumption DEF Conns
  <2> QED BY <2>1, <2>2, <1>2
<1>6. ASSUME NEW u \in Users, Calls(u)
      PROVE  k \in Minted' /\ conn[k].updated <= conn'[k].updated
  <2>1. CASE Mint(u)
    <3> DEFINE was == call[u].was
    <3>1. call[u] \in CallRows /\ now \in Times
      BY DEF TypeInv, TypeOK
    <3>2. was.enabled \in BOOLEAN
      BY <2>1, <3>1, CallKinds DEF Mint, Idle, Flows
    <3>3. CASE call[u].at = "new"
      <4>1. [enabled |-> was.enabled, updated |-> now] \in Conns
        BY <3>1, <3>2 DEF Conns
      <4> QED BY <2>1, <3>3, <4>1, <1>3 DEF Mint
    <3>4. CASE call[u].at = "keep"
      <4> DEFINE c == call[u].conn
                 row == [enabled |-> Column(call[u].seen.enabled, was.enabled, conn[c].enabled),
                         updated |-> now]
      <4>1. c \in Connectors /\ conn[c] \in Conns /\ call[u].seen \in Conns
        BY <3>1, <3>4, CallKinds DEF TypeInv, TypeOK, MintedOnly
      <4>2. Column(call[u].seen.enabled, was.enabled, conn[c].enabled) \in BOOLEAN
        BY <3>2, <4>1 DEF Column, Conns
      <4>3. row \in Conns /\ row.updated = now
        BY <3>1, <4>2 DEF Conns
      <4>4. conn' = [conn EXCEPT ![c] = row]
        BY <2>1, <3>4, <4>1 DEF Mint, TypeInv, TypeOK
      <4> HIDE DEF row, c
      <4> QED BY <4>1, <4>3, <4>4, <1>3 DEF c
    <3> QED BY <2>1, <3>3, <3>4 DEF Mint
  <2>2. CASE DisableCopy(u)
    BY <2>2, <1>4 DEF DisableCopy
  <2>3. CASE WriteCopy(u)
    <3>1. call[u].enabled \in BOOLEAN
      BY <2>3, CallKinds DEF WriteCopy, TypeInv, TypeOK
    <3> QED BY <2>3, <3>1, <1>4 DEF WriteCopy
  <2>4. CASE UserDies(u) \/ FindMinted(u) \/ FlushReady(u) \/ FlushDraft(u) \/ FlushSchedule(u)
    BY <2>4, <1>2 DEF UserDies, FindMinted, FlushReady, FlushDraft, FlushSchedule, store
  <2>5. CASE BeginPublish(u) \/ BeginUnpublish(u) \/ BeginSchedule(u)
    BY <2>5, <1>2 DEF BeginPublish, BeginUnpublish, BeginSchedule, Begin, store
  <2> QED BY <1>6, <2>1, <2>2, <2>3, <2>4, <2>5 DEF Calls
<1>7. ASSUME NEW s \in Replicas, Poll(s) \/ Failed(s)
      PROVE  k \in Minted' /\ conn[k].updated <= conn'[k].updated
  BY <1>7, <1>2 DEF Poll, Failed, Tick, Ask, Start, StartRefused, TickFails,
                    StartFails, ReplicaRestarts, store
<1>8. CASE Edit \/ Advance \/ UNCHANGED vars
  BY <1>8, <1>2 DEF Edit, Advance, vars, store
<1> QED BY <1>5, <1>6, <1>7, <1>8 DEF Next

\* Admitting a run adds that run, if its id is new.
LEMMA AdmitAdds ==
  ASSUME NEW r, Admit(r)
  PROVE  /\ runs' = runs \/ (runs' = runs \cup {r} /\ ~Known(r))
         /\ \E q \in runs' : RunId(q) = RunId(r)
<1>1. CASE Known(r)
  <2>1. runs' = runs
    BY <1>1 DEF Admit, engine
  <2> QED BY <1>1, <2>1 DEF Known
<1>2. CASE ~Known(r)
  BY <1>2 DEF Admit
<1> QED BY <1>1, <1>2

\* Only a start adds a run, one whose id is new, of a connector that is minted.
LEMMA RunsAdded ==
  ASSUME TypeInv, [Next]_vars
  PROVE  \/ runs' = runs
         \/ \E r : /\ runs' = runs \cup {r} /\ ~Known(r)
                   /\ r \in RunRows /\ r.conn \in Minted
<1>1. ASSUME NEW s \in Replicas, Start(s) \/ StartFails(s), runs' # runs
      PROVE  \E r : runs' = runs \cup {r} /\ ~Known(r) /\ r \in RunRows /\ r.conn \in Minted
  <2>1. tick[s].at = "start" /\ (Admit(Taken(s)) \/ UNCHANGED engine)
    BY <1>1 DEF Start, StartFails
  <2>2. Taken(s) \in RunRows /\ Taken(s).conn \in Minted
    BY <2>1, AdmitKeeps
  <2>3. runs' = runs \cup {Taken(s)} /\ ~Known(Taken(s))
    BY <2>1, <1>1, AdmitAdds DEF engine
  <2> QED BY <2>2, <2>3
<1>2. ASSUME NEW u \in Users, Calls(u)
      PROVE  runs' = runs
  BY <1>2 DEF Calls, BeginPublish, BeginUnpublish, BeginSchedule, Begin, FlushReady, FindMinted,
              Mint, DisableCopy, FlushDraft, WriteCopy, FlushSchedule, UserDies, Goes, engine
<1>3. ASSUME NEW s \in Replicas, Tick(s) \/ Ask(s) \/ StartRefused(s)
                                 \/ TickFails(s) \/ ReplicaRestarts(s)
      PROVE  runs' = runs
  BY <1>3 DEF Tick, Ask, StartRefused, TickFails, ReplicaRestarts, engine
<1>4. ASSUME NEW k \in Connectors, Work(k) \/ RunExpires(k)
      PROVE  runs' = runs
  BY <1>4 DEF Work, RunStarts, RunEnds, RunExpires
<1>5. CASE Edit \/ Advance \/ UNCHANGED vars
  BY <1>5 DEF Edit, Advance, vars, engine
<1> QED BY <1>1, <1>2, <1>3, <1>4, <1>5 DEF Next, Poll, Failed

\* The window f has been decided, for good.
Decided(f) ==
  \/ \E r \in runs : r.fire = f
  \/ \E k \in Minted : f <= conn[k].updated

\* A decision stays.
LEMMA DecidedStays ==
  ASSUME TypeInv, [Next]_vars, NEW f \in Times, Decided(f)
  PROVE  Decided(f)'
<1>1. CASE \E r \in runs : r.fire = f
  BY <1>1, RunsAdded DEF Decided
<1>2. CASE \E k \in Minted : f <= conn[k].updated
  <2>1. PICK k \in Minted : f <= conn[k].updated
    BY <1>2
  <2>2. k \in Minted' /\ conn[k].updated <= conn'[k].updated
    BY TouchedForward
  <2>3. TypeInv'
    BY TypeStep
  <2>4. conn[k].updated \in Times /\ conn'[k].updated \in Times
    BY <2>2, <2>3 DEF TypeInv, TypeOK, Minted, Conns
  <2>5. f <= conn'[k].updated
    BY <2>1, <2>2, <2>4, SchedulerAssumption DEF Times
  <2> QED BY <2>2, <2>5 DEF Decided
<1> QED BY <1>1, <1>2 DEF Decided

\* A replica settles what it has seen decided.
LEMMA SettlesDecided ==
  ASSUME TypeInv, [Next]_vars, NEW s \in Replicas, settled'[s] # None,
         settled'[s] # settled[s], NEW f, f = settled'[s].fire
  PROVE  Decided(f)'
<1> DEFINE fire == tick[s].fire
<1>1. settled \in [Replicas -> Settlements \cup {None}]
  BY DEF TypeInv, TypeOK
<1>2. Settles(s) => settled'[s].fire = fire
  BY <1>1 DEF Settles, settlementOf
<1>3. CASE Ask(s)
  <2>1. settled' # settled /\ UNCHANGED <<conn, engine>>
    BY <1>3 DEF Ask, store
  <2>2. Settles(s) /\ \E k \in Minted : fire <= conn[k].updated
    BY <1>3, <2>1 DEF Ask
  <2>3. f = fire
    BY <1>2, <2>2
  <2> HIDE DEF fire
  <2> QED BY <2>1, <2>2, <2>3 DEF Decided, Minted
<1>4. CASE Start(s)
  <2>1. Settles(s) /\ Admit(Taken(s))
    BY <1>4 DEF Start
  <2>2. PICK q \in runs' : RunId(q) = RunId(Taken(s))
    BY <2>1, AdmitAdds
  <2>3. q.fire = fire
    BY <2>2 DEF RunId, Taken
  <2>4. f = fire
    BY <1>2, <2>1
  <2> QED BY <2>2, <2>3, <2>4 DEF Decided
<1>5. Ask(s) \/ Start(s)
  <2>1. ASSUME NEW u \in Users, Calls(u)
        PROVE  settled' = settled
    BY <2>1 DEF Calls, BeginPublish, BeginUnpublish, BeginSchedule, Begin, FlushReady,
                FindMinted, Mint, DisableCopy, FlushDraft, WriteCopy, FlushSchedule, UserDies,
                Goes
  <2>2. ASSUME NEW r \in Replicas, Tick(r) \/ StartRefused(r) \/ TickFails(r)
                                   \/ StartFails(r)
        PROVE  settled' = settled
    BY <2>2 DEF Tick, StartRefused, TickFails, StartFails
  <2>3. ASSUME NEW r \in Replicas, ReplicaRestarts(r)
        PROVE  settled'[s] = settled[s] \/ settled'[s] = None
    BY <2>3, <1>1 DEF ReplicaRestarts
  <2>4. ASSUME NEW r \in Replicas, r # s, Ask(r) \/ Start(r)
        PROVE  settled'[s] = settled[s]
    BY <2>4, <1>1 DEF Ask, Start, Settles
  <2>5. ASSUME NEW k \in Connectors, Work(k) \/ RunExpires(k)
        PROVE  settled' = settled
    BY <2>5 DEF Work, RunStarts, RunEnds, RunExpires
  <2>6. CASE Edit \/ Advance \/ UNCHANGED vars
    BY <2>6 DEF Edit, Advance, vars
  <2> QED BY <2>1, <2>2, <2>3, <2>4, <2>5, <2>6 DEF Next, Poll, Failed
<1> QED BY <1>3, <1>4, <1>5

\* A window a replica no longer asks about has been decided for good, whoever publishes,
\* schedules or edits meanwhile and whatever fails: what settled keeps saves work only.
THEOREM SettledForGood == Spec => []SettledIsDecided
<1>1. Init => SettledIsDecided
  BY DEF Init, SettledIsDecided
<1>2. TypeInv /\ SettledIsDecided /\ [Next]_vars => SettledIsDecided'
  <2> SUFFICES ASSUME TypeInv, SettledIsDecided, [Next]_vars,
                      NEW s \in Replicas, settled'[s] # None,
                      NEW f, f = settled'[s].fire
               PROVE  Decided(f)'
    BY DEF SettledIsDecided, Decided
  <2>1. CASE settled'[s] = settled[s]
    <3>1. f = settled[s].fire /\ settled[s] \in Settlements
      BY <2>1 DEF TypeInv, TypeOK
    <3>2. f \in Times /\ Decided(f)
      BY <2>1, <3>1 DEF SettledIsDecided, Decided, Settlements
    <3> QED BY <3>2, DecidedStays
  <2> QED BY <2>1, SettlesDecided
<1> QED BY <1>1, <1>2, TypesHold, PTL DEF Spec

-----------------------------------------------------------------------------

\* One user at a time publishes, unpublishes and schedules.
OneUser == \A u, v \in Users : u = v

\* One connector, none while one is about to be minted, and one run per id.
Lone ==
  /\ OneConnector
  /\ \A u \in Users : call[u].at = "new" => Minted = {}
  /\ \A r \in runs : r.conn \in Minted
  /\ \A q, r \in runs : RunId(q) = RunId(r) => q = r

\* What is minted does not change, but for the call that found nothing.
LEMMA MintedBy ==
  ASSUME TypeInv, [Next]_vars
  PROVE  \/ Minted' = Minted
         \/ \E u \in Users : /\ call[u].at = "new" /\ Mint(u)
                             /\ \E k \in Connectors : Minted' = Minted \cup {k}
<1> USE DEF Minted
<1>1. /\ conn \in [Connectors -> Conns \cup {None}] /\ now \in Times
      /\ \A u \in Users : call[u] \in CallRows
  BY DEF TypeInv, TypeOK
<1>2. ASSUME NEW u \in Users, Calls(u), ~(Mint(u) /\ call[u].at = "new")
      PROVE  Minted' \subseteq Minted
  <2>1. CASE Mint(u)
    <3>1. call[u].at = "keep" /\ call[u].conn \in Minted
      BY <1>2, <2>1 DEF Mint, TypeInv, MintedOnly
    <3>2. \A k \in Connectors \ {call[u].conn} : conn'[k] = conn[k]
      BY <2>1, <3>1, <1>1 DEF Mint
    <3> QED BY <3>1, <3>2
  <2>2. CASE DisableCopy(u) \/ WriteCopy(u)
    BY <2>2 DEF DisableCopy, WriteCopy
  <2>3. CASE UserDies(u) \/ FindMinted(u) \/ FlushReady(u) \/ FlushDraft(u) \/ FlushSchedule(u)
    BY <2>3 DEF UserDies, FindMinted, FlushReady, FlushDraft, FlushSchedule, store
  <2>4. CASE BeginPublish(u) \/ BeginUnpublish(u) \/ BeginSchedule(u)
    BY <2>4 DEF BeginPublish, BeginUnpublish, BeginSchedule, Begin, store
  <2> QED BY <1>2, <2>1, <2>2, <2>3, <2>4 DEF Calls
<1>3. ASSUME NEW u \in Users, Mint(u), call[u].at = "new"
      PROVE  \E k \in Connectors : Minted' = Minted \cup {k}
  <2>1. PICK k \in Connectors :
          conn' = [conn EXCEPT ![k] = [enabled |-> call[u].was.enabled, updated |-> now]]
    BY <1>3 DEF Mint
  <2>2. [enabled |-> call[u].was.enabled, updated |-> now] \in Conns
    <3>1. call[u].was.enabled \in BOOLEAN
      BY <1>1, <1>3, CallKinds DEF Idle, Flows
    <3> QED BY <3>1, <1>1 DEF Conns
  <2>3. conn'[k] # None /\ \A j \in Connectors \ {k} : conn'[j] = conn[j]
    BY <2>1, <2>2, <1>1, NoneAssumption
  <2> QED BY <2>3
<1>4. ASSUME NEW k \in Connectors, Work(k) \/ RunExpires(k)
      PROVE  Minted' \subseteq Minted
  <2>1. k \in Minted
    BY <1>4 DEF Work, RunStarts, RunEnds, RunExpires, TypeInv, MintedOnly
  <2>2. \A j \in Connectors \ {k} : conn'[j] = conn[j]
    BY <1>4, <1>1 DEF Work, RunStarts, RunEnds, RunExpires, Touch, store
  <2> QED BY <2>1, <2>2
<1>5. ASSUME NEW s \in Replicas, Poll(s) \/ Failed(s)
      PROVE  Minted' \subseteq Minted
  BY <1>5 DEF Poll, Failed, Tick, Ask, Start, StartRefused, TickFails, StartFails,
              ReplicaRestarts, store
<1>6. CASE Edit \/ Advance \/ UNCHANGED vars
  BY <1>6 DEF Edit, Advance, vars, store
<1>7. Minted \subseteq Minted'
  BY TouchedForward
<1> QED BY <1>2, <1>3, <1>4, <1>5, <1>6, <1>7 DEF Next

\* As long as publications do not overlap there is one connector to start runs of.
LEMMA LoneHolds ==
  ASSUME OneUser
  PROVE  Spec => []Lone
<1>1. Init => Lone
  BY DEF Init, Lone, OneConnector, Minted, Idle
<1>2. TypeInv /\ Lone /\ [Next]_vars => Lone'
  <2> SUFFICES ASSUME TypeInv, Lone, [Next]_vars PROVE Lone'
    OBVIOUS
  <2>1. OneConnector'
    BY MintedBy DEF Lone, OneConnector
  <2>2. ASSUME NEW u \in Users, call'[u].at = "new"
        PROVE  Minted' = {}
    <3>1. call \in [Users -> CallRows]
      BY DEF TypeInv, TypeOK
    <3>2. ASSUME NEW v \in Users, Calls(v)
          PROVE  call[v].at = "mint" /\ Minted = {} /\ Minted' = Minted
      <4>1. v = u
        BY OneUser DEF OneUser
      <4>2. FindMinted(v)
        <5>1. ~ (call' = [call EXCEPT ![v] = Idle])
          BY <2>2, <3>1, <4>1 DEF Idle
        <5>2. ~ (BeginPublish(v) \/ BeginUnpublish(v) \/ BeginSchedule(v))
          BY <2>2, <3>1, <4>1
             DEF BeginPublish, BeginUnpublish, BeginSchedule, Begin
        <5>3. ~ (FlushReady(v) \/ DisableCopy(v) \/ WriteCopy(v))
          <6>1. call'[v].at = "new" /\ call[v] \in CallRows
            BY <2>2, <3>1, <4>1
          <6>2. ASSUME NEW a, call' = [call EXCEPT ![v] = [call[v] EXCEPT !.at = a]],
                       call[v].at # "idle"
                PROVE  a = "new"
            BY <6>1, <6>2, <3>1 DEF CallRows, Idle
          <6> QED BY <6>2, <3>1 DEF FlushReady, DisableCopy, WriteCopy, Goes
        <5> QED BY <3>2, <5>1, <5>2, <5>3
                DEF Calls, Mint, FlushDraft, FlushSchedule, UserDies, Goes
      <4>3. UNCHANGED conn /\ call[v].at = "mint"
        BY <4>2 DEF FindMinted, store
      <4>4. Minted = {}
        BY <2>2, <3>1, <4>1, <4>2 DEF FindMinted, Goes
      <4> QED BY <4>3, <4>4 DEF Minted
    <3>3. CASE call' = call
      <4>1. call[u].at = "new" /\ Minted = {}
        BY <2>2, <3>3 DEF Lone
      <4>2. ASSUME NEW v \in Users, Mint(v)
            PROVE  FALSE
        <5>1. v = u /\ call' = [call EXCEPT ![v] = Idle]
          BY <4>2, OneUser DEF OneUser, Mint, Goes
        <5>2. call'[u] = Idle
          BY <5>1, <3>1
        <5> QED BY <5>2, <2>2 DEF Idle
      <4> QED BY <4>1, <4>2, MintedBy
    <3>4. call' = call \/ \E v \in Users : Calls(v)
      <4>1. ASSUME NEW s \in Replicas, Poll(s) \/ Failed(s)
            PROVE  call' = call
        BY <4>1 DEF Poll, Failed, Tick, Ask, Start, StartRefused, TickFails,
                    StartFails, ReplicaRestarts
      <4>2. ASSUME NEW k \in Connectors, Work(k) \/ RunExpires(k)
            PROVE  call' = call
        BY <4>2 DEF Work, RunStarts, RunEnds, RunExpires
      <4>3. CASE Edit \/ Advance \/ UNCHANGED vars
        BY <4>3 DEF Edit, Advance, vars
      <4> QED BY <4>1, <4>2, <4>3 DEF Next
    <3> QED BY <3>2, <3>3, <3>4
  <2>3. \A r \in runs' : r.conn \in Minted'
    BY RunsAdded, TouchedForward DEF Lone
  <2>4. \A q, r \in runs' : RunId(q) = RunId(r) => q = r
    BY RunsAdded DEF Lone, Known
  <2> QED BY <2>1, <2>2, <2>3, <2>4 DEF Lone
<1> QED BY <1>1, <1>2, TypesHold, PTL DEF Spec

\* A window is started once, by any number of replicas, with answers lost and processes
\* restarted, as long as publications do not overlap: one connector to run as, and an id
\* that names it and the window.
THEOREM StartedOnce ==
  ASSUME OneUser
  PROVE  Spec => []WindowsStartOnce
<1>1. Lone => WindowsStartOnce
  <2> SUFFICES ASSUME Lone, NEW q \in runs, NEW r \in runs, q.fire = r.fire PROVE q = r
    BY DEF WindowsStartOnce
  <2>1. q.conn = r.conn
    BY DEF Lone, OneConnector
  <2> QED BY <2>1 DEF Lone, RunId
<1> QED BY <1>1, LoneHolds, PTL

=============================================================================

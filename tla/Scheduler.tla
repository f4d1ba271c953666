----------------------------- MODULE Scheduler -----------------------------
(***************************************************************************)
(* The scheduler of one workflow (packages/pipeline/src/                   *)
(* connector-scheduler.service.ts) beside what it reads: the workflow row  *)
(* with its cron, the connector the published workflow runs as, and the    *)
(* runs, each of which touches the connector when it starts and ends       *)
(* (packages/store-mikro-orm/src/pipeline.store.ts).  A cron is the set of *)
(* moments at which it fires; a window is one of them.                     *)
(***************************************************************************)
EXTENDS Naturals, Sequences

CONSTANTS Replicas,    \* processes that poll
          Users,       \* who publish, unpublish, schedule and edit
          Connectors,  \* rows that can be minted
          Crons,
          MaxTime, MaxCalls, MaxFaults,  \* bounds
          None

Times == 0 .. MaxTime

ASSUME SchedulerAssumption ==
  /\ MaxTime \in Nat /\ MaxCalls \in Nat /\ MaxFaults \in Nat
  /\ \A c \in Crons : c \subseteq Times /\ 0 \in c

VARIABLES now,
          flow,     \* the workflow row, and when its cron was set
          conn,     \* [Connectors -> the row, or None]
          call,     \* [Users -> the call in progress]
          tick,     \* [Replicas -> the tick in progress]
          settled,  \* [Replicas -> the fingerprint last carried to a decision, or None]
          runs,     \* the runs there ever were
          open,     \* [Connectors -> the run at work and the one waiting]
          planned,  \* the connectors whose run at work has opened its row
          calls, faults

store  == <<flow, conn>>
engine == <<runs, open, planned>>
vars   == <<now, store, call, tick, settled, engine, calls, faults>>

Idle == [at |-> "idle"]
Minted == {k \in Connectors : conn[k] # None}
Schedules == Crons \cup {{}}

Flows == [ready : BOOLEAN, enabled : BOOLEAN, cron : Schedules, version : 0 .. MaxCalls,
          updated : Times, cronAt : Times]
Conns == [enabled : BOOLEAN, updated : Times]
Settlements == [fire : Times, cron : Schedules, version : 0 .. MaxCalls, updated : Times]
RunRows == [conn : Connectors, version : 0 .. MaxCalls, fire : Times]
CallRows ==
  {Idle} \cup [at : {"publish", "mint", "new", "disable", "draft"}, was : Flows]
         \cup [at : {"keep"}, was : Flows, conn : Connectors, seen : Conns]
         \cup [at : {"copy", "schedule"}, was : Flows, cron : Schedules, enabled : BOOLEAN]
TickRows ==
  {Idle} \cup [at : {"ask"}, flow : Flows, fire : Times]
         \cup [at : {"start"}, flow : Flows, fire : Times, conn : Connectors]

ASSUME NoneAssumption == None \notin Conns /\ None \notin Settlements

Init ==
  /\ now = 0
  /\ \E c \in Schedules :
       flow = [ready |-> FALSE, enabled |-> TRUE, cron |-> c, version |-> 0,
               updated |-> 0, cronAt |-> 0]
  /\ conn = [k \in Connectors |-> None]
  /\ call = [u \in Users |-> Idle]
  /\ tick = [s \in Replicas |-> Idle]
  /\ settled = [s \in Replicas |-> None]
  /\ runs = {} /\ open = [k \in Connectors |-> <<>>] /\ planned = {}
  /\ calls = 0 /\ faults = 0

-----------------------------------------------------------------------------
(* The pipeline store. *)

Begin(u, c) ==
  /\ call[u] = Idle /\ calls < MaxCalls
  /\ call' = [call EXCEPT ![u] = c]
  /\ calls' = calls + 1
  /\ UNCHANGED <<now, store, tick, settled, engine, faults>>

BeginPublish(u)   == Begin(u, [at |-> "publish", was |-> flow])
BeginUnpublish(u) == Begin(u, [at |-> "disable", was |-> flow])
BeginSchedule(u)  ==
  \/ \E c \in Schedules \ {flow.cron} :
       Begin(u, [at |-> "copy", was |-> flow, cron |-> c, enabled |-> flow.enabled])
  \/ Begin(u, [at |-> "copy", was |-> flow, cron |-> flow.cron, enabled |-> ~flow.enabled])

Goes(u, c) ==
  /\ call' = [call EXCEPT ![u] = c]
  /\ UNCHANGED <<now, tick, settled, engine, calls, faults>>

\* publishWorkflow writes the status if it was not ready, then mints.
FlushReady(u) ==
  /\ call[u].at = "publish"
  /\ flow' = IF call[u].was.ready THEN flow
             ELSE [flow EXCEPT !.ready = TRUE, !.updated = now]
  /\ UNCHANGED conn
  /\ Goes(u, [call[u] EXCEPT !.at = "mint"])

FindMinted(u) ==
  /\ call[u].at = "mint"
  /\ \/ \E k \in Minted :
          Goes(u, [at |-> "keep", was |-> call[u].was, conn |-> k, seen |-> conn[k]])
     \/ Minted = {} /\ Goes(u, [at |-> "new", was |-> call[u].was])
  /\ UNCHANGED store

\* What a flush makes of a column: written if it differs from what was read.
Column(seen, new, stored) == IF new = seen THEN stored ELSE new

Mint(u) ==
  /\ LET was == call[u].was
     IN \/ /\ call[u].at = "new"
           /\ \E k \in Connectors \ Minted :
                conn' = [conn EXCEPT ![k] = [enabled |-> was.enabled, updated |-> now]]
        \/ /\ call[u].at = "keep"
           /\ conn' = [conn EXCEPT ![call[u].conn] =
                   [enabled |-> Column(call[u].seen.enabled, was.enabled, @.enabled),
                    updated |-> now]]
  /\ UNCHANGED flow
  /\ Goes(u, Idle)

\* unpublishWorkflow disables the connector in place, its updatedAt as it was, then writes
\* the status.
DisableCopy(u) ==
  /\ call[u].at = "disable"
  /\ conn' = [k \in Connectors |->
                IF k \in Minted THEN [conn[k] EXCEPT !.enabled = FALSE] ELSE None]
  /\ UNCHANGED flow
  /\ Goes(u, [call[u] EXCEPT !.at = "draft"])

FlushDraft(u) ==
  /\ call[u].at = "draft"
  /\ flow' = IF call[u].was.ready THEN [flow EXCEPT !.ready = FALSE, !.updated = now] ELSE flow
  /\ UNCHANGED conn
  /\ Goes(u, Idle)

\* saveWorkflowSchedule writes the copy in place, then the workflow's columns.
WriteCopy(u) ==
  /\ call[u].at = "copy"
  /\ conn' = [k \in Connectors |->
                IF k \in Minted THEN [conn[k] EXCEPT !.enabled = call[u].enabled] ELSE None]
  /\ UNCHANGED flow
  /\ Goes(u, [call[u] EXCEPT !.at = "schedule"])

FlushSchedule(u) ==
  /\ call[u].at = "schedule"
  /\ LET was == call[u].was
     IN flow' = [flow EXCEPT !.cron    = Column(was.cron, call[u].cron, @),
                             !.cronAt  = IF call[u].cron = was.cron THEN @ ELSE now,
                             !.enabled = Column(was.enabled, call[u].enabled, @),
                             !.updated = now]
  /\ UNCHANGED conn
  /\ Goes(u, Idle)

\* saveWorkflow and setLiveWorkflowVersion: what the next window is to run.
Edit ==
  /\ calls < MaxCalls
  /\ calls' = calls + 1
  /\ flow' = [flow EXCEPT !.version = @ + 1, !.updated = now]
  /\ UNCHANGED <<now, conn, call, tick, settled, engine, faults>>

UserDies(u) ==
  /\ call[u] # Idle /\ faults < MaxFaults
  /\ call' = [call EXCEPT ![u] = Idle]
  /\ faults' = faults + 1
  /\ UNCHANGED <<now, store, tick, settled, engine, calls>>

-----------------------------------------------------------------------------
(* A tick. *)

hasCron      == flow.cron # {}
isRunnable   == flow.ready /\ flow.enabled
\* The window a cron is in.
prevCronFire(c, t) == CHOOSE f \in c : f <= t /\ \A g \in c : g <= t => g <= f
settlementOf(w, f) == [fire |-> f, cron |-> w.cron, version |-> w.version,
                       updated |-> w.updated]

\* listWorkflows: there is something to do for a window not settled yet.
Undecided(s) ==
  /\ hasCron /\ isRunnable
  /\ settled[s] # settlementOf(flow, prevCronFire(flow.cron, now))

Tick(s) ==
  /\ tick[s] = Idle /\ Undecided(s)
  /\ tick' = [tick EXCEPT ![s] = [at |-> "ask", flow |-> flow,
                                  fire |-> prevCronFire(flow.cron, now)]]
  /\ UNCHANGED <<now, store, call, settled, engine, calls, faults>>

TickEnds(s) == tick' = [tick EXCEPT ![s] = Idle]
Settles(s)  == settled' = [settled EXCEPT ![s] = settlementOf(tick[s].flow, tick[s].fire)]

\* connectorFor, and whether the window opened after the last thing that happened to it.
Ask(s) ==
  /\ tick[s].at = "ask"
  /\ LET using == {k \in Minted : conn[k].enabled}
     IN \/ using = {} /\ TickEnds(s) /\ UNCHANGED settled
        \/ \E k \in using :
             \/ /\ tick[s].fire <= conn[k].updated
                /\ Settles(s) /\ TickEnds(s)
             \/ /\ tick[s].fire > conn[k].updated
                /\ tick' = [tick EXCEPT ![s] = [at |-> "start", flow |-> @.flow,
                                                fire |-> @.fire, conn |-> k]]
                /\ UNCHANGED settled
  /\ UNCHANGED <<now, store, call, engine, calls, faults>>

\* Mutant: a tick that throws never hands the turn back.
TickFailsHeld(s) ==
  /\ tick[s].at = "ask" /\ faults < MaxFaults
  /\ tick' = [tick EXCEPT ![s].at = "held"]
  /\ faults' = faults + 1
  /\ UNCHANGED <<now, store, call, settled, engine, calls>>

\* A read throws; the tick gives up and the next one may begin.
TickFails(s) ==
  /\ tick[s].at = "ask" /\ faults < MaxFaults
  /\ TickEnds(s)
  /\ faults' = faults + 1
  /\ UNCHANGED <<now, store, call, settled, engine, calls>>

\* The durable engine starts a run once per id; one runs, one waits, the rest are refused.
\* Mutant: the version is in the key.
RunIdVersioned(r) == <<r.conn, r.version, r.fire>>
RunId(r) == <<r.conn, r.fire>>
Taken(s) == [conn |-> tick[s].conn, version |-> tick[s].flow.version, fire |-> tick[s].fire]
Known(r) == \E q \in runs : RunId(q) = RunId(r)
Admit(r) ==
  IF Known(r) THEN UNCHANGED engine
  ELSE /\ Len(open[r.conn]) < 2
       /\ runs' = runs \cup {r}
       /\ open' = [open EXCEPT ![r.conn] = Append(@, r)]
       /\ UNCHANGED planned

\* Settled once the start came back.
Start(s) ==
  /\ tick[s].at = "start"
  /\ Admit(Taken(s))
  /\ Settles(s) /\ TickEnds(s)
  /\ UNCHANGED <<now, store, call, calls, faults>>

\* The start throws, for a full queue or a fault, which may take the answer only.
StartRefused(s) ==
  /\ tick[s].at = "start"
  /\ ~Known(Taken(s)) /\ Len(open[tick[s].conn]) = 2
  /\ TickEnds(s)
  /\ UNCHANGED <<now, store, call, settled, engine, calls, faults>>

\* Mutant: settled before the start came back.
StartFailsSettled(s) ==
  /\ tick[s].at = "start" /\ faults < MaxFaults
  /\ Admit(Taken(s)) \/ UNCHANGED engine
  /\ Settles(s) /\ TickEnds(s)
  /\ faults' = faults + 1
  /\ UNCHANGED <<now, store, call, calls>>

StartFails(s) ==
  /\ tick[s].at = "start" /\ faults < MaxFaults
  /\ Admit(Taken(s)) \/ UNCHANGED engine
  /\ TickEnds(s)
  /\ faults' = faults + 1
  /\ UNCHANGED <<now, store, call, settled, calls>>

ReplicaRestarts(s) ==
  /\ faults < MaxFaults /\ (tick[s] # Idle \/ settled[s] # None)
  /\ TickEnds(s)
  /\ settled' = [settled EXCEPT ![s] = None]
  /\ faults' = faults + 1
  /\ UNCHANGED <<now, store, call, engine, calls>>

-----------------------------------------------------------------------------
(* Runs and the clock. *)

\* startRun and finishRun write the connector's last run, and with it its updatedAt.
Touch(k) == conn' = [conn EXCEPT ![k].updated = now]

RunStarts(k) ==
  /\ open[k] # <<>> /\ k \notin planned
  /\ planned' = planned \cup {k}
  /\ Touch(k)
  /\ UNCHANGED <<now, flow, call, tick, settled, runs, open, calls, faults>>

Leaves(k) == open' = [open EXCEPT ![k] = Tail(@)] /\ planned' = planned \ {k}

RunEnds(k) ==
  /\ open[k] # <<>> /\ k \in planned
  /\ Leaves(k)
  /\ Touch(k)
  /\ UNCHANGED <<now, flow, call, tick, settled, runs, calls, faults>>

\* executionTimeout, or a process that takes the run's last step with it.
RunExpires(k) ==
  /\ open[k] # <<>> /\ faults < MaxFaults
  /\ Leaves(k)
  /\ faults' = faults + 1
  /\ UNCHANGED <<now, store, call, tick, settled, runs, calls>>

Advance ==
  /\ now < MaxTime
  /\ now' = now + 1
  /\ UNCHANGED <<store, call, tick, settled, engine, calls, faults>>

-----------------------------------------------------------------------------

Calls(u) ==
  \/ BeginPublish(u) \/ FlushReady(u) \/ FindMinted(u) \/ Mint(u)
  \/ BeginUnpublish(u) \/ DisableCopy(u) \/ FlushDraft(u)
  \/ BeginSchedule(u) \/ WriteCopy(u) \/ FlushSchedule(u)
  \/ UserDies(u)

Poll(s)   == Tick(s) \/ Ask(s) \/ Start(s) \/ StartRefused(s)
Failed(s) == TickFails(s) \/ StartFails(s) \/ ReplicaRestarts(s)
Work(k)   == RunStarts(k) \/ RunEnds(k)

Next ==
  \/ \E u \in Users : Calls(u)
  \/ Edit
  \/ \E s \in Replicas : Poll(s) \/ Failed(s)
  \/ \E k \in Connectors : Work(k) \/ RunExpires(k)
  \/ Advance

Spec == Init /\ [][Next]_vars

\* A replica's timer keeps ticking, and the engine keeps working.
Fairness ==
  /\ \A s \in Replicas : WF_vars(Poll(s))
  /\ \A k \in Connectors : WF_vars(Work(k))

FairSpec == Spec /\ Fairness

-----------------------------------------------------------------------------
(* Properties. *)

TypeOK ==
  /\ now \in Times /\ flow \in Flows /\ conn \in [Connectors -> Conns \cup {None}]
  /\ call \in [Users -> CallRows] /\ tick \in [Replicas -> TickRows]
  /\ settled \in [Replicas -> Settlements \cup {None}]
  /\ runs \subseteq RunRows /\ open \in [Connectors -> Seq(RunRows)]
  /\ planned \subseteq {k \in Connectors : open[k] # <<>>}
  /\ calls \in 0 .. MaxCalls /\ faults \in 0 .. MaxFaults

\* A window is started once, by whatever replica and under whatever version it was seen:
\* the run id names the connector and the window and nothing that can change.
WindowsStartOnce == \A q, r \in runs : q.fire = r.fire => q = r

\* A window a replica no longer asks about has been decided for good: a run of it exists or
\* the connector has been touched since it opened.  What is settled is kept for cost only.
SettledIsDecided ==
  \A s \in Replicas : settled[s] # None =>
    \/ \E r \in runs : r.fire = settled[s].fire
    \/ \E k \in Minted : settled[s].fire <= conn[k].updated

\* A window that is due is started in the end, or something happens to the pipeline first,
\* although reads and starts throw, queues are full and replicas restart.
Due(f) ==
  /\ hasCron /\ isRunnable /\ f \in flow.cron /\ f = prevCronFire(flow.cron, now)
  /\ \E k \in Minted : conn[k].enabled /\ conn[k].updated < f
DueIsStarted == \A f \in Times : Due(f) ~> (~Due(f) \/ \E r \in runs : r.fire = f)

\* No tick is about to start a window that opened before its cron was set.
EditedCronWaits ==
  \A s \in Replicas : tick[s].at = "start" => tick[s].fire >= tick[s].flow.cronAt

\* Once every call has returned, the connector of a published workflow is enabled if the
\* workflow is.
CopyAgrees ==
  flow.ready /\ (\A u \in Users : call[u] = Idle) =>
    \A k \in Minted : conn[k].enabled = flow.enabled

\* A published workflow runs as one connector.
OneConnector == \A j, k \in Minted : j = k

=============================================================================

---------------------------- MODULE WorkflowRun ----------------------------
(***************************************************************************)
(* A run of a workflow (packages/pipeline/src): a graph whose sources read *)
(* from their watermarks, whose ifs take one branch, whose pipes pass rows *)
(* on, and whose sinks each commit one object type.  Every node is one     *)
(* durable step, remembered once it has returned and made again, up to     *)
(* Retries times, when it throws or dies; what it did stays done.  A       *)
(* source leaves its watermark pending, and a sink promotes it.            *)
(***************************************************************************)
EXTENDS Integers, Sequences, SequencesExt, FiniteSets

CONSTANTS Workflows,  \* the graphs: nodes, edges, kind and which are full
          Sources,    \* their source nodes, each reading for a connector of its own
          Sinks,      \* their sink nodes, each of a type of its own
          Retries,    \* retries of a node's step
          MaxRows,    \* bound: rows a source ever gets
          MaxFaults,  \* bound: attempts that throw or die, and runs cancelled
          NoStage     \* what a node that staged nothing refers to

-----------------------------------------------------------------------------
(* Workflows.  A wire goes from one node to another, and says of which branch *)
(* of an if it is.                                                            *)

Kinds    == {"source", "if", "pipe", "sink"}
Branches == {"then", "else"}

NodesOf(g) == ToSet(g.nodes)
WiresOf(g) == ToSet(g.edges)
OfKind(g, kind) == {n \in NodesOf(g) : g.kind[n] = kind}
Feeders(g, n) == {e.from : e \in {w \in WiresOf(g) : w.to = n}}

IsGraph(g) ==
  /\ g.nodes \in Seq(NodesOf(g)) /\ g.nodes # <<>>
  /\ g.edges \in Seq([from : NodesOf(g), to : NodesOf(g), branch : Branches \cup {"plain"}])
  /\ g.kind \in [NodesOf(g) -> Kinds]
  /\ g.full \subseteq NodesOf(g)

\* Ids are unique.
collectNodesById(g) == \A i, j \in DOMAIN g.nodes : g.nodes[i] = g.nodes[j] => i = j

\* No node is wired to itself, or twice to another.
checkEdges(g) ==
  /\ \A e \in WiresOf(g) : e.from # e.to
  /\ \A i, j \in DOMAIN g.edges :
       g.edges[i].from = g.edges[j].from /\ g.edges[i].to = g.edges[j].to => i = j

\* Nothing goes into a source or out of a sink, and one wire goes into an if.
checkNodeWiring(g) ==
  \A e \in WiresOf(g) :
    /\ g.kind[e.to] # "source" /\ g.kind[e.from] # "sink"
    /\ g.kind[e.to] = "if" => \A d \in WiresOf(g) : d.to = e.to => d = e

\* The wires out of an if are of a branch, and no others.
checkBranches(g) == \A e \in WiresOf(g) : g.kind[e.from] = "if" <=> e.branch # "plain"

\* Of the nodes of a set, one waits for none of the others.
Acyclic(g) ==
  \A S \in (SUBSET NodesOf(g)) \ {{}} : \E n \in S : Feeders(g, n) \cap S = {}

\* Where there is no cycle, a node is reached from a source if each but the sources has
\* a wire into it, and reaches a sink if each but the sinks has one out of it.
checkReachability(g) ==
  \A n \in NodesOf(g) :
    /\ g.kind[n] = "source" \/ \E e \in WiresOf(g) : e.to = n
    /\ g.kind[n] = "sink" \/ \E e \in WiresOf(g) : e.from = n

validateWorkflow(g) ==
  /\ collectNodesById(g) /\ checkEdges(g) /\ checkNodeWiring(g) /\ checkBranches(g)
  /\ Acyclic(g) /\ checkReachability(g)

ASSUME WorkflowAssumption ==
  /\ IsFiniteSet(Sources)
  /\ Retries \in Nat /\ MaxRows \in Nat /\ MaxFaults \in Nat
  /\ \A g \in Workflows :
       /\ IsGraph(g) /\ validateWorkflow(g)
       /\ OfKind(g, "source") = NodesOf(g) \cap Sources
       /\ OfKind(g, "sink") = NodesOf(g) \cap Sinks
       /\ NoStage \notin NodesOf(g)

-----------------------------------------------------------------------------

VARIABLES graph,   \* the workflow
          feed,    \* [Sources -> rows the source has]
          mark,    \* [Sources -> the watermarks of its connector's state], 0 for none
          kept,    \* [Sinks -> rows served when the run began]
          cells,   \* [Sinks -> <<batch, row>>: the run's snapshot of the type]
          live,    \* the sinks whose type is served from the run's snapshot
          pc, at,  \* where the run stands: in the node order[at]
          order,   \* the plan
          outcome, \* [nodes -> what the run remembers of the node]
          ref,     \* [nodes -> the node whose stage it hands on]
          stage,   \* [nodes -> staged batches]
          count,   \* batches appended, or sources looked at, by the sink's attempt
          tries,   \* retries of the node's step
          faults

world    == <<graph, feed>>
types    == <<kept, cells, live>>
progress == <<at, order, outcome, ref>>
vars     == <<graph, feed, mark, kept, cells, live, pc, at, order, outcome, ref,
              stage, count, tries, faults>>

Row   == Sources \X (1 .. MaxRows)
Nodes == NodesOf(graph)
Kind(n) == graph.kind[n]
Of(kind) == OfKind(graph, kind)

\* A full sink replaces what was served, an incremental one carries it forward; a full
\* source has no watermark.
Full(n) == n \in graph.full

Outcomes == {"none", "done", "skipped", "failed"} \cup Branches

Phases == {"rest", "turn", "fetch", "settle", "branch", "pass", "append",
           "commit", "promote", "return", "finish"}

TypeOK ==
  /\ graph \in Workflows
  /\ feed \in [Sources -> 0 .. MaxRows]
  /\ mark \in [Sources -> [committed : 0 .. MaxRows, pending : 0 .. MaxRows]]
  /\ kept \in [Sinks -> SUBSET Row]
  /\ cells \in [Sinks -> SUBSET (Nat \X Row)]
  /\ live \subseteq Sinks
  /\ pc \in Phases
  /\ order \in Seq(Nodes) /\ at \in 1 .. Len(graph.nodes) + 1
  /\ outcome \in [Nodes -> Outcomes]
  /\ ref \in [Nodes -> Nodes \cup {NoStage}]
  /\ stage \in [Nodes -> Seq(SUBSET Row)]
  /\ count \in Nat
  /\ tries \in 0 .. Retries
  /\ faults \in 0 .. MaxFaults

Init ==
  /\ graph \in Workflows
  /\ feed = [v \in Sources |-> 0]
  /\ mark = [v \in Sources |-> [committed |-> 0, pending |-> 0]]
  /\ kept = [k \in Sinks |-> {}]
  /\ cells = [k \in Sinks |-> {}]
  /\ live = {}
  /\ pc = "rest" /\ at = 1 /\ order = <<>>
  /\ outcome = [n \in Nodes |-> "none"]
  /\ ref = [n \in Nodes |-> NoStage]
  /\ stage = [n \in Nodes |-> <<>>]
  /\ count = 0 /\ tries = 0 /\ faults = 0

\* What readers of the sink's type get.
View(k) == IF k \in live THEN {c[2] : c \in cells[k]} ELSE kept[k]

Arrive(v) ==
  /\ v \in Nodes /\ feed[v] < MaxRows
  /\ feed' = [feed EXCEPT ![v] = @ + 1]
  /\ UNCHANGED <<graph, mark, types, pc, progress, stage, count, tries, faults>>

-----------------------------------------------------------------------------
(* The plan. *)

\* What is at the positions I of s, in its order.
Picked(s, I) ==
  [k \in 1 .. Cardinality(I) |-> s[CHOOSE i \in I : Cardinality({j \in I : j < i}) = k - 1]]

\* The nodes in the order in which nothing had still to feed them: those nothing feeds,
\* and, as each is taken off the queue, the ones it was the last to feed.
Roots(g) == {i \in DOMAIN g.nodes : Feeders(g, g.nodes[i]) = {}}

Freed(g, n, done) ==
  {i \in DOMAIN g.edges : g.edges[i].from = n /\ Feeders(g, g.edges[i].to) \subseteq done}

workflowRunOrder(g) ==
  LET ends == [i \in DOMAIN g.edges |-> g.edges[i].to]
      ready[i \in 0 .. Len(g.nodes)] ==
        IF i = 0 THEN Picked(g.nodes, Roots(g))
        ELSE LET queue == ready[i - 1]
             IN queue \o Picked(ends, Freed(g, queue[i], {queue[j] : j \in 1 .. i}))
  IN ready[Len(g.nodes)]

Plan == [g \in Workflows |-> workflowRunOrder(g)]

\* The scheduler starts a run; runs of one connector do not overlap.
StartRun ==
  /\ pc = "rest"
  /\ pc' = "turn"
  /\ order' = Plan[graph]
  /\ UNCHANGED <<world, mark, types, at, outcome, ref, stage, count, tries, faults>>

-----------------------------------------------------------------------------
(* The loop over the plan. *)

Node == order[at]

Ran(n) == outcome[n] \in {"done"} \cup Branches

WiresInto(n) == {e \in WiresOf(graph) : e.to = n}

\* Mutant: the node waits for all of its wires.
WireLiveEvery(n) ==
  \A e \in WiresInto(n) : Ran(e.from) /\ (e.branch = "plain" \/ outcome[e.from] = e.branch)

\* A wire is live if its node ran, and took the branch the wire is of.
workflowNodeRuns(n) ==
  \/ WiresInto(n) = {}
  \/ \E e \in WiresInto(n) : Ran(e.from) /\ (e.branch = "plain" \/ outcome[e.from] = e.branch)

SkipUnlessLive ==
  /\ pc = "turn" /\ at <= Len(order) /\ ~workflowNodeRuns(Node)
  /\ outcome' = [outcome EXCEPT ![Node] = "skipped"]
  /\ at' = at + 1
  /\ UNCHANGED <<world, mark, types, pc, order, ref, stage, count, tries, faults>>

Entry(n) == CASE Kind(n) = "source" -> "fetch"
              [] Kind(n) = "if"     -> "branch"
              [] Kind(n) = "pipe"   -> "pass"
              [] Kind(n) = "sink"   -> "append"

Dispatch ==
  /\ pc = "turn" /\ at <= Len(order) /\ workflowNodeRuns(Node)
  /\ pc' = Entry(Node) /\ count' = 0
  /\ UNCHANGED <<world, mark, types, progress, stage, tries, faults>>

\* The step has returned, and is not made again.
Remember(n, what, from) ==
  /\ outcome' = [outcome EXCEPT ![n] = what]
  /\ ref' = [ref EXCEPT ![n] = from]
  /\ at' = at + 1
  /\ pc' = "turn" /\ tries' = 0 /\ count' = 0
  /\ UNCHANGED order

Return ==
  /\ pc = "return"
  /\ Remember(Node, "done", IF Kind(Node) = "sink" THEN NoStage ELSE Node)
  /\ UNCHANGED <<world, mark, types, stage, faults>>

-----------------------------------------------------------------------------
(* The nodes: source, if, pipe.  Batches are of one row. *)

\* The rows after the committed watermark, whatever is pending.
Fetch ==
  /\ pc = "fetch"
  /\ LET from == IF Full(Node) THEN 0 ELSE mark[Node].committed
     IN stage' = [stage EXCEPT ![Node] =
                    [i \in 1 .. feed[Node] - from |-> {<<Node, from + i>>}]]
  /\ pc' = "settle"
  /\ UNCHANGED <<world, mark, types, progress, count, tries, faults>>

\* Mutant: the watermark is advanced with the rows only staged.
SettleCommitted ==
  /\ pc = "settle"
  /\ mark' = IF Full(Node) \/ stage[Node] = <<>> THEN mark
             ELSE [mark EXCEPT ![Node].committed = @ + Len(stage[Node])]
  /\ pc' = "return"
  /\ UNCHANGED <<world, types, progress, stage, count, tries, faults>>

\* A read that found nothing leaves what is pending as it was.
Settle ==
  /\ pc = "settle"
  /\ mark' = IF Full(Node) \/ stage[Node] = <<>> THEN mark
             ELSE [mark EXCEPT ![Node].pending =
                     mark[Node].committed + Len(stage[Node])]
  /\ pc' = "return"
  /\ UNCHANGED <<world, types, progress, stage, count, tries, faults>>

\* The nodes wired into it, in the order of the wires.
Inputs(n) ==
  Picked([i \in DOMAIN graph.edges |-> graph.edges[i].from],
         {i \in DOMAIN graph.edges : graph.edges[i].to = n})

\* An if hands on the stage of its input, on the branch it takes.
Branch ==
  /\ pc = "branch"
  /\ \E way \in Branches : Remember(Node, way, ref[Inputs(Node)[1]])
  /\ UNCHANGED <<world, mark, types, stage, faults>>

Staged(n) == IF ref[n] = NoStage THEN <<>> ELSE stage[ref[n]]

\* The batches of every input, in the order of the wires.
stageRefsFor(n) == FlattenSeq([i \in DOMAIN Inputs(n) |-> Staged(Inputs(n)[i])])

Pass ==
  /\ pc = "pass"
  /\ stage' = [stage EXCEPT ![Node] = stageRefsFor(Node)]
  /\ pc' = "return"
  /\ UNCHANGED <<world, mark, types, progress, count, tries, faults>>

-----------------------------------------------------------------------------
(* A sink. *)

\* Mutant: the batches of each input are numbered from 1.
AppendRestarting ==
  /\ pc = "append" /\ count < Len(stageRefsFor(Node))
  /\ LET rows   == stageRefsFor(Node)[count + 1]
         source == CHOOSE v \in Sources : \E r \in rows : r[1] = v
         number == Cardinality({i \in 1 .. count + 1 :
                      \E r \in stageRefsFor(Node)[i] : r[1] = source})
     IN cells' = [cells EXCEPT ![Node] =
                    {c \in @ : c[1] # number} \cup {<<number, r>> : r \in rows}]
  /\ count' = count + 1
  /\ UNCHANGED <<world, mark, kept, live, pc, progress, stage, tries, faults>>

\* Numbered on from one input to the next; a batch replaces the one of its number.
AppendBatch ==
  /\ pc = "append" /\ count < Len(stageRefsFor(Node))
  /\ LET number == count + 1
     IN cells' = [cells EXCEPT ![Node] =
                    {c \in @ : c[1] # number} \cup
                    {<<number, r>> : r \in stageRefsFor(Node)[number]}]
  /\ count' = count + 1
  /\ UNCHANGED <<world, mark, kept, live, pc, progress, stage, tries, faults>>

Appended == pc = "append" /\ count = Len(stageRefsFor(Node))

CarryRest ==
  /\ Appended /\ ~Full(Node)
  /\ LET own == {c \in cells[Node] : c[1] # 0}
     IN cells' = [cells EXCEPT ![Node] =
          own \cup {<<0, r>> : r \in kept[Node] \ {c[2] : c \in own}}]
  /\ pc' = "commit"
  /\ UNCHANGED <<world, mark, kept, live, progress, stage, count, tries, faults>>

\* A full sink that nothing reached is refused: its attempt throws.
NothingReached == Appended /\ Full(Node) /\ count = 0

FullLoad ==
  /\ Appended /\ Full(Node) /\ count # 0
  /\ pc' = "commit"
  /\ UNCHANGED <<world, mark, types, progress, stage, count, tries, faults>>

Commit ==
  /\ pc = "commit"
  /\ live' = live \cup {Node}
  /\ pc' = "promote" /\ count' = 0
  /\ UNCHANGED <<world, mark, kept, cells, progress, stage, tries, faults>>

\* promoteWatermarks: every source of the workflow, one after the other.
Promote ==
  /\ pc = "promote" /\ count < Len(graph.nodes)
  /\ LET v == graph.nodes[count + 1]
     IN mark' = IF v \in Sources /\ mark[v].pending # 0
                  THEN [mark EXCEPT ![v] = [committed |-> @.pending, pending |-> 0]]
                  ELSE mark
  /\ count' = count + 1
  /\ UNCHANGED <<world, types, pc, progress, stage, tries, faults>>

Promoted ==
  /\ pc = "promote" /\ count = Len(graph.nodes)
  /\ pc' = "return"
  /\ UNCHANGED <<world, mark, types, progress, stage, count, tries, faults>>

-----------------------------------------------------------------------------
(* Failure, and the end. *)

Working == pc \notin {"rest", "turn", "finish"}

\* Mutant: one retry more than there are.
AttemptFailsOver ==
  IF tries <= Retries
    THEN /\ tries' = tries + 1 /\ pc' = Entry(Node) /\ count' = 0
         /\ UNCHANGED <<at, outcome>>
    ELSE /\ outcome' = [n \in Nodes |->
              IF n = Node THEN "failed"
              ELSE IF n \in ToSet(SubSeq(order, at + 1, Len(order))) THEN "skipped"
              ELSE outcome[n]]
         /\ pc' = "finish"
         /\ UNCHANGED <<at, count, tries>>

\* The node is tried again from its beginning; out of retries, it has failed, and
\* everything after it is stranded.
AttemptFails ==
  IF tries < Retries
    THEN /\ tries' = tries + 1 /\ pc' = Entry(Node) /\ count' = 0
         /\ UNCHANGED <<at, outcome>>
    ELSE /\ outcome' = [n \in Nodes |->
              IF n = Node THEN "failed"
              ELSE IF n \in ToSet(SubSeq(order, at + 1, Len(order))) THEN "skipped"
              ELSE outcome[n]]
         /\ pc' = "finish"
         /\ UNCHANGED <<at, count, tries>>

Fault == faults < MaxFaults /\ faults' = faults + 1

\* A call throws or the worker dies, wherever the attempt is.
Crash ==
  /\ Working /\ Fault
  /\ AttemptFails
  /\ UNCHANGED <<world, mark, types, order, ref, stage>>

EmptyRefused ==
  /\ NothingReached
  /\ AttemptFails
  /\ UNCHANGED <<world, mark, types, order, ref, stage, faults>>

\* What one run knew the next one, under an id of its own, does not.
EndRun ==
  /\ pc' = "rest" /\ at' = 1 /\ order' = <<>>
  /\ outcome' = [n \in Nodes |-> "none"]
  /\ ref' = [n \in Nodes |-> NoStage]
  /\ stage' = [n \in Nodes |-> <<>>]
  /\ count' = 0 /\ tries' = 0
  /\ kept' = [k \in Sinks |-> View(k)]
  /\ cells' = [k \in Sinks |-> {}]
  /\ live' = {}
  /\ UNCHANGED <<world, mark>>

Finish ==
  /\ pc = "finish" \/ (pc = "turn" /\ at > Len(order))
  /\ EndRun
  /\ UNCHANGED faults

\* The engine cancels a run that takes too long; of an inline one, the process dies.
Cancel == pc # "rest" /\ Fault /\ EndRun

Advance ==
  \/ SkipUnlessLive \/ Dispatch \/ Return
  \/ Fetch \/ Settle \/ Branch \/ Pass
  \/ AppendBatch \/ CarryRest \/ FullLoad \/ EmptyRefused \/ Commit \/ Promote \/ Promoted
  \/ Finish

Next == (\E v \in Sources : Arrive(v)) \/ StartRun \/ Advance \/ Crash \/ Cancel

Spec == Init /\ [][Next]_vars

\* The engine carries a run on until it returns, and the next window comes.
FairSpec == Spec /\ WF_vars(Advance) /\ WF_vars(StartRun)

-----------------------------------------------------------------------------
(* Properties. *)

\* The nodes a node's rows go to when each if takes the branch ways says: what every set
\* holds that it is in and no wire leaves that is taken.
Taken(g, ways) == {e \in WiresOf(g) : g.kind[e.from] = "if" => e.branch = ways[e.from]}

Closed(g, ways) ==
  LET taken == Taken(g, ways)
  IN {S \in SUBSET NodesOf(g) : \A e \in taken : e.from \in S => e.to \in S}

Reach(g, ways, n) ==
  LET around == {S \in Closed(g, ways) : n \in S}
  IN {m \in NodesOf(g) : \A S \in around : m \in S}

Ways(g) == [OfKind(g, "if") -> Branches]

\* The sinks a source's rows go to, whatever the ifs say, and those they may go to.
Ends == [g \in Workflows |-> [v \in Sources |->
          IF v \notin NodesOf(g) THEN [must |-> {}, may |-> {}]
          ELSE [must |-> {k \in Sinks : \A ways \in Ways(g) : k \in Reach(g, ways, v)},
                may  |-> {k \in Sinks : \E ways \in Ways(g) : k \in Reach(g, ways, v)}]]]

\* Graphs a theorem speaks of: the wire of a branch is the only one into its node;
BranchesAreWhole(g) ==
  \A d, e \in WiresOf(g) : g.kind[d.from] = "if" /\ e.to = d.to => e = d

\* whatever way the ifs take, a source's rows come to a node over one wire;
RowsArriveOnce(g) ==
  \A ways \in Ways(g), v \in OfKind(g, "source") :
    \A d, e \in Taken(g, ways) :
      d.to = e.to /\ d.from \in Reach(g, ways, v) /\ e.from \in Reach(g, ways, v) => d = e

\* there is one sink, full only where every source is, and what one source reaches every
\* source reaches.
Together(g) ==
  /\ \E k \in NodesOf(g) : /\ OfKind(g, "sink") = {k}
                           /\ k \in g.full => OfKind(g, "source") \subseteq g.full
  /\ \A ways \in Ways(g), u, v \in OfKind(g, "source"), k \in OfKind(g, "sink") :
       k \in Reach(g, ways, u) => k \in Reach(g, ways, v)

\* When a run is over, however it ended, a row behind a committed watermark, which no
\* later run reads again, is served by every type it may go to (promoteWatermarks:
\* "After the commit and nowhere else.  A watermark is a promise never to read those
\* records again").
WatermarkCovered ==
  pc = "rest" => \A v \in Sources : \A k \in Ends[graph][v].may :
                   \A i \in 1 .. mark[v].committed : <<v, i>> \in View(k)

\* A sink commits what the taken wires bring it, from every source they join to it,
\* each row once, and, unless it is full, what was served besides.
CommitsWhatReachesIt ==
  [][Commit =>
       LET from == {v \in Of("source") :
                      Node \in Reach(graph, [n \in Of("if") |-> outcome[n]], v)}
           rows == UNION {UNION ToSet(stage[v]) : v \in from}
       IN /\ from # {}
          /\ View(Node)' = rows \cup (IF Full(Node) THEN {} ELSE kept[Node])
          /\ Cardinality(cells[Node]) = Cardinality(View(Node)')]_vars

\* Every row a source gets is served in the end by each type that no branch keeps it
\* from, although attempts fail and runs are cancelled.
RowsAreServed ==
  \A r \in Row, k \in Sinks :
    (r[2] <= feed[r[1]] /\ k \in Ends[graph][r[1]].must) ~> r \in View(k)
=============================================================================

-------------------------- MODULE WorkflowVersions --------------------------
(***************************************************************************)
(* A workflow's graph and its versions (packages/store-mikro-orm/src/      *)
(* pipeline.store.ts): what saving, publishing and releasing write, and    *)
(* which graph each step of a run finds under the version the run carries  *)
(* (packages/pipeline/src/workflow-runner.service.ts).  A save, a publish  *)
(* and a release read the row, await, and then write the columns they      *)
(* changed since they read it.                                             *)
(***************************************************************************)
EXTENDS Naturals

CONSTANTS Graphs,      \* what a canvas can be drawn as, told apart by their hashes
          Runnable,    \* the graphs validateWorkflow has no issue with
          Editors,     \* the tabs that autosave
          Publishers,  \* who publishes and releases
          Runs,
          Steps,       \* steps a run makes, its plan included
          MaxVersion,  \* bound: versions of the row
          NoGraph

ASSUME VersionsAssumption ==
  /\ Runnable \subseteq Graphs /\ NoGraph \notin Graphs
  /\ Steps \in Nat /\ MaxVersion \in Nat \ {0}

VARIABLES row,         \* the workflow row
          liveVersion, \* its live version, 0 while it follows its head
          releases,    \* [Versions -> the graph frozen as it, or NoGraph]
          edit,        \* [Editors -> the save between its read and its flush]
          call,        \* [Publishers -> the publish or release between the two]
          run          \* [Runs -> its version and the graphs its steps executed]

versionsVars == <<row, liveVersion, releases, edit, call, run>>

Versions == 1 .. MaxVersion
Rows     == [status : {"draft", "ready"}, version : Versions, graph : Graphs]
Idle     == [op |-> "none"]

VersionsTypeOK ==
  /\ row \in Rows
  /\ releases \in [Versions -> Graphs \cup {NoGraph}]
  /\ liveVersion \in 0 .. MaxVersion
  /\ edit \in [Editors -> {Idle} \cup [op : {"save"}, was : Rows, graph : Graphs]]
  /\ call \in [Publishers -> {Idle} \cup [op : {"publish", "release"}, was : Rows]]
  /\ run \in [Runs -> [state : {"none", "going", "stopped"}, version : Versions,
                       graphs : SUBSET Graphs, made : 0 .. Steps]]

\* The first save has made the row.
VersionsInit ==
  /\ \E g \in Graphs : row = [status |-> "draft", version |-> 1, graph |-> g]
  /\ liveVersion = 0
  /\ releases = [v \in Versions |-> NoGraph]
  /\ edit = [e \in Editors |-> Idle]
  /\ call = [p \in Publishers |-> Idle]
  /\ run = [r \in Runs |-> [state |-> "none", version |-> 1, graphs |-> {}, made |-> 0]]

-----------------------------------------------------------------------------
(* saveWorkflow. *)

\* A ready graph has to stay runnable.
BeginSave(e, g) ==
  /\ edit[e] = Idle
  /\ row.status = "ready" => g \in Runnable
  /\ row.version < MaxVersion
  /\ edit' = [edit EXCEPT ![e] = [op |-> "save", was |-> row, graph |-> g]]
  /\ UNCHANGED <<row, liveVersion, releases, call, run>>

\* Mutant: a save leaves the version to the release.
SavedInPlace(e) == [row EXCEPT !.graph = edit[e].graph]

\* The columns that differ from what was read, the version among them if the graph does.
Saved(e) ==
  IF edit[e].graph = edit[e].was.graph THEN row
  ELSE [row EXCEPT !.graph = edit[e].graph, !.version = edit[e].was.version + 1]

FlushSave(e) ==
  /\ edit[e] # Idle
  /\ row' = Saved(e)
  /\ edit' = [edit EXCEPT ![e] = Idle]
  /\ UNCHANGED <<liveVersion, releases, call, run>>

-----------------------------------------------------------------------------
(* publishWorkflow and unpublishWorkflow. *)

BeginPublish(p) ==
  /\ call[p] = Idle /\ row.graph \in Runnable
  /\ call' = [call EXCEPT ![p] = [op |-> "publish", was |-> row]]
  /\ UNCHANGED <<row, liveVersion, releases, edit, run>>

FlushPublish(p) ==
  /\ call[p].op = "publish"
  /\ row' = IF call[p].was.status = "ready" THEN row ELSE [row EXCEPT !.status = "ready"]
  /\ call' = [call EXCEPT ![p] = Idle]
  /\ UNCHANGED <<liveVersion, releases, edit, run>>

Unpublish ==
  /\ row.status = "ready"
  /\ row' = [row EXCEPT !.status = "draft"]
  /\ UNCHANGED <<liveVersion, releases, edit, call, run>>

-----------------------------------------------------------------------------
(* releaseWorkflow and setLiveWorkflowVersion. *)

BeginRelease(p) ==
  /\ call[p] = Idle /\ row.status = "ready"
  /\ call' = [call EXCEPT ![p] = [op |-> "release", was |-> row]]
  /\ UNCHANGED <<row, liveVersion, releases, edit, run>>

\* A version is released once; the release there is stays as it is.
Frozen(was) ==
  IF releases[was.version] # NoGraph THEN releases
  ELSE [releases EXCEPT ![was.version] = was.graph]

FlushRelease(p) ==
  /\ call[p].op = "release"
  /\ releases' = Frozen(call[p].was)
  /\ call' = [call EXCEPT ![p] = Idle]
  /\ UNCHANGED <<row, liveVersion, edit, run>>

SetLiveVersion(v) ==
  /\ v # 0 => releases[v] # NoGraph
  /\ liveVersion' = v
  /\ UNCHANGED <<row, releases, edit, call, run>>

-----------------------------------------------------------------------------
(* Runs. *)

liveWorkflowVersion == IF liveVersion # 0 THEN liveVersion ELSE row.version

\* Mutant: a version nobody released is run from the head.
HeadInstead(v) == IF row.version = v \/ releases[v] = NoGraph THEN row.graph ELSE releases[v]

\* Mutant: a run is of the head, whatever version it carries.
HeadAlways(v) == row.graph

\* The graph of a version: the head while it has the version, or else the release of it.
requireWorkflowAt(v) == IF row.version = v THEN row.graph ELSE releases[v]

Start(r, v) ==
  /\ run[r].state = "none"
  /\ run' = [run EXCEPT ![r].state = "going", ![r].version = v]
  /\ UNCHANGED <<row, liveVersion, releases, edit, call>>

\* The scheduler takes the version the workflow is set to run, if it is published.
StartScheduled(r) == row.status = "ready" /\ Start(r, liveWorkflowVersion)

\* A person may name one, which has to exist.
StartNamed(r, v) == requireWorkflowAt(v) # NoGraph /\ Start(r, v)

\* The plan, and then each node, read the graph again; a version that is neither the head
\* nor released stops the run.
Step(r) ==
  /\ run[r].state = "going" /\ run[r].made < Steps
  /\ LET g == requireWorkflowAt(run[r].version)
     IN \/ /\ g = NoGraph
           /\ run' = [run EXCEPT ![r].state = "stopped"]
        \/ /\ g # NoGraph
           /\ run' = [run EXCEPT ![r].graphs = @ \cup {g}, ![r].made = @ + 1]
  /\ UNCHANGED <<row, liveVersion, releases, edit, call>>

-----------------------------------------------------------------------------

VersionsNext ==
  \/ \E e \in Editors : (\E g \in Graphs : BeginSave(e, g)) \/ FlushSave(e)
  \/ \E p \in Publishers :
       BeginPublish(p) \/ FlushPublish(p) \/ BeginRelease(p) \/ FlushRelease(p)
  \/ Unpublish
  \/ \E v \in 0 .. MaxVersion : SetLiveVersion(v)
  \/ \E r \in Runs : StartScheduled(r) \/ Step(r) \/ \E v \in Versions : StartNamed(r, v)

VersionsSpec == VersionsInit /\ [][VersionsNext]_versionsVars

-----------------------------------------------------------------------------
(* Properties. *)

\* Every step of a run executes the graph of the step before: a run does not execute half
\* of one graph and half of another (requireWorkflowAt), though it reads the graph again
\* for each of its steps while people save, release and deploy.
RunsOneGraph == \A r \in Runs : \A g, h \in run[r].graphs : g = h

\* The head and the release of its version hold the same graph, so that a run of a live
\* version executes what was released, whether it finds it on the row or in the archive.
HeadIsItsRelease ==
  releases[row.version] # NoGraph => row.graph = releases[row.version]

\* While a version is live, what a scheduled run executes moves with the pointer only: no
\* save, publish or release deploys a graph.
EditsNeverDeploy ==
  [][liveVersion # 0 /\ liveVersion' = liveVersion =>
       requireWorkflowAt(liveVersion)' = requireWorkflowAt(liveVersion)]_versionsVars

\* A published graph can run: publishWorkflow validates it and saveWorkflow refuses to
\* leave it otherwise.
ReadyIsRunnable == row.status = "ready" => row.graph \in Runnable

=============================================================================

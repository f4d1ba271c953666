--------------------------- MODULE MCWorkflowRun ---------------------------
(* Workflows for WorkflowRun. *)
EXTENDS WorkflowRun

Wire(from, to, branch) == [from |-> from, to |-> to, branch |-> branch]

Workflow(nodes, kind, edges, full) ==
  [nodes |-> nodes, kind |-> kind, edges |-> edges, full |-> full]

\* Two reads that meet in a pipe, and one that comes to the sink beside it.
Merge == Workflow(<<"k", "p", "a", "b">>,
  [a |-> "source", b |-> "source", p |-> "pipe", k |-> "sink"],
  <<Wire("a", "p", "plain"), Wire("p", "k", "plain"), Wire("b", "k", "plain")>>, {})

\* Both branches converge (the graph drawn at workflowNodeRuns).
Diamond == Workflow(<<"a", "i", "x", "y", "p", "k">>,
  [a |-> "source", i |-> "if", x |-> "pipe", y |-> "pipe", p |-> "pipe", k |-> "sink"],
  <<Wire("a", "i", "plain"), Wire("i", "x", "then"), Wire("i", "y", "else"),
    Wire("x", "p", "plain"), Wire("y", "p", "plain"), Wire("p", "k", "plain")>>, {})

\* A branch that keeps the sink from running.
Gate == Workflow(<<"a", "i", "k">>,
  [a |-> "source", i |-> "if", k |-> "sink"],
  <<Wire("a", "i", "plain"), Wire("i", "k", "then")>>, {})

\* A full read, and a full load of it.
Whole == Workflow(<<"a", "k">>, [a |-> "source", k |-> "sink"],
  <<Wire("a", "k", "plain")>>, {"a", "k"})

\* One read that feeds two types.
Fork == Workflow(<<"a", "k", "l">>, [a |-> "source", k |-> "sink", l |-> "sink"],
  <<Wire("a", "k", "plain"), Wire("a", "l", "plain")>>, {})

\* The else branch meets another read at its sink.
Beside == Workflow(<<"a", "b", "i", "k", "l">>,
  [a |-> "source", b |-> "source", i |-> "if", k |-> "sink", l |-> "sink"],
  <<Wire("a", "i", "plain"), Wire("i", "k", "then"), Wire("i", "l", "else"),
    Wire("b", "l", "plain")>>, {})

OneSink    == {Merge, Diamond, Gate, Whole}
TwoSinks   == {Fork}
BranchJoin == {Beside}

\* The graphs run with one sink are ones the theorems speak of.
ASSUME OneSinkIsTogether ==
  \A g \in OneSink : BranchesAreWhole(g) /\ RowsArriveOnce(g) /\ Together(g)
=============================================================================

----------------------------- MODULE TaskGraph -----------------------------
(***************************************************************************)
(* The dependency graph of a task list (src/src/orchestrate/graph.ts), as  *)
(* operators on a graph: a function from tasks to nodes.  A list is a      *)
(* record [order, deps, pin, cap]: the tasks in list order, the depends_on *)
(* of each, the worker each is pinned to, or None, and the max_concurrent  *)
(* of its run.                                                             *)
(***************************************************************************)
EXTENDS Naturals, SequencesExt

CONSTANTS Tasks, Workers, None

\* A cycle is refused before a graph is built: dependencies have a depth.
Acyclic(deps) ==
    \E depth \in [Tasks -> 0 .. Cardinality(Tasks)] :
        \A t \in Tasks : \A d \in ToSet(deps[t]) : depth[d] < depth[t]

\* What tasklist.ts lets through: every task once, deps known, no cycle.
Valid(list) ==
    /\ list \in [order: Seq(Tasks), deps: [Tasks -> Seq(Tasks)],
                pin: [Tasks -> Workers \cup {None}], cap: Nat]
    /\ ToSet(list.order) = Tasks /\ IsInjective(list.order)
    /\ Acyclic(list.deps)

Verdict == {"success", "partial", "failed", "timed_out", "aborted", "unknown"}

Node == [state: {"waiting", "ready", "dispatched", "done", "blocked"},
         worker: Workers \cup {None},
         verdict: Verdict \cup {None},
         blockedBy: Tasks \cup {None}]

\* dependencySatisfied.  Mutant: any terminal dependency will do.
AnySatisfied(v) == v # None
Satisfied(v) == v \in {"success", "partial"}

NewGraph(list) ==
    [t \in Tasks |-> [state |-> IF list.deps[t] = <<>> THEN "ready" ELSE "waiting",
                      worker |-> None, verdict |-> None, blockedBy |-> None]]

Ready(g) == {t \in Tasks : g[t].state = "ready"}

Terminal(n) == n.state \in {"done", "blocked"}
AllTerminal(g) == \A t \in Tasks : Terminal(g[t])

\* markDispatched
MarkDispatched(g, t, w) ==
    [g EXCEPT ![t].state = "dispatched", ![t].worker = w]

\* The dependencies of t that block it: a failure, or what a failure blocked.
Offends(node, d) ==
    \/ node[d].state = "blocked"
    \/ node[d].state = "done" /\ ~ Satisfied(node[d].verdict)
Offenders(list, node, t) == {i \in DOMAIN list.deps[t] : Offends(node, list.deps[t][i])}

\* #sweep, in dependency order: a task behind a failure is blocked by the
\* first offender, or by whatever blocked that one; a task whose dependencies
\* are all satisfied becomes ready.
Swept(list, g, node, t) ==
    IF g[t].state \in {"done", "dispatched"} THEN g[t]
    ELSE IF Offenders(list, node, t) # {}
    THEN LET d == list.deps[t][Min(Offenders(list, node, t))] IN
         [g[t] EXCEPT !.state = "blocked",
                      !.blockedBy = IF node[d].state = "blocked"
                                    THEN node[d].blockedBy ELSE d]
    ELSE IF \A d \in ToSet(list.deps[t]) : node[d].state = "done"
    THEN [g[t] EXCEPT !.state = "ready"] ELSE g[t]

Sweep(list, g) == LET node[t \in Tasks] == Swept(list, g, node, t) IN node

\* markSettled
MarkSettled(list, g, t, v, w) ==
    Sweep(list, [g EXCEPT ![t].state = "done", ![t].verdict = v, ![t].worker = w])
=============================================================================

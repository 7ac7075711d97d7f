---------------------------- MODULE MCLifecycle -----------------------------
(***************************************************************************)
(* Small instances of Lifecycle for TLC.                                   *)
(***************************************************************************)
EXTENDS Lifecycle, TLC

CONSTANTS w1, w2, s1, p1, p2

MCWorkers == {w1, w2}
MCOne == {w1}
MCStrangers == {s1}
MCPids == {p1, p2}
MCHome == w1 :> p1 @@ w2 :> p2
MCHomeOne == w1 :> p1

Nothing == [unread |-> 0, eperm |-> 0, stuck |-> 0, wedge |-> 0, crash |-> 0,
            fork |-> 0, capture |-> 0, abort |-> 0, down |-> 0]

\* Reads that fail and signals that are refused, on the way to a wedged worker.
Refusals == [Nothing EXCEPT !.unread = 1, !.eperm = 1, !.wedge = 1, !.down = 1]
\* A worker that dies during a climb, and a stranger that takes its pid.
Recycled == [Nothing EXCEPT !.crash = 1, !.fork = 1, !.unread = 1, !.down = 1]
\* A scan that ends early, and a process that outlives SIGKILL's grace.
Slow == [Nothing EXCEPT !.abort = 1, !.stuck = 1, !.wedge = 1, !.down = 1]
\* A supervisor that could not read its own identity.
Uncaptured == [Nothing EXCEPT !.capture = 1, !.wedge = 1, !.down = 1]

Of(budgets, workers) == {[faults |-> b, launched |-> workers] : b \in budgets}
\* A worker that registers while another is climbed upon.
Together == [Nothing EXCEPT !.wedge = 1]

MCScenarios == Of({Refusals, Recycled, Slow, Uncaptured}, {w1}) \cup Of({Together}, MCWorkers)
=============================================================================

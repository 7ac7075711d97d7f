------------------------------ MODULE MCConsole ------------------------------
(* Instances of Console: a few invocations, three runs, budgets of faults.    *)
EXTENDS Console

NoFaults == [crash |-> 0, capture |-> 0, death |-> 0, task |-> 0, close |-> 0, down |-> 0, throw |-> 0]

\* An invocation dies, and another is run after it.
Crashes == [NoFaults EXCEPT !.crash = 1]
\* The start time of an actor or of a starter cannot be captured.
Uncaptured == [NoFaults EXCEPT !.capture = 1]
\* The actor dies, or the operator closes the workspace.
Vanishes == [NoFaults EXCEPT !.death = 1, !.close = 1]
\* Passes of an actor throw while its console goes away.
Throwing == [NoFaults EXCEPT !.throw = 2, !.close = 1]
\* A run that `down` cannot stop.
Stubborn == [NoFaults EXCEPT !.down = 1]
\* The collator is given a task while an invocation recreates it.
Busied == [NoFaults EXCEPT !.task = 1]

PassFaults == {Crashes, Uncaptured, Vanishes, Throwing, Busied, Stubborn}
==============================================================================

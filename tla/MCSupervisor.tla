---------------------------- MODULE MCSupervisor ----------------------------
(* Model values, fault budgets and symmetry for checking Supervisor.       *)
EXTENDS Supervisor, TLC

CONSTANTS t1, t2, a1

MCTasks == {t1, t2}
MCAttempts == {a1}
MCVerdicts == {"success", "failed", "timed_out", "aborted"}
MCProbes == {1, 2}

\* How often each environment event happens in a run.
Calm == [timeout |-> 0, prose |-> 0, early |-> 0, deadline |-> 0, abort |-> 0,
         shutdown |-> 0, write |-> 0, crash |-> 0, relaunch |-> 0,
         reject |-> 0, retry |-> 0, death |-> 0, garbage |-> 0]

Interrupted == [Calm EXCEPT !.deadline = 1, !.abort = 1]
PiLate == [Calm EXCEPT !.timeout = 1, !.deadline = 1]
PiRejects == [Calm EXCEPT !.reject = 1, !.deadline = 1, !.garbage = 1]
Stops == [Calm EXCEPT !.shutdown = 1, !.death = 1]
Crashes == [Calm EXCEPT !.deadline = 1, !.crash = 1, !.relaunch = 1]
Hangs == [Calm EXCEPT !.early = 1, !.deadline = 1, !.timeout = 2, !.prose = 1,
                       !.retry = 1]

\* The runs: what may go wrong in each.
Faulty == {Interrupted, PiLate, Stops, Crashes, PiRejects}
Unresponsive == {Hangs}
OneCrash == {[Calm EXCEPT !.crash = 1, !.relaunch = 1]}
OneFailedWrite == {[Calm EXCEPT !.write = 1, !.crash = 1, !.relaunch = 1]}
OneEarlyDeadline == {[Calm EXCEPT !.early = 1]}
OneAbandoned == {[Calm EXCEPT !.early = 1, !.timeout = 1, !.reject = 1]}
Nothing == {Calm}

Symmetry == Permutations(MCTasks)
=============================================================================

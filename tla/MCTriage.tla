------------------------------ MODULE MCTriage ------------------------------
(* Triage with two observers and its subjects, under budgets of faults.  *)
EXTENDS Triage

CONSTANTS s1, s2
MCSeats == {s1, s2}
MCSubjects == <<"service", "nothing", "skips", "budget", "saturated",
                "unreachable", "reporter">>

Calm == [late |-> 0, recycle |-> 0, halt |-> 0, save |-> 0, lose |-> 0, die |-> 0,
         crash |-> 0, remove |-> 0]
Late == [Calm EXCEPT !.late = 1, !.crash = 1]
LostTask == [Calm EXCEPT !.lose = 1, !.save = 1]
Recycled == [Calm EXCEPT !.recycle = 1, !.die = 1]
Halted == [Calm EXCEPT !.halt = 1, !.crash = 1]
Restarted == [Calm EXCEPT !.crash = 1, !.remove = 1]
OnlyHalted == {Halted}
OnlyRecycled == {Recycled}
Faulty == {Late, LostTask, Recycled, Halted, Restarted}
=============================================================================

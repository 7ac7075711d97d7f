---------------------------- MODULE MCScheduler ----------------------------
(* Task lists, fault budgets and bounds for checking Scheduler.            *)
EXTENDS Scheduler

CONSTANTS ta, tb, tc, w1, w2

MCTasks == {ta, tb, tc}
MCWorkers == {w1, w2}
MCFleet == <<w1, w2>>

Fork == [order |-> <<ta, tb, tc>>,
         deps |-> (ta :> <<>> @@ tb :> <<ta>> @@ tc :> <<>>),
         pin |-> (ta :> None @@ tb :> None @@ tc :> None), cap |-> 1]

Pinned == [order |-> <<tc, ta, tb>>,
           deps |-> (ta :> <<>> @@ tb :> <<ta>> @@ tc :> <<>>),
           pin |-> (ta :> w2 @@ tb :> None @@ tc :> None), cap |-> 2]
MCLists == {Fork, Pinned}

Calm == [lost |-> 0, reject |-> 0, death |-> 0, stall |-> 0, degrade |-> 0,
         rotate |-> 0, escape |-> 0, timeout |-> 0, crash |-> 0, rerun |-> 0]
Ordinary == {[Calm EXCEPT !.lost = 1, !.death = 1],
             [Calm EXCEPT !.stall = 1, !.reject = 1, !.degrade = 1, !.timeout = 1],
             [Calm EXCEPT !.escape = 1, !.rerun = 1, !.rotate = 1],
             [Calm EXCEPT !.crash = 1, !.rerun = 1, !.degrade = 1]}
OneRerun == {[Calm EXCEPT !.rerun = 1]}

AllIdle == [w \in Workers |-> Idle]
MCBefores == {AllIdle, [AllIdle EXCEPT ![w2] = HadDone(ta, "failed")]}
Fresh == {AllIdle}
=============================================================================

------------------------------ MODULE MCRelay ------------------------------
(* Model values and fault budgets for checking Relay.                      *)
EXTENDS Relay

CONSTANTS la, lb, pa, pb, xa, xb, ta, tb

MCLenses == {la, lb}
OneLens == {la}
MCParents == {pa, pb}
MCActors == {xa, xb}
MCTexts == {ta, tb}
Both == [names |-> {la, lb}, text |-> ta]
Alone == [names |-> {la}, text |-> tb]
MCContents == {Both, Alone}

Calm == [turn |-> 1, start |-> 0, crash |-> 0, publish |-> 0, unread |-> 0,
         ambiguous |-> 0, lost |-> 0, rewrite |-> 0, fail |-> 0, death |-> 0]

Rewritten == [Calm EXCEPT !.crash = 1, !.start = 1, !.rewrite = 1, !.publish = 1]
Twice == [Calm EXCEPT !.start = 1, !.rewrite = 1, !.ambiguous = 1, !.lost = 1]
Deaths == [Calm EXCEPT !.turn = 2, !.death = 1]
Partial == [Calm EXCEPT !.fail = 1, !.unread = 1, !.death = 2]

Faulty == {Rewritten, Twice, Deaths, Partial}
=============================================================================

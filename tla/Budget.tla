------------------------------- MODULE Budget -------------------------------
(***************************************************************************)
(* The token budget of a run (src/src/safety/budget.ts): BudgetManager as  *)
(* operators on a budget [spent, reserved, halted], where reserved is the  *)
(* set of tasks holding an admission slot of Reserve tokens each.          *)
(***************************************************************************)
EXTENDS Naturals, FiniteSets

CONSTANTS Ceiling,   \* tokens_ceiling
          Reserve    \* per_task_reserve_tokens

NoBudget == [spent |-> 0, reserved |-> {}, halted |-> FALSE]

\* admit, when it answers ok under max_concurrent = cap.
\* Mutant: the cap is checked one too late.
AdmitsOneMore(b, t, cap) ==
    /\ ~ b.halted
    /\ \/ t \in b.reserved
       \/ /\ Cardinality(b.reserved) <= cap
          /\ b.spent + (Cardinality(b.reserved) + 1) * Reserve <= Ceiling
AdmitsTask(b, t, cap) ==
    /\ ~ b.halted
    /\ \/ t \in b.reserved
       \/ /\ Cardinality(b.reserved) < cap
          /\ b.spent + (Cardinality(b.reserved) + 1) * Reserve <= Ceiling

Hold(b, t) == [b EXCEPT !.reserved = @ \cup {t}]

\* release: the dispatch provably never happened.  Mutant: it books nothing
\* and gives nothing back.
ReleaseNothing(b, t) == b
Release(b, t) == [b EXCEPT !.reserved = @ \ {t}]

\* settle: the hold goes, the actuals are booked, a crossed ceiling halts.
SettleTask(b, t, tokens) ==
    [b EXCEPT !.reserved = @ \ {t},
              !.spent = @ + tokens,
              !.halted = @ \/ b.spent + tokens > Ceiling]

\* resumeBudget: spend is re-observed, the halt is carried, holds are dropped.
Resume(opening, persisted) ==
    [spent |-> opening, reserved |-> {},
     halted |-> persisted.halted \/ opening > Ceiling]
=============================================================================

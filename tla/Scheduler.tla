----------------------------- MODULE Scheduler -----------------------------
(***************************************************************************)
(* dispatch --auto: the scheduler of one run (orchestrate/scheduler.ts)    *)
(* over the control sockets and files of its workers (the SchedulerIO of   *)
(* cli/commands/dispatch.ts), its budget, and a CLI process that may die   *)
(* and be run again on the same list.                                      *)
(*                                                                         *)
(* runSchedule is one async function: every io call it awaits is a step    *)
(* here, and the workers move between any two of them.  A pass settles     *)
(* what is in flight, one task at a time, probes the free workers, one at  *)
(* a time, and offers the ready tasks, one at a time.  Workers are reduced *)
(* to what the scheduler can see and what their fence decides: the process,*)
(* the phase in state.json, the live task, the attempts it has seen, the   *)
(* records it wrote and the tokens its transcript shows;                   *)
(* Supervisor.tla has their inside.                                        *)
(***************************************************************************)
EXTENDS TaskGraph, Budget

CONSTANTS Fleet,       \* the workers in sorted order
          Lists,       \* the task lists to schedule
          Befores,     \* bound: what the workers may have done before
          Costs,       \* bound: tokens one run of a task may burn
          Faults       \* bound: budgets of environment events

ASSUME FleetAssumption == Fleet \in Seq(Workers) /\ ToSet(Fleet) = Workers
ASSUME TasksAssumption == IsFiniteSet(Tasks)
ASSUME ListsAssumption == \A l \in Lists : Valid(l)
ASSUME NoneAssumption == None \notin Tasks \cup Workers \cup Verdict \cup {"accepted"}
ASSUME BudgetAssumption == Ceiling \in Nat /\ Reserve \in Nat /\ Costs \subseteq Nat

\* What the scheduler can see of a worker, and what its fence decides by.
\* overran is a history: it burned more than the reserve on one task, or was at
\* work before anything was reserved for it.
WorkerState ==
    [alive: BOOLEAN, phase: {"idle", "busy", "dead"}, live: Tasks \cup {None},
     known: SUBSET Tasks, record: [Tasks -> Verdict \cup {None}],
     overran: BOOLEAN, transcript: Nat]

\* A worker writes the record of a task when that ends, and what it did before
\* the schedule is nothing a slot was held for.
ASSUME BeforesAssumption ==
    \A b \in Befores :
        /\ b \in [Workers -> WorkerState]
        /\ \A w \in Workers :
              /\ b[w].live # None => b[w].record[b[w].live] = None
              /\ b[w].live # None \/ b[w].transcript > 0 => b[w].overran

VARIABLES
    list,        \* the task list, with the max_concurrent of its run as cap
    cli,         \* the memory of the dispatch --auto process
    graph,       \* its TaskGraph
    budget,      \* its BudgetManager
    schedule,    \* schedule.json, the graph last written
    published,   \* budget.json, the budget last written
    worker,      \* each worker
    mail,        \* dispatch requests on each worker's control socket
    answer,      \* the answer to the request the CLI awaits
    ranOn,       \* history: the workers each task was started on
    faults       \* environment events left

vars == <<list, cli, graph, budget, schedule, published, worker, mail, answer,
          ranOn, faults>>

Idle == [alive |-> TRUE, phase |-> "idle", live |-> None, known |-> {},
         record |-> [t \in Tasks |-> None], overran |-> FALSE, transcript |-> 0]

\* A worker to which an operator had dispatched t by hand before.
HadDone(t, v) == [Idle EXCEPT !.record[t] = v]

\* hand is the (task, worker) the current step is about; back is the pass a
\* booking returns to; blind and life are histories: some spend could not be
\* read when it was booked, and how often the list was run (neither is forgotten
\* when the process dies).
Stopped(pc) ==
    [pc |-> pc, todo |-> <<>>, hand |-> <<None, None>>, back |-> "settle",
     inflight |-> <<>>, dead |-> {}, probing |-> {}, avail |-> {},
     offers |-> {}, progressed |-> FALSE, dispatched |-> FALSE,
     refused |-> FALSE, observed |-> [w \in Workers |-> 0], blind |-> FALSE,
     life |-> 1]

Init ==
    /\ list \in Lists
    /\ cli = Stopped("start")
    /\ graph = NewGraph(list)
    /\ budget = NoBudget
    /\ schedule = graph
    /\ published = NoBudget
    /\ worker \in Befores
    /\ mail = [w \in Workers |-> <<>>]
    /\ answer = None
    /\ ranOn = [t \in Tasks |-> {}]
    /\ faults \in Faults

Spend(f) == /\ faults[f] > 0
            /\ faults' = [faults EXCEPT ![f] = @ - 1]

At(pc) == cli.pc = pc
Task == cli.hand[1]
Worker == cli.hand[2]

\* workerHealth reads state.json and asks whether its process still runs.
Health(w) == IF worker[w].phase = "dead" \/ ~ worker[w].alive THEN "dead"
             ELSE IF worker[w].phase = "idle" THEN "idle" ELSE "busy"

ThisRun == <<list, worker, mail, answer, ranOn>>

-----------------------------------------------------------------------------
(* dispatchAuto up to the first pass: what the workers have burned is      *)
(* observed, and floored at the last published spend when an observation   *)
(* degraded; the budget resumes; the graph starts from nothing.            *)

OpeningBalance(observed, degraded) ==
    IF degraded # {} /\ published.spent > SumFunction(observed)
    THEN published.spent ELSE SumFunction(observed)

Start ==
    /\ At("start")
    /\ \E D \in SUBSET Workers :
        LET observed == [w \in Workers |-> IF w \in D THEN 0 ELSE worker[w].transcript] IN
        /\ IF D = {} THEN UNCHANGED faults ELSE Spend("degrade")
        /\ budget' = Resume(OpeningBalance(observed, D), published)
        /\ cli' = [cli EXCEPT !.pc = "settle", !.observed = observed]
    /\ graph' = NewGraph(list)
    /\ schedule' = graph'
    /\ published' = budget'
    /\ UNCHANGED ThisRun

-----------------------------------------------------------------------------
(* The settle pass.                                                        *)

InFlight(t) == \E i \in DOMAIN cli.inflight : cli.inflight[i][1] = t
Without(t) ==
    IF InFlight(t)
    THEN RemoveAt(cli.inflight, CHOOSE i \in DOMAIN cli.inflight : cli.inflight[i][1] = t)
    ELSE cli.inflight
Busy == {p[2] : p \in ToSet(cli.inflight)}

\* A task reaches its verdict; its spend is booked next.
SettleAs(v, w, c) ==
    /\ graph' = MarkSettled(list, graph, c.hand[1], v, w)
    /\ cli' = [c EXCEPT !.pc = "book", !.inflight = Without(c.hand[1]),
                        !.progressed = TRUE]

\* readSettled: the task has a record, or the worker's health is asked.
ReadSettled ==
    /\ At("settle") /\ cli.todo # <<>>
    /\ LET c == [cli EXCEPT !.hand = Head(cli.todo), !.todo = Tail(@),
                            !.back = "settle"]
           v == worker[c.hand[2]].record[c.hand[1]] IN
       IF v # None THEN SettleAs(v, c.hand[2], c)
       ELSE cli' = [c EXCEPT !.pc = "health"] /\ UNCHANGED graph
    /\ UNCHANGED <<budget, schedule, published, faults, ThisRun>>

\* A dead worker settles nothing any more: unknown (worker_died).
ReadHealth ==
    /\ At("health")
    /\ IF Health(Worker) = "dead"
       THEN SettleAs("unknown", Worker, [cli EXCEPT !.dead = @ \cup {Worker}])
       ELSE cli' = [cli EXCEPT !.pc = "silence"] /\ UNCHANGED graph
    /\ UNCHANGED <<budget, schedule, published, faults, ThisRun>>

\* A slot holder that has been silent for too long is aborted, best effort,
\* and given up on (event_stall_kill); a worker in the queue never is.
ReadSilence ==
    /\ At("silence")
    /\ \/ /\ cli' = [cli EXCEPT !.pc = "settle"]
          /\ UNCHANGED <<graph, faults>>
       \/ /\ Task \in budget.reserved
          /\ Spend("stall")
          /\ SettleAs("unknown", Worker, [cli EXCEPT !.dead = @ \cup {Worker}])
    /\ UNCHANGED <<budget, schedule, published, ThisRun>>

\* settleBudget: the worker's spend since the last look, or nothing when the
\* transcript cannot be read or shrank.
\* Mutant: a shrunk transcript refunds.
TaskTokensRefund(w) == worker[w].transcript - cli.observed[w]
TaskTokens(w) == IF worker[w].transcript > cli.observed[w]
                 THEN worker[w].transcript - cli.observed[w] ELSE 0
Seen(w) == IF worker[w].transcript > cli.observed[w] THEN worker[w].transcript
           ELSE cli.observed[w]

BookSpend ==
    /\ At("book")
    /\ \/ /\ budget' = SettleTask(budget, Task, TaskTokens(Worker))
          /\ cli' = [cli EXCEPT !.pc = cli.back, !.observed[Worker] = Seen(Worker)]
          /\ UNCHANGED faults
       \/ /\ Spend("degrade")
          /\ budget' = SettleTask(budget, Task, 0)
          /\ cli' = [cli EXCEPT !.pc = cli.back, !.blind = TRUE]
    /\ published' = budget'
    /\ UNCHANGED <<graph, schedule, ThisRun>>

\* The pass is over: what it settled is written, then the run may be done, by
\* its graph or by a halted budget with nothing in flight.
SettlePassDone ==
    /\ At("settle") /\ cli.todo = <<>>
    /\ schedule' = IF cli.progressed THEN graph ELSE schedule
    /\ cli' = IF AllTerminal(graph) \/ (budget.halted /\ cli.inflight = <<>>)
              THEN [cli EXCEPT !.pc = "done"]
              ELSE [cli EXCEPT !.pc = "probe", !.avail = {}, !.refused = FALSE,
                               !.dispatched = FALSE,
                               !.probing = Workers \ (cli.dead \cup Busy)]
    /\ UNCHANGED <<graph, budget, published, faults, ThisRun>>

-----------------------------------------------------------------------------
(* The dispatch pass.                                                      *)

\* The first of a list that is in a set.
FirstOf(seq, S) == seq[Min({i \in DOMAIN seq : seq[i] \in S})]

\* Which workers are free, asked in sorted order.
Probe ==
    /\ At("probe") /\ cli.probing # {}
    /\ LET w == FirstOf(Fleet, cli.probing)
           h == Health(w) IN
       cli' = [cli EXCEPT !.probing = @ \ {w},
                          !.dead = IF h = "dead" THEN @ \cup {w} ELSE @,
                          !.avail = IF h = "idle" THEN @ \cup {w} ELSE @]
    /\ UNCHANGED <<graph, budget, schedule, published, faults, ThisRun>>

ProbePassDone ==
    /\ At("probe") /\ cli.probing = {}
    /\ cli' = [cli EXCEPT !.pc = "offer", !.offers = Ready(graph)]
    /\ UNCHANGED <<graph, budget, schedule, published, faults, ThisRun>>

\* The worker a task may go to: its pin if that is free, or the first free one.
TargetOf(t) ==
    IF list.pin[t] # None
    THEN IF list.pin[t] \in cli.avail THEN list.pin[t] ELSE None
    ELSE IF cli.avail = {} THEN None
    ELSE FirstOf(Fleet, cli.avail)

\* The ready tasks are offered in list order.
Offered == FirstOf(list.order, cli.offers)

PinnedToTheDead(t) == list.pin[t] # None /\ list.pin[t] \in cli.dead

\* A task pinned to a dead worker ends the run.
OfferPinned ==
    /\ At("offer") /\ cli.offers # {}
    /\ PinnedToTheDead(Offered)
    /\ schedule' = IF cli.dispatched THEN graph ELSE schedule
    /\ cli' = [cli EXCEPT !.pc = "threw"]
    /\ UNCHANGED <<graph, budget, published, faults, ThisRun>>

\* No worker for it, or the budget refuses it: it stays ready.
OfferSkipped ==
    /\ At("offer") /\ cli.offers # {}
    /\ LET t == Offered IN
       /\ ~ PinnedToTheDead(t)
       /\ TargetOf(t) = None \/ ~ AdmitsTask(budget, t, list.cap)
       /\ cli' = [cli EXCEPT !.offers = @ \ {t},
                             !.refused = @ \/ TargetOf(t) # None]
    /\ UNCHANGED <<graph, budget, schedule, published, faults, ThisRun>>

\* It is admitted: the hold is published and the envelope sent.
Offer ==
    /\ At("offer") /\ cli.offers # {}
    /\ LET t == Offered
           w == TargetOf(t) IN
       /\ ~ PinnedToTheDead(t) /\ w # None /\ AdmitsTask(budget, t, list.cap)
       /\ budget' = Hold(budget, t)
       /\ published' = budget'
       /\ cli' = [cli EXCEPT !.pc = "calling", !.offers = @ \ {t}, !.hand = <<t, w>>,
                             !.back = "offer"]
       /\ mail' = [mail EXCEPT ![w] = Append(@, [task |-> t, open |-> TRUE])]
    /\ answer' = None
    /\ UNCHANGED <<list, graph, schedule, worker, ranOn, faults>>

\* The request is no longer awaited; it may still be on the socket.
Abandon(w) == mail' = [mail EXCEPT ![w] = [i \in DOMAIN @ |-> [@[i] EXCEPT !.open = FALSE]]]

Answered == [cli EXCEPT !.progressed = TRUE, !.dispatched = TRUE]

\* accepted: the task is in flight.
Accepted ==
    /\ At("calling") /\ answer = "accepted"
    /\ graph' = MarkDispatched(graph, Task, Worker)
    /\ cli' = [Answered EXCEPT !.pc = "offer", !.avail = @ \ {Worker},
                               !.inflight = Append(@, <<Task, Worker>>)]
    /\ UNCHANGED <<budget, schedule, published, faults, ThisRun>>

\* already_completed with the recorded verdict, or rejected: it never ran.
\* The worker stays available to the rest of the pass.
Declined ==
    /\ At("calling") /\ answer \in Verdict
    /\ SettleAs(answer, Worker, Answered)
    /\ UNCHANGED <<budget, schedule, published, faults, ThisRun>>

\* in_doubt: a timeout, or the socket closed on the request.  Whether it runs
\* is unknown, and it is offered to nobody else.
\* Mutant: it is taken for unreachable.
InDoubtReoffered ==
    /\ At("calling")
    /\ answer = None
    /\ Spend("lost")
    /\ Abandon(Worker)
    /\ budget' = Release(budget, Task)
    /\ published' = budget'
    /\ cli' = [Answered EXCEPT !.pc = "offer", !.dead = @ \cup {Worker},
                               !.avail = @ \ {Worker}]
    /\ UNCHANGED <<list, graph, schedule, worker, answer, ranOn>>
InDoubt ==
    /\ At("calling")
    /\ \/ Spend("lost")
       \/ ~ worker[Worker].alive /\ answer = None /\ UNCHANGED faults
          /\ \A i \in DOMAIN mail[Worker] : ~ mail[Worker][i].open
    /\ Abandon(Worker)
    /\ SettleAs("unknown", Worker, [Answered EXCEPT !.avail = @ \ {Worker}])
    /\ UNCHANGED <<list, budget, schedule, published, worker, answer, ranOn>>

\* unreachable: nothing listened.  The task stays ready, the hold is released.
Unreachable ==
    /\ At("calling")
    /\ ~ worker[Worker].alive
    /\ mail[Worker] # <<>> /\ Last(mail[Worker]).open
    /\ mail' = [mail EXCEPT ![Worker] = Front(@)]
    /\ budget' = Release(budget, Task)
    /\ published' = budget'
    /\ cli' = [Answered EXCEPT !.pc = "offer", !.dead = @ \cup {Worker},
                               !.avail = @ \ {Worker}]
    /\ UNCHANGED <<list, graph, schedule, worker, answer, ranOn, faults>>

\* Anything else escapes runSchedule: an envelope or a launch record that will
\* not parse, or a failing write of the inbox record of an accepted task.
Escapes ==
    /\ At("calling")
    /\ Spend("escape")
    /\ Abandon(Worker)
    /\ budget' = Release(budget, Task)
    /\ published' = budget'
    /\ cli' = [cli EXCEPT !.pc = "escaped"]
    /\ UNCHANGED <<list, graph, schedule, worker, answer, ranOn>>

\* The end of a pass: the budget refused everything with nothing in flight,
\* every worker is dead, or it is time for the next pass.
Hopeless == /\ cli.inflight = <<>> /\ ~ cli.progressed
            /\ ~ AllTerminal(graph)
            /\ Workers \subseteq cli.dead

\* Mutant: a budget that refuses everything does not end the run.
PassDonePolls ==
    /\ At("offer") /\ cli.offers = {}
    /\ schedule' = IF cli.dispatched THEN graph ELSE schedule
    /\ cli' = IF Hopeless THEN [cli EXCEPT !.pc = "threw"]
              ELSE IF AllTerminal(graph) THEN [cli EXCEPT !.pc = "done"]
              ELSE [cli EXCEPT !.pc = "settle", !.todo = cli.inflight,
                               !.progressed = FALSE]
    /\ UNCHANGED <<graph, budget, published, faults, ThisRun>>
PassDone ==
    /\ At("offer") /\ cli.offers = {}
    /\ schedule' = IF cli.dispatched THEN graph ELSE schedule
    /\ cli' = IF cli.refused /\ ~ cli.dispatched /\ cli.inflight = <<>>
              THEN [cli EXCEPT !.pc = "done"]
              ELSE IF Hopeless THEN [cli EXCEPT !.pc = "threw"]
              ELSE IF AllTerminal(graph) THEN [cli EXCEPT !.pc = "done"]
              ELSE [cli EXCEPT !.pc = "settle", !.todo = cli.inflight,
                               !.progressed = FALSE]
    /\ UNCHANGED <<graph, budget, published, faults, ThisRun>>

\* No progress for the ceiling of the list's deadlines: the run gives up.
StallTimeout ==
    /\ At("offer") /\ cli.offers = {} /\ ~ cli.progressed
    /\ Spend("timeout")
    /\ cli' = [cli EXCEPT !.pc = "threw"]
    /\ UNCHANGED <<graph, budget, schedule, published, ThisRun>>

-----------------------------------------------------------------------------
(* The CLI process dies, or the list is run again.                         *)

Crash ==
    /\ cli.pc \notin {"start", "down", "done", "threw", "escaped"}
    /\ Spend("crash")
    /\ cli' = [Stopped("down") EXCEPT !.life = cli.life, !.blind = cli.blind]
    /\ mail' = [w \in Workers |-> [i \in DOMAIN mail[w] |->
                                     [mail[w][i] EXCEPT !.open = FALSE]]]
    /\ answer' = None
    /\ UNCHANGED <<list, graph, budget, schedule, published, worker, ranOn>>

Rerun ==
    /\ cli.pc \in {"down", "done", "threw", "escaped"}
    /\ Spend("rerun")
    /\ cli' = [Stopped("start") EXCEPT !.life = cli.life + 1]
    /\ UNCHANGED <<graph, budget, schedule, published, ThisRun>>

-----------------------------------------------------------------------------
(* The workers.                                                            *)

Reply(open, a) == answer' = IF open THEN a ELSE answer

\* The control socket's dispatch command: an attempt seen before is answered
\* again, a completed task with its verdict, a busy worker refuses.
Handle(w) ==
    /\ worker[w].alive /\ mail[w] # <<>>
    /\ LET m == Head(mail[w])
           t == m.task
           me == worker[w] IN
       \/ /\ t \in me.known
          /\ Reply(m.open, "accepted")
          /\ UNCHANGED <<worker, ranOn, faults>>
       \/ /\ t \notin me.known /\ me.record[t] # None
          /\ Reply(m.open, me.record[t])
          /\ UNCHANGED <<worker, ranOn, faults>>
       \/ /\ t \notin me.known /\ me.record[t] = None /\ me.live # None
          /\ Reply(m.open, "failed")
          /\ UNCHANGED <<worker, ranOn, faults>>
       \/ /\ t \notin me.known /\ me.record[t] = None /\ me.live = None
          /\ \/ /\ worker' = [worker EXCEPT ![w].live = t, ![w].phase = "busy",
                                            ![w].known = @ \cup {t}]
                /\ ranOn' = [ranOn EXCEPT ![t] = @ \cup {w}]
                /\ Reply(m.open, "accepted")
                /\ UNCHANGED faults
             \/ /\ Spend("reject")
                /\ worker' = [worker EXCEPT ![w].record[t] = "failed",
                                            ![w].known = @ \cup {t}]
                /\ Reply(m.open, "failed")
                /\ UNCHANGED ranOn
    /\ mail' = [mail EXCEPT ![w] = Tail(@)]
    /\ UNCHANGED <<list, cli, graph, budget, schedule, published>>

\* The live task ends with a verdict: its spend, its record, its phase.
Ends(w) ==
    /\ worker[w].alive /\ worker[w].live # None
    /\ \E v \in {"success", "failed"}, c \in Costs :
          /\ worker[w].phase = "dead" => v = "failed"
          /\ worker' = [worker EXCEPT
                          ![w].live = None,
                          ![w].record[worker[w].live] = v,
                          ![w].overran = @ \/ c > Reserve, ![w].transcript = @ + c,
                          ![w].phase = IF @ = "dead" THEN @ ELSE "idle"]
    /\ UNCHANGED <<list, cli, graph, budget, schedule, published, mail, answer,
                   ranOn, faults>>

\* The child exits: the phase is dead, the record comes after it.
ChildExits(w) ==
    /\ worker[w].alive /\ worker[w].phase # "dead"
    /\ Spend("death")
    /\ worker' = [worker EXCEPT ![w].phase = "dead"]
    /\ UNCHANGED <<list, cli, graph, budget, schedule, published, mail, answer, ranOn>>

\* The supervisor is killed: no record is written any more.
Dies(w) ==
    /\ worker[w].alive
    /\ Spend("death")
    /\ \E c \in {0} \cup Costs :
        /\ c # 0 => worker[w].live # None
        /\ worker' = [worker EXCEPT ![w].alive = FALSE, ![w].live = None,
                                    ![w].overran = @ \/ c > Reserve,
                                    ![w].transcript = @ + c]
    /\ UNCHANGED <<list, cli, graph, budget, schedule, published, mail, answer, ranOn>>

\* Its session is switched or its transcript rotated.
Rotates(w) ==
    /\ worker[w].transcript # 0
    /\ Spend("rotate")
    /\ worker' = [worker EXCEPT ![w].transcript = 0]
    /\ UNCHANGED <<list, cli, graph, budget, schedule, published, mail, answer, ranOn>>

-----------------------------------------------------------------------------
SettlePass == ReadSettled \/ ReadHealth \/ ReadSilence \/ BookSpend \/ SettlePassDone
DispatchPass ==
    \/ Probe \/ ProbePassDone \/ OfferPinned \/ OfferSkipped \/ Offer
    \/ Accepted \/ Declined \/ InDoubt \/ Unreachable \/ PassDone
WorkerStep(w) == Handle(w) \/ Ends(w) \/ ChildExits(w) \/ Dies(w) \/ Rotates(w)

Next ==
    \/ Start \/ SettlePass \/ DispatchPass \/ Escapes \/ StallTimeout
    \/ Crash \/ Rerun
    \/ \E w \in Workers : WorkerStep(w)

Spec == Init /\ [][Next]_vars

\* The CLI keeps going, supervisors answer their socket, and a live task ends
\* (its deadline sees to that).
Fairness ==
    /\ WF_vars(Start) /\ WF_vars(SettlePass) /\ WF_vars(DispatchPass)
    /\ \A w \in Workers : WF_vars(Handle(w)) /\ WF_vars(Ends(w))

FairSpec == Spec /\ Fairness

-----------------------------------------------------------------------------
(* Correctness.                                                            *)

Ended == cli.pc \in {"done", "threw", "escaped", "down"}

CliState ==
    [pc: {"start", "settle", "health", "silence", "book", "probe", "offer",
          "calling", "done", "threw", "escaped", "down"},
     todo: Seq(Tasks \X Workers),
     hand: (Tasks \cup {None}) \X (Workers \cup {None}),
     back: {"settle", "offer"},
     inflight: Seq(Tasks \X Workers),
     dead: SUBSET Workers, probing: SUBSET Workers, avail: SUBSET Workers,
     offers: SUBSET Tasks,
     progressed: BOOLEAN, dispatched: BOOLEAN, refused: BOOLEAN,
     observed: [Workers -> Nat], blind: BOOLEAN, life: Nat \ {0}]

BudgetState == [spent: Nat, reserved: SUBSET Tasks, halted: BOOLEAN]

TypeOK ==
    /\ list \in Lists
    /\ cli \in CliState
    /\ cli.pc \in {"health", "silence", "book", "calling"} =>
          cli.hand \in Tasks \X Workers
    /\ graph \in [Tasks -> Node] /\ schedule \in [Tasks -> Node]
    /\ budget \in BudgetState /\ published \in BudgetState
    /\ worker \in [Workers -> WorkerState]
    /\ mail \in [Workers -> Seq([task: Tasks, open: BOOLEAN])]
    /\ answer \in Verdict \cup {"accepted", None}
    /\ ranOn \in [Tasks -> SUBSET Workers]

\* Within one life of the CLI no task is started on two workers: an answer in
\* doubt is never retried elsewhere.
RunsOnce == cli.life = 1 => \A t \in Tasks : Cardinality(ranOn[t]) <= 1

\* A task is only started when each of its dependencies has a recorded verdict
\* that satisfies it.
DependenciesFirst ==
    \A t \in Tasks : ranOn[t] # {} =>
        \A d \in ToSet(list.deps[t]) :
            \E w \in Workers : worker[w].record[d] \in {"success", "partial"}

\* An admission slot belongs to a task in flight or to the one in hand: a slot
\* nobody gives back would shrink max_concurrent until the run stops.
SlotsOwned ==
    \A t \in budget.reserved :
        InFlight(t) \/ (cli.pc \in {"book", "calling", "down"} /\ t \in {Task, None})
          \/ cli.pc \in {"down", "start"}

\* What this life of the CLI started and still follows is within the cap.
SlotsHeld ==
    /\ Cardinality(budget.reserved) <= list.cap
    /\ cli.pc \notin {"down", "start"} =>
          \A p \in ToSet(cli.inflight) : p[1] \in budget.reserved

\* max_concurrent is neither overdrawn nor used up by slots nobody gives back.
SlotsTrue == SlotsOwned /\ SlotsHeld

\* The ceiling is only crossed by a task that burned more than its reserve, by
\* one whose hold was given up in doubt or to a stall, after a booking that
\* could not read the spend, or after a restart: concurrent admissions never
\* overshoot it jointly.
CeilingHolds ==
    /\ cli.life = 1 /\ ~ cli.blind
    /\ \A w \in Workers : ~ worker[w].overran
    /\ \A t \in Tasks : graph[t].verdict # "unknown"
    => budget.spent <= Ceiling

\* A run that ends or refuses to go on has written its graph as it is: "the
\* last written state is always the true one".
ScheduleTrue == cli.pc \in {"done", "threw"} => schedule = graph

\* The graph is what the workers' records say and what schedule.json holds: a
\* task starts behind recorded verdicts, and a run that ends has written its own.
GraphTrue == DependenciesFirst /\ ScheduleTrue

\* The books only grow: a crossed ceiling stays crossed over crashes, re-runs
\* and lost transcripts, and no look of a run at a transcript refunds what it booked.
SpendOnlyGrows ==
    [][/\ published.halted => published'.halted
       /\ ~ At("start") => budget'.spent >= budget.spent]_vars

\* The books are true to the ceiling: concurrent admissions never overshoot it
\* jointly, and nothing that was booked or crossed is taken back (budget.ts:
\* admitsTask, reserveTask, recordSpend; dispatch.ts: taskTokens, spentSoFar).
BooksOnlyGrow == []CeilingHolds /\ SpendOnlyGrows

\* The schedule ends, without the stall backstop, if tasks end.
ScheduleEnds == At("settle") ~> Ended

-----------------------------------------------------------------------------
\* Over restarts of the CLI too: "a re-run of the same list replays completed
\* tasks instead of re-executing them".
RunsOnceEver == \A t \in Tasks : Cardinality(ranOn[t]) <= 1
=============================================================================

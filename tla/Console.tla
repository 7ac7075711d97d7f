------------------------------ MODULE Console -------------------------------
(***************************************************************************)
(* A console and the script that starts, restarts and rebuilds it.         *)
(*                                                                         *)
(* scripts/review is run by hand, as often as the operator likes, and      *)
(* several invocations may overlap.  Each resolves the run of the console's *)
(* collator from `status`, and leaves behind one relay actor serving that  *)
(* run: the record file says which process that is, the lock file lets one *)
(* starter at a time spawn.  --recreate, --restart and --restart --task    *)
(* (recreateThenDispatch, resolveThenRestart) stop the actor and the run   *)
(* first and respawn the pane.                                             *)
(*                                                                         *)
(* A process is told apart by pid and start time, so a recycled pid is      *)
(* another process: an actor or a starter is its own identity here, and    *)
(* what may be missing is the start time that was to be recorded.  The     *)
(* console is reduced to its collator: its pane, its runs, its work.       *)
(***************************************************************************)
EXTENDS Naturals, FiniteSets

CONSTANTS Scripts,    \* invocations of the script
          Modes,      \* what an invocation may be asked to do
          MaxRuns,    \* bound: runs the collator's pane may bring up
          MaxActors,  \* bound: relay processes that may be spawned
          Tolerance,  \* passes without its console an actor survives
          Nobody,     \* no holder
          Faults      \* bound: budgets, how often each fault and each task may happen

Budgets == [crash : Nat, capture : Nat, death : Nat, task : Nat, close : Nat, down : Nat,
            throw : Nat]

ASSUME ConsoleConstants ==
    /\ Modes \subseteq {"plain", "recreate", "restart", "task"}
    /\ MaxRuns \in Nat /\ MaxActors \in Nat /\ Tolerance \in Nat \ {0}
    /\ Nobody \notin Scripts
    /\ Faults \subseteq Budgets

Runs == 1..MaxRuns
Actors == 1..MaxActors

VARIABLES
    run,     \* run[r]: "unborn", "booting", "live" or "down"
    work,    \* work[r]: whether r's collator holds a task, staged or running
    pane,    \* the collator's pane: "closed", "coming" or "held" by a run
    actor,   \* actor[a]: its state, the run it serves, its ConsoleWatch streak
    record,  \* the record file: the actor, its run, whether its start time is in it
    lock,    \* the lock file: its holder, whether the start time is in it
    script,  \* the invocations
    faults   \* faults and tasks left

vars == <<run, work, pane, actor, record, lock, script, faults>>
console == <<run, work, pane>>

NoRecord == [actor |-> 0, run |-> 0, pinned |-> TRUE]
NoLock == [holder |-> Nobody, pinned |-> TRUE]

\* An invocation: where it stands, what it was asked, the run it found, what it
\* read of the record and of the lock, the runs it replaces and those still to
\* stop, where it goes after a stop, and whether it has been the only one since
\* it began.
Waiting == [pc |-> "idle", mode |-> "plain", run |-> 0, seen |-> "absent",
            target |-> 0, previous |-> {}, left |-> {}, next |-> "map", holder |-> NoLock,
            alone |-> TRUE]

Over == {"idle", "done", "refused", "crashed"}
Running(s) == script[s].pc \notin Over
Locked == {"spawn", "write", "release"}
Spend(f) == faults[f] > 0 /\ faults' = [faults EXCEPT ![f] = @ - 1]
Go(s, to) == script' = [script EXCEPT ![s].pc = to]

Init ==
    /\ run = [r \in Runs |-> "unborn"]
    /\ work = [r \in Runs |-> FALSE]
    /\ pane = "closed"
    /\ actor = [a \in Actors |-> [state |-> "unborn", run |-> 0, gone |-> 0]]
    /\ record = NoRecord
    /\ lock = NoLock
    /\ script = [s \in Scripts |-> Waiting]
    /\ faults \in Faults

-----------------------------------------------------------------------------
(* What an invocation can see.                                             *)

\* `status`: the runs whose registry still lists the collator.
Holding == {r \in Runs : run[r] \in {"booting", "live"}}
Live == {r \in Runs : run[r] = "live"}

\* consoleRunPins: the one live run that holds the collator; with none, or with
\* several, the question has no answer.
Pin == IF Cardinality(Live) = 1 THEN CHOOSE r \in Live : TRUE ELSE 0

\* settledEnough, of every run that lists the worker.
Settled == \A r \in Holding : run[r] = "live" /\ ~ work[r]

Exists(a) == a # 0 /\ actor[a].state \in {"running", "stopping"}

\* readRelayStatus; a record whose identity cannot be compared accuses nobody.
\* Mutant: a record without a start time counts as one of a dead process.
RecordStatusTrusting ==
    IF record.actor = 0 THEN "absent"
    ELSE IF Exists(record.actor) /\ record.pinned THEN "live" ELSE "stale"
RecordStatus ==
    IF record.actor = 0 THEN "absent"
    ELSE IF ~ record.pinned THEN "unverifiable"
    ELSE IF Exists(record.actor) THEN "live" ELSE "stale"

\* servesConsole: the console, the run and the workers.
\* Mutant: a relay is running, so there is nothing to start.
ServesAnyone(r) == TRUE
Serves(r) == record.run = r

-----------------------------------------------------------------------------
(* Beginning: by mode.                                                     *)

Entry == [plain |-> "ensure", task |-> "wait", recreate |-> "stop", restart |-> "stop"]

\* plannedPane refuses a pane the console does not have before anything is
\* touched; the invocation that gets past it starts here.
Begin(s) ==
    /\ script[s].pc = "idle"
    /\ \E m \in Modes :
          script' = [t \in Scripts |->
             IF t = s
             THEN [Waiting EXCEPT !.mode = m,
                     !.pc = Entry[m],
                     !.next = "teardown",
                     !.alone = \A u \in Scripts : ~ Running(u)]
             ELSE IF Running(t) THEN [script[t] EXCEPT !.alone = FALSE]
             ELSE script[t]]
    /\ UNCHANGED <<console, actor, record, lock, faults>>

\* recreateThenDispatch, phase 1: the worker must hold nothing, staged tasks
\* included; the runs to replace are the ones this read names.
Wait(s) ==
    /\ script[s].pc = "wait"
    /\ Settled
    /\ script' = [script EXCEPT ![s].pc = "stop", ![s].next = "down",
                                ![s].previous = Holding, ![s].left = Holding]
    /\ UNCHANGED <<console, actor, record, lock, faults>>

\* busyRefusal, at the end of the wait.
Busy(s) ==
    /\ script[s].pc = "wait" /\ ~ Settled
    /\ Go(s, "refused")
    /\ UNCHANGED <<console, actor, record, lock, faults>>

-----------------------------------------------------------------------------
(* Stopping the actor: stopRelay reads the record, then signals the pid in *)
(* it and removes the file, whoever's it is by then.                       *)

StopRead(s) ==
    /\ script[s].pc = "stop"
    /\ script' = [script EXCEPT ![s].pc = "stopping", ![s].seen = RecordStatus,
                                ![s].target = record.actor]
    /\ UNCHANGED <<console, actor, record, lock, faults>>

Removed(s) == record' = IF script[s].seen \in {"stale", "live"} THEN NoRecord ELSE record

StopSignal(s) ==
    /\ script[s].pc = "stopping"
    /\ LET a == script[s].target
       IN  actor' = IF script[s].seen = "live" /\ Exists(a)
                    THEN [actor EXCEPT ![a].state = "stopping"] ELSE actor
    /\ Go(s, "remove")
    /\ UNCHANGED <<console, record, lock, faults>>

StopRemove(s) ==
    /\ script[s].pc = "remove"
    /\ Removed(s)
    /\ Go(s, script[s].next)
    /\ UNCHANGED <<console, actor, lock, faults>>

-----------------------------------------------------------------------------
(* Tearing down and respawning.                                            *)

\* runsHoldingAny: the runs to stop, by worker.
Teardown(s) ==
    /\ script[s].pc = "teardown"
    /\ script' = [script EXCEPT ![s].pc = "down", ![s].previous = Holding,
                                ![s].left = Holding]
    /\ UNCHANGED <<console, actor, record, lock, faults>>

\* `pifleet down --run r`: the run, and whatever task it held, are gone.
Down(s) ==
    /\ script[s].pc = "down"
    /\ \E r \in script[s].left :
          /\ script' = [script EXCEPT ![s].left = @ \ {r}]
          /\ run' = [run EXCEPT ![r] = "down"]
          /\ work' = [work EXCEPT ![r] = FALSE]
    /\ UNCHANGED <<pane, actor, record, lock, faults>>

\* It could not be stopped: worth a line, not a refusal.
DownFails(s) ==
    /\ script[s].pc = "down" /\ Spend("down")
    /\ \E r \in script[s].left : script' = [script EXCEPT ![s].left = @ \ {r}]
    /\ UNCHANGED <<console, actor, record, lock>>

\* restartConsolePane respawns the pane in place; --recreate builds a new
\* workspace and closes the old one.  A pane that was still coming up is
\* replaced by one that is.
Respawn(s) ==
    /\ script[s].pc = "down"
    /\ script[s].left = {}
    /\ script[s].mode = "recreate" \/ pane # "closed"
    /\ pane' = "coming"
    /\ Go(s, IF script[s].mode = "task" THEN "ready" ELSE "map")
    /\ UNCHANGED <<run, work, actor, record, lock, faults>>

\* There is no workspace, so no pane to respawn: restartConsolePane throws.
NoPane(s) ==
    /\ script[s].pc = "down"
    /\ script[s].left = {}
    /\ script[s].mode # "recreate" /\ pane = "closed"
    /\ Go(s, "refused")
    /\ UNCHANGED <<console, actor, record, lock, faults>>

\* recreateThenDispatch, phase 4: a live run that is not one of the old ones.
Ready(s) ==
    /\ script[s].pc = "ready"
    /\ \E r \in Live \ script[s].previous :
          script' = [script EXCEPT ![s].pc = "dispatch", ![s].target = r]
    /\ UNCHANGED <<console, actor, record, lock, faults>>

NotReady(s) ==
    /\ script[s].pc = "ready" /\ Live \subseteq script[s].previous
    /\ Go(s, "refused")
    /\ UNCHANGED <<console, actor, record, lock, faults>>

\* Phase 5: a dispatch that does not land is told from one that does.
Dispatch(s) ==
    LET r == script[s].target
        lands == run[r] = "live" /\ ~ work[r]
    IN  /\ script[s].pc = "dispatch"
        /\ work' = IF lands THEN [work EXCEPT ![r] = TRUE] ELSE work
        /\ Go(s, IF lands THEN "map" ELSE "refused")
        /\ UNCHANGED <<run, pane, actor, record, lock, faults>>

\* ensureWorkspace: an open workspace is adopted, a missing one created.
Ensure(s) ==
    /\ script[s].pc = "ensure"
    /\ pane' = IF pane = "closed" THEN "coming" ELSE pane
    /\ Go(s, "map")
    /\ UNCHANGED <<run, work, actor, record, lock, faults>>

-----------------------------------------------------------------------------
(* Starting the actor.                                                     *)

Map(s) ==
    /\ script[s].pc = "map"
    /\ script' = [script EXCEPT ![s].pc = "read", ![s].run = Pin]
    /\ UNCHANGED <<console, actor, record, lock, faults>>

\* startRelay: the record decides whether an actor is needed; one that serves
\* another run is stopped first.
Read(s) ==
    LET r == script[s].run
        st == RecordStatus
        leave == \/ st = "unverifiable"
                 \/ r = 0
                 \/ st = "live" /\ Serves(r)
    IN  /\ script[s].pc = "read"
        /\ script' = [script EXCEPT
               ![s].seen = st,
               ![s].next = "lock",
               ![s].pc = IF leave THEN "done" ELSE IF st = "live" THEN "stop" ELSE "lock"]
        /\ UNCHANGED <<console, actor, record, lock, faults>>

\* acquireRelayLock, its claim: a link that fails when the name exists.
Claimed(s) ==
    \E known \in BOOLEAN :
       /\ IF known THEN UNCHANGED faults ELSE Spend("capture")
       /\ lock' = [holder |-> s, pinned |-> known]

Lock(s) ==
    /\ script[s].pc = "lock" /\ lock = NoLock
    /\ Claimed(s)
    /\ Go(s, "spawn")
    /\ UNCHANGED <<console, actor, record>>

\* Its holder is read,
Contended(s) ==
    /\ script[s].pc = "lock" /\ lock # NoLock
    /\ script' = [script EXCEPT ![s].pc = "judge", ![s].holder = lock]
    /\ UNCHANGED <<console, actor, record, lock, faults>>

\* and then looked up by pid and start time: one that runs keeps the lock, and so
\* does one whose identity cannot be compared.
StaleLock(h) == ~ Running(h.holder)

Judge(s) ==
    /\ script[s].pc = "judge"
    /\ Go(s, IF StaleLock(script[s].holder) THEN "rename" ELSE "done")
    /\ UNCHANGED <<console, actor, record, lock, faults>>

\* The takeover: the lock is renamed aside, whosever it is now.
Takeover(s) ==
    /\ script[s].pc = "rename"
    /\ Go(s, IF lock = NoLock THEN "done" ELSE "reclaim")
    /\ lock' = NoLock
    /\ UNCHANGED <<console, actor, record, faults>>

Reclaim(s) ==
    /\ script[s].pc = "reclaim"
    /\ IF lock = NoLock THEN Claimed(s) /\ Go(s, "spawn")
       ELSE Go(s, "done") /\ UNCHANGED <<lock, faults>>
    /\ UNCHANGED <<console, actor, record>>

\* A detached process is spawned for the run the script resolved.
Spawn(s) ==
    /\ script[s].pc = "spawn"
    /\ \E a \in Actors :
          /\ actor[a].state = "unborn" /\ \A b \in 1..(a - 1) : actor[b].state # "unborn"
          /\ actor' = [actor EXCEPT ![a] = [state |-> "running", run |-> script[s].run, gone |-> 0]]
          /\ script' = [script EXCEPT ![s].pc = "write", ![s].target = a]
    /\ UNCHANGED <<console, record, lock, faults>>

\* writeRelayRecord, with the start time if it could be captured.
Write(s) ==
    /\ script[s].pc = "write"
    /\ \E known \in BOOLEAN :
          /\ IF known THEN UNCHANGED faults ELSE Spend("capture")
          /\ record' = [actor |-> script[s].target, run |-> script[s].run, pinned |-> known]
    /\ Go(s, "release")
    /\ UNCHANGED <<console, actor, lock>>

\* The lock is released by removing its name.
Release(s) ==
    /\ script[s].pc = "release"
    /\ lock' = NoLock
    /\ Go(s, "done")
    /\ UNCHANGED <<console, actor, record, faults>>

\* An invocation dies where it stands.
Crash(s) ==
    /\ Running(s) /\ Spend("crash")
    /\ Go(s, "crashed")
    /\ UNCHANGED <<console, actor, record, lock>>

-----------------------------------------------------------------------------
(* The actor, the pane, the worker, the operator.                          *)

\* ConsoleWatch.observe: a live collator clears the streak.
Streak(a) == IF run[actor[a].run] = "live" THEN 0 ELSE actor[a].gone + 1

\* A pass of the relay loop that ran, which ends the actor at the tolerance.
Pass(a) ==
    /\ actor[a].state = "running"
    /\ actor' = IF Streak(a) >= Tolerance THEN [actor EXCEPT ![a].state = "gone"]
                ELSE [actor EXCEPT ![a].gone = Streak(a)]
    /\ UNCHANGED <<console, record, lock, script, faults>>

\* A pass that throws is told on stderr and the loop goes on; ConsoleWatch has
\* observed nothing, and the streak stays what it was.
PassThrows(a) ==
    /\ actor[a].state = "running" /\ Spend("throw")
    /\ UNCHANGED <<console, actor, record, lock, script>>
Polls(a) == Pass(a) \/ PassThrows(a)

\* SIGTERM takes effect.
Terminated(a) ==
    /\ actor[a].state = "stopping"
    /\ actor' = [actor EXCEPT ![a].state = "gone"]
    /\ UNCHANGED <<console, record, lock, script, faults>>

Dies(a) ==
    /\ actor[a].state = "running" /\ Spend("death")
    /\ actor' = [actor EXCEPT ![a].state = "gone"]
    /\ UNCHANGED <<console, record, lock, script>>

\* The pane's command brings up a run; its collator comes to answer.
Comes ==
    /\ pane = "coming"
    /\ \E r \in Runs :
          /\ run[r] = "unborn" /\ \A q \in 1..(r - 1) : run[q] # "unborn"
          /\ run' = [run EXCEPT ![r] = "booting"]
    /\ pane' = "held"
    /\ UNCHANGED <<work, actor, record, lock, script, faults>>

Boots(r) ==
    /\ run[r] = "booting"
    /\ run' = [run EXCEPT ![r] = "live"]
    /\ UNCHANGED <<work, pane, actor, record, lock, script, faults>>

\* A task for the collator: from the relay, or from the operator.
Assign(r) ==
    /\ run[r] = "live" /\ ~ work[r] /\ Spend("task")
    /\ work' = [work EXCEPT ![r] = TRUE]
    /\ UNCHANGED <<run, pane, actor, record, lock, script>>

Settles(r) ==
    /\ work[r]
    /\ work' = [work EXCEPT ![r] = FALSE]
    /\ UNCHANGED <<run, pane, actor, record, lock, script, faults>>

\* The operator closes the workspace: its runs end with their panes.
Closes ==
    /\ pane # "closed" /\ Spend("close")
    /\ pane' = "closed"
    /\ run' = [r \in Runs |-> IF run[r] \in {"booting", "live"} THEN "down" ELSE run[r]]
    /\ work' = [r \in Runs |-> FALSE]
    /\ UNCHANGED <<actor, record, lock, script>>

-----------------------------------------------------------------------------
Proceeds(s) ==
    \/ Wait(s) \/ Busy(s) \/ StopRead(s) \/ StopSignal(s) \/ StopRemove(s)
    \/ Teardown(s) \/ Down(s) \/ DownFails(s) \/ Respawn(s) \/ NoPane(s)
    \/ Ready(s) \/ NotReady(s) \/ Dispatch(s) \/ Ensure(s)
    \/ Map(s) \/ Read(s) \/ Lock(s) \/ Contended(s) \/ Judge(s) \/ Takeover(s) \/ Reclaim(s)
    \/ Spawn(s) \/ Write(s) \/ Release(s)

Next ==
    \/ \E s \in Scripts : Begin(s) \/ Proceeds(s) \/ Crash(s)
    \/ \E a \in Actors : Polls(a) \/ Terminated(a) \/ Dies(a)
    \/ \E r \in Runs : Boots(r) \/ Assign(r) \/ Settles(r)
    \/ Comes \/ Closes

Spec == Init /\ [][Next]_vars

\* The relay's loop polls, whatever a pass does; a process that was signalled
\* goes.  That not every pass throws is the bound on faults.throw.
Fairness == \A a \in Actors : WF_vars(Polls(a)) /\ WF_vars(Terminated(a))
FairSpec == Spec /\ Fairness

-----------------------------------------------------------------------------
(* Properties.                                                             *)

Locks == [holder : Scripts \cup {Nobody}, pinned : BOOLEAN]
Invocations ==
    [pc : Over \cup Locked \cup
          {"ensure", "wait", "stop", "stopping", "remove", "teardown", "down", "ready",
           "dispatch", "map", "read", "lock", "judge", "rename", "reclaim"},
     mode : {"plain", "recreate", "restart", "task"}, run : 0..MaxRuns,
     seen : {"absent", "stale", "live", "unverifiable"}, target : Nat,
     previous : SUBSET Runs, left : SUBSET Runs, next : {"map", "teardown", "down", "lock"},
     holder : Locks, alone : BOOLEAN]

TypeOK ==
    /\ run \in [Runs -> {"unborn", "booting", "live", "down"}]
    /\ work \in [Runs -> BOOLEAN]
    /\ pane \in {"closed", "coming", "held"}
    /\ actor \in [Actors -> [state : {"unborn", "running", "stopping", "gone"},
                             run : 0..MaxRuns, gone : 0..Tolerance]]
    /\ record \in [actor : 0..MaxActors, run : 0..MaxRuns, pinned : BOOLEAN]
    /\ lock \in Locks
    /\ script \in [Scripts -> Invocations]
    /\ faults \in Budgets

Crashed == \E s \in Scripts : script[s].pc = "crashed"

\* One starter at a time: as long as no invocation died holding the lock, no two
\* are between its claim and its release (acquireRelayLock).  This is a promise
\* to two invocations.  Of three, one may read the first's lock, judge the first
\* gone once it is done, and rename aside the lock the third took meanwhile.
StartersExclude ==
    Crashed \/ \A s, t \in Scripts :
                  script[s].pc \in Locked /\ script[t].pc \in Locked => s = t

Overlapped == \E s \in Scripts : ~ script[s].alone

\* While invocations do not overlap and none dies, an actor that was not told
\* to stop is the one the record names, or its starter is about to write it:
\* there is one, and it can be found and stopped.
ActorAccounted ==
    Crashed \/ Overlapped
    \/ \A a \in Actors : actor[a].state = "running" =>
          record.actor = a \/ \E s \in Scripts : script[s].pc = "write" /\ script[s].target = a

\* One starter holds the console, and one actor serves it that its record can
\* find (run/console-relay.ts: acquireRelayLock, scripts/review: the start).
ConsoleExclusive == StartersExclude /\ ActorAccounted

\* Running the script again is the supervision story: an invocation that has the
\* console to itself, resolved its live run and found no unverifiable record
\* leaves the record of an actor that serves that run, whatever crashed before it
\* and wherever; if it started none, that actor runs.  (One that a crashed
\* invocation had just signalled counts until it is gone.)
Named(r) == record.actor # 0 /\ record.run = r
RerunRecovers ==
    [][\A s \in Scripts :
          /\ script[s].pc \notin Over /\ script'[s].pc = "done" /\ script[s].alone
          /\ script'[s].seen # "unverifiable"
          /\ script[s].run \in Live
          => Named(script[s].run) /\ (script[s].pc = "read" => Exists(record.actor))]_vars

\* An actor whose console went away ends, however often a pass threw, as long as
\* not every one does: it does not poll a dead run forever.
AbandonedExits ==
    \A a \in Actors :
       (actor[a].state = "running" /\ run[actor[a].run] = "down") ~> (actor[a].state = "gone")

\* The actors follow the console: each start leaves one that serves the live
\* run, and one whose run is over ends (console-relay.ts: servesConsole,
\* ConsoleWatch).
ActorFollows == RerunRecovers /\ AbandonedExits

\* `scripts/review` run twice never produces two actors for one run.
OneActor ==
    \A a, b \in Actors :
       actor[a].state = "running" /\ actor[b].state = "running" /\ actor[a].run = actor[b].run
       => a = b

\* Nothing is recreated while the worker still holds work: `down` in a recreate
\* with a task takes no run whose collator holds one.
NothingDestroyed ==
    [][\A s \in Scripts, r \in Runs :
          script[s].mode = "task" /\ script[s].pc = "down" /\ r \in script[s].previous
          /\ run[r] = "live" /\ run'[r] = "down" /\ pane' = pane => ~ work[r]]_vars
=============================================================================

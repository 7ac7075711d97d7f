# pifleet: a specification of the fleet

pifleet (`src/`, TypeScript on Bun) runs a fleet of Pi coding agents: each worker
is one container with one Pi process, watched by one host process, its
*supervisor*; a *run* is a directory of files those processes share; the `pifleet`
commands and the three console actors (review, triage, project manager) drive the
workers through control sockets and read what they wrote. The modules here model
two kinds of thing. The *protocols*, where order matters: who may run what, once,
and what the files say about it after a crash. And the *rules*, pure functions that
relate many fields: what a sweep may claim, how a task is graded, what a worker is
given, what a reader makes of a file that changes under it.

- [The system](#the-system): components, their state, how they interact
- [The modules](#the-modules): what is modelled and how it corresponds to the code
- [The runs](#the-runs): what TLC checks, the bounds, the fairness
- [The theorems](#the-theorems): what TLAPS proves and along which argument
- [Disagreements](#disagreements-between-the-code-and-what-it-says)
- [Not modelled](#not-modelled) and [the plan](#the-plan)

## The system

### How the parts interact

```
 operator ─ pifleet up / dispatch / wait / down / status / report
     │            │ control socket (one JSON line per call, four ways to fail)
     │            ▼
     │      supervisor (1 per worker) ── stdin/stdout JSON lines ──> Pi (container)
     │        │  │  └ fence file (epoch.json), state.json, task records, outbox
     │        │  └ /policy/task, /policy/replies  (read by Pi's extensions)
     │        └ heartbeat ──> registry daemon (1 per run) ── reaper ── kill ladder
     │
     ├─ scheduler (dispatch --auto): list of tasks, DAG, budget ──> supervisors
     ├─ review relay actor:  request.json -> lenses -> replies -> collator
     ├─ triage actor: clock -> sweep -> verdicts -> incidents -> notifications
     └─ pm console: integration of finished branches
```

Everything durable is a file written by rename, so a write is atomic but several
writes are not; everything between processes is a request over a Unix socket
whose answer may be lost; every `await` in a handler is a point where another
handler, a timer or a line from Pi may run first.

### Inventory

| component (source) | state | operations | what is hard | what makes it correct |
|---|---|---|---|---|
| epoch fence (`rpc/epoch.ts`) | live epoch, high-water mark, attempt ledger, completed ledger; the same on disk behind a write chain | accept, ack, start, interrupt, settle, cancel, recover | crash between memory and disk; several snapshots queued | a number is prompted once, only when it is on disk; retries get the number they were given |
| rpc supervisor (`supervisor/index.ts`, `rpc/`) | phase, epoch, tracker, probe, ladders, settle, record, provenance | dispatch, abort, shutdown; Pi's events; deadline, abort, kill timers; restart | four handlers, three timers and a stream interleave at awaits; Pi is late, silent, wrong or dead | one record per task, of the right outcome; a timer acts only on its own epoch; every accepted task is recorded |
| tui supervisor (`supervisor/tui.ts`) | staged task, transcript cursor | stage, unstage, poll, settle | a human types in the same pane; transcript read against a stage | a turn settles the task that caused it |
| loop breakers (`tool-loop`, `prose-loop`, `prose-detector`) | counters over the event stream and the transcript | observe, trip | stragglers of a settled epoch; a loop that reads as in flight, or as ended well | trips neither early nor never |
| dialogs and credentials (`ui-requests`, `security/refresh`) | armed deadlines; the refresher's instants and generation | answer, expire, clear; tick, inject, fail, abort | a write that fails, a shutdown between; a mint that hangs | whoever waits is answered or told of; a token is replaced in time |
| launch records, configuration, secrets (`config/`, `run/worker-env`, `run/materialize`) | none | parse, resolve, deliver | one value asked for in three layers and fenced in a fourth | a worker gets what every layer grants and nothing else |
| worker-side extensions (`docker/pi-extensions`) | the tally, the outbox, the session | tool calls, submit, remind, trigger | the host stages and unstages meanwhile | what was said to be delivered is on disk |
| scheduler (`orchestrate/`, `dispatch --auto`) | graph, in-flight list, dead set, budget, schedule file | settle pass, dispatch pass, poll | lost answers, workers that die holding a slot, a rotated transcript | no task twice, dependencies first, slots and ceiling hold, it ends |
| registry, daemon, reaper (`run/registry.ts`, `safety/reaper.ts`) | worker table, heartbeats | register, beat, scan, reap, deregister | a scan on a snapshot, applied later | a live worker is never reaped; a dead one is |
| kill ladder (`safety/kill.ts`, `procgroup`, `procstart`) | none | abort, TERM, KILL, confirm | pids are recycled; identity reads fail | no stranger is signalled; `stopped` means gone |
| up / down (`cli/commands`) | run directory, worktrees, containers | launch with rollback; stop in order | partial failure, double down | nothing left running unreported |
| review relay (`run/relay.ts`, `replies-policy.ts`) | request, journal, replies, in-memory dispatched set | pass: classify, issue, wait, harvest, publish, collate, record | two actors, crash between steps, a request rewritten, lost answers | a lens reviews once, the journal tells what ran, the collator reads what was published |
| console start (`run/console-relay.ts`, `scripts/`) | lock file, record file | read, lock, take over, spawn, record, stop | every step is another file | one actor; running it again recovers |
| triage (`run/triage-*.ts`) | cursor, sweep, seats, incidents, deliveries | tick, skip, expire, sweep, advance, deliver | sweeps outlive ticks; delivery fails | no id reused, no incident lost or cleared by failure |
| project manager (`run/pm-*.ts`) | integration state | admit, integrate, verdict | base moves while integrating | only reviewed content lands |
| harvest, reconcile, adjudicate (`harvest/`) | none (reads a run) | read, compare, write evidence | a record and a checkout disagree | a claim is confirmed only by evidence |
| wait, status, monitor, report | none | poll, render | liveness read against records | no false "settled" |
| envelopes and validators (`contracts`, `triage-envelope`, `dispatch-request`, ...) | none | parse, refuse | rules relating several fields | refuse exactly the malformed |
| framing and tailing (`util/jsonl.ts`) | partial line, offset | feed, poll | chunk boundaries, rotation | each line once |
| consoles' panes (`backends/cmux/operations*`) | none: cmux's tree | plan, split, read, resize, adopt, replace | a border two panes share, a person who drags one; a build that fails midway | every worker its pane, every pane its share; no console lost |
| doctor (`cli/commands/doctor`) | none | probe, diagnose, exit | each tool can be absent, old, mute or answer half | it exits successfully only where what it needs answers |
| backends, containers (`container/`), egress proxying and redaction (`security/`), roles, skills | little or none | argv, I/O, parsing | outside effects | - |

`PROJECT.json` lists every component with its sources and status, and every
hazard at the line where it bites.

## The modules

Protocols, each a state machine:

| module | models | run | proved in |
|---|---|---|---|
| `Fence` | the operations of `EpochManager` on its snapshot (accept, ack, start, settle, cancel, recover): pure operators on one record | through its users | - |
| `EpochLedger` | the abstract promise: a number is issued at most once, to one attempt, and gets at most one outcome | as `ImplementsLedger` | - |
| `EpochFence` | the allocator with its write chain, crash and restart | `epoch_fence` | `EpochFence_proofs` |
| `Supervisor` | the rpc-mode supervisor, its timers, its Pi child, its fence file, records and `/policy/task` | `supervisor*` | `Supervisor_proofs` |
| `TuiSupervisor` | the supervisor of a pane a person may type in: stage, unstage, transcript poll, deadline, settle, shutdown, with the drop and the extension that fires on it | `tui` | - |
| `TaskGraph`, `Budget` | `orchestrate/graph.ts` and `safety/budget.ts` as operators on a function from tasks to nodes and on a record | through `Scheduler` | `Scheduler_proofs` |
| `Scheduler` | `runSchedule` with the I/O of `dispatch --auto`, over workers that run, die and rotate | `scheduler` | `Scheduler_proofs` |
| `Relay` | the review console's relay actor, its files, its lenses and its collator, one or two processes | `relay` | `Relay_proofs` |
| `Console` | `scripts/review`: resolve, recreate, restart, dispatch, lock, spawn, record; the actor's watch | `console` | `Console_proofs` |
| `Incident`, `Triage` | the incident record of a subject; the triage actor's loop over sweeps, workers and records | `triage` | `Triage_proofs` |
| `KillLadder` | `signalIfSame`, `confirmGroup` and the climbs of two killers, read by read, over pids that are freed and reused | through `Lifecycle` | `Lifecycle_proofs` |
| `Lifecycle` | registry, reaper and `down` over supervisors that start, beat, wedge, die and stop | `lifecycle` | `Lifecycle_proofs` |
| `Launch` | `up`, every step and refusal, two of them over one network, relay and repository | `launch` | `Launch_proofs` |

Rules, each a set of pure operators over one observation, which `MCRules` feeds
with every member of small sets of inputs (run `rules`):

| module | models | property of `MCRules` |
|---|---|---|
| `SweepVerdict`, `Inventory` | what a triage sweep may say of a service, from the targets file to the document; the two files as they are loaded | `ClearIsEarned` |
| `Harvest` | a task's verdict: git, outbox, exam, claim, collation; what the collator of a review is told of each lens | `VerdictHonest` |
| `Project`, `Tree` | the project manager's merges, phases and reviews; the scan that disarms a checkout | `MergesInspected` |
| `Grants` | what a worker gets: config layers, secrets, models, mounts, inputs | `GrantsOnly` |
| `Lines`, `Watch`, `RunFiles` | tailing, transcripts, `wait`, the monitor, the documents of a run directory, the model probe | `ReadersTrue` |
| `Doctor` | what `pifleet doctor` concludes of a machine | `ReadersTrue` |
| `Seat` | the tools in a worker's container and the host's reading of what they write | `RequestsHeld` |
| `Panes` | the panes each console plans; how they are split, corrected, adopted and replaced | `ConsolesTrue` |
| `Watchdogs` | loops in a transcript, silent turns, dialogs, the credential's refresher | `SeatsWatched` |

`Supervisor`, `TuiSupervisor` and `EpochFence` are over the same `Fence`;
`Supervisor` is shown to implement `EpochLedger` through its own fence file, and
`EpochFence` is that fence alone, small enough to prove about for all sizes.
`Scheduler` composes `TaskGraph` and `Budget`, `Triage` extends `Incident`,
`Lifecycle` extends `KillLadder`, `Inventory` extends `SweepVerdict`. A component
that another talks to is reduced there to what it promises: a supervisor, for the
scheduler and the relay, has one live task, answers an attempt as it was answered
before, refuses a completed task, and its calls fail in the four ways of
`socketRequest`; a sweep's assessment, for `Triage`, is a signal, whose rules are
`SweepVerdict`'s; a document, for `Harvest`, is its fate under its schema.

### EpochFence

State: `fence` (the in-memory snapshot), `writes` (queued snapshots, each taken
synchronously as `persist()` does), `disk`, whether the `process` is up, and three
observation variables: which accepts await their write, which prompts went out,
who was told which number. `Accept` is `EpochManager.accept`; `SendPrompt` is the
caller's continuation after the awaited write; `WriteLands` applies the head of the
chain; `Crash` drops memory and the queue at any point; `Restart` is recovery from
the file, which burns a live epoch. Keys are a task and an attempt.

### Supervisor

One process, `sup`, with the fields of the closure in `runSupervisor`: the epoch
manager, the tracker flags, the current probe, `settling` per epoch, the timers,
`stdin` to Pi, whether stdout ended. A handler is cut at each `await`: a dispatch
is `Dispatch` (accept and persist), `DispatchPolicy` (provenance written),
`DispatchArm` (baseline sampled, deadline armed), `DispatchSend` (prompt written),
then the ack: `DispatchResume` or `DispatchTimeout`. A settle is `SettleStart`
inside whatever decides it, `SettleReady` (its fence write is durable),
`SettleRecord`, `SettleFinish`. Pi's lines are consumed one at a time by `Line`
actions; `Microtask` gives the rejection of a pending call its priority over the
next line. Completion is the two `get_state` answers that `probe` correlates
(`OnState`, `Confirms`). The deadline and the
prose breaker start a ladder (`Deadline`, `AbortDue`, `AbortEscalates`,
`ProseEscalates`) that ends with a kill of the child, `ChildExit`, `ExitFlushed`.
`Crash`, `Relaunch`, `Recover` are a supervisor that dies and its replacement.
`Pi*` is the child: external, modelled from what the client sends it and what it
expects back.

Reduced: the tracker's retry and queue counters to `willRetry`; content of events
to their type, epoch and key; the tree sample to a step. The credential loop, the
dialogs and the prose detector's counting are `Watchdogs`. Left out: steering,
`export_html`.

### Scheduler

`cli` is the loop of `runSchedule`; its `pc` names the awaited call. A round is a
settle pass (`ReadSettled`, `ReadHealth`, `ReadSilence`, `BookSpend`,
`SettlePassDone`), a probe of each worker (`Probe`, `ProbePassDone`) and a dispatch
pass (`Offer*`, then the outcomes of one call: `Accepted`, `Declined`, `InDoubt`,
`Unreachable`, `Escapes`, and `PassDone`). A worker handles a request it was mailed
even after the caller gave up on it. `Crash` and `Rerun` are the same command
started again on the same run directory.

The tasks a pass still has to offer are a set, from which the first in list order is
taken; a sweep of the graph gives each task what its first offending dependency makes
of it, which is what visiting the tasks in topological order does. Three histories
observe: `ranOn` (where a task was started), `overran` (a worker burned more than the
reserve on one task, or was at work before anything was reserved) and `blind` (some
spend could not be read when it was booked; a crash does not make it readable). What
is assumed of the constants is what the code checks or gets: a fleet without a worker
left out, lists that `TaskGraph`'s constructor accepts (known dependencies and no
cycle), and workers that were idle or at work under records of their own.

### Relay

Each element of `Actors` is one relay process; `actor[x]` is its memory, with what
it has sent and to whom, and `mail` the dispatches not yet answered. A pass is `BeginPass`, then per
parent `Skip`, `Take` or `Decline`, `Issue` (all lens dispatches go out together and
are answered independently: `Deliver`, `Unreachable`, `Lost`), `NoneLanded` or
`Harvest`, `Publish` or `PublishFails`, `Declare`, `Collate`, `Record`, `EndPass`.
`Harvest` waits for the lenses that accepted, and takes the reports that could be
read. `WriteRequest` is the operator's console writing or rewriting a request;
`StartActor` starts a second process. A task id of a lens is derived from the
parent and the lens; the attempt also from the brief, which is what lets a worker
tell the same order from a reworded one.

### KillLadder and Lifecycle

`os[p]` is the process that has pid `p`; a supervisor's pid is the one it was
launched with (`Home`), and once it is gone the pid may go to a stranger (`Fork`).
`ladder[k]` is where one of the two killers stands with its target. Each `ps` is an
action: the identity (`Same`), the group (`Group`, `Recheck`), the identity again
(`Still`), the system call (`Signal`), the reads after a grace (`After`,
`AwaitGone`). A read may fail (`unread`), the call may be refused (`eperm`), a killed
process may outlive its grace (`stuck`). The start time is compared as "the pid is
held by the recorded process", and as "never equal" when none was captured.

A supervisor boots (`Boots` writes `state.json`), `Registers`, `Spawns` its container,
`Serves` after its first `get_state`, `Beats`, and on a signal or a call stops
(`ChildExits`, `Deregisters`, `Exits`). The reaper is `BeginScan` over a snapshot of
the table, `Observe` for each worker (which starts a climb on a stale one),
`ReapContainer` for what a climb says, `Apply` of the reports to the table as it then
is; `ScanAborts` is the throw that loses a scan. `down` takes the workers one at a
time: `Unlaunched`, or `Anchor` and `AnchorGroup`, `Ask`, the climb, `Verdict`,
`RemoveContainer`; then `StopDaemon` and `Prune`.

Reduced: the `docker run` is one step with its supervisor's; a `docker rm` succeeds;
the daemon's own ladder is `StopDaemon`; a checkout has no dirt check. A pid is not
reused in the microseconds between a killer's last read and its system call, which
the code cannot exclude either and says so. `Spawns` leaves out a child that dies
of itself, and tui mode.

### TuiSupervisor

No prompt is sent: `Stage` allocates an epoch, the CLI leaves the brief in the
drop, the extension in Pi fires on it (`Fire`, `Begins`, `Works`, `Ends`), and a
poll (`Poll`, `PollTriggered`) decides from the session file when the turn began
and ended. The file names no task; an entry's `of` is what the model knows and the
code does not. `Type` is the person, `Reset` a replaced session file, `Unstage`
the release of a stage. `Handlers` are the awaits of a stage, an unstage and a
settle; `Deadline` and `Escalates` the timer and its grace. A shutdown waits for the
settle it starts itself and then exits (`Shutdown`, `Exit`), whatever others are under
way. What a loop is and when
a turn reads as over is `Watchdogs`.

### Console

`script[s]` is one invocation of `scripts/review` in one of its four modes. It
resolves the run (`Begin`, `Wait`, `Busy`), stops the actor the record names
(`StopRead`, `StopSignal`, `StopRemove`), takes down, respawns and awaits the pane
(`Teardown`, `Down`, `Respawn`, `Ready`), dispatches, then starts: `Read`, `Lock` or
`Contended`, `Judge`, `Takeover`, `Reclaim`, `Spawn`, `Write`, `Release`. Any step may
be the last (`Crash`). An actor's `Pass` looks whether its console still exists and
counts the misses of `ConsoleWatch`; one that throws is caught, and the watch has
observed nothing (`PassThrows`). A process is told apart by pid and start time;
what may be missing is the start time that was to be recorded. Left out: a
transient failure to read the record, EPERM of a signal, an unreadable record.

### Incident and Triage

A sweep is a task of the collator, one of every observer, and the collation.
`actor.pc` walks the loop: `Recycle` or `Withheld`, `Boundary`, `Account`; then the
pass: `Skip`, `Resume` or `OpenSweep`, `Partition`, `Join`, `Collate`, `Collated`,
`Settle` (the incident machine fed once per subject), `Deliver`, `Fold`,
`SaveRecord`, `SaveFile`; then `Watch`, `Sleep`. What survives `Crash` is what is on
disk: the tasks, the records, the cursor file. Workers settle when they please
(`ParentSettles`, `SeatSettles`, `CollateSettles`) or never (`TaskLost`). A record
holds ages in ticks, capped where no comparison tells more. Reduced: one collator
and one environment, the notification channel on, `observer_blocked`, `--once` and refused incident
records left out; the number of a sweep is bounded by `MaxNumber`.

### Launch

`pc[r]` is where one `up` stands: the training guard, config, consent, images,
backend, bridges, the network and its gateway block, the relay (inspect, adopt,
remove, run, connect, verify), the model probe, the record, the scan, then each
worker's clone, remote and baseline (of those whose isolation is a worktree), the inputs
of those the config defines, the mounts, the daemon, the backend or its fallback, and
each worker's pane and container. A config none of whose workers is named has a network
and no relay. Without a config, where only the Pi double runs, the route goes from the
backend to the record and from there to the daemon: no network, relay, probe, scan,
checkout, input or mount.

Each step may throw once, which runs the handlers that the code has and no others;
`Killed` runs none. The handlers may fail too: the rollback of a checkout removes its
remote and its directory or either or neither (`stray` remembers a directory that
stayed), `destroy` may leave the relay (`spare.kept`). No handler is behind the `docker
run`: one that fails may leave the container running or stopped (`spare.half`). The
facts of the host an `up` finds (`site`) are a scenario: seven full ones, among them
one checkout for two workers, no defined worker and no config, and eleven that each
break one gate. One network stands for the base one and the bridges of its providers.

### SweepVerdict and Inventory

From the targets file to a sweep's result: the fences of an inventory, the shares
of the collators, the partition a collator may ask for, echo and window of each
observer's artifact, the assessment of a service and the signal it becomes, the
saturation verdict, the merge of two collations, and what of all that enters the
next envelope. An environment is its kind, cluster context, window and services;
a text is the set of strings it contains. `Inventory` is what the two loads refuse,
and what `config validate` can already say.

### Harvest, Project, Tree

`Harvest` is one observation graded: the facts of git, the outbox under its caps
(paths are numbers, nested directories are flattened in walk order), the exam with
its budget, the reconciliation, the lattice. It is also what the review's relay makes of
the harvests for its collator: the budget of what is inlined (`PlanInlineBudget`; the
code's 64 KiB of 256 are 3 of 5), a lens's fate (`RelayChild`) and the brief
(`CollationBrief`), whose sentences are the claims they make. `Project` folds the merge of one worker
over a batch, each git command able to fail, and derives a phase's resolution
and a review's verdict. `Tree` scans a checkout whose entries are links, files,
directories and git configuration, and moves or comments out what it finds.

### Grants

A layer is a partial function from keys to values; `Secrets`, `Powers`, `Models`
and `Put` of `MCRules` enumerate, for a reader on the operator's model and a writer
on a vendor's, one thing of the config, the host or the disk at a time. A model is
its prefix, name and suffix. Inputs are put in the code's order, and a failure
leaves what came before it.

### Lines, Watch, RunFiles

A file is an identity and symbols, of which one ends a line; a fingerprint is the
bytes it digests, three of the head and three of the tail. `MCRules` lets a file
grow, be rewritten or be replaced between a reader's stat and its reads (`Grow`,
`Rewrite`, `Replace`, `Looks`, `Takes`), three generations deep. `Watch` is `wait`
with its sticky results and grace, and the monitor's clocks, each document read at
its own moment. `RunFiles` reads a document whose size comes from one version and
whose bytes come from the next.

### Seat

The tools' and the host's copies of the rules for a request, side by side; the drop
as tokens, with torn prefixes; and a container that evolves (two epochs, two
tasks, one restart) while a submit writes its files one at a time and the host
stages and unstages. Reduced: the rosters and limits are small (the code's: 8 items,
16 services, 32 KiB of text, 4 MiB of files), Pi's own parameter schemas are left out.

### Doctor

A tool answers a probe with an exit code and the numbers of its banner; the config, the
endpoint's models, the images and the mounts are facts of the machine. Its result is a list
of diagnoses, each of a tool, a complaint and a class of fix; wording and colours are
left out.

### Panes

`Plan` is what a console asks for: who sits in which pane, split off which earlier one,
and what the pane runs; how a command line is quoted is left out, that what is not
plain is refused is not. A workspace is a tree of splits with ratios in whole pixels, as the test's model of
cmux has it, with its least pane of 20. The passes read, resize, read again; a person
may drag any border after any read. Colours, groups and focus are left out.

### Watchdogs

`ReadToolLoop`, `ReadProseLoop` and `ClassifyTurn` over the entries of a turn,
`PollTurn` what one poll makes of them; `Observe` and `OnEvent` the detector of turns
without a call and the epoch window that feeds it; `HandleUiRequest` and
`DialogsWait` the dialogs and their deadlines; `Tick`, `Injected`, `Fails`, `Abort` the
refresher. Calls are one value for name and arguments, a text is its parts, each
long or not and a sentence or not; the thresholds 20 and 96 are 3 and 2; dialog ids
are unique. Time is in polls and ticks.

## The runs

Faults are *budgets*: the constant `Faults` is a set of functions from a kind of
fault to how often it may happen, and `Init` picks one. One run so covers several
scenarios without their product. Each budget is named in the MC module.

| run | checks | bounds |
|---|---|---|
| `epoch_fence` | `PromptDurable`, `PromptOnce`, `RetryAnswered`, refinement `ImplementsLedger` | 2 tasks × 2 attempts, 2 epochs, 2 lives, 2 sequence steps |
| `supervisor` | `SuccessQuiesced`, `RecordDurable`, `EndsOwn`, refinement `ImplementsLedger` | 2 tasks, 2 epochs; budgets Interrupted, PiLate, Stops, Crashes, PiRejects |
| `supervisor_live` | `AcceptedRecorded` | 1 epoch; budget Hangs |
| `supervisor_abandoned` | `SuccessRan`, violated: see [Disagreements](#disagreements-between-the-code-and-what-it-says) | one early deadline |
| `scheduler` | `RunsOnce`, `GraphTrue`, `SlotsTrue`, `BooksOnlyGrow`, `ScheduleEnds` | 3 tasks (one dependency), 2 workers, lists Fork and Pinned, 4 budgets |
| `relay` | `ReviewedOnce`, `JournalTruthful`, `ReadsPublished`, `FanOutHappens` | 2 lenses and a collator, 2 parents, 2 contents, 2 processes, 4 budgets |
| `lifecycle` | `NoStranger`, `StoppedIsGone`, `PruneSafe`, `ReaperSpares`, `Collects` | 2 workers, 2 pids, a stranger, staleness after 1 scan; budgets Refusals, Recycled, Slow, Uncaptured on one launched worker, Together on two |
| `console` | `ConsoleExclusive`, `ActorFollows` | 2 invocations in 4 modes, 3 runs, 2 actors, tolerance 2; budgets Crashes, Uncaptured, Vanishes, Busied, Stubborn, Throwing |
| `tui` | `OwnTurn`, `TurnBounded` | 2 tasks, 2 epochs, 2 session files of 4 entries; budgets Attended, Typed, Released, Stopped |
| `triage` | `SweepOnce`, `ToldOrNoted`, `GoesOn` | 2 observers, 2 sweeps, 2 runs of the collator, expiry 2; budgets Late, LostTask, Recycled, Halted, Restarted |
| `launch` | `NothingStranded`, `StartsFenced` | 2 `up`s of 2 workers, 7 hosts with the failures, kills and failed removals of their budgets (at most one of each), 11 that refuse |
| `rules` | `ClearIsEarned`, `VerdictHonest`, `MergesInspected`, `GrantsOnly`, `ReadersTrue`, `RequestsHeld`, `ConsolesTrue`, `SeatsWatched` | about 1.8 million inputs and steps |

A property with parts is a conjunction of named ones, each commented where it
stands: `EndsOwn` of `LadderOwn` and `RejectionOwn`; `GraphTrue` of
`DependenciesFirst` and `ScheduleTrue`; `SlotsTrue` of `SlotsOwned` and `SlotsHeld`;
`BooksOnlyGrow` of `CeilingHolds` and `SpendOnlyGrows`; `Collects` of `WedgedReaped`
and `OrphanCollected`; `ConsoleExclusive` of `StartersExclude` and `ActorAccounted`;
`ActorFollows` of `RerunRecovers` and `AbandonedExits`; `OwnTurn` of `TurnOnce` and
`SettledByOwnTurn`; `NothingStranded` of `Reapable` and `RelayWhole`. In `MCRules`:
`ClearIsEarned` of `SweepsEarned` and `InventoryTrue`; `MergesInspected` of
`MergesGated`, `TreeTrue` and `PhaseEarned`; `VerdictHonest` of `HarvestHonest` and `BriefHonest`; `ReadersTrue` of ten (`LinesOnce`,
`WaitHonest`, `ClocksOrdered`, `WatchersAgree`, `PathsTrue`, `LogTrue`, `FilesRead`,
`RecordsRead`, `ProbesTrue`, `DoctorTrue`); `RequestsHeld` of five (`RequestsRead`, `RepliesGiven`,
`DropsWhole`, `BannersTrue`, `ReportsWhole`); `ConsolesTrue` of `PanesSettle`,
`ConsolesKept` and `PlansTrue`; `SeatsWatched` of `TurnJudged`, `EpochJudged`, `DialogsHeard` and
`CredentialKept`.

**Why the bounds are enough to be interesting.** Two epochs are what it takes for a
timer, a probe, an ack or a write of one epoch to meet the next one, which is every
cross-talk the supervisor guards against. Two attempts of each of two tasks give
retries of the live, the completed and the unknown. Two lives give a crash and
what its successor makes of the file. Three tasks with one edge on two workers give
a free worker while a dependency runs, a pin to a dead worker, and a slot held by
nobody else's task. Two lenses and two parents are a partial fan-out and two turns
at once; two relay processes are the outcome of a start that raced. One launched
worker with both killers gives every order of their reads against its death and a
stranger's birth; two launched workers give a registration during the other's climb.
Two invocations of a script are a race for its lock and a crash before a rerun; three
runs are a live one, the one recreated from it, and a third that the second
invocation makes. Two sweeps are one that is given up and its successor; two runs of
the collator are a recycle with a sweep behind it. Two `up`s with different targets
are a relay that is adopted, replaced and replaced back. In `rules`, each input set
has every fate of every field it varies, two of what must be told apart (workers,
services, environments, files), and one more than each small limit. The proofs of
the fence, the supervisor, the scheduler, the relay, the lifecycle, `up`, triage and the console do away
with these bounds for what they cover.

`SuccessQuiesced` leaves out an epoch that follows one whose ladder escalated:
that epoch was settled without quiescence on purpose, and what happens after it is
`supervisor_abandoned`. Failed fence writes are only in `LossySpec`: with one,
`ImplementsLedger`, `RecordDurable` and `AcceptedRecorded` do not hold.
`SettledByOwnTurn` is about a pane that was left alone (`Undisturbed`): a person who
types, a deadline or a loop whose turn goes on, and an unstage each break it, as told
below. `RejectionOwn`, the second half of `EndsOwn`, holds for this run's budgets and
is no theorem: an epoch that was killed before its prompt was answered and whose
prompt is then rejected (`OneAbandoned`) ends the next one.

**Deadlock** is off in every run: an idle supervisor with no epoch left, a scheduler
that returned, a relay that was stopped, a run that was taken down, an `up` that
ended, and an input that was judged really do stop.

**Fairness.** `Supervisor!Fairness` is weak fairness of the process's own handlers
and timers (the event loop runs what is ready; `setTimeout` fires), of the
write chain, of the shutdown grace, and of a *killed* Pi dying (SIGKILL to the
group). Pi itself has none: it may never answer. That is the point of
`AcceptedRecorded`: the deadline is what makes it true. `TuiSupervisor!Fairness` is
the same for its handlers, its poll once a turn was triggered, its deadline and its
grace; neither the extension nor the person has any. `Scheduler!Fairness` is weak
fairness of the loop's own steps, of a supervisor answering or its call timing out,
and of a running task ending (its supervisor's deadline, shown above). A worker that
falls silent has no fairness; its slot is freed by the health and silence checks.
`Relay!Fairness` is weak fairness of each running relay's pass, of calls returning,
and of accepted tasks finishing (which `AcceptedRecorded` shows of a supervisor); no
relay need ever be started again. `FanOutHappens` promises nothing when no relay
runs, when a worker is dead, or for a request whose wording was changed after
some lens had taken the old one up (every lens then answers `already_completed`,
the pass ends `none_landed`, and so it stays). `Lifecycle!Fairness` is weak fairness
of each killer's next step (`ps` answers or fails, graces end), of the daemon's timer
and loop, of a heartbeat that can beat, and of `down` once started. A supervisor has
none: it may hang in any phase, and `WedgedReaped` holds all the same.
`Console!Fairness` is of an actor's poll and of the end of a process that was
signalled; the poll may be one that throws, as often as the budget `throw` says, so
`AbandonedExits` promises nothing of an actor every pass of which throws; a script may be abandoned anywhere. `Triage!FairSpec` is of the actor's
loop, whoever starts it again, and of each worker's task ending, unless it is lost.

**Mutants.** Every property of a passing run has a mutant in `PROJECT.json`: a
definition replaced by what a plausible bug would make of it (a dropped guard, a
number reused, a check before the write is durable), under which that run must
violate that property. Operators used by mutants (`SendPromptUnfenced`,
`RecoveredEmpty`, `ConfirmsHasty`, `CountedUnattributed`, ...) sit beside the
definition they replace.

## The theorems

### `EpochFence_proofs`

For any sets of tasks and attempts and any bounds: `TypeCorrect`
(`Spec => []TypeOK`), `Inductive` (`[]IInv`), `PromptsAreDurable`
(`[]PromptDurable`), `EpochsNeverReissued` (`[]PromptOnce`), `RetriesAreAnswered`
(`[]RetryAnswered`) and `FenceFileIsALedger` (`Spec => Ledger!LedgerSpec`, the
refinement): all that the `epoch_fence` run checks.

`PromptOnce` is not inductive: it says nothing of the file a successor will read.
`IInv` adds that disk, each queued snapshot and memory form one chain in which each
follows from the one before by at most one ledger step (`ChainOK`); that the history
of who was issued what agrees with the file (`OwnerOK`); and that a handler that
awaits its write will find its own number on disk when it lands (`WaitingOK`). A crash cuts the chain at
the disk end, which keeps it a chain; a write advances the disk by one link, which
is a step or a stutter of the ledger.

`RetryAnswered` needs one more invariant, `AgreeInv`: memory, every queued snapshot
and the file give an epoch that some handler was given to no attempt but its own. It
has to speak of the handlers that still wait, since their epoch may be in memory only,
and of the queue, since a crash makes any of its prefixes what the successor reads.

The assumption is the one the code makes: a queued write lands in order or is lost
with the process. A write that fails while the process lives is outside of it.

### `Relay_proofs`

For any lenses, parents, contents and any number of relay processes:
`TypeCorrect`, `ReviewsOnce` (`[]ReviewedOnce`), `JournalTells`
(`[]JournalTruthful`) and `CollationsFindReports` (`[]ReadsPublished`).

That a lens reviews a parent once rests on the worker, not on the relay: two
processes do dispatch the same child. The inductive invariant `IInv` says that a
worker which accepted a task is running it, has completed it, or is dead
(`NeverForgotten`), so no second attempt of it starts (`OneAttempt`). What the
journal says rests on the mail: a message names the dispatch its sender has under
way (`MailOwn`), a dispatch is answered only if sent (`SentWhen`), one that landed
was accepted under the wording the process holds (`LandedRan`). What the collator
finds rests on the order of a pass: a process that gets as far as declaring or
collating has published every report it will name (`PublishedFirst`), and
published replies are never removed.

The proof has one lemma per action over a common frame (`QuietStep` for actions
that touch no worker, `RestStep` for those that return a process to rest,
`StepKeeps` for the rest).

### `Lifecycle_proofs`

For any workers, strangers, pids, staleness threshold and any scenario of faults:
`TypeCorrect`, `SignalsOnlyOurs` (`[]NoStranger`), `StopsAreStops`
(`[]StoppedIsGone`), `PrunesAreSafe` (`[]PruneSafe`), `ReaperSparesLive`
(`[]ReaperSpares`), `TableKeepsLive` (`[]Listed`) and `BeatingIsSpared`
(`BeatingSpared`). They rest on distinct pids for distinct workers
(`HomeAssumption`).

The invariant comes in three parts. `SystemInv` is about the climbs: a killer about
to signal has the pid of its target or of nobody (`Aimed`), and a climb that ended
with `gone`, by a killer that has a start time to compare, ended so because its target
is (`OverTrue`). `RegistryInv` carries that to the records: the reaper compares the
start time of the file (`ReaperKnows`), so what a scan put down as gone is
(`ReapedGone`), and whoever beats has done so since it was last observed
(`BeatKept`). `DownInv` does so for the reports, which alone decide what is pruned
(`PrunedReported`). Each action disturbs one part; `DownKept` and `RegistryKept`
carry the others across it.

### `Scheduler_proofs`

For any fleet, task lists, cap, ceiling, costs and budgets of faults: `TypeCorrect`,
`Invariant` (`[]IInv`), `SlotsAreTrue` (`[]SlotsTrue`), `NeverTwice` (`[]RunsOnce`),
`GraphIsTrue` (`GraphTrue`) and `BooksAreTrue` (`BooksOnlyGrow`), which are all the
safety the `scheduler` run checks.

None of them is inductive. `IInv` says, beside the types, of each awaited call what
it was made for and what has changed since:

- *The lists and slots.* A task in flight is in the list once and dispatched in the
  graph (`FlightInv`); the one in hand is in neither list and stands as its step left
  it (`HandInv`); each holds its reservation until it is booked (`SlotsInv`). So a slot
  is held by something that will release it.
- *The socket.* The only request still awaited is that of the task in hand, the last
  of its worker's socket (`MailInv`). A request the caller gave up on may still be
  handled: that is why `OnceInv` counts a task as *placed* where it ran or where a
  request for it lies, and why `RunsOnce` is about one life of the scheduler. A second
  life does not know of the first one's requests; a worker's own record is what keeps
  it from repeating, and only on that worker.
- *The records.* A verdict that satisfies a dependency was read from a record, and a
  worker writes one only for its live task, over none (`RecordInv`). With `GraphInv`
  (what is ready or dispatched has satisfied dependencies) this carries from the graph
  to the workers that a dependency ended before its dependent began.
- *The files.* The published books are the books (`BooksInv`); the written graph is
  behind by no more than what the pass remembers having changed (`WriteInv`).
- *The ceiling.* `CeilingInv` is the hard one: `spent + reserved * Reserve <= Ceiling`
  survives a booking only if what the booking finds is at most one reserve. While
  nothing went wrong (`Trusted`: first life, every spend readable, nobody over the
  reserve, no verdict unknown) a worker has at most one of a request, a live task
  and unseen tokens (`OneThing`), and one that no entry of the in-flight list follows
  has none of them (`Followed`, `FreeOnly`). So each hold pays for one worker.

The operators need lemmas of their own. `SweepIsSwept`: the sweep, recursive over the
dependencies, is defined for a list without cycles and is the one solution of its
equation, by induction over the depth. `SumIs`: what a fleet has spent is a number.
`MarkSettledIs`, `HandleIs`, `RemoveAtIs` say what the handlers of a settled task, of a
request and of a finished entry change. Induction is `Induction`, over the least number
that is not in a set, since the library's takes an operator as its parameter.

The proof found an error of the model. `Crash` used to forget `blind`, and
`CeilingHolds` excuses a breach by it: after an unreadable booking and a crash in the
same life, the excuse was gone and the breach remained. TLC confirms it under a budget
with a crash and a degraded reading, which is now one of the run's.

### `Launch_proofs`

For any runs, workers, targets, hosts and budgets of faults: `TypeCorrect`,
`Inductive` (`[]IInv`), `StartsAreFenced` (`[]StartsFenced`) and `NothingIsStranded`
(`[]NothingStranded`): all that the `launch` run checks. Assumed of a host: only a worker
the config defines has a provider or a checkout, and without a config none is defined
(`DefinedAssumption`: `up.ts` and `worktree.ts` skip the others), and
what earlier runs left of the relay is not running without its aliases
(`WholeAssumption`).

- *The gates* (`StageInv`): what each stage of an `up` has behind it, among it
  what other runs could undo. That the network is fenced is a fact of the host, kept
  because no `up` lowers it: the one that adopts or makes it only raises it, and none
  gets past an open one. It is a fact of the routes with a config: on the other there is
  no network to fence, and what stands behind its workers is `Manned`, that the run was
  let through for the test double alone.
- *The checkouts* (`MakingInv`): an `up` makes one at a time, so the rollback of a
  failure takes the one that is not on record. Every stage but the making ones and the
  ends has none under way, and an `up` that ended by itself only one that is `stray`:
  that is `Reapable`.
- *The workers* (`WorkerInv`): one that was started keeps what it was started behind;
  `Prune` takes only the checkouts of the dead and of those never started.
- *The relay* (`RelayInv`): one without its aliases is one that some `up` is about to
  connect, unless that `up` was killed, a removal failed or a `docker run` did. Several `up`s may remove,
  run and connect over each other; the name makes them meet.

The proof found an error of the model: `RelayWhole` excused a bad relay by a removal
failure still *unspent*, which made it say nothing of hosts without one and be wrong of
hosts with two. `spare.kept` now remembers the failure itself.

### `Triage_proofs`

For any observers, followed subjects, windows, limits and budgets of faults:
`TypeCorrect`, `Inductive` (`[]IInv`), `SweepsFedOnce` (`[]SweepOnce`) and
`NothingIsSilent` (`[]ToldOrNoted`): all the safety that the `triage` run checks.

- *The sweeps* (`FedInv`, `PassInv`): what a successor may resume is read from the run
  tree alone: artifacts, and no collation. A sweep that was fed is `Over`: a collation
  was dispatched, or no observer wrote anything and none is still at work. What is over
  stays over whatever the workers do (`Keeps`), so a `Resume` finds a sweep that was not
  fed, and a pass keeps that until it settles. Two places make it so: a pass with no
  artifacts joins only when every observer has settled, and one with some dispatches the
  collation before it settles. A refused collation is neither, which is the exception
  `SweepOnce` names and `AssessedOnce` runs into.
- *The announcements* (`ToldInv`): once a pass has tried to deliver, what it has to say
  is told or lost, and what is lost is its own; `Fold` notes exactly the lost, each last
  on its record (`UndeliveredIs`), before the pass has an outcome. That the note is the
  last one matters: the record forgets the oldest.

The operators need lemmas too: `AdvanceIs` (whatever the signal, the incident machine
returns a record and at most one notification) and `LargestIs` (the latest sweep and
the wait after a failure are one of the numbers they are chosen from).

Writing the proof corrected the model in two places: a save that fails in `Fold` notes a
beginning of what was lost, in the order of delivery, where it used to note nothing; and
an unreachable endpoint is an incident of its own beside the saturated one.

### `Console_proofs`

For any runs, actors, tolerance, modes and budgets of faults: `TypeCorrect`, `Inductive`
(`[]IInv`), `TwoStartersExclude` (`[]ConsoleExclusive`, for at most two invocations),
`ActorsAreAccounted` (`[]ActorAccounted`) and `RerunsRecover` (`RerunRecovers`), these two
for any number of invocations. With them, only the liveness of the `console` run
(`AbandonedExits`) is left to TLC.

`AtMostTwo` is not a convenience: `StartersExclude` is false of three, as the table of
disagreements tells, and the proof shows where two is used. An invocation that is about
to rename a lock aside judged its holder gone; of two, that holder is the only other one,
so nobody is left who could have taken the lock meanwhile (`PairInv`).

- *The lock* (`HolderInv`): whoever it names took it and has not let go, or died holding
  it; whoever is judged had begun, and is another.
- *The actors* (`AccountInv`): what an invocation has read of the record tells which
  actors may run: the one it names, or none once that one was signalled or found dead,
  and so until it spawns its own. It speaks only of invocations that neither overlap nor
  die; the code promises no more, since the record is not read again under the lock.
- *The rerun* (`AloneInv`, `RerunInv`): one that has been alone since it began finds the
  lock it read still there when it renames it, free when it claims it again, and its own
  record when it is done. None of it asks what a crash before it left behind.

### `Supervisor_proofs`

For any tasks, attempts, epochs, probes and budgets of faults: `Inductive` (`[]IInv`),
`RecordsAreDurable` (`[]RecordDurable`), `RecordsAreFinal` (`RecordStable`),
`LaddersAreOwn` (`[]LadderOwn`, the first half of `EndsOwn`), `FileStaysALedger`
(`Spec => Ledger!LedgerSpec`), and `SuccessIsQuiesced` (`[]SuccessQuiesced`) with what it
rests on, `LinesAreTraced` (`[]Traces`). Crashes, relaunches, aborts, deadlines, shutdowns, a dying
or silent Pi and answers that come too late may be combined in any number; a run of
TLC takes one combination at a time. They are theorems of `Spec`, whose every queued
write lands or is lost with the process: under `LossySpec` they are false, as `RunOnce`
among the disagreements tells.

The handlers are operators from the memory to the memory, and so is the proof: a lemma
for each of `Send`, `CloseClient`, `Bump`, `MaybeProbe`, `Persist`, `ResetEpoch`,
`SettleStart` says what it does to the seven fields the ledger and the ladders depend on
(`Tracked`), and a handler's lemma composes them (`Handled`, `HandledTwice`).

- *The chain* (`Chain`): from the file through the queued snapshots to memory, each fence
  follows the one before by one step of the ledger or none (`Follows`). The file
  moves along it when a write lands, so it takes single ledger steps, and what it calls
  settled, memory calls settled. An ack is noted in memory alone and written with the next
  snapshot, which is why the last link only has to agree on the ledger (`Noted`).
- *The settlements* (`Awaits`): an epoch under settlement is in the fence, the write it
  waits for contains it, and when no such write is queued any more the file does. The
  record therefore appears after its epoch is on disk; and since `Sound` gives a task
  one completed entry, a record that is already there must be of this very epoch, which
  `Unrecorded` excludes while it waits.
- *The ladders* (`Ladder`): `ResetEpoch` runs with every `Settle`, and an epoch is only
  issued when none is live; between the two nothing arms a ladder.

That a success is quiesced is about lines, not fences: the two `get_state` answers prove
something of Pi only if the `agent_end` before them was this epoch's. The process cannot
see whose it is; the model can, and `Traces` says what follows. It is an invariant of
its own, `Accounted`, of the memory, Pi, its output and what was run, beside `IInv`:

- *Each line once* (`Once`, `Single`). Before its dispatch reaches the send nobody has an
  epoch's prompt; then it is on its way, or Pi has it, or it is gone, and never two of
  these. A line that ends a run (a rejection, an `agent_end` without a retry) is the last
  about it, and by then Pi has let go. Without this a late answer could speak for a run
  that still goes on.
- *Whose lines* (`Behind`, `Ahead`). While every epoch was ended by its own agent_end or
  its own rejection (`Clean`: no escalation, exit or shutdown), what Pi is sent, holds and says of a run is
  the live epoch's; every other dispatch is done, or about to return. Corollary
  `LinesAreTheLiveEpochs`: it is what attribution by the sequence number of the ack
  (`EpochManager.attribute`) is worth, in a process that is never told whose a line is.
- *What was heard* (`Ending`, `Eligible`, `Proven`). Once the tracker saw the end, the live
  epoch's run is over, and stays so until it is settled; a probe that still counts was
  begun after no exit or shutdown; and what a recorded success rests on is never undone.

`CleanRejectionsAreOwn` follows from the second: `RejectionOwn` holds in every state that is
`Clean`, for any budgets; its counterexample needs an epoch that was killed.

TLC checked `Traces` on budgets that pair two kinds of fault before it was proved. The proof has one lemma per action over three frames: an action that leaves
Pi and its lines alone (`PiQuiets`), one that takes a line off Pi's output, one that takes
a command off its input (`ReadKeeps`).

### Only model-checked

Everything about liveness (`AcceptedRecorded`, `ScheduleEnds`, `FanOutHappens`,
`Collects`, `ActorFollows`, `TurnBounded`, `GoesOn`): temporal formulas under fairness
are out of the prover's reach. `RejectionOwn` beyond `Clean` states, which other
budgets than the run's refute, and all of `TuiSupervisor`, where what holds is conditional on a person
who leaves the pane alone. All of the rules: they are functions of data that recurse over
sequences through folds, and what a fold computes for every input needs an induction
over data, which the prover cannot instantiate.

## Disagreements between the code and what it says

One is a run in which TLC finds the sequence:

- `supervisor_abandoned`: a deadline that fires before the prompt went out; the prompt
  goes out anyway, its run is bound to the next epoch, which is settled success.
  `rpc/epoch.ts:31` says "Never advance until the previous epoch is quiesced by the
  correlated double get_state".

Others are stated in their modules and violated in a scenario the MC module keeps;
add the property to a cfg with that scenario to see the trace.

| property | scenario | what happens, and what says otherwise |
|---|---|---|
| `Supervisor!ProvenanceRight` | `Nothing` | a settle frees the epoch before its first `await` and clears `/policy/task` after its last; a task dispatched in between loses its provenance |
| `Supervisor!RestartRecorded` | `OneCrash` | a crash after a settle's fence write and before its record leaves a task completed for the fence and recorded nowhere |
| `Supervisor!RejectionOwn` | `OneAbandoned` | an epoch killed before its prompt was answered; the prompt times out under the next epoch and leaves its id in `livePromptId` (`index.ts:2874`) without a look at whose epoch is live, and its late rejection then fails the next; `index.ts:1687` says a late failure "on the live epoch's prompt fails that epoch" |
| `Supervisor!RunOnce` | `OneFailedWrite`, `LossySpec` | a failed fence write does not stop the handler that awaited it, and the number is issued again after a crash |
| `Scheduler!RunsOnceEver` | `OneRerun` | a re-run of a list executes a completed task on another worker; `dispatch.ts:1274` says it "replays completed answers via the supervisor's attempt dedup instead of re-executing work" |
| `Lifecycle!UnrecordedRefused` | `Uncaptured` | the reaper takes a start time that was never captured for a process that is gone, and removes the container of a live supervisor; `supervisor/index.ts:252` says the sentinel is one "every reader refuses", `registry.ts:796` the same. A healthy one can go stale: its first `get_state` may take 30 s, the heartbeat starts after it, and three intervals are 15 s |
| `Console!OneActor` | two starters | `scripts/review:481` says running it twice "never produces two"; the record is read before the lock is taken and not again under it |
| `Console!StartersExclude` with three scripts | plain | a starter that judged an old holder dead renames aside the lock a third one took meanwhile; `console-relay.ts:711` says "`rename` succeeds for exactly one caller" |
| `Console!NothingDestroyed` | `Busied` | a worker given a task between the recreate's check and its `down` is taken down (`fresh-dispatch.ts:271`) |
| `TuiSupervisor!RunningKept` | `ReleaseOnly` | an unstage releases an epoch whose turn the poll has seen begin; `epoch.ts:366` says "answering `already_started` sends the operator there" |
| `Triage!AssessedOnce` | `OnlyHalted` | a resumed sweep whose collation the budget refuses is assessed again at every tick; `triage-pass.ts:1026` takes "artifacts present AND no `-collate` task" for a proof that it was not |
| `Triage!IdsFresh` | `OnlyRecycled` | a pass that timed out saved no cursor, and in the tree of the collator that replaces a dead one no sweep is seen: the number is given again; `triage-pass.ts:961` says "No sweep ever reuses an id" |
| `Launch!RemoteWreckage` | any two `up`s | a second run's `up` replaces the remote of a live run's checkout; `worktree.ts:471-475` says an existing remote "is the wreckage of a run whose directory was removed by hand". `down --prune` and a rollback remove by name too |
| `Launch!NoHalfBuiltRelay` | any `up` | a `docker run` that fails, or whose client times out, throws before `destroy` exists (`relay.ts:2489-2494`) and may leave its container running without aliases, which the next `up` adopts; `relay.ts:2246` says "A partial failure never leaves a half-built relay behind" |
| `MCRules!ThrownUncertified` | a change whose exam throws | the evidence stays empty, as if no exam had been asked for, and a claim of success is adopted; `harvest/index.ts:876` says it is "Recorded as a reason so the verdict stays uncertifiable". `HarvestHonest` leaves such an exam out |
| an actor outlives its console (`Console!AbandonedExits` holds) | every run of `console` | `ConsoleWatch` ends a relay whose collator stays gone; `console-relay.ts:42-45` still says to bring the runs down "outside this script and the relay keeps polling a run that will never answer, quietly, forever". What is left of that is an actor each pass of which throws |

### Seen while modelling

What the traces and the reading showed beside them, by component.

*Supervisor and scheduler.* A dispatch that throws after an earlier accept of the same
pass leaves `schedule.json` stale; a floored opening balance can be counted twice; a
task may be reported `worker_died` although its record exists.

*Relay.* A collation refused as busy is journalled and never sent again; a relay whose
answers were lost leaves the children out of its journal copy; a second parent's
fan-out redeclares `/policy/replies` while the collation of the first still reads,
which is then refused as stale.

*Lifecycle.* `down` removes the container after a ladder that was refused or outlived,
though `reaper.ts` says of the same outcomes "Neither is a stop, so neither may be
followed by `docker rm -f`"; a worker that `up` is only now launching has no
`state.json`, counts as stopped, and its checkout may be pruned under it.

*Console.* A crash between the signal of an actor and the removal of its record leaves a
record of an actor that is going.

*TuiSupervisor.* The first turn of a new epoch, if it is a single assistant message, can
be swallowed by the epoch's baseline; a settle's later clear of the drop can hit a
stage accepted meanwhile (`index.ts:2919`, `:1098`); an unstage that overlaps a new
stage resets its state; a re-base to zero may include what the operator typed; after a
deadline, or a loop that was settled at once, the pane's turn goes on and may settle the
next epoch (three tasks: the first turn of a new session is not seen from its start).

*Triage.* A zero row stays unassessed when an observer's settle times out; a collation
that settles after its wait is consumed by nobody; a restart clears the delivery
state, so that an undelivered reporter is announced as recovered; a crash before the
delivery, or a save that fails in a settle, loses notifications; the saturation memo may
be stale while correlated; a dead collator with a sweep in flight blocks its own recycle
until `ConsoleWatch` ends the actor; an envelope can be refused for a string its own
projection put there; `previous_state` carries a row's claimed assessment where the
verdict had downgraded it.

*Targets.* `triage-config.ts:909` says of an unfenced console that it "REFUSES TO START",
but an inventory with no k8s environment loads without a kubeconfig (what refuses it
is `environmentsByKind`); `config validate` never runs that check, so it accepts two docker
environments, or differing default windows, that every pass refuses.

*Launch.* Beside a failed `docker run`, a kill between it and the `network connect`, or a
failed removal after a failed connect, leaves a relay without aliases that later `up`s
adopt (`relay.ts:2246-2251`; the model probe then refuses); a rollback swallows the
failure of its own removals (`worktree.ts:786-787`), and the checkout it leaves is one no
record names, which is what the rollback is for; a hazard that could not be neutralized
is reported as "STILL LIVE" (`up.ts:2097-2103`) and the worker is launched on it; a relay replaced by an `up` that
then fails leaves no `relay_targets_replaced` row; a ledger append that fails after
`run.json` was written leaves a record of an absent checkout.

*Harvest and Project.* Past its budget, an unreached `ticket-ops.json` is not clamped and
an unreached collation stays "missing" (`reconcile.ts:1507-1518`); a command that could not be spawned counts as failed. A merge that
succeeded and whose rev-parse or neutralization then failed throws with no row; a failed
rev-parse of the fetched ref leaves the ref; a checkout that could not be read after
an abort does not stop the next worker.

*Tree.* A directory that cannot be listed is not recorded, although `repo-hazards.ts:510`
says what is "unreadable ... is RECORDED as unscanned"; a hook moved aside under a
numbered suffix keeps its execute bit and is found again by the next scan (`:970`).

*Grants.* A flat fleet with prefixed models plans two bridges of one name and target.

*Readers.* A rewrite in place between a poll's stat and its read anchors the tail to the
new content, so that with a shared head the garble is never found out; `jsonl.ts:34-37`
says the readers "must" drain the completed lines of an over-long one, and
`verbgate-collect.ts:208` does not; `wait` reads the record before the supervisor's state,
so a worker that records and dies between the two is reported `worker_died`;
`compose.ts:174` says the fast source "returns `never`" before the first walk, but it
returns an empty list that counts as ok, and the first frame shows an empty fleet; a
promotion whose sources are in flight is skipped, and `after` is not kept when the
source before was skipped.

*Seat.* A re-dispatched epoch of a task whose earlier `result.json` is on disk is never
reminded; a turn that outlives its task submits under the next one, and can use up its
reminder; the tool applies the observers' artifact names on every console, the host only
where services are required.

*Panes.* A review console of two reviewers gets columns of 1/3 and 2/3, though
`operations.ts:1031` says "Give every pane, in every row of two or more panes, an equal
share of the width"; a build that fails midway leaves a workspace of the console's title,
which every console but review's then adopts as it is; after a failed `--recreate` two
workspaces share the title, and the next one closes the first of them only; the
operations console leaves a third worker out silently.

*Watchdogs.* Two dialogs of one id overwrite each other's timer, and the first then
outlives the clear; a dialog whose write fails during the shutdown's grace arms a new
deadline after the clear, so that with `ui_request_timeout` below the grace an incident
is written although `index.ts:3206-3215` says "a shutdown must not write incidents into
it" (`DialogsHeard` neither asks for that incident nor forbids it); a
token whose record fails its schema is reported as a failed attempt though it is in the
container; a credential record that cannot be appended is an event of the log only.

Hazards that others in `PROJECT.json` stand for, and that the same properties cover: the
registry's writes under a scan and a beat at the moment of a climb (`registry.ts:913`,
`reaper.ts:94`: proved as `TableKeepsLive` and `BeatingIsSpared`), the journal's writes
(`relay-journal.ts:462`), a dispatch that counts as failed and is handled later
(`relay.ts:2635`), an `up` that dies between a relay's run and its connect
(`security/relay.ts:2497`), a lens credited without a report (`pm-verdict.ts:375`).

## Not modelled

Components with status `not_modelled` in `PROJECT.json`, each with its reason. Two
kinds: pure I/O whose effect the models take as a step that succeeds or not (argv of
containers, of cmux and tmux, egress proxying); and transformations of text or views of
recorded data, with no state (redaction, contracts and paths, report). The
checks of a control socket's token and peer are not about state either; the four
failures of a call are steps of those who call. Within the modelled ones, what is
reduced is named with each module above and in the notes of `PROJECT.json`; beside
that: `--force-identity`, an operator's leave to signal what could not be verified; a
worker relaunched under the same name; a registry that is unreadable; a supervisor
that dies while `down` is refused it, whose container stays; steering and
`export_html`; the single-task `dispatch` command; `triage --once`.

## The plan

Done, in this order: the epoch fence with its proofs; the rpc supervisor over it;
the scheduler over supervisors; the review relay over supervisors, with its proofs;
the kill ladder, the reaper and `down`, with their proofs; the console's start; the
tui supervisor over the same fence; triage with its incidents; `up`; and the rules:
sweeps, harvest, project manager, grants, readers, seats, panes, watchdogs,
and last `doctor`, the consoles' plans and the brief of a collation.

The proofs since: the scheduler's, for all the safety its run checks, and those of
`up`, of triage and of the console's start; with them, the rest of the fence, the
supervisor's ledger, records and ladders, and last its successes.

What would come next, theorems before modules:

1. `TuiSupervisor`: `TurnOnce`, and `SettledByOwnTurn` from what a baseline leaves out.
2. Two collators in `Triage`, whose environments share a pass and nothing else.

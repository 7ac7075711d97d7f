-------------------------------- MODULE Watch ---------------------------------
(***************************************************************************)
(* Those who watch a run from outside: `pifleet wait`                      *)
(* (cli/commands/wait.ts), `pifleet status` (cli/commands/status.ts) and   *)
(* `pifleet monitor` with its clocks (src/monitor).  They write nothing,   *)
(* and read what supervisors and the registry left, each document at       *)
(* its own moment.                                                         *)
(***************************************************************************)
EXTENDS Naturals, Sequences, SequencesExt, FiniteSets, FiniteSetsExt, Functions

CONSTANTS Grace,          \* STAGE_TRIGGER_GRACE_MS, in polls
          Timeout,        \* --timeout, in polls
          Unconsumed      \* UNCONSUMED_AFTER_MS

-----------------------------------------------------------------------------
(* wait.                                                                   *)

\* EXIT_SEVERITY, worst first, over the codes that wait gives.
Severity == <<"BUDGET", "WORKER_DIED", "TIMEOUT", "STAGED", "PARTIAL", "SUCCESS">>
WorstExit(codes) == Severity[Min({i \in DOMAIN Severity : Severity[i] \in codes \cup {"SUCCESS"}})]

\* exitFor: the reason first, then the verdict.
ExitFor(result) ==
    CASE result.reason = "wait_timeout" -> "TIMEOUT"
      [] result.reason = "worker_died" -> "WORKER_DIED"
      [] result.reason \in {"staged_untriggered", "staged_trigger_stalled"} -> "STAGED"
      [] OTHER -> IF result.verdict = "success" THEN "SUCCESS"
                  ELSE IF result.verdict = "timed_out" THEN "TIMEOUT" ELSE "PARTIAL"

\* What one poll makes of a task it saw as `seen`: the record is looked for
\* first, the supervisor's state after it, at a later moment.  since is the
\* poll that first saw the task staged at a worker that triggers itself, 0
\* for none.
Settled(verdict, reason) == [verdict |-> verdict, reason |-> reason]
Pending == Settled("pending", "none")
Supervised(seen) == seen.worker /\ seen.state # "none"
Dead(seen) == Supervised(seen) /\ (seen.state = "dead" \/ ~seen.running)
Staged(seen) == Supervised(seen) /\ ~Dead(seen) /\ seen.staged
StagedSince(seen, since, poll) ==
    IF since = 0 /\ seen.record = "none" /\ Staged(seen) /\ seen.armed THEN poll ELSE since
Reading(seen, since, poll) ==
    CASE seen.record # "none" -> Settled(seen.record, "recorded")
      [] seen.record = "none" /\ Dead(seen) -> Settled("unknown", "worker_died")
      [] seen.record = "none" /\ Staged(seen) /\ ~seen.armed ->
            Settled("unknown", "staged_untriggered")
      [] seen.record = "none" /\ Staged(seen) /\ seen.armed ->
            IF poll - since <= Grace THEN Pending ELSE Settled("unknown", "staged_trigger_stalled")
      [] OTHER -> Pending

\* One poll over the inbox; a task that has a result is not looked at again.
WaitPoll(w, seen) ==
    LET n == w.polls + 1
        known == DOMAIN w.results
        since == [t \in DOMAIN seen \cup DOMAIN w.since |->
                    LET before == IF t \in DOMAIN w.since THEN w.since[t] ELSE 0
                    IN IF t \in known \/ t \notin DOMAIN seen THEN before
                       ELSE StagedSince(seen[t], before, n)]
        read == [t \in DOMAIN seen \ known |-> Reading(seen[t], since[t], n)]
        done == {t \in DOMAIN read : read[t] # Pending}
        late == n > Timeout /\ done # DOMAIN read
    IN [w EXCEPT !.polls = n, !.since = since,
                 !.over = done = DOMAIN read \/ late,
                 !.late = late,
                 !.results = [t \in known \cup (IF late THEN DOMAIN read ELSE done) |->
                                CASE t \in known -> w.results[t]
                                  [] t \in done -> read[t]
                                  [] OTHER -> Settled("unknown", "wait_timeout")]]
Waiting == [polls |-> 0, results |-> [t \in {} |-> Pending], since |-> [t \in {} |-> 0],
            over |-> FALSE, late |-> FALSE]
WaitExit(w, budget) ==
    WorstExit({ExitFor(w.results[t]) : t \in DOMAIN w.results}
                \cup (IF w.late THEN {"TIMEOUT"} ELSE {})
                \cup (IF budget = "halted" THEN {"BUDGET"} ELSE {}))

-----------------------------------------------------------------------------
(* status.                                                                 *)

\* classifyWorkerSilence: only a busy worker under a live supervisor has a
\* silence, and it runs from the last growth to the last heartbeat, never to
\* the reader's clock.
Silence(w) ==
    LET silent == IF w.beat > w.grew THEN w.beat - w.grew ELSE 0
    IN CASE w.phase # "busy" \/ ~w.alive -> "not_applicable"
         [] w.phase = "busy" /\ w.alive ->
               CASE ~w.counted -> "no_activity_record"
                 [] w.counted /\ w.grew = 0 -> "no_growth_yet"
                 [] w.counted /\ w.grew > 0 /\ w.window = <<>> -> "no_window"
                 [] OTHER -> IF w.beat = 0 THEN "unreadable_stamp"
                             ELSE IF silent >= w.window[2] THEN "wedged"
                             ELSE IF silent >= w.window[1] THEN "quiet" ELSE "working"

\* readDispatchRequests and classifyDispatchRequest: a request is read only
\* under a task this run dispatched.
DispatchReading(r) ==
    CASE r.journal = "unreadable" -> "journal_unreadable"
      [] r.journal = "ok" -> "consumed"
      [] r.journal = "missing" -> IF r.waiting >= Unconsumed THEN "unconsumed" ELSE "waiting"
DispatchRequests(requests, dispatched) ==
    {[task |-> r.task, verdict |-> DispatchReading(r)] :
        r \in {q \in requests : q.task \in dispatched /\ q.file}}

-----------------------------------------------------------------------------
(* monitor: a worker's row, read whole by the slow walk and refreshed by   *)
(* the fast clock from the documents the walk read.                        *)

\* readDockerContainers: a listing that failed or was killed marks nobody, and
\* never an empty set.
ReadDockerContainers(ps) ==
    IF ps.code = 0 THEN [status |-> "ok", names |-> ps.names] ELSE [status |-> "failed", names |-> {}]
ContainerSet(region) == [known |-> region.status = "ok", names |-> region.names]

\* deriveVia: how a dispatch would reach the worker; none where that cannot be
\* told.
DeriveVia(launch, presentation) ==
    CASE launch = "unreadable" -> "none"
      [] launch \in {"missing", "rpc"} -> "rpc"
      [] OTHER -> IF launch # "tui" \/ presentation.is # "ok" THEN "none"
                  ELSE IF presentation.adopted THEN "staged"
                  ELSE IF presentation.headless THEN "none" ELSE "pane"

\* deriveActivity.
DeriveActivity(row, documents, at, window) ==
    CASE row.container = "absent" /\ row.phase # "dead" -> "container-gone"
      [] ~documents.attended /\ ~(documents.presentation.is = "ok" /\ documents.presentation.adopted) -> "rpc"
      [] ~row.session /\ ~row.counted -> "no-transcript"
      [] OTHER -> IF row.counted /\ row.grew > 0 /\ at - row.grew <= window THEN "active" ELSE "quiet"

\* readWorkerRow and refreshWorkerRow: state.json and the fence are read, the
\* rest comes from `documents`; no state is no row, an unreadable state or
\* fence is a failed one.
Row(disk, documents, containers) ==
    CASE disk.state = "missing" -> [status |-> "never"]
      [] disk.state = "unreadable" \/ disk.fence = "unreadable" -> [status |-> "failed"]
      [] OTHER -> [status |-> "ok", documents |-> documents,
                   row |-> [phase |-> disk.state, fence |-> disk.fence, grew |-> disk.grew,
                            counted |-> disk.counted, session |-> disk.session,
                            via |-> DeriveVia(documents.launch, documents.presentation),
                            container |-> IF ~containers.known THEN "unknown"
                                          ELSE IF disk.worker \in containers.names
                                          THEN "present" ELSE "absent"]]
ReadWorkerRow(disk, containers) == Row(disk, disk.documents, containers)
RefreshWorkerRow(before, disk, containers) == Row(disk, before.documents, containers)

\* refreshKnownWorkers, for one run: a row that failed stays as it was until
\* the next walk, one whose state is gone is dropped.
RefreshKnown(rows, disk, containers) ==
    LET next == [w \in DOMAIN rows |->
                    IF rows[w].status # "ok" THEN rows[w]
                    ELSE RefreshWorkerRow(rows[w], disk[w], containers)]
    IN Restrict(next, {w \in DOMAIN rows : next[w].status # "never"})

-----------------------------------------------------------------------------
(* FleetClocks: sources on three clocks, the runs' walk after the          *)
(* containers it marks, and a new run name promoting the walk.             *)

Clocks == <<"fast", "medium", "slow">>
Period == [fast |-> 1, medium |-> 2, slow |-> 4]
Sources == [containers |-> [clock |-> "slow", after |-> "none", promotes |-> "none"],
            runs |-> [clock |-> "slow", after |-> "containers", promotes |-> "none"],
            workers |-> [clock |-> "fast", after |-> "none", promotes |-> "none"],
            runNames |-> [clock |-> "medium", after |-> "none", promotes |-> "slow"]]

Idle == [tick |-> 0, doing |-> "idle", paired |-> FALSE, saw |-> 0]
NoRegion == [status |-> "never", value |-> 0, tick |-> 0, paired |-> FALSE]
FleetClocks == [now |-> 0, names |-> 1, last |-> [k \in ToSet(Clocks) |-> 0],
                fired |-> [k \in ToSet(Clocks) |-> 0], ticks |-> <<>>,
                jobs |-> [s \in DOMAIN Sources |-> Idle],
                regions |-> [s \in DOMAIN Sources |-> NoRegion]]

Due(c) == {k \in ToSet(Clocks) : c.fired[k] = 0 \/ c.now - c.last[k] >= Period[k]}

\* What a read finds: the walk sees the containers region of the moment it
\* begins, the name scan the names on disk.
Saw(c, s) == IF s = "runs" THEN c.regions.containers.tick ELSE c.names
Begin(c, s) == [c EXCEPT !.jobs[s].doing = "reads", !.jobs[s].saw = Saw(c, s)]

\* A pass: the clocks are marked before anything is started, a source still in
\* flight is skipped, and one waits for its dependency only when this pass
\* started that too.
Dispatch(c, t, clocks) ==
    LET starts == {s \in DOMAIN Sources : Sources[s].clock \in clocks /\ c.jobs[s].doing = "idle"}
        job(s) == LET paired == Sources[s].after \in starts
                  IN [tick |-> t, paired |-> paired, saw |-> Saw(c, s),
                      doing |-> IF paired THEN "waits" ELSE "reads"]
    IN [c EXCEPT
          !.last = [k \in DOMAIN @ |-> IF k \in clocks THEN c.now ELSE @[k]],
          !.fired = [k \in DOMAIN @ |-> IF k \in clocks THEN @[k] + 1 ELSE @[k]],
          !.jobs = [s \in DOMAIN @ |-> IF s \in starts THEN job(s) ELSE @[s]]]

Tick(c) ==
    LET t == Len(c.ticks) + 1
        tick == [due |-> Due(c), promoted |-> {}, pass |-> 1, slowBefore |-> c.fired["slow"]]
    IN Dispatch([c EXCEPT !.ticks = Append(@, tick)], t, tick.due)

\* A read ends: its region is the value or the failure, a change of names
\* promotes in the first pass only, and who waited for it begins.
Finish(c, s, ok) ==
    LET job == c.jobs[s]
        before == c.regions[s]
        promotes == /\ ok /\ Sources[s].promotes # "none" /\ before.status = "ok"
                    /\ before.value # job.saw
        ended == [c EXCEPT
                    !.jobs[s] = Idle,
                    !.regions[s] = [status |-> IF ok THEN "ok" ELSE "failed", tick |-> job.tick,
                                    value |-> job.saw, paired |-> job.paired],
                    !.ticks[job.tick].promoted =
                        IF promotes THEN @ \cup {Sources[s].promotes} ELSE @]
        waiting == {w \in DOMAIN Sources : Sources[w].after = s /\ c.jobs[w].doing = "waits"}
    IN IF waiting = {} THEN ended ELSE Begin(ended, CHOOSE w \in waiting : TRUE)

\* Every job of a tick's pass is done: the clocks it promoted, and that were
\* not due with it, are dispatched in a second pass of their own.
PassOver(c, t) ==
    LET tick == c.ticks[t]
        extra == tick.promoted \ tick.due
    IN IF tick.pass = 1 /\ extra # {}
       THEN Dispatch([c EXCEPT !.ticks[t].pass = 2], t, extra)
       ELSE [c EXCEPT !.ticks[t].pass = 3]

\* joinRuns: only the rows that could be read are painted, each with what its
\* worker seems to be doing.
JoinRuns(rows, at, window) ==
    [w \in {v \in DOMAIN rows : rows[v].status = "ok"} |->
        DeriveActivity(rows[w].row, rows[w].documents, at, window)]

\* modelFrom: the fast rows win over the walk's whenever they were read.
PreferFresher(walked, refreshed) == IF refreshed.status = "ok" THEN refreshed ELSE walked
=============================================================================

----------------------------- MODULE Supervisor -----------------------------
(***************************************************************************)
(* One rpc-mode worker supervisor (src/src/supervisor/index.ts) between    *)
(* its control socket and its Pi child: the dispatch, abort and shutdown   *)
(* handlers, the settle path, the completion probe, the deadline and its   *)
(* kill ladder, the child's exit, a crash and a relaunch.                  *)
(*                                                                         *)
(* The process is one JavaScript thread: everything between two awaits is  *)
(* one step, and a step of another handler may come at every await.  All   *)
(* the process remembers is the record sup; the fence file, /policy/task   *)
(* and the task records survive it.  Handlers are operators from sup to    *)
(* sup, so that a handler that settles, probes or persists is the          *)
(* composition the source writes.  A promise that a stdout line resolved   *)
(* continues as a microtask: only further lines of the same chunk come     *)
(* before it.                                                              *)
(*                                                                         *)
(* Pi is modelled from how the supervisor uses it: it reads commands in    *)
(* order, answers each, and streams its run's events on one ordered        *)
(* stdout.  Stream positions are reduced to "the ack" (0) and "after the   *)
(* ack" (1): lines are handled in arrival order, so no third case exists.  *)
(***************************************************************************)
EXTENDS Fence, Sequences, Functions

CONSTANTS None,        \* null task, missing record
          MaxEpoch,    \* bound: epochs handed out
          Probes,      \* bound: completion probes in flight at once, from 1
          Faults       \* bound: budgets, how often each environment event may happen

Epochs == 1 .. MaxEpoch

ASSUME SupervisorConstants ==
    /\ MaxEpoch \in Nat
    /\ {"success", "failed", "timed_out", "aborted"} \subseteq Verdicts
    /\ NoLive \notin LiveEpoch
    /\ None \notin Keys \cup Verdicts

VARIABLES
    sup,       \* the memory of the supervisor process
    disk,      \* the fence file
    policy,    \* /policy/task: the epoch gated verbs are ledgered against
    records,   \* the task record of each task
    pi,        \* the child
    stdout,    \* what the child wrote and the supervisor has not handled
    ran,       \* history: how Pi's run of each epoch's prompt ended
    faults     \* environment events left

vars == <<sup, disk, policy, records, pi, stdout, ran, faults>>

NoProbe == [pc |-> "free", fresh |-> FALSE, first |-> None]
NoSettle == [pc |-> "no", verdict |-> "failed", then |-> "nothing"]

\* A process that has read fence f and serves its control socket; its first
\* get_state, which no probe sends, is not answered yet.
BootProbe == 0
Booted(f) ==
    [proc |-> "up", boot |-> TRUE, fence |-> f, writes |-> <<>>,
     phase |-> "starting",
     disp |-> [e \in Epochs |-> "no"],
     settling |-> [e \in Epochs |-> NoSettle],
     deadline |-> FALSE, abortEsc |-> "no", proseEsc |-> FALSE,
     tripped |-> FALSE, ended |-> FALSE,
     probing |-> FALSE, reprobe |-> FALSE,
     probe |-> [p \in Probes |-> NoProbe],
     promptId |-> 0, abort |-> FALSE, shut |-> "no", exit |-> "no",
     closed |-> FALSE, killed |-> FALSE,
     stdin |-> <<[t |-> "get_state", e |-> BootProbe, k |-> 1]>>]

FreshPi == [alive |-> TRUE, run |-> 0, cut |-> FALSE, queue |-> <<>>, runs |-> 0]

Init ==
    /\ sup = Booted(EmptyFence)
    /\ disk = EmptyFence
    /\ policy = 0
    /\ records = [t \in Tasks |-> None]
    /\ pi = FreshPi
    /\ stdout = <<>>
    /\ ran = [e \in Epochs |-> "no"]
    /\ faults \in Faults

-----------------------------------------------------------------------------
(* Steps the handlers are composed of.                                     *)

Up == sup.proc = "up"

\* client.send; after the client closed it rejects and reaches nobody.
Send(s, cmd) == IF s.closed THEN s ELSE [s EXCEPT !.stdin = Append(@, cmd)]

\* client.close rejects every pending command; an interrupted probe tries
\* again after REPROBE_MS.
Waits(q) == q.pc \in {"first", "second", "late"}
CloseClient(s) ==
    [s EXCEPT !.closed = TRUE, !.stdin = <<>>, !.boot = FALSE,
              !.phase = IF s.boot THEN "dead" ELSE @,
              !.disp = [e \in Epochs |->
                          IF s.disp[e] = "sent" THEN "broken" ELSE s.disp[e]],
              !.probe = [p \in Probes |->
                          IF Waits(s.probe[p]) THEN NoProbe ELSE s.probe[p]],
              !.reprobe = @ \/ \E p \in Probes : s.probe[p].pc \in {"first", "second"},
              !.probing = @ /\ \A p \in Probes : s.probe[p].pc \notin {"first", "second"}]

Cmd(t, e, k) == [t |-> t, e |-> e, k |-> k]
AbortCmd == Cmd("abort", 0, 0)

\* persistFence: by names the continuation that awaits this write.
Persist(s, by) ==
    [s EXCEPT !.writes = Append(@, [snap |-> s.fence, by |-> by])]
Nobody == <<"nobody", 0>>
Written(by) == \A i \in DOMAIN sup.writes : sup.writes[i].by # by

\* A generation bump: no probe token taken before it confirms any more.
Bump(s) ==
    [s EXCEPT !.probe = [p \in Probes |-> [s.probe[p] EXCEPT !.fresh = FALSE]]]

\* maybeProbe: the guard and the first get_state.
MaybeProbe(s) ==
    LET free == {p \in Probes : s.probe[p].pc = "free"} IN
    IF s.probing \/ s.shut # "no" \/ ~ WindowOpen(s.fence) \/ ~ s.ended
    THEN s
    ELSE IF s.closed \/ free = {} THEN [s EXCEPT !.reprobe = TRUE]
    ELSE LET p == CHOOSE q \in free : TRUE IN
         Send([s EXCEPT !.probing = TRUE,
                        !.probe[p] = [pc |-> "first", fresh |-> TRUE,
                                      first |-> None]],
              Cmd("get_state", p, 1))

\* What settle resets in memory before its first await.
ResetEpoch(s) ==
    Bump([s EXCEPT !.probing = FALSE, !.promptId = 0, !.deadline = FALSE,
                   !.abortEsc = "no", !.proseEsc = FALSE,
                   !.ended = FALSE, !.tripped = FALSE])

\* settle, up to its first await.  Nothing live: nothing happens.
SettleStart(s, v, then) ==
    IF ~ IsLive(s.fence) THEN s
    ELSE LET e == s.fence.live.epoch IN
         Persist([ResetEpoch(s) EXCEPT
                    !.fence = Settle(s.fence, v),
                    !.settling[e] = [pc |-> "fence", verdict |-> v, then |-> then]],
                 <<"settle", e>>)

\* beginShutdown, up to its first await; a second call changes nothing.
ShutdownStart(s) ==
    IF s.shut # "no" THEN s
    ELSE IF IsLive(s.fence) THEN Send([s EXCEPT !.shut = "grace"], AbortCmd)
    ELSE [s EXCEPT !.shut = "closing"]

\* Continuations of resolved promises run before anything but the lines that
\* came in the same chunk of stdout: Pi writes no further one meanwhile.
Microtask ==
    \/ \E e \in Epochs : sup.disp[e] \in {"acked", "refused", "broken"}
    \/ \E p \in Probes : sup.probe[p].pc = "answered"

Spend(f) == /\ faults[f] > 0
            /\ faults' = [faults EXCEPT ![f] = @ - 1]

-----------------------------------------------------------------------------
(* The dispatch handler.                                                   *)

Dispatch(k) ==
    /\ Up /\ ~ Microtask
    /\ sup.fence.hwm < MaxEpoch
    /\ Admits(sup.fence, k, 0)
    /\ LET f == Allocate(sup.fence, k) IN
       sup' = Persist([sup EXCEPT !.fence = f, !.disp[f.hwm] = "fence"],
                      <<"dispatch", f.hwm>>)
    /\ UNCHANGED <<disk, policy, records, pi, stdout, ran, faults>>

\* The fence is written: stamp the provenance, claim busy.
DispatchPolicy(e) ==
    /\ Up /\ ~ Microtask
    /\ sup.disp[e] = "fence" /\ Written(<<"dispatch", e>>)
    /\ policy' = e
    /\ sup' = [sup EXCEPT !.disp[e] = "state", !.phase = "busy"]
    /\ UNCHANGED <<disk, records, pi, stdout, ran, faults>>

\* state.json is flushed: arm the deadline, then sample the tree.
DispatchArm(e) ==
    /\ Up /\ ~ Microtask
    /\ sup.disp[e] = "state"
    /\ sup' = [sup EXCEPT !.disp[e] = "sampling", !.deadline = TRUE]
    /\ UNCHANGED <<disk, policy, records, pi, stdout, ran, faults>>

\* The tree is sampled: send the prompt.  On a closed client the send rejects.
DispatchSend(e) ==
    /\ Up /\ ~ Microtask
    /\ sup.disp[e] = "sampling"
    /\ sup' = IF sup.closed THEN [sup EXCEPT !.disp[e] = "broken"]
              ELSE Send([sup EXCEPT !.disp[e] = "sent"], Cmd("prompt", e, 0))
    /\ UNCHANGED <<disk, policy, records, pi, stdout, ran, faults>>

\* The handler resumes with the answer: keep the prompt's id, or settle.
DispatchResume(e) ==
    /\ Up
    /\ \/ /\ sup.disp[e] = "acked"
          /\ sup' = Persist([sup EXCEPT !.disp[e] = "done", !.promptId = e,
                                        !.fence = NoteAck(@, 0)], Nobody)
       \/ /\ sup.disp[e] \in {"refused", "broken"}
          /\ sup' = SettleStart([sup EXCEPT !.disp[e] = "done"], "failed", "nothing")
    /\ UNCHANGED <<disk, policy, records, pi, stdout, ran, faults>>

\* PROMPT_ACK_TIMEOUT_MS passes: the epoch stays live, the id is kept.
DispatchTimeout(e) ==
    /\ Up /\ ~ Microtask
    /\ sup.disp[e] = "sent"
    /\ Spend("timeout")
    /\ sup' = [sup EXCEPT !.disp[e] = "done", !.promptId = e]
    /\ UNCHANGED <<disk, policy, records, pi, stdout, ran>>

-----------------------------------------------------------------------------
(* settle after its first await.                                           *)

\* Mutant: the record does not wait for the fence.
SettleReadyEarly(e) == sup.settling[e].pc = "fence"
SettleReady(e) == sup.settling[e].pc = "fence" /\ Written(<<"settle", e>>)

\* Fence written, tree sampled, drop cleared: the record appears.  A success
\* with tool errors and an untouched tree is recorded failed (no_work_done).
SettleRecord(e, v) ==
    /\ Up /\ ~ Microtask
    /\ SettleReady(e)
    /\ \/ v = sup.settling[e].verdict
       \/ v = "failed" /\ sup.settling[e].verdict = "success"
    /\ LET c == CHOOSE d \in sup.fence.completed : d.epoch = e IN
       records' = [records EXCEPT ![c.task] = [epoch |-> e, verdict |-> v]]
    /\ sup' = [sup EXCEPT !.settling[e].pc = "policy",
                          !.phase = IF sup.shut # "no" THEN @ ELSE "idle"]
    /\ UNCHANGED <<disk, policy, pi, stdout, ran, faults>>

\* The provenance is cleared, then the state; then the caller resumes.
SettleFinish(e) ==
    /\ Up /\ ~ Microtask
    /\ sup.settling[e].pc = "policy"
    /\ policy' = 0
    /\ LET then == sup.settling[e].then
           s == [sup EXCEPT !.settling[e].pc = "done"] IN
       sup' = CASE then = "nothing" -> s
                [] then = "kill"    -> [s EXCEPT !.killed = TRUE]
                [] then = "exit"    -> [s EXCEPT !.phase = "dead", !.exit = "flushing"]
                [] then = "close"   -> [s EXCEPT !.shut = "closing"]
    /\ UNCHANGED <<disk, records, pi, stdout, ran, faults>>

-----------------------------------------------------------------------------
(* Lines of the child's stdout.                                            *)

Line(t) == Up /\ ~ sup.closed /\ stdout # <<>> /\ Head(stdout).t = t

Take == stdout' = Tail(stdout)

\* onStray: the failing answer is the live prompt's.
\* Mutant: nobody looks whose it is.
OfAnyPrompt(e) == TRUE
OfLivePrompt(e) == e = sup.promptId

\* The prompt's answer.  onAck notes it on whatever epoch is live; a late
\* success is ignored, a late failure of the live prompt settles.
OnAnswer ==
    /\ Line("answer")
    /\ Take
    /\ LET e == Head(stdout).e
           ok == Head(stdout).k = 1 IN
       sup' = IF sup.disp[e] = "sent"
              THEN [sup EXCEPT !.fence = NoteAck(@, 0),
                               !.disp[e] = IF ok THEN "acked" ELSE "refused"]
              ELSE IF ~ ok /\ OfLivePrompt(e)
                   THEN SettleStart(sup, "failed", "nothing")
                   ELSE sup
    /\ UNCHANGED <<disk, policy, records, pi, ran, faults>>

\* agent_start: opens the live window, or counts for the open one, or is a
\* prior epoch's.
OnAgentStart ==
    /\ Line("agent_start")
    /\ Take
    /\ sup' = IF IsLive(sup.fence) /\ ~ WindowOpen(sup.fence)
              THEN IF BindsStart(sup.fence, 1)
                   THEN Persist(Bump([sup EXCEPT !.fence = BindStart(@),
                                                 !.ended = FALSE,
                                                 !.tripped = FALSE]), Nobody)
                   ELSE sup
              ELSE IF WindowOpen(sup.fence)
                   THEN MaybeProbe(Bump([sup EXCEPT !.ended = FALSE]))
                   ELSE sup
    /\ UNCHANGED <<disk, policy, records, pi, ran, faults>>

\* turn_end: the run is active.  The prose detector may trip on it: it aborts
\* the run and arms its own kill ladder.
OnTurnEnd ==
    /\ Line("turn_end")
    /\ Take
    /\ IF WindowOpen(sup.fence)
       THEN LET s == Bump(sup)
                interrupted == TimedOut(sup.fence) \/ AbortRequested(sup.fence) IN
            sup' = MaybeProbe(IF interrupted \/ sup.tripped THEN s
                              ELSE Send([s EXCEPT !.tripped = TRUE, !.proseEsc = TRUE],
                                        AbortCmd))
       ELSE UNCHANGED sup
    /\ UNCHANGED <<disk, policy, records, pi, ran, faults>>

\* agent_end; k = 1 when willRetry.
OnAgentEnd ==
    /\ Line("agent_end")
    /\ Take
    /\ sup' = IF WindowOpen(sup.fence)
              THEN MaybeProbe(Bump([sup EXCEPT !.ended = Head(stdout).k = 0]))
              ELSE sup
    /\ UNCHANGED <<disk, policy, records, pi, ran, faults>>

\* A line that is no JSON: the client closes and the child is killed.
OnGarbage ==
    /\ Line("garbage")
    /\ Take
    /\ sup' = [CloseClient(sup) EXCEPT !.killed = TRUE]
    /\ UNCHANGED <<disk, policy, records, pi, ran, faults>>

\* The stream ends: what is pending can no longer be answered.
OnEof ==
    /\ Up /\ ~ Microtask
    /\ ~ sup.closed /\ ~ pi.alive /\ stdout = <<>>
    /\ sup' = CloseClient(sup)
    /\ UNCHANGED <<disk, policy, records, pi, stdout, ran, faults>>

\* get_state answers.  At boot the worker is then reported idle; in a probe
\* the first sends the second, and the second is compared.
OnState ==
    /\ Line("state")
    /\ Take
    /\ LET r == Head(stdout)
           p == r.e IN
       sup' = IF p = BootProbe
              THEN IF sup.boot THEN [sup EXCEPT !.boot = FALSE, !.phase = "idle"] ELSE sup
              ELSE IF r.k = 1 /\ sup.probe[p].pc = "first"
              THEN Send([sup EXCEPT !.probe[p].pc = "second",
                                    !.probe[p].first = r.quiet],
                        Cmd("get_state", p, 2))
              ELSE IF sup.probe[p].pc = "late" THEN [sup EXCEPT !.probe[p] = NoProbe]
              ELSE [sup EXCEPT !.probe[p].pc = "answered",
                               !.probe[p].first =
                                   IF @ = r.quiet THEN @ ELSE None]
    /\ UNCHANGED <<disk, policy, records, pi, ran, faults>>

\* The first get_state is not answered within 30 s: reported dead, still served.
BootTimeout ==
    /\ Up /\ ~ Microtask
    /\ sup.boot
    /\ Spend("timeout")
    /\ sup' = [sup EXCEPT !.boot = FALSE, !.phase = "dead"]
    /\ UNCHANGED <<disk, policy, records, pi, stdout, ran>>

\* confirm: two equal, quiet answers under a fresh token, run still ended.
\* Mutant: without the token and the eligibility check.
ConfirmsHasty(q) == q.first # None /\ q.first[1]
Confirms(q) == q.first # None /\ q.first[1] /\ q.fresh /\ sup.ended

\* Both answers are in: two equal, quiet answers under a fresh token settle;
\* anything else releases the flag and tries again after REPROBE_MS.
ProbeDecides(p) ==
    /\ Up
    /\ sup.probe[p].pc = "answered"
    /\ LET verdict == CASE sup.tripped -> "failed"
                        [] ~ sup.tripped /\ TimedOut(sup.fence) -> "timed_out"
                        [] ~ sup.tripped /\ ~ TimedOut(sup.fence)
                              /\ AbortRequested(sup.fence) -> "aborted"
                        [] OTHER -> "success"
           s == [sup EXCEPT !.probe[p] = NoProbe]
       IN sup' = IF Confirms(sup.probe[p]) THEN SettleStart(s, verdict, "nothing")
                 ELSE [s EXCEPT !.probing = FALSE, !.reprobe = TRUE]
    /\ UNCHANGED <<disk, policy, records, pi, stdout, ran, faults>>

\* A get_state is not answered in time; its slot waits for the stray answer.
ProbeTimeout(p) ==
    /\ Up /\ ~ Microtask
    /\ sup.probe[p].pc \in {"first", "second"}
    /\ Spend("timeout")
    /\ sup' = [sup EXCEPT !.probe[p].pc = "late", !.probing = FALSE, !.reprobe = TRUE]
    /\ UNCHANGED <<disk, policy, records, pi, stdout, ran>>

Reprobe ==
    /\ Up /\ ~ Microtask
    /\ sup.reprobe
    /\ sup' = MaybeProbe([sup EXCEPT !.reprobe = FALSE])
    /\ UNCHANGED <<disk, policy, records, pi, stdout, ran, faults>>

-----------------------------------------------------------------------------
(* Timers and operator commands.                                           *)

\* The heartbeat finds the deadline passed, before or after the prompt went
\* out: sampling the tree may outlast a short deadline.
Deadline ==
    /\ Up /\ ~ Microtask
    /\ ~ sup.boot
    /\ sup.deadline /\ IsLive(sup.fence)
    /\ LET early == sup.disp[sup.fence.live.epoch] \in {"state", "sampling"} IN
       /\ Spend(IF early THEN "early" ELSE "deadline")
       /\ sup' = Send(Persist([sup EXCEPT !.deadline = FALSE,
                                          !.abortEsc = IF early THEN "early" ELSE "late",
                                          !.fence = NoteAbort(NoteTimedOut(@))],
                              Nobody), AbortCmd)
    /\ UNCHANGED <<disk, policy, records, pi, stdout, ran>>

\* ABORT_GRACE_MS is over.  A prompt sent before the abort times out first: its
\* timer is older and as long (PROMPT_ACK_TIMEOUT_MS).
\* Mutant: an epoch that never started is not escalated.
AbortDueStarted ==
    /\ sup.abortEsc # "no"
    /\ WindowOpen(sup.fence)
AbortDue ==
    /\ sup.abortEsc # "no"
    /\ sup.abortEsc = "late" => sup.disp[sup.fence.live.epoch] # "sent"

\* An abort that ended nothing: settle, then kill the child.
AbortEscalates ==
    /\ Up /\ ~ Microtask
    /\ AbortDue
    /\ sup' = SettleStart([sup EXCEPT !.abortEsc = "no"], "timed_out", "kill")
    /\ UNCHANGED <<disk, policy, records, pi, stdout, ran, faults>>

ProseEscalates ==
    /\ Up /\ ~ Microtask
    /\ sup.proseEsc
    /\ sup' = SettleStart([sup EXCEPT !.proseEsc = FALSE], "failed", "kill")
    /\ UNCHANGED <<disk, policy, records, pi, stdout, ran, faults>>

\* The abort command notes the abort on the live epoch and persists ...
AbortRequest ==
    /\ Up /\ ~ Microtask
    /\ IsLive(sup.fence) /\ ~ sup.abort
    /\ Spend("abort")
    /\ sup' = Persist([sup EXCEPT !.abort = TRUE, !.fence = NoteAbort(@)],
                      <<"abort", 0>>)
    /\ UNCHANGED <<disk, policy, records, pi, stdout, ran>>

\* ... and sends the abort after two awaits, to whatever runs by then.
AbortSend ==
    /\ Up /\ ~ Microtask
    /\ sup.abort /\ Written(<<"abort", 0>>)
    /\ sup' = Send([sup EXCEPT !.abort = FALSE], AbortCmd)
    /\ UNCHANGED <<disk, policy, records, pi, stdout, ran, faults>>

\* The shutdown command, or a signal.
Shutdown ==
    /\ Up /\ ~ Microtask
    /\ sup.shut = "no"
    /\ Spend("shutdown")
    /\ sup' = ShutdownStart(sup)
    /\ UNCHANGED <<disk, policy, records, pi, stdout, ran>>

\* The grace loop ends: nothing live any more, or SHUTDOWN_GRACE_MS is over.
ShutdownGrace ==
    /\ Up /\ ~ Microtask
    /\ sup.shut = "grace"
    /\ sup' = IF IsLive(sup.fence)
              THEN SettleStart([sup EXCEPT !.shut = "settling"], "aborted", "close")
              ELSE [sup EXCEPT !.shut = "closing"]
    /\ UNCHANGED <<disk, policy, records, pi, stdout, ran, faults>>

-----------------------------------------------------------------------------
(* The child's exit and the process itself.                                *)

\* onChildExit: the client closes and rejects what is pending; a live epoch
\* is settled first.
ChildExit ==
    /\ Up /\ ~ Microtask
    /\ ~ pi.alive /\ sup.exit = "no"
    /\ LET s == [CloseClient(sup) EXCEPT
                   !.phase = "dead",
                   !.exit = IF IsLive(sup.fence) THEN "settling" ELSE "flushing"]
       IN sup' = SettleStart(s, "failed", "exit")
    /\ stdout' = <<>>
    /\ UNCHANGED <<disk, policy, records, pi, ran, faults>>

\* After the flush: a supervisor that was told to stop exits now.
ExitFlushed ==
    /\ Up /\ ~ Microtask
    /\ sup.exit = "flushing"
    /\ sup' = [sup EXCEPT !.exit = "done",
                          !.proc = IF sup.shut # "no" THEN "gone" ELSE @]
    /\ UNCHANGED <<disk, policy, records, pi, stdout, ran, faults>>

WriteLands ==
    /\ sup.proc \in {"up", "recovering"}
    /\ sup.writes # <<>>
    /\ disk' = Head(sup.writes).snap
    /\ sup' = [sup EXCEPT !.writes = Tail(@)]
    /\ UNCHANGED <<policy, records, pi, stdout, ran, faults>>

\* The write fails: it is logged, the supervisor begins to stop, and the
\* handler that awaits it goes on.
WriteFails ==
    /\ sup.proc \in {"up", "recovering"}
    /\ sup.writes # <<>>
    /\ Spend("write")
    /\ sup' = ShutdownStart([sup EXCEPT !.writes = Tail(@)])
    /\ UNCHANGED <<disk, policy, records, pi, stdout, ran>>

Crash ==
    /\ sup.proc \in {"up", "recovering"}
    /\ Spend("crash")
    /\ sup' = [Booted(EmptyFence) EXCEPT !.proc = "down", !.stdin = <<>>]
    /\ pi' = [FreshPi EXCEPT !.alive = FALSE]
    /\ stdout' = <<>>
    /\ UNCHANGED <<disk, policy, records, ran>>

\* A relaunch settles an epoch it finds live before it serves anybody.
\* Mutant: it starts over with an empty fence.
RecoveredEmpty(f) == Booted(EmptyFence)
Recovered(f) ==
    IF IsLive(f)
    THEN [SettleStart(Booted(f), "failed", "nothing") EXCEPT !.proc = "recovering"]
    ELSE Booted(f)

Relaunch ==
    /\ sup.proc \in {"down", "gone"}
    /\ Spend("relaunch")
    /\ sup' = Recovered(disk)
    /\ pi' = FreshPi
    /\ stdout' = <<>>
    /\ UNCHANGED <<disk, policy, records, ran>>

\* ... writes its record, and only then spawns the child and the socket.
Recover(e) ==
    /\ sup.proc = "recovering"
    /\ SettleReady(e)
    /\ LET c == CHOOSE d \in sup.fence.completed : d.epoch = e IN
       records' = [records EXCEPT ![c.task] = [epoch |-> e, verdict |-> "failed"]]
    /\ sup' = [sup EXCEPT !.proc = "up", !.settling[e].pc = "done"]
    /\ UNCHANGED <<disk, policy, pi, stdout, ran, faults>>

-----------------------------------------------------------------------------
(* Pi, as the supervisor sees it.                                          *)

Emit(line) == stdout' = Append(stdout, line)
Lined(t, e, k) == [t |-> t, e |-> e, k |-> k, quiet |-> None]

PiRuns == pi.alive /\ ~ Microtask
PiReads(t) == sup.proc = "up" /\ PiRuns /\ sup.stdin # <<>> /\ Head(sup.stdin).t = t
PiTakes == sup' = [sup EXCEPT !.stdin = Tail(@)]

\* A prompt is acknowledged on receipt and queued behind a running one.
PiPrompt ==
    /\ PiReads("prompt")
    /\ PiTakes
    /\ LET e == Head(sup.stdin).e IN
       \/ /\ pi' = [pi EXCEPT !.queue = Append(@, e)]
          /\ Emit(Lined("answer", e, 1))
          /\ UNCHANGED faults
       \/ /\ Spend("reject")
          /\ Emit(Lined("answer", e, 0))
          /\ UNCHANGED pi
    /\ UNCHANGED <<disk, policy, records, ran>>

\* A queued prompt starts a run, or fails its preflight after the ack.
PiStart ==
    /\ PiRuns /\ pi.run = 0 /\ pi.queue # <<>>
    /\ LET e == Head(pi.queue) IN
       \/ /\ pi' = [pi EXCEPT !.run = e, !.cut = FALSE, !.runs = @ + 1,
                              !.queue = Tail(@)]
          /\ Emit(Lined("agent_start", e, 0))
          /\ UNCHANGED faults
       \/ /\ Spend("reject")
          /\ pi' = [pi EXCEPT !.queue = Tail(@)]
          /\ Emit(Lined("answer", e, 0))
    /\ UNCHANGED <<sup, disk, policy, records, ran>>

\* A run ends, by itself or because it was aborted; or it will be retried.
PiEnd ==
    /\ PiRuns /\ pi.run # 0
    /\ \/ /\ pi' = [pi EXCEPT !.run = 0, !.cut = FALSE]
          /\ ran' = [ran EXCEPT ![pi.run] = IF pi.cut THEN "cut" ELSE "full"]
          /\ Emit(Lined("agent_end", pi.run, 0))
          /\ UNCHANGED faults
       \/ /\ ~ pi.cut
          /\ Spend("retry")
          /\ pi' = [pi EXCEPT !.run = 0, !.queue = <<pi.run>> \o @]
          /\ Emit(Lined("agent_end", pi.run, 1))
          /\ UNCHANGED ran
    /\ UNCHANGED <<sup, disk, policy, records>>

\* An abort cuts the running run short and means nothing to an idle Pi.
PiAbort ==
    /\ PiReads("abort")
    /\ PiTakes
    /\ pi' = [pi EXCEPT !.cut = pi.run # 0]
    /\ UNCHANGED <<disk, policy, records, stdout, ran, faults>>

\* get_state: streaming, pending messages, and a counter that only grows.
PiState ==
    /\ PiReads("get_state")
    /\ PiTakes
    /\ LET c == Head(sup.stdin) IN
       Emit([t |-> "state", e |-> c.e, k |-> c.k,
             quiet |-> <<pi.run = 0 /\ pi.queue = <<>>, pi.runs>>])
    /\ UNCHANGED <<disk, policy, records, pi, ran, faults>>

\* A turn of prose, with no tool call in it.
PiProse ==
    /\ PiRuns /\ pi.run # 0
    /\ Spend("prose")
    /\ Emit(Lined("turn_end", pi.run, 0))
    /\ UNCHANGED <<sup, disk, policy, records, pi, ran>>

\* Pi dies: killed, its stdin closed by a shutdown, or on its own.
PiDies ==
    /\ PiRuns
    /\ sup.proc = "up"
    /\ \/ (sup.killed \/ sup.shut = "closing") /\ UNCHANGED faults
       \/ Spend("death")
    /\ pi' = [pi EXCEPT !.alive = FALSE, !.run = 0, !.cut = FALSE, !.queue = <<>>]
    /\ UNCHANGED <<sup, disk, policy, records, stdout, ran>>

\* Its container runtime prints on stdout.
PiGarbage ==
    /\ PiRuns
    /\ Spend("garbage")
    /\ Emit(Lined("garbage", 0, 0))
    /\ UNCHANGED <<sup, disk, policy, records, pi, ran>>

-----------------------------------------------------------------------------
Handlers ==
    \/ \E k \in Keys : Dispatch(k)
    \/ \E e \in Epochs : \/ DispatchPolicy(e) \/ DispatchArm(e)
                         \/ DispatchSend(e) \/ DispatchResume(e)
                         \/ DispatchTimeout(e)
    \/ \E e \in Epochs : \/ \E v \in Verdicts : SettleRecord(e, v)
                         \/ SettleFinish(e)
    \/ AbortRequest \/ AbortSend \/ Shutdown \/ ShutdownGrace

Stream ==
    \/ OnAnswer \/ OnAgentStart \/ OnTurnEnd \/ OnAgentEnd \/ OnState
    \/ OnGarbage \/ OnEof
    \/ \E p \in Probes : ProbeDecides(p) \/ ProbeTimeout(p)
    \/ Reprobe \/ BootTimeout

Timers == Deadline \/ AbortEscalates \/ ProseEscalates

Process ==
    \/ ChildExit \/ ExitFlushed \/ WriteLands
    \/ Crash \/ Relaunch
    \/ \E e \in Epochs : Recover(e)

Pi ==
    \/ PiPrompt \/ PiStart \/ PiEnd \/ PiAbort \/ PiState \/ PiProse
    \/ PiDies \/ PiGarbage

Next == Handlers \/ Stream \/ Timers \/ Process \/ Pi

Spec == Init /\ [][Next]_vars

\* The same on a disk that may refuse a write.
LossySpec == Init /\ [][Next \/ WriteFails]_vars

\* What the event loop, the timers and the disk guarantee.  Nothing is asked
\* of Pi, which may hang at any point, but to die when it is killed.
Fairness ==
    /\ \A e \in Epochs :
        /\ WF_vars(DispatchPolicy(e)) /\ WF_vars(DispatchArm(e))
        /\ WF_vars(DispatchSend(e)) /\ WF_vars(DispatchResume(e))
        /\ WF_vars(DispatchTimeout(e))
        /\ WF_vars(\E v \in Verdicts : SettleRecord(e, v))
        /\ WF_vars(SettleFinish(e))
    /\ \A p \in Probes : WF_vars(ProbeDecides(p))
    /\ WF_vars(BootTimeout) /\ WF_vars(Deadline)
    /\ WF_vars(AbortEscalates) /\ WF_vars(ProseEscalates)
    /\ WF_vars(ShutdownGrace)
    /\ WF_vars(ChildExit) /\ WF_vars(WriteLands)
    /\ WF_vars(sup.killed /\ PiDies)

FairSpec == Spec /\ Fairness

-----------------------------------------------------------------------------
(* Correctness.                                                            *)

Phases == {"starting", "idle", "busy", "dead"}
Command == [t: {"prompt", "abort", "get_state"}, e: 0 .. MaxEpoch \cup Probes, k: 0 .. 2]

\* The state keeps its shape: every flag, queue and record of the process.
TypeOK ==
    /\ sup.proc \in {"up", "down", "gone", "recovering"}
    /\ sup.fence \in [hwm: 0 .. MaxEpoch, ack: {0, NoAck},
                      live: LiveEpoch \cup {NoLive},
                      completed: SUBSET CompletedTask,
                      attempts: [Keys -> 0 .. MaxEpoch]]
    /\ sup.phase \in Phases
    /\ sup.disp \in [Epochs -> {"no", "fence", "state", "sampling", "sent",
                                "acked", "refused", "broken", "done"}]
    /\ \A e \in Epochs : sup.settling[e].pc \in {"no", "fence", "policy", "done"}
    /\ sup.promptId \in 0 .. MaxEpoch
    /\ sup.shut \in {"no", "grace", "settling", "closing"}
    /\ sup.exit \in {"no", "settling", "flushing", "done"}
    /\ \A i \in DOMAIN sup.stdin : sup.stdin[i] \in Command
    /\ policy \in 0 .. MaxEpoch
    /\ pi.run \in 0 .. MaxEpoch

\* A task is settled "success" only after Pi's run of its own epoch ended, and
\* while Pi neither runs nor holds that epoch's prompt: the double get_state
\* of maybeProbe under one generation token.  An epoch that was escalated was
\* not quiesced, and nothing is claimed of the epochs after it.
RanToItsEnd(e) == /\ ran[e] # "no"
                  /\ pi.run # e
                  /\ e \notin Range(pi.queue)
Succeeded(e) == sup.settling[e].pc # "no" /\ sup.settling[e].verdict = "success"
SuccessQuiesced ==
    \A e \in Epochs :
        /\ Succeeded(e)
        /\ \A f \in 1 .. (e - 1) : sup.settling[f].then # "kill"
        => RanToItsEnd(e)

\* A failure that arrives after its prompt was answered or given up on ends
\* the epoch of that prompt and no other: livePromptId in onStray.
RejectionOwn ==
    [][ (/\ stdout # <<>> /\ stdout' = Tail(stdout)
         /\ Head(stdout).t = "answer" /\ ~ sup'.closed /\ sup'.proc = "up"
         /\ IsLive(sup.fence) /\ ~ IsLive(sup'.fence))
            => Head(stdout).e = sup.fence.live.epoch ]_vars

\* A task record is only seen once the fence file says the epoch is settled:
\* settle persists the fence before it writes the record.
RecordDurable ==
    \A t \in Tasks : records[t] # None =>
        \E c \in disk.completed : c.task = t /\ c.epoch = records[t].epoch

\* A task record is never rewritten: no settle, recovery or second dispatch
\* contradicts the verdict wait has already answered with.
RecordStable == [][\A t \in Tasks : records[t] # None => records'[t] = records[t]]_vars

\* A kill ladder in flight belongs to the live epoch: settle disarms both, so
\* no timer of a settled epoch escalates the next one.
LadderOwn ==
    /\ sup.abortEsc # "no" => TimedOut(sup.fence) /\ AbortRequested(sup.fence)
    /\ sup.proseEsc => WindowOpen(sup.fence) /\ sup.tripped

\* What ends an epoch is its own: neither the ladder of a settled epoch nor the
\* late failure of an abandoned prompt ends the next one.
EndsOwn == []LadderOwn /\ RejectionOwn

\* Every accepted task gets its record, whatever Pi does: the deadline and its
\* kill ladder end an epoch that nothing else ends.
Recorded(e) == \E t \in Tasks : records[t] # None /\ records[t].epoch = e
AcceptedRecorded ==
    \A e \in Epochs : IsLive(sup.fence) /\ sup.fence.live.epoch = e ~> Recorded(e)

\* The fence file under this supervisor behaves like an EpochLedger: epochs
\* are issued in order, one at a time, and closed once.
OwnerOf(e) == IF \E k \in Keys : disk.attempts[k] = e
              THEN CHOOSE k \in Keys : disk.attempts[k] = e ELSE None
OutcomeOf(e) == IF \E c \in disk.completed : c.epoch = e
                THEN (CHOOSE c \in disk.completed : c.epoch = e).verdict ELSE None
Ledger == INSTANCE EpochLedger WITH
    Nobody <- None, Unsettled <- None, Released <- None,
    owner <- [e \in Epochs |-> OwnerOf(e)],
    outcome <- [e \in Epochs |-> OutcomeOf(e)],
    open <- IF IsLive(disk) THEN disk.live.epoch ELSE 0
ImplementsLedger == Ledger!LedgerSpec

-----------------------------------------------------------------------------
(* What the comments of the source say and the code does not keep: each of *)
(* these is checked by a run that is expected to violate it.               *)

\* While Pi runs the live epoch, a gated verb is ledgered against that epoch:
\* "Provenance BEFORE the prompt" in the dispatch handler.
ProvenanceRight ==
    \A e \in Epochs :
        Up /\ IsLive(sup.fence) /\ sup.fence.live.epoch = e /\ pi.run = e => policy = e

\* The same of every epoch: "Never advance until the previous epoch is
\* quiesced by the correlated double get_state".
SuccessRan == \A e \in Epochs : Succeeded(e) => RanToItsEnd(e)

\* "Maybe ran" never looks like "never dispatched": a restarted supervisor
\* has a record for every epoch its predecessor settled or left live.
RestartRecorded ==
    Up /\ (\A e \in Epochs : sup.settling[e].pc \in {"no", "done"}) =>
        \A c \in sup.fence.completed : Recorded(c.epoch)

\* "A supervisor that cannot persist its high-water-mark durably must not keep
\* allocating epochs, or a crash re-issues one": no epoch number is run twice.
RunOnce ==
    [][\A e \in Epochs : pi.run # e /\ pi'.run = e => ran[e] = "no"]_vars
=============================================================================

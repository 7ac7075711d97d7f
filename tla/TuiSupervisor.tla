---------------------------- MODULE TuiSupervisor ----------------------------
(***************************************************************************)
(* The supervisor of a worker whose pane a person may type in (pane_mode   *)
(* tui), with the CLI that stages a task, the extension that starts its    *)
(* turn, and the pane.                                                     *)
(*                                                                         *)
(* No prompt is sent: `stage` allocates an epoch, the CLI leaves the brief *)
(* in the drop (/policy/dispatch), the extension inside Pi sees the drop   *)
(* and starts a turn, and a poll of the session transcript decides when    *)
(* that turn began and ended.  The transcript does not say which task an   *)
(* entry belongs to; `of` in an entry is what the model knows and the code *)
(* does not.  The epoch fence is module Fence; a handler is cut at its     *)
(* awaits.  A write of the fence is taken as done when the handler that    *)
(* awaits it goes on (EpochFence has its crashes).                         *)
(***************************************************************************)
EXTENDS Fence, Sequences, FiniteSets

CONSTANTS MaxEpochs,  \* bound: epochs
          MaxFiles,   \* bound: session files
          MaxLog,     \* bound: entries of a session file
          Faults      \* budgets: how often each of the operator's acts may happen

ASSUME TuiConstants == MaxEpochs \in Nat /\ MaxFiles \in Nat \ {0} /\ MaxLog \in Nat

Epochs == 1..MaxEpochs
Files == 1..MaxFiles

VARIABLES
    em,       \* the epoch manager: a fence
    sup,      \* the closure of supervisorMain that the tui arm reads
    stage,    \* stage[k]: the CLI's dispatch of k, and its handler
    unstage,  \* unstage[k]: the handler of `pifleet unstage`
    settle,   \* settle[e]: the call of settle that took epoch e
    policy,   \* /policy/task and /policy/dispatch: the epoch each names, 0 for none
    records,  \* the task records
    log,      \* log[f]: session file f
    pi,       \* Pi: the session it writes, its turn, a queued message, what it fired
    faults

vars == <<em, sup, stage, unstage, settle, policy, records, log, pi, faults>>
pane == <<log, pi>>
files == <<policy, records>>

Spend(f) == faults[f] > 0 /\ faults' = [faults EXCEPT ![f] = @ - 1]
None == [epoch |-> 0, path |-> 0, count |-> 0]
NoTurn == -1
Operator == 0

Init ==
    /\ em = EmptyFence
    /\ sup = [up |-> TRUE, stopping |-> FALSE, ending |-> 0, phase |-> "idle", staged |-> FALSE,
              deadline |-> FALSE, abort |-> FALSE, path |-> 0, seen |-> 0, base |-> None,
              quiet |-> FALSE, poll |-> "idle"]
    /\ stage = [k \in Keys |-> [pc |-> "idle", epoch |-> 0]]
    /\ unstage = [k \in Keys |-> [pc |-> "idle", epoch |-> 0]]
    /\ settle = [e \in Epochs |-> [pc |-> "idle", verdict |-> "success"]]
    /\ policy = [task |-> 0, drop |-> 0]
    /\ records = {}
    /\ log = [f \in Files |-> <<>>]
    /\ pi = [file |-> 1, turn |-> NoTurn, next |-> NoTurn, fired |-> 0, fires |-> [e \in Epochs |-> 0],
             typed |-> FALSE]
    /\ faults \in Faults

-----------------------------------------------------------------------------
(* settle, which every end of an epoch goes through.                       *)

\* Its first, synchronous part: the epoch is freed, the clocks are disarmed.
SettleNow(v) ==
    /\ em' = Settle(em, v)
    /\ settle' = [settle EXCEPT ![em.live.epoch] = [pc |-> "clear", verdict |-> v]]

Disarmed(s) == [s EXCEPT !.staged = FALSE, !.deadline = FALSE, !.abort = FALSE]

\* The drop is disarmed before the record is visible (ISC-1114).
Clear(e) ==
    /\ settle[e].pc = "clear"
    /\ settle' = [settle EXCEPT ![e].pc = "record"]
    /\ policy' = [policy EXCEPT !.drop = 0]

SettleClear(e) ==
    /\ sup.up
    /\ Clear(e)
    /\ UNCHANGED <<em, sup, stage, unstage, records, pane, faults>>

SettleRecord(e) ==
    /\ sup.up /\ settle[e].pc = "record"
    /\ settle' = [settle EXCEPT ![e].pc = "task"]
    /\ records' = records \cup {[epoch |-> e, verdict |-> settle[e].verdict]}
    /\ sup' = [sup EXCEPT !.phase = IF sup.stopping THEN @ ELSE "idle"]
    /\ UNCHANGED <<em, stage, unstage, policy, pane, faults>>

\* The provenance is cleared, and whoever awaited the settle goes on.
SettleDone(e) ==
    /\ sup.up /\ settle[e].pc = "task"
    /\ settle' = [settle EXCEPT ![e].pc = "done"]
    /\ policy' = [policy EXCEPT !.task = 0]
    /\ sup' = [sup EXCEPT !.poll = IF @ = "settling" THEN "idle" ELSE @]
    /\ UNCHANGED <<em, stage, unstage, records, pane, faults>>

-----------------------------------------------------------------------------
(* stage, and the CLI that calls it.                                       *)

\* stageForAdoptedTerminal: the supervisor allocates, replays or refuses.
Stage(k) ==
    /\ sup.up /\ stage[k].pc = "idle" /\ em.hwm < MaxEpochs
    /\ Admits(em, k, 0)
    /\ em' = Allocate(em, k)
    /\ stage' = [stage EXCEPT ![k] = [pc |-> "task", epoch |-> em'.hwm]]
    /\ UNCHANGED <<sup, unstage, settle, files, pane, faults>>

\* The same file again: nothing is written, nothing is typed.
StageReplayed(k) ==
    /\ sup.up /\ stage[k].pc = "idle" /\ Replays(em, k)
    /\ stage' = [stage EXCEPT ![k].pc = "done"]
    /\ UNCHANGED <<em, sup, unstage, settle, files, pane, faults>>

StageRefused(k) ==
    /\ sup.up /\ stage[k].pc = "idle" /\ ~ Replays(em, k) /\ ~ Admits(em, k, 0)
    /\ Spend("refusal")
    /\ UNCHANGED <<em, sup, stage, unstage, settle, files, pane>>

\* The fence is on disk; the provenance is written, and state says idle: nothing
\* has started.
StageTask(k) ==
    /\ sup.up /\ stage[k].pc = "task"
    /\ stage' = [stage EXCEPT ![k].pc = "park"]
    /\ policy' = [policy EXCEPT !.task = stage[k].epoch]
    /\ sup' = [sup EXCEPT !.phase = "idle"]
    /\ UNCHANGED <<em, unstage, settle, records, pane, faults>>

\* armDeadlineOnTrigger: the deadline is parked; the CLI is answered.
StagePark(k) ==
    /\ sup.up /\ stage[k].pc = "park"
    /\ stage' = [stage EXCEPT ![k].pc = "drop"]
    /\ sup' = [sup EXCEPT !.staged = TRUE]
    /\ UNCHANGED <<em, unstage, settle, files, pane, faults>>

\* The CLI leaves the brief, whatever became of the epoch meanwhile.
StageDrop(k) ==
    /\ stage[k].pc = "drop"
    /\ stage' = [stage EXCEPT ![k].pc = "done"]
    /\ policy' = [policy EXCEPT !.drop = stage[k].epoch]
    /\ UNCHANGED <<em, sup, unstage, settle, records, pane, faults>>

\* The operator dispatches the file once more.
Again(k) ==
    /\ Spend("again") /\ stage[k].pc = "done"
    /\ stage' = [stage EXCEPT ![k].pc = "idle"]
    /\ UNCHANGED <<em, sup, unstage, settle, files, pane>>

-----------------------------------------------------------------------------
(* unstage.                                                                *)

Unstage(k) ==
    /\ sup.up /\ Spend("unstage")
    /\ Cancels(em, k)
    /\ unstage' = [unstage EXCEPT ![k] = [pc |-> "task", epoch |-> em.live.epoch]]
    /\ em' = Cancel(em, k)
    /\ UNCHANGED <<sup, stage, settle, files, pane>>

UnstageRefused(k) ==
    /\ sup.up /\ Spend("refusal")
    /\ ~ Cancels(em, k)
    /\ UNCHANGED <<em, sup, stage, unstage, settle, files, pane>>

UnstageTask(k) ==
    /\ sup.up /\ unstage[k].pc = "task"
    /\ unstage' = [unstage EXCEPT ![k].pc = "drop"]
    /\ policy' = [policy EXCEPT !.task = 0]
    /\ UNCHANGED <<em, sup, stage, settle, records, pane, faults>>

\* The drop is disarmed, then the parked deadline, then state.  A clock that
\* already runs is left alone.
UnstageDrop(k) ==
    /\ sup.up /\ unstage[k].pc = "drop"
    /\ unstage' = [unstage EXCEPT ![k].pc = "done"]
    /\ policy' = [policy EXCEPT !.drop = 0]
    /\ sup' = [sup EXCEPT !.staged = FALSE, !.phase = IF sup.stopping THEN @ ELSE "idle"]
    /\ UNCHANGED <<em, stage, settle, records, pane, faults>>

-----------------------------------------------------------------------------
(* The transcript poll.                                                    *)

Assistant(x) == x.kind \in {"work", "loop", "end", "error"}

\* discoverSessionPath: the newest session file; looked up at most every five
\* seconds once one is known, so a poll may read the one before it.
\* Pi creates the file of a session at its first assistant message.
OnDisk == {f \in Files : \E i \in DOMAIN log[f] : Assistant(log[f][i])}
Found == CHOOSE f \in OnDisk : \A g \in OnDisk : g <= f
Discovers(path) == path \in OnDisk /\ path \in {sup.path, Found}

\* A new reader starts from nothing.
SeenIn(path) == IF path = sup.path THEN sup.seen ELSE 0
Grew(path) == Len(log[path]) > SeenIn(path)

Moved(path) == sup.base.path # 0 /\ sup.base.path # path
NewEpoch == sup.base.epoch # em.live.epoch

\* Mutant: the baseline of a new epoch is the start of the file.
BaselineZero(path) ==
    [epoch |-> em.live.epoch, path |-> path, count |-> 0]
Baseline(path) ==
    [epoch |-> em.live.epoch, path |-> path,
     count |-> IF NewEpoch THEN Len(log[path]) ELSE 0]

Slice(s) == SubSeq(log[s.path], s.base.count + 1, s.seen)

\* classifyTuiTurn: the last assistant entry decides, unless a user message
\* came after it or it is a tool call whose turn goes on.
Reading(slice) ==
    LET as == {i \in DOMAIN slice : Assistant(slice[i])}
        last == CHOOSE i \in as : \A j \in as : j <= i
    IN  IF as = {} THEN "awaiting_start"
        ELSE IF \E j \in DOMAIN slice : j > last /\ slice[j].kind = "user" THEN "in_flight"
        ELSE IF slice[last].kind \in {"work", "loop"} THEN "in_flight" ELSE slice[last].kind

\* readToolLoop, readProseLoop.
Looping(slice) == \E i \in DOMAIN slice : slice[i].kind = "loop"

VerdictOf(reading) ==
    IF reading = "error" THEN "failed"
    ELSE IF TimedOut(em) THEN "timed_out"
    ELSE IF AbortRequested(em) THEN "aborted"
    ELSE "success"

\* The end of a tick, from the entries it holds: a loop settles at once, an end
\* settles when the file has been quiet for its window.
Classify(s, grew) ==
    LET slice == Slice(s)
        r == Reading(slice)
    IN  IF Looping(slice)
        THEN /\ sup' = [Disarmed(s) EXCEPT !.quiet = FALSE, !.poll = "settling"]
             /\ SettleNow("failed")
        ELSE IF r \notin {"end", "error"}
        THEN sup' = [s EXCEPT !.quiet = FALSE, !.poll = "idle"] /\ UNCHANGED <<em, settle>>
        ELSE IF grew \/ ~ s.quiet
        THEN sup' = [s EXCEPT !.quiet = TRUE, !.poll = "idle"] /\ UNCHANGED <<em, settle>>
        ELSE /\ sup' = [Disarmed(s) EXCEPT !.quiet = FALSE, !.poll = "settling"]
             /\ SettleNow(VerdictOf(r))

\* A tick that finds no epoch, a new epoch, or the epoch's transcript moved.
Poll(path) ==
    /\ sup.up /\ ~ sup.stopping /\ sup.poll = "idle"
    /\ Discovers(path)
    /\ LET s == [sup EXCEPT !.path = path, !.seen = Len(log[path]),
                            !.quiet = IF path = sup.path THEN @ ELSE FALSE]
       IN  IF ~ IsLive(em)
           THEN /\ sup' = [s EXCEPT !.base.epoch = 0, !.quiet = FALSE]
                /\ UNCHANGED <<em, settle>>
           ELSE IF NewEpoch \/ Moved(path)
           THEN /\ sup' = [s EXCEPT !.base = Baseline(path), !.quiet = FALSE]
                /\ UNCHANGED <<em, settle>>
           \* the trigger: the deadline starts, the stage is promoted, and state
           \* is flushed before the entries are read
           ELSE IF sup.staged /\ Grew(path)
           THEN /\ sup' = [s EXCEPT !.staged = FALSE, !.deadline = TRUE, !.phase = "busy",
                                    !.poll = "triggered"]
                /\ UNCHANGED <<em, settle>>
           ELSE Classify(s, Grew(path))
    /\ UNCHANGED <<stage, unstage, files, pane, faults>>

\* After that flush the rest of the tick acts on whatever epoch is live by then;
\* a settle of none does nothing.
PollTriggered ==
    /\ sup.up /\ sup.poll = "triggered"
    /\ IF IsLive(em) THEN Classify(sup, TRUE)
       ELSE sup' = [sup EXCEPT !.poll = "idle"] /\ UNCHANGED <<em, settle>>
    /\ UNCHANGED <<stage, unstage, files, pane, faults>>

-----------------------------------------------------------------------------
(* The heartbeat's deadline, and shutdown.                                 *)

\* Mutant: with nobody to tell, no grace is started.
DeadlineOnly ==
    /\ sup.up /\ sup.deadline /\ IsLive(em)
    /\ em' = NoteAbort(NoteTimedOut(em))
    /\ sup' = [sup EXCEPT !.deadline = FALSE]
    /\ UNCHANGED <<stage, unstage, settle, files, pane, faults>>
\* Pi cannot be told: there is no channel to a pane.
Deadline ==
    /\ sup.up /\ sup.deadline /\ IsLive(em)
    /\ em' = NoteAbort(NoteTimedOut(em))
    /\ sup' = [sup EXCEPT !.deadline = FALSE, !.abort = TRUE]
    /\ UNCHANGED <<stage, unstage, settle, files, pane, faults>>

\* After the grace the epoch is settled; the turn in the pane goes on.
Escalates ==
    /\ sup.up /\ sup.abort
    /\ IF IsLive(em) THEN sup' = Disarmed(sup) /\ SettleNow("timed_out")
       ELSE sup' = [sup EXCEPT !.abort = FALSE] /\ UNCHANGED <<em, settle>>
    /\ UNCHANGED <<stage, unstage, files, pane, faults>>

\* beginShutdown settles the epoch that is live, if one is, ...
Shutdown ==
    /\ sup.up /\ ~ sup.stopping /\ Spend("stop")
    /\ IF IsLive(em)
       THEN /\ sup' = [Disarmed(sup) EXCEPT !.stopping = TRUE, !.ending = em.live.epoch]
            /\ SettleNow("aborted")
       ELSE sup' = [sup EXCEPT !.stopping = TRUE] /\ UNCHANGED <<em, settle>>
    /\ UNCHANGED <<stage, unstage, files, pane>>

\* ... awaits that settle alone, and exits: one the poll or the grace began
\* before, or a stage being written, is cut where it stands.
Exit ==
    /\ sup.up /\ sup.stopping
    /\ sup.ending # 0 => settle[sup.ending].pc = "done"
    /\ sup' = [sup EXCEPT !.up = FALSE, !.phase = "dead"]
    /\ UNCHANGED <<em, stage, unstage, settle, files, pane, faults>>

-----------------------------------------------------------------------------
(* The pane: Pi, its extension, the person.                                *)

Entry(of, kind) == [of |-> of, kind |-> kind]
Writes(x) ==
    /\ Len(log[pi.file]) < MaxLog
    /\ log' = [log EXCEPT ![pi.file] = Append(@, x)]

\* The extension fires on the drop, once per task and epoch of a session; the
\* message is queued behind a turn that runs.  It reads the drop twice half a
\* second apart, and the supervisor polls as often: the baseline comes first.
Fire ==
    LET e == policy.drop
    IN  /\ e # 0 /\ e # pi.fired
        /\ IsLive(em) /\ em.live.epoch = e /\ sup.up /\ OnDisk # {} => sup.base.epoch = e
        /\ pi.next = NoTurn
        /\ pi' = [pi EXCEPT !.fired = e, !.next = e, !.fires[e] = @ + 1]
        /\ UNCHANGED <<em, sup, stage, unstage, settle, files, log, faults>>

\* A person types.
Type ==
    /\ Spend("type") /\ pi.next = NoTurn
    /\ pi' = [pi EXCEPT !.next = Operator, !.typed = TRUE]
    /\ UNCHANGED <<em, sup, stage, unstage, settle, files, log>>

Begins ==
    /\ pi.turn = NoTurn /\ pi.next # NoTurn
    /\ pi' = [pi EXCEPT !.turn = pi.next, !.next = NoTurn]
    /\ Writes(Entry(pi.next, "user"))
    /\ UNCHANGED <<em, sup, stage, unstage, settle, files, faults>>

Works ==
    /\ pi.turn # NoTurn
    /\ Len(log[pi.file]) > 0 /\ log[pi.file][Len(log[pi.file])].kind = "user"
    /\ \E kind \in {"work", "loop"} : Writes(Entry(pi.turn, kind)) /\ (kind = "loop" => faults.loop > 0)
    /\ UNCHANGED <<em, sup, stage, unstage, settle, files, pi, faults>>

Ends ==
    /\ pi.turn # NoTurn
    /\ \E kind \in {"end", "error"} : Writes(Entry(pi.turn, kind)) /\ (kind = "error" => faults.error > 0)
    /\ pi' = [pi EXCEPT !.turn = NoTurn]
    /\ UNCHANGED <<em, sup, stage, unstage, settle, files, faults>>

\* resetPaneSession: the console that dispatched types /new when it has seen the
\* record of the task, before it stages again; what Pi was doing and what its extension
\* remembered are gone.
Reset ==
    /\ Spend("reset") /\ ~ IsLive(em) /\ (\E r \in records : r.epoch = em.hwm) /\ pi.file < MaxFiles
    /\ pi' = [pi EXCEPT !.file = @ + 1, !.turn = NoTurn, !.next = NoTurn, !.fired = 0]
    /\ UNCHANGED <<em, sup, stage, unstage, settle, files, log>>

-----------------------------------------------------------------------------
Handlers ==
    \/ \E k \in Keys : \/ StageTask(k) \/ StagePark(k) \/ StageDrop(k)
                       \/ UnstageTask(k) \/ UnstageDrop(k)
    \/ \E e \in Epochs : SettleClear(e) \/ SettleRecord(e) \/ SettleDone(e)

Next ==
    \/ \E k \in Keys : Stage(k) \/ StageReplayed(k) \/ StageRefused(k) \/ Again(k)
                      \/ Unstage(k) \/ UnstageRefused(k)
    \/ Handlers
    \/ \E path \in Files : Poll(path)
    \/ PollTriggered \/ Deadline \/ Escalates \/ Shutdown \/ Exit
    \/ Fire \/ Type \/ Begins \/ Works \/ Ends \/ Reset

Spec == Init /\ [][Next]_vars

\* The event loop runs its handlers and timers.
Fairness ==
    /\ WF_vars(Handlers) /\ WF_vars(PollTriggered) /\ WF_vars(Deadline) /\ WF_vars(Escalates)
FairSpec == Spec /\ Fairness

-----------------------------------------------------------------------------
(* Properties.                                                             *)

\* An epoch is settled a success on an end that its own turn wrote, as long as
\* nobody typed in the pane, none was unstaged, and neither a deadline nor a
\* loop ended an epoch whose turn went on: the baseline keeps earlier turns out, the
\* session file may be replaced under the epoch, and its own turn may be preceded
\* by anything.
Undisturbed ==
    /\ ~ pi.typed
    /\ \A e \in Epochs : settle[e].verdict # "timed_out"
    /\ \A f \in Files : ~ Looping(log[f])
    /\ \A k \in Keys : unstage[k].pc = "idle"
LastEnd(s) ==
    LET slice == Slice(s)
        as == {i \in DOMAIN slice : Assistant(slice[i])}
    IN  slice[CHOOSE i \in as : \A j \in as : j <= i]
SettledByOwnTurn ==
    [][\A e \in Epochs :
          /\ settle[e].pc = "idle" /\ settle'[e].pc = "clear" /\ settle'[e].verdict = "success"
          /\ Undisturbed
          => LastEnd(sup').of = e]_vars

\* The drop is disarmed before the record lets the console start a new session,
\* so one stage starts one turn.
TurnOnce == \A e \in Epochs : pi.fires[e] <= 1

\* One stage, one turn, and the verdict of that turn: the drop is disarmed before
\* the console may replace the session, and a success is read from the stage's own
\* last message (supervisor/index.ts: the settle's drop clear, pollTuiTranscript).
OwnTurn == []TurnOnce /\ SettledByOwnTurn

\* A stage that was promoted is live for no longer than its deadline and grace:
\* it is settled, or released.
TurnBounded ==
    \A e \in Epochs :
       (/\ IsLive(em) /\ em.live.epoch = e /\ sup.phase = "busy"
        /\ \E k \in Keys : stage[k].epoch = e /\ stage[k].pc \in {"drop", "done"})
       ~> ~ (IsLive(em) /\ em.live.epoch = e)

\* `unstage` releases what never ran: not an epoch whose turn the poll has seen
\* begin.
RunningKept ==
    [][\A k \in Keys : unstage[k].pc # "task" /\ unstage'[k].pc = "task" => sup.phase # "busy"]_vars
=============================================================================

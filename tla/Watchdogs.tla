------------------------------ MODULE Watchdogs ------------------------------
(***************************************************************************)
(* What a supervisor watches for beside the life of its task: a seat that  *)
(* repeats one call or one sentence (supervisor/tool-loop.ts,              *)
(* prose-loop.ts), a turn that is over (tui.ts, index.ts), a model that    *)
(* talks instead of acting (prose-detector.ts), a dialog that nobody would *)
(* answer (ui-requests.ts), a credential to be put in again before it dies *)
(* (security/refresh.ts).  Each is a state and what one step makes of it.  *)
(*                                                                         *)
(* Time is in polls, or ticks of the monotonic clock.  An entry of the     *)
(* transcript is [role, content, stop]; a block of it is a call, or prose: *)
(* the parts the splitter makes of its text.                               *)
(***************************************************************************)
EXTENDS Naturals, Sequences, SequencesExt, FiniteSets, FiniteSetsExt, Functions

CONSTANTS ToolLoop,     \* TOOL_LOOP_THRESHOLD
          ProseLoop,    \* PROSE_LOOP_THRESHOLD
          Quiet,        \* TUI_QUIET_MS
          ErrorGrace,   \* TUI_ERROR_GRACE_MS
          DialogTime,   \* ui_request_timeout
          Interval,     \* token_refresh
          Retry,        \* DEFAULT_RETRY_S
          Nap           \* the least a refresher sleeps

-----------------------------------------------------------------------------
(* A turn, read off the entries since its dispatch.                        *)

ByAssistant(entries) == SelectSeq(entries, LAMBDA e : e.role = "assistant")
BlocksOf(entries) == FlattenSeq([i \in DOMAIN entries |-> entries[i].content])

\* The longest run of one call, over the messages in order.
ReadToolLoop(entries) ==
    LET calls == SelectSeq(BlocksOf(ByAssistant(entries)), LAMBDA b : b.is = "call")
        Seen(run, call) ==
            LET streak == IF run.prev = call.args THEN run.streak + 1 ELSE 1
            IN [prev |-> call.args, streak |-> streak, best |-> Max({run.best, streak})]
    IN FoldLeft(Seen, [prev |-> "none", streak |-> 0, best |-> 0], calls).best

\* Sentences, long enough to be deliberate.
Units(block) == SelectSeq(block.parts, LAMBDA p : p.long /\ p.ends)

\* How often a block comes back to a sentence, a run of it counted once.
ReturnsIn(units, unit) ==
    Cardinality({i \in DOMAIN units : units[i] = unit /\ (i = 1 \/ units[i - 1] # unit)})

ReadProseLoop(entries) ==
    LET blocks == SelectSeq(BlocksOf(ByAssistant(entries)), LAMBDA b : b.is \in {"text", "thinking"})
    IN Max({0} \cup UNION {{ReturnsIn(Units(b), u) : u \in ToSet(Units(b))} : b \in ToSet(blocks)})

\* A report ends the turn it was handed in by, once all its calls are answered.
TerminatedBySubmit(after, entry) ==
    /\ \E i \in DOMAIN after : after[i].role = "submit"
    /\ \A i \in DOMAIN entry.content : entry.content[i].is = "call" =>
          \E j \in DOMAIN after : after[j].role = "result" /\ after[j].answers = entry.content[i].id

ClassifyTurn(entries) ==
    LET last == Max({0} \cup {i \in DOMAIN entries : entries[i].role = "assistant"})
        after == SubSeq(entries, last + 1, Len(entries))
    IN IF last = 0 THEN "awaiting_start"
       ELSE IF \E i \in DOMAIN after : after[i].role = "user" THEN "in_flight"
       ELSE IF entries[last].stop = "toolUse" /\ ~TerminatedBySubmit(after, entries[last])
       THEN "in_flight"
       ELSE "ended"

Settled(verdict, reason) == <<[verdict |-> verdict, reason |-> reason]>>

VerdictForStop(stop) ==
    CASE stop = "aborted" -> Settled("aborted", "stop_aborted")
      [] stop = "error" -> Settled("failed", "stop_error")
      [] stop = "length" -> Settled("unknown", "stop_length")
      [] stop = "toolUse" -> Settled("success", "terminating_report")
      [] OTHER -> Settled("success", "quiesced")

\* A diagnosis outranks a description of how the epoch ended.
VerdictOfTurn(stop, noted) ==
    IF stop = "error" THEN VerdictForStop(stop)
    ELSE IF noted.timedOut THEN Settled("timed_out", "quiesced")
    ELSE IF noted.aborted THEN Settled("aborted", "quiesced")
    ELSE VerdictForStop(stop)

\* One poll of a turn under watch: [seen, quiet, end], quiet the polls since it
\* was first read as ended and nothing was added.
PollTurn(watch, entries, noted) ==
    LET grew == Len(entries) > watch.seen
        spoken == ByAssistant(entries)
        stop == IF spoken = <<>> THEN "none" ELSE Last(spoken).stop
        needed == IF stop = "error" THEN ErrorGrace ELSE Quiet
        now == [watch EXCEPT !.seen = Len(entries)]
    IN IF ReadToolLoop(entries) >= ToolLoop
       THEN [now EXCEPT !.quiet = <<>>, !.end = Settled("failed", "tool_loop")]
       ELSE IF ReadProseLoop(entries) >= ProseLoop
       THEN [now EXCEPT !.quiet = <<>>, !.end = Settled("failed", "prose_loop")]
       ELSE IF ClassifyTurn(entries) # "ended" THEN [now EXCEPT !.quiet = <<>>]
       ELSE IF grew \/ watch.quiet = <<>> THEN [now EXCEPT !.quiet = <<0>>]
       ELSE IF watch.quiet[1] + 1 < needed THEN [now EXCEPT !.quiet = <<@[1] + 1>>]
       ELSE [now EXCEPT !.quiet = <<>>, !.end = VerdictOfTurn(stop, noted)]

-----------------------------------------------------------------------------
(* Turns without a tool call, on the event stream of rpc mode.             *)

\* A detector with its threshold; 0, and what is no number, is off.
Detector(threshold) == [threshold |-> threshold, calls |-> 0, streak |-> 0, tripped |-> FALSE]
Reset(prose) == Detector(prose.threshold)

\* observe, over an event of the live epoch.
Observe(prose, type, interrupted) ==
    IF prose.threshold = 0 \/ prose.tripped THEN prose
    ELSE IF type = "tool_execution_end" THEN [prose EXCEPT !.calls = @ + 1, !.streak = 0]
    ELSE IF type # "turn_end" THEN prose
    ELSE IF interrupted THEN [prose EXCEPT !.calls = 0]
    ELSE IF prose.calls > 0 THEN [prose EXCEPT !.calls = 0, !.streak = 0]
    ELSE [prose EXCEPT !.streak = @ + 1, !.tripped = prose.streak + 1 >= prose.threshold]

\* Mutant: what an earlier epoch still sends is counted of this one.
CountedUnattributed(epoch, event) ==
    IF ~epoch.open THEN epoch
    ELSE [epoch EXCEPT !.prose = Observe(@, event.type, epoch.interrupted)]
\* The live epoch's window counts its own events.
Counted(epoch, event) ==
    IF ~epoch.open \/ ~event.live THEN epoch
    ELSE [epoch EXCEPT !.prose = Observe(@, event.type, epoch.interrupted)]

\* What becomes of an epoch by an event of the stream, or by the supervisor's
\* own acts: its window opens with its own agent_start, its settle closes it.
OnEvent(epoch, event) ==
    CASE event.type = "dispatch" -> [epoch EXCEPT !.live = TRUE, !.interrupted = FALSE]
      [] event.type = "abort" -> [epoch EXCEPT !.interrupted = epoch.live]
      [] event.type = "settle" ->
            [epoch EXCEPT !.live = FALSE, !.open = FALSE, !.prose = Reset(@)]
      [] event.type = "agent_start" /\ epoch.live /\ ~epoch.open ->
            IF event.live THEN [epoch EXCEPT !.open = TRUE, !.prose = Reset(@)] ELSE epoch
      [] OTHER -> Counted(epoch, event)

-----------------------------------------------------------------------------
(* Dialogs.                                                                *)

Dialogs == {"select", "confirm", "input", "editor"}
FireAndForget == {"notify", "setStatus", "setWidget", "setTitle", "set_editor_text"}

\* A method nobody knows is answered: the far side may be waiting.
ClassifyUiRequest(event) ==
    IF event.method \in FireAndForget THEN "ignore"
    ELSE IF event.id \in {"none", ""} THEN "unanswerable"
    ELSE "answer"

NoDialogs == [armed |-> <<>>, answered |-> {}, denied |-> 0, reported |-> {}, ledger |-> {}]

\* handleUiRequest: the deadline is armed before the write and outlives only a
\* write that threw.
HandleUiRequest(ui, event, writes) ==
    CASE ClassifyUiRequest(event) = "ignore" -> ui
      [] ClassifyUiRequest(event) = "unanswerable" ->
            [ui EXCEPT !.ledger = @ \cup {"unanswerable"}]
      [] OTHER ->
            IF writes THEN [ui EXCEPT !.answered = @ \cup {event.id}, !.denied = @ + 1]
            ELSE [ui EXCEPT !.armed = (event.id :> [left |-> DialogTime, method |-> event.method]) @@ @]

\* Time passes for the deadlines; of those that fire, a dialog with no other way
\* out goes to the ledger.
DialogsWait(ui) ==
    LET over == {id \in DOMAIN ui.armed : ui.armed[id].left = 1}
    IN [ui EXCEPT !.armed = [id \in DOMAIN @ \ over |-> [@[id] EXCEPT !.left = @ - 1]],
                  !.reported = @ \cup over,
                  !.ledger = @ \cup {id \in over : ui.armed[id].method = "editor"}]

\* clearUiDeadlines: at a shutdown, and once the child is gone.
ClearUiDeadlines(ui) == [ui EXCEPT !.armed = <<>>]

-----------------------------------------------------------------------------
(* The credential.  Never held against a wall clock: only its own instants *)
(* on the monotonic one.                                                   *)

Unborn == [generation |-> 0, injected |-> <<>>, attempt |-> <<>>, failures |-> 0, flight |-> FALSE,
           loop |-> "awake", wake |-> 0, aborted |-> FALSE]

AtLeast(n, m) == IF n >= m THEN n - m ELSE 0

DueIn(r, now) ==
    IF r.injected = <<>> /\ r.attempt = <<>> THEN 0
    ELSE IF r.failures > 0 THEN AtLeast(r.attempt[1] + Retry, now)
    ELSE AtLeast(r.injected[1] + Interval, now)

Sleeps(r, now) == [r EXCEPT !.loop = "asleep", !.wake = now + Max({DueIn(r, now), Nap})]

\* tick: an attempt, or nothing yet.
Tick(r, now) ==
    IF DueIn(r, now) > 0 THEN Sleeps(r, now)
    ELSE [r EXCEPT !.flight = TRUE, !.attempt = <<now>>, !.loop = "waiting"]

\* The attempt is over, and the loop, unless it was told to stop, sleeps.
Ends(r, now) == IF r.aborted THEN r ELSE Sleeps(r, now)

\* The token is in the container; whether its record is then written down is
\* nothing to the schedule.
Injected(r, now) ==
    Ends([r EXCEPT !.flight = FALSE, !.generation = @ + 1, !.injected = r.attempt, !.failures = 0], now)

Fails(r, now) == Ends([r EXCEPT !.flight = FALSE, !.failures = @ + 1], now)

\* The loop returns at once; what is under way is only no longer waited for.
Abort(r) == [r EXCEPT !.aborted = TRUE, !.loop = "over"]

\* state.credential: what `status` shows.
NoCredential == [injections |-> 0, generation |-> 0, degraded |-> FALSE, shown |-> FALSE]
OnInjected(shown, generation) ==
    [injections |-> shown.injections + 1, generation |-> generation, degraded |-> FALSE, shown |-> TRUE]
OnFailure(shown) == [shown EXCEPT !.degraded = TRUE, !.shown = TRUE]
=============================================================================

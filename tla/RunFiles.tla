------------------------------- MODULE RunFiles -------------------------------
(***************************************************************************)
(* The documents of a run directory as its readers take them               *)
(* (run/state.ts): what each reader makes of a file that is missing, torn, *)
(* of another shape or older than the field it asks for; and the probe     *)
(* that asks a model server whether its model calls tools                  *)
(* (security/model-probe.ts).                                              *)
(*                                                                         *)
(* A field is [is |-> "absent" | "null" | "value" | "other", value |-> v], *)
(* "other" a value of another type; numbers are counted in halves, so that *)
(* a fraction is an odd one.                                               *)
(***************************************************************************)
EXTENDS Naturals, Sequences, SequencesExt, FiniteSets, Functions

CONSTANTS DefaultConcurrent      \* DEFAULT_MAX_CONCURRENT

Halves(n) == n * 2
Floor(x) == x \div 2
Set(field) == field.is = "value"
Nullish(field) == field.is \in {"absent", "null"}

-----------------------------------------------------------------------------
(* readValidated: the file is looked for, read, and read once more when it *)
(* did not parse.  seen holds what each of the three looks shows; the      *)
(* schema, the documents accepted, is only asked of one that parsed.       *)

\* What a read shows whose size was taken from one file and its bytes from
\* the one renamed over it: as many bytes as the first had.
Short(sized, file) ==
    IF sized.is = "whole" /\ file.is = "whole" /\ sized.size < file.size
    THEN [file EXCEPT !.is = "torn"] ELSE file
\* The versions the five looks of two reads fall on, in order.
Seen(versions, at) ==
    <<versions[at[1]], Short(versions[at[2]], versions[at[3]]),
      Short(versions[at[4]], versions[at[5]])>>

Read(seen, accepted) ==
    LET taken(file) ==
            CASE file.is = "missing" -> [is |-> "error", doc |-> file]
              [] file.is = "torn" -> [is |-> "unreadable", doc |-> file]
              [] file.is = "whole" /\ file \in accepted -> [is |-> "read", doc |-> file]
              [] file.is = "whole" /\ file \notin accepted -> [is |-> "unreadable", doc |-> file]
    IN CASE seen[1].is = "missing" -> [is |-> "none", doc |-> seen[1]]
         [] seen[1].is # "missing" /\ seen[2].is # "torn" -> taken(seen[2])
         [] OTHER -> taken(seen[3])

-----------------------------------------------------------------------------
(* Readers of run.json.  Each answers from one Read; <<>> is a failure of  *)
(* its caller.                                                             *)

\* readRunHeartbeatIntervalMs, readRunUiRequestTimeoutMs and
\* readRunProseTurnsBeforeFail: absent is the default, and a value of the
\* wrong kind makes the document unreadable.
Accepts(field, least) == field.is = "absent" \/ (Set(field) /\ field.value >= least)
Timer(read, field, default) ==
    CASE read.is \notin {"none", "read"} -> <<>>
      [] read.is = "read" /\ Set(read.doc[field]) -> <<read.doc[field].value>>
      [] OTHER -> <<default>>

\* readRunHarnessPatterns: the cap is never turned off; what cannot be read,
\* and an empty list, are the built-in patterns and a note.
HarnessPatterns(read) ==
    CASE read.is \notin {"none", "read"} -> [patterns |-> "built in", note |-> TRUE]
      [] read.is = "none" \/ (read.is = "read" /\ Nullish(read.doc.patterns)) ->
            [patterns |-> "built in", note |-> FALSE]
      [] OTHER -> IF read.doc.patterns.value = <<>> THEN [patterns |-> "built in", note |-> TRUE]
                  ELSE [patterns |-> "recorded", note |-> FALSE]

\* readRunWorkerModels: the entries that are names, the others left out.
WorkerModels(read) ==
    LET models == read.doc.models.value
    IN IF read.is # "read" \/ Nullish(read.doc.models)
       THEN [models |-> <<>>, note |-> read.is \notin {"none", "read"}]
       ELSE [models |-> Restrict(models, {w \in DOMAIN models : models[w] \notin {"", "other"}}),
             note |-> FALSE]

\* runBudgetRecord: what `up` writes of its configuration, nothing of a run
\* that has none.
Budgeted(value) == [is |-> "value", value |-> value]
NoField == [is |-> "null", value |-> 0]
BudgetRecord(config) ==
    IF config.is = "null"
    THEN [concurrent |-> NoField, ceiling |-> NoField, reserve |-> NoField,
          warn |-> NoField, kill |-> NoField]
    ELSE [concurrent |-> Budgeted(config.concurrent), ceiling |-> Budgeted(config.ceiling),
          reserve |-> config.reserve, warn |-> Budgeted(config.warn), kill |-> Budgeted(config.kill)]

\* readRunBudgetPolicy: a ceiling that cannot be read stops the dispatch, and
\* is never taken for none; the rest falls back to what bounds nothing more.
BudgetAccepts(doc) ==
    \A f \in {"concurrent", "ceiling", "reserve", "warn", "kill"} : doc[f].is # "other"
BudgetPolicy(read) ==
    LET given(f) == read.is = "read" /\ Set(read.doc[f])
        value(f) == read.doc[f].value
    IN IF read.is \notin {"none", "read"} THEN <<>>
       ELSE <<[ceiling |-> IF given("ceiling") THEN <<Floor(value("ceiling"))>> ELSE <<>>,
               concurrent |-> IF given("concurrent") /\ value("concurrent") > 0
                                                     /\ value("concurrent") % 2 = 0
                              THEN Floor(value("concurrent")) ELSE DefaultConcurrent,
               reserve |-> IF given("reserve") THEN Floor(value("reserve")) ELSE 0,
               stall |-> IF /\ given("warn") /\ given("kill")
                            /\ value("warn") > 0 /\ value("kill") >= value("warn")
                         THEN <<value("warn"), value("kill")>> ELSE <<>>,
               note |-> given("concurrent")
                          /\ (value("concurrent") = 0 \/ value("concurrent") % 2 = 1)]>>

\* readRunWorktrees: an `up` that did not finish (null) is told from one that
\* made none (absent); a bad entry is noted by itself, and the last of two
\* entries of one worker stands.
RunWorktrees(read) ==
    LET none(note) == [byWorker |-> <<>>, note |-> note, perWorker |-> 0]
        entries == read.doc.worktrees.value
        good == SelectSeq(entries, LAMBDA e : e.legal)
        last(w) == CHOOSE i \in DOMAIN good :
                      good[i].worker = w /\ \A j \in DOMAIN good : good[j].worker = w => j <= i
    IN CASE read.is \notin {"none", "read"} -> none("unreadable")
         [] read.is = "none" \/ (read.is = "read" /\ read.doc.worktrees.is = "absent") -> none("none")
         [] read.is = "read" /\ read.doc.worktrees.is = "null" -> none("incomplete")
         [] read.is = "read" /\ read.doc.worktrees.is = "other" -> none("another shape")
         [] OTHER -> [byWorker |-> [w \in {good[i].worker : i \in DOMAIN good} |-> good[last(w)].path],
                      note |-> "none", perWorker |-> Len(entries) - Len(good)]

\* FenceFileSchema, readFence and writeFence: the snapshot inside its
\* envelope; no file is the empty fence, and an unreadable one is an error.
Snapshot(accepted, live, completed) ==
    [accepted |-> accepted, live |-> live, completed |-> completed]
EmptyFence == Snapshot(0, <<>>, <<>>)
WriteFence(worker, fence) == [is |-> "whole", tag |-> "pifleet.fence/v1", worker |-> worker, fence |-> fence]
ReadFence(read) ==
    CASE read.is = "none" -> <<EmptyFence>>
      [] read.is = "read" -> <<read.doc.fence>>
      [] OTHER -> <<>>

-----------------------------------------------------------------------------
(* The probe of a model server: what one exchange says.                    *)

\* probeNativeToolCalls, before the answer's content.
ProbeTransport(x) ==
    CASE x.fate = "timeout" -> "timeout"
      [] x.fate = "refused" -> "unreachable"
      [] x.fate = "answered" /\ x.status # 200 ->
            IF x.status = 404 /\ x.namesModel THEN "model-not-found" ELSE "unreachable"
      [] OTHER -> "read"
\* Its content: only a tool call under the finish reason of one settles it as
\* able, and only a stop without any as unable.
ProbeAnswer(x) ==
    CASE ~x.json \/ x.choices = 0 -> "malformed"
      [] x.json /\ x.choices > 0 /\ x.finish = "tool_calls" /\ x.calls > 0 -> "ok"
      [] x.json /\ x.choices > 0 /\ x.finish = "stop" /\ x.calls = 0 -> "prose"
      [] OTHER -> "inconclusive"
ProbeNativeToolCalls(x) == IF ProbeTransport(x) = "read" THEN ProbeAnswer(x) ELSE ProbeTransport(x)

\* hostReachableBaseUrl: where the host dials what the container knows as the
\* relay: an endpoint published under a name of its own is dialled as it is,
\* the relay's by the target behind it, the host's name there being this host.
HostDial(base, upstream) ==
    CASE base.host \notin {"relay", "legacy relay", "unparsed"} -> base
      [] base.host \in {"relay", "legacy relay", "unparsed"} /\ upstream # <<>> ->
            [base EXCEPT !.host = IF upstream[1].host = "docker host" THEN "loopback" ELSE upstream[1].host,
                         !.port = upstream[1].port]
      [] OTHER -> [base EXCEPT !.host = "loopback"]
\* chatProbeModel: the configured model, or the first served that is not an
\* embedding one, or the first.
ChatProbeModel(configured, served) ==
    LET chats == SelectSeq(served, LAMBDA m : ~m.embeds)
    IN CASE configured # <<>> -> configured
         [] configured = <<>> /\ chats # <<>> -> <<Head(chats).id>>
         [] OTHER -> IF served = <<>> THEN <<>> ELSE <<Head(served).id>>
=============================================================================

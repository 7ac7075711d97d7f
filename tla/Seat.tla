--------------------------------- MODULE Seat ---------------------------------
(***************************************************************************)
(* What runs in a worker's container beside Pi, and how the host reads it: *)
(* the report tools (docker/pi-extensions/report-tools.ts), the request    *)
(* for a fan-out (run/dispatch-request.ts), the drop a staged prompt is    *)
(* left in (run/dispatch-policy.ts, dispatch-trigger.ts) and the banner    *)
(* over truncated output (truncation-recovery.ts).                         *)
(*                                                                         *)
(* Tool and host each hold a request to their own copy of the rules; an    *)
(* absent field is <<>> and a present one <<value>>.                       *)
(***************************************************************************)
EXTENDS Naturals, Sequences, SequencesExt, FiniteSets, FiniteSetsExt, Functions

CONSTANTS Spellable,      \* the ids both grammars accept
          Bare,           \* the names isBareName accepts
          Collations,     \* the ids of collation tasks
          Folded,         \* Folded[id]: the id in lower case
          Owns,           \* OBSERVER_ARTIFACT_JSON_BY_WORKER: [worker -> its two names]
          MaxItems, MaxServices, MaxText, MaxBytes,
          MaxReports,     \* MAX_REPORT_FILES
          MaxDrop,        \* MAX_DISPATCH_POLICY_BYTES
          MaxProbe        \* MAX_SHAPE_PROBE_BYTES

-----------------------------------------------------------------------------
(* The console's roster.                                                   *)

\* assertRoster: both halves name someone, and no two ids share a directory
\* on a file system that ignores case.
RosterAccepted(roster) ==
    LET ids == roster.collators \o roster.reviewers IN
    /\ roster.collators # <<>>
    /\ roster.reviewers # <<>>
    /\ IsInjective([i \in DOMAIN ids |-> Folded[ids[i]]])

-----------------------------------------------------------------------------
(* The host's reading of a request: the first rule that fails names it.    *)

FirstOf(codes) ==
    LET bad == SelectSeq(codes, LAMBDA code : code # "ok") IN IF bad = <<>> THEN "ok" ELSE Head(bad)
Unless(holds, code) == IF holds THEN "ok" ELSE code

\* DispatchRequestItemSchema and DispatchRequestSchema.
ItemLegal(item) ==
    /\ item.worker \in Spellable
    /\ item.title <= MaxText /\ item.brief <= MaxText
    /\ \A services \in ToSet(item.services) :
          Len(services) <= MaxServices /\ ToSet(services) \subseteq Spellable
    /\ ~item.extra
RequestLegal(doc) ==
    /\ doc.tagged /\ ~doc.extra
    /\ doc.parent \in Spellable
    /\ Len(doc.requests) \in 1..MaxItems
    /\ \A i \in DOMAIN doc.requests : ItemLegal(doc.requests[i])

\* checkRoster, of the i-th entry.
RosterCodeUncounted(doc, i, roster) ==
    LET target == doc.requests[i].worker IN
    CASE target \in ToSet(roster.collators) -> "collator_target"
      [] target \notin ToSet(roster.collators) ->
            Unless(target \in ToSet(roster.reviewers), "worker_not_in_console")
RosterCode(doc, i, roster) ==
    LET target == doc.requests[i].worker IN
    CASE target \in ToSet(roster.collators) -> "collator_target"
      [] target \notin ToSet(roster.collators \o roster.reviewers) -> "worker_not_in_console"
      [] OTHER -> Unless(\A j \in 1..i - 1 : doc.requests[j].worker # target, "duplicate_target")

\* checkServices, of one entry.
ServicesCode(item, rule) ==
    CASE rule = "required" -> Unless(item.services # <<>>, "services_missing")
      [] rule = "refused" -> Unless(item.services = <<>>, "services_not_permitted")

\* checkObserverArtifacts: the artifact names an observer's brief holds are
\* its own two; a worker the table leaves out is not read.
OwnNamesOnly(item) == item.worker \in DOMAIN Owns => item.names \subseteq Owns[item.worker]

CheckSender(sender, roster) == Unless(sender \in ToSet(roster.collators), "sender_not_collator")
CheckDepth(task) == Unless(task \notin Collations, "collation_parent")
CheckDuplicates(doc, roster) ==
    FirstOf([i \in DOMAIN doc.requests |-> RosterCode(doc, i, roster)])

\* parseDispatchRequest: a document from the outbox directory of `task`, at
\* the worker whose outbox it is.
Parse(doc, sender, task, roster) ==
    FirstOf(<<
        Unless(sender \in Spellable /\ task \in Spellable, "unspellable_id"),
        CheckSender(sender, roster),
        CheckDepth(task),
        Unless(doc.json, "not_json"),
        Unless(RequestLegal(doc), "schema"),
        Unless(doc.parent = task, "parent_task_mismatch"),
        CheckDuplicates(doc, roster),
        FirstOf([i \in DOMAIN doc.requests |-> ServicesCode(doc.requests[i], roster.services)]),
        Unless(roster.services = "required" =>
                  \A i \in DOMAIN doc.requests : OwnNamesOnly(doc.requests[i]),
               "observer_artifact_mismatch")>>)

-----------------------------------------------------------------------------
(* The container's tools.                                                  *)

\* parseTaskPolicy over the two lines of /policy/task: the live task, if any.
Live(policy) ==
    IF policy.task \in Bare \ {"none"} /\ policy.digits
    THEN <<[task |-> policy.task, epoch |-> policy.epoch]>> ELSE <<>>

\* dispatchRequest: what the tool holds a call to before it writes anything.
\* It knows no roster, so the observers' names bind on every console.
ToolAccepts(items) ==
    /\ Len(items) \in 1..MaxItems
    /\ IsInjective([i \in DOMAIN items |-> items[i].worker])
    /\ \A item \in ToSet(items) :
          /\ item.worker \in Spellable
          /\ item.title <= MaxText /\ item.brief <= MaxText
          /\ \A services \in ToSet(item.services) :
                Len(services) <= MaxServices /\ ToSet(services) \subseteq Spellable
          /\ OwnNamesOnly(item)

\* The document it writes: the tag and the parent come from the host's state
\* and each item keeps its four fields.
ToolDocument(live, items) ==
    [json |-> TRUE, tagged |-> TRUE, extra |-> FALSE, parent |-> live.task,
     requests |-> [i \in DOMAIN items |-> [items[i] EXCEPT !.extra = FALSE]]]

\* The longest the document can be on disk: six bytes to a character of text
\* (JSON's \uXXXX), the ids as they are, and the indented frame around them.
WorstBytes(doc) ==
    256 + FoldLeft(LAMBDA n, item :
              n + 256 + 6 * (item.title + item.brief)
                + 80 * (1 + FoldLeft(LAMBDA k, s : k + Len(s), 0, item.services)),
            0, doc.requests)

\* The fan-out's call: with no live task, or refused, nothing is written.
Requested(policy, items) ==
    IF Live(policy) # <<>> /\ ToolAccepts(items)
    THEN <<ToolDocument(Live(policy)[1], items)>> ELSE <<>>

\* getReplies: the set the host declared, of the live task only; a legal set
\* has entries in /replies under bare names.  One block to an entry, which
\* says its reply is missing, unreadable, or what it is.
LegalReplies(declared) ==
    declared.schema /\ \A i \in DOMAIN declared.replies : declared.replies[i].name \in Bare
ReadReply(entry, files) ==
    [of |-> entry.task, name |-> entry.name,
     says |-> IF entry.name \notin DOMAIN files THEN "missing"
              ELSE IF files[entry.name].json THEN "given" ELSE "unreadable"]
Replies(policy, declared, files) ==
    IF /\ Live(policy) # <<>> /\ declared # <<>>
       /\ LegalReplies(declared[1])
       /\ declared[1].task = Live(policy)[1].task
       /\ declared[1].replies # <<>>
    THEN [i \in DOMAIN declared[1].replies |-> ReadReply(declared[1].replies[i], files)]
    ELSE <<>>

-----------------------------------------------------------------------------
(* A worker's report, and the one reminder.  s is the container: the       *)
(* host's policy file, the outbox, the extension's tally and the session's *)
(* entries.  The host changes the policy at any moment.                    *)

Tally(live) == [at |-> live, calls |-> 0, delivered |-> FALSE, nagged |-> FALSE]
Container(tasks) ==
    [policy |-> [task |-> "none", epoch |-> 0, digits |-> FALSE], tally |-> <<>>, writing |-> <<>>,
     files |-> [t \in tasks |-> {}], envelope |-> [t \in tasks |-> <<>>],
     session |-> <<>>, restarts |-> 0]

\* slotFor and tallyFor: one tally, of the last epoch that anything was noted
\* for; any other epoch's is empty.
TallyFor(s, live) ==
    IF s.tally # <<>> /\ s.tally[1].at = live THEN s.tally[1] ELSE Tally(live)
Said(kind, tally) == [kind |-> kind, at |-> tally.at, calls |-> tally.calls, nagged |-> tally.nagged]

\* tool_call: counted for the task that is live when it is made.
ToolCall(s) ==
    LET live == Live(s.policy) IN
    IF live = <<>> THEN s
    ELSE [s EXCEPT !.tally = <<[TallyFor(s, live[1]) EXCEPT !.calls = @ + 1]>>]

\* capProblem, filenameProblem, artifactPathProblem and artifactMissingProblem:
\* an artifact is in the task's own directory or in the work directory, and
\* exists or is one of the call's own reports.
Declarable(s, live, params) ==
    /\ Len(params.reports) <= MaxReports
    /\ ToSet(params.reports) \subseteq Bare
    /\ IsInjective(params.reports)
    /\ \A a \in params.artifacts :
          \/ a.root = "workdir" /\ a.exists
          \/ /\ a.root = live.task
             /\ a.name \in s.files[live.task] \cup ToSet(params.reports)

\* submitReport: every check comes before the first write.
SubmitBegins(s, params) ==
    LET live == Live(s.policy) IN
    IF live # <<>> /\ Declarable(s, live[1], params)
    THEN [s EXCEPT !.writing = <<[at |-> live[1], left |-> params.reports,
                                  reports |-> ToSet(params.reports), artifacts |-> params.artifacts]>>]
    ELSE s

\* One file at a time, each whole; the envelope last, and with it the
\* delivery and the session's entry of it.
SubmitWrites(s) ==
    LET w == s.writing[1]
        tally == [TallyFor(s, w.at) EXCEPT !.delivered = TRUE]
        own == {a.name : a \in {b \in w.artifacts : b.root = w.at.task}}
    IN IF w.left # <<>>
       THEN [s EXCEPT !.files[w.at.task] = @ \cup {Head(w.left)}, !.writing[1].left = Tail(w.left)]
       ELSE [s EXCEPT !.envelope[w.at.task] = <<[at |-> w.at, declares |-> w.reports \cup own]>>,
                      !.writing = <<>>, !.tally = <<tally>>,
                      !.session = Append(@, Said("submitted", tally))]

\* shouldNag and agent_end: nothing after a delivery; otherwise the reminder,
\* if the turn used a tool, has not had it and left no envelope, and then the
\* entry that nothing was submitted.  sent is FALSE when the message could
\* not be sent.
ShouldNag(tally, envelopeOnDisk) ==
    ~tally.delivered /\ ~envelopeOnDisk /\ ~tally.nagged /\ tally.calls > 0
AgentEnds(s, sent) ==
    LET live == Live(s.policy) IN
    IF live = <<>> THEN s
    ELSE LET tally == TallyFor(s, live[1])
             nags == ShouldNag(tally, s.envelope[live[1].task] # <<>>) /\ sent
             after == [tally EXCEPT !.nagged = @ \/ nags]
         IN IF tally.delivered THEN s
            ELSE [s EXCEPT !.tally = IF nags THEN <<after>> ELSE @,
                           !.session = @ \o (IF nags THEN <<Said("nag", after)>> ELSE <<>>)
                                         \o <<Said("not submitted", after)>>]

\* The container's process dies, mid-write or not, and comes back.
Restarts(s) == [s EXCEPT !.tally = <<>>, !.writing = <<>>, !.restarts = @ + 1]

-----------------------------------------------------------------------------
(* The drop of a staged prompt: characters are "h" (the header's, one      *)
(* line), "nl", "sep" (the separator line's text) and the prompt's own.    *)

Fence == <<"nl", "sep", "nl">>
RenderDrop(header, prompt) == <<header>> \o Fence \o (IF header.staged THEN prompt ELSE <<"none">>)
FenceAt(body) ==
    {i \in 2..Len(body) - 2 : body[i] = "nl" /\ body[i + 1] = "sep" /\ body[i + 2] = "nl"}

\* splitDispatchPolicy: at the first fence.
SplitDrop(body) ==
    IF FenceAt(body) = {} THEN <<>>
    ELSE LET at == CHOOSE i \in FenceAt(body) : \A j \in FenceAt(body) : i <= j
         IN <<[identity |-> SubSeq(body, 1, at - 1), prompt |-> SubSeq(body, at + 3, Len(body))]>>

\* readStagedHeader: the first line parses and the separator's line follows,
\* even where its own line end has not been written yet.
StagedHeader(body) ==
    IF Len(body) >= 3 /\ body[2] = "nl" /\ body[3] = "sep" /\ (Len(body) = 3 \/ body[4] = "nl")
    THEN (IF body[1].staged THEN <<body[1]>> ELSE <<>>) ELSE <<>>

\* writeDispatchPolicy: too long is refused before the file is touched; the
\* write is in place, so a fault leaves a beginning of it, and the file is
\* closed again to everyone but its readers either way.
WriteDrop(drop, header, prompt, fault) ==
    LET body == RenderDrop(header, prompt) IN
    CASE Len(body) > MaxDrop -> [drop EXCEPT !.outcome = "too large"]
      [] Len(body) <= MaxDrop /\ fault.at = "chmod" -> [drop EXCEPT !.outcome = "threw"]
      [] Len(body) <= MaxDrop /\ fault.at = "write" ->
            [outcome |-> "threw", body |-> SubSeq(body, 1, Min({fault.wrote, Len(body)})), closed |-> TRUE]
      [] OTHER -> [outcome |-> "written", body |-> body, closed |-> TRUE]

-----------------------------------------------------------------------------
(* truncation-recovery: rewriteBashResult.                                 *)

\* describeShape over readFullOutput: only a file read whole, that parses.
Shape(result) ==
    IF /\ result.path /\ result.full.readable
       /\ result.full.bytes <= MaxProbe
       /\ result.full.is \in {"array", "object", "object of one list"}
    THEN result.full.is ELSE "none"
RecoveryCommand(result) ==
    CASE ~result.path -> "none"
      [] Shape(result) = "array" -> "its first element"
      [] Shape(result) = "object of one list" -> "the list's first element"
      [] Shape(result) = "object" -> "its keys"
      [] OTHER -> "its end"
\* The banner goes over the first text of the result, or before all of it.
Rewritten(result) ==
    IF result.tool # "bash" \/ ~result.truncated THEN result.content
    ELSE LET banner == [is |-> "banner", parses |-> Shape(result) # "none",
                        command |-> RecoveryCommand(result)]
             texts == {i \in DOMAIN result.content : result.content[i].is = "text"}
             at == IF texts = {} THEN 1 ELSE CHOOSE i \in texts : \A j \in texts : i <= j
         IN InsertAt(result.content, at, banner)
=============================================================================

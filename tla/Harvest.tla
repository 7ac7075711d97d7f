------------------------------ MODULE Harvest ------------------------------
(***************************************************************************)
(* The verdict of a task: what git says the worker did, what its outbox    *)
(* holds and may be read, the exam re-run in a fresh clone, and the lattice*)
(* that combines them with the worker's own claim (harvest/*.ts,           *)
(* run/collation.ts).  Pure functions of one observation of the world.     *)
(*                                                                         *)
(* "none" is a null; a hash, a path and a name are values that only compare*)
(* equal or not; a document is its fate under its own schema.              *)
(***************************************************************************)
EXTENDS Naturals, Sequences, SequencesExt, FiniteSets

CONSTANTS ArtifactCap,   \* MAX_ARTIFACT_BYTES
          TaskCap,       \* MAX_RECONCILED_BYTES, over all artifacts of a task
          HeldCap,       \* MAX_HELD_DESCRIPTORS
          EntryCap,      \* MAX_OUTBOX_ENTRIES
          Surface,       \* RUNNERS: for a runner, the tier of each file it resolves
          HarnessFiles,  \* what the harness patterns in force match
          LensSeats,     \* REVIEW_CONSOLE_ASPECTS: the aspect of each reviewer
          ReplyCap,      \* MAX_REPLY_ARTIFACT_BYTES
          InlineCap      \* MAX_REPLY_INLINE_BYTES, over all artifacts of a reply

-----------------------------------------------------------------------------
(* The lattice of verdicts.                                                *)

Lattice == <<"failed", "blocked", "partial", "success">>

\* rank, one up: 0 is outside the lattice.
Rank(v) == IF Contains(Lattice, v) THEN CHOOSE i \in DOMAIN Lattice : Lattice[i] = v ELSE 0

\* adjudicate of the contracts: unknown is the identity, the worker can only lower.
Combine(derived, claimed) ==
    CASE derived \in {"aborted", "timed_out"} -> derived
      [] claimed \in {"none", "unknown"} -> derived
      [] derived = "unknown" -> claimed
      [] 0 \in {Rank(derived), Rank(claimed)} -> derived
      [] OTHER -> IF Rank(derived) <= Rank(claimed) THEN derived ELSE claimed

\* A ceiling of the lattice lowers what is above it; the ceiling "unknown" takes
\* a claim of any success away, and leaves a failure what it is.
Cap(v, ceiling) ==
    IF ceiling = "unknown" THEN IF Rank(v) > Rank("blocked") THEN "unknown" ELSE v
    ELSE IF Rank(v) > Rank(ceiling) THEN ceiling ELSE v

-----------------------------------------------------------------------------
(* What git says.                                                          *)

NoFacts(repository) ==
    [base |-> FALSE, head |-> FALSE, ancestor |-> FALSE, files |-> {}, commits |-> {},
     repository |-> repository]

\* deriveGitFacts, of a worktree whose probes answered as `git` says.
GitFacts(worktree, git) ==
    LET empty == [NoFacts(TRUE) EXCEPT !.head = TRUE] IN
    CASE ~ worktree -> [ok |-> FALSE, facts |-> NoFacts(FALSE)]
      [] git.head = "error" -> [ok |-> FALSE, facts |-> NoFacts(TRUE)]
      [] git.base = "unknown" -> [ok |-> TRUE, facts |-> empty]
      [] git.ancestry = "error" -> [ok |-> FALSE, facts |-> NoFacts(TRUE)]
      [] git.ancestry = "no" -> [ok |-> TRUE, facts |-> [empty EXCEPT !.base = TRUE]]
      [] git.diff = "error" -> [ok |-> FALSE, facts |-> NoFacts(TRUE)]
      [] OTHER -> [ok |-> TRUE, facts |-> [empty EXCEPT !.base = TRUE, !.ancestor = TRUE,
                      !.files = git.files, !.commits = git.commits]]

-----------------------------------------------------------------------------
(* The result envelope.                                                    *)

\* artifactClaimToHost, artifactPathProblem, changedPathProblem: a claimed path is
\* where it resolves to, "escapes" and "control" being the ones no mount holds.
ArtifactPathBad(claim, worktree) ==
    claim.at \notin {"files", "outbox"} /\ ~ (claim.at = "worktree" /\ worktree)
ChangedPathBad(path, worktree) ==
    path \in {"control", "absolute"} \/ (path = "escapes" /\ worktree)

\* readResultEnvelope
ReadEnvelope(raw, task) ==
    LET env == raw.envelope IN
    CASE raw.is = "absent" -> "missing"
      [] raw.is \in {"symlink", "special", "too_big", "unopenable", "grown"} -> "refused"
      [] raw.is \in {"not_json", "too_many", "schema"} -> "unreadable"
      [] env.task # task.id \/ env.epoch # task.epoch -> "refused"
      [] \E c \in env.artifacts : ArtifactPathBad(c, task.worktree) -> "refused"
      [] \E p \in env.files : ChangedPathBad(p, task.worktree) -> "refused"
      [] OTHER -> "ok"

-----------------------------------------------------------------------------
(* The files of the outbox.                                                *)

\* holdIfSafe: what a name leads to is held open only as an unshared regular file.
Holdable(entry) ==
    /\ entry.is \in {"file", "link"}
    /\ ~ entry.escapes
    /\ entry.opens = "regular"

\* walk: one entry, in readdir order; the scan stops at either cap.
ScanEntry(scan, entry) ==
    CASE scan.stopped -> scan
      [] scan.seen >= EntryCap -> [scan EXCEPT !.stopped = TRUE, !.refused = @ + 1]
      [] entry.is = "directory" -> [scan EXCEPT !.seen = @ + 1]
      [] entry.is \in {"file", "link"} /\ ~ entry.escapes /\ Len(scan.safe) >= HeldCap ->
            [scan EXCEPT !.seen = @ + 1, !.refused = @ + 1, !.stopped = TRUE]
      [] Holdable(entry) -> [scan EXCEPT !.seen = @ + 1, !.safe = Append(@, entry)]
      [] OTHER -> [scan EXCEPT !.seen = @ + 1, !.refused = @ + 1]

\* scanOutboxFiles: a directory that is a link or no directory is not scanned.
Scan(directory, entries) ==
    LET none == [safe |-> <<>>, refused |-> 0, seen |-> 0, stopped |-> FALSE] IN
    CASE directory = "absent" -> none
      [] directory \in {"symlink", "not_directory"} -> [none EXCEPT !.refused = 1]
      [] OTHER -> FoldLeft(ScanEntry, none, entries)

-----------------------------------------------------------------------------
(* The collation of a review.                                              *)

\* The fences of CollationSchema that relate its parts.
CollationWellFormed(c) ==
    LET reported == {l.worker : l \in {x \in ToSet(c.lenses) : x.reported}} IN
    /\ c.lenses # <<>> /\ reported # {}
    /\ \A i, j \in DOMAIN c.lenses : i # j =>
          c.lenses[i].worker # c.lenses[j].worker /\ c.lenses[i].aspect # c.lenses[j].aspect
    /\ \A f \in ToSet(c.findings) :
          /\ IsInjective(f.raised_by)
          /\ (ToSet(f.raised_by) \cup f.disputed_by) \subseteq reported
          /\ ToSet(f.raised_by) \cap f.disputed_by = {}

\* lensTableProblem: the table is the console's seats, no fewer and no more.
LensTableRight(c) ==
    {<<l.worker, l.aspect>> : l \in ToSet(c.lenses)}
        = {<<w, LensSeats[w]>> : w \in DOMAIN LensSeats}

\* readCollation
ReadCollation(c, task) ==
    CASE ~ c.json -> "not_json"
      [] ~ CollationWellFormed(c) -> "schema"
      [] c.task # task.id -> "filed_under_wrong_task"
      [] ~ c.derived -> "derived_id_mismatch"
      [] ~ LensTableRight(c) -> "lens_table_wrong"
      [] OTHER -> "ok"

\* findingLocationProblem
Located(f) == f.file = "inside" /\ f.line >= 1

\* lensCoverage
LensCoverage(c) ==
    [total |-> Len(c.lenses), reported |-> Cardinality({l \in ToSet(c.lenses) : l.reported})]

\* censusCollation, censusRefused, censusFromRead
Census(read) ==
    CASE read.kind = "missing" -> [kind |-> "none", counted |-> 0, located |-> 0]
      [] read.kind # "ok" -> [kind |-> "refused", counted |-> 0, located |-> 0]
      [] OTHER -> [kind |-> "ok", counted |-> Len(read.collation.findings),
                   located |-> Cardinality({i \in DOMAIN read.collation.findings :
                                               Located(read.collation.findings[i])})]

\* censusCeiling: findings nobody can open.
CensusCeiling(census, claimed) ==
    IF census.kind = "ok" /\ claimed = "success" /\ census.located < census.counted
    THEN "partial" ELSE "success"

\* collationCeiling, collationCeilingFor, capCollationVerdict: a review that found
\* nothing, or left nothing to read, is no clean pass.
CollationCeiling(task, claimed, read) ==
    IF task.collates /\ claimed = "success"
         /\ (read.kind # "ok" \/ Census(read).counted = 0)
    THEN "partial" ELSE "success"

-----------------------------------------------------------------------------
(* Reconciling the files with the claim.                                   *)

Checked == {"ticket-ops", "observer"}
Unread == [kind |-> "missing"]

\* digestHeldArtifact, of a file that may have grown since it was held.
Digest(entry, spent) ==
    CASE ~ entry.readable -> "unreadable"
      [] entry.size > ArtifactCap -> "too_large"
      [] entry.size > TaskCap - spent -> "over_budget"
      [] OTHER -> "ok"

\* The part of a collation's turn: the first in path order is the one read.
TakeCollation(entry, outcome, read, task) ==
    IF entry.name # "collation" \/ read.kind # "missing" THEN read
    ELSE IF outcome # "ok" THEN [kind |-> "too_large"]
    ELSE LET fate == ReadCollation(entry.collation, task) IN
         IF fate = "ok" THEN [kind |-> "ok", collation |-> entry.collation]
         ELSE [kind |-> fate]

\* One artifact in path order; past the task's budget nothing more is read, and
\* an observer's report that was not reached is one that could not be validated.
ReconcileFile(acc, entry, task) ==
    LET outcome == Digest(entry, acc.spent)
        failed == entry.name \in Checked /\ (outcome # "ok" \/ ~ entry.valid)
    IN
    IF acc.stopped
    THEN [acc EXCEPT !.failed = @ \/ entry.name = "observer"]
    ELSE [stopped |-> outcome = "over_budget",
          spent |-> acc.spent + (IF outcome = "ok" THEN entry.size ELSE 0),
          failed |-> acc.failed \/ failed,
          read |-> TakeCollation(entry, outcome, acc.read, task),
          digested |-> IF outcome = "ok" THEN Append(acc.digested, entry.path) ELSE acc.digested]

\* The documents whose checked half is not beside them.
Orphaned(safe) ==
    {d \in ToSet(safe) : d.name \in {"ticket-ops.md", "observer.md"}
        /\ ~ \E a \in ToSet(safe) : a.dir = d.dir
              /\ a.name = (IF d.name = "observer.md" THEN "observer" ELSE "ticket-ops")}

\* The claims no file of the scan answers, and the files no claim names.
Claimless(safe, claims) == {e.path : e \in ToSet(safe)} \ {c.path : c \in claims}
Fileless(safe, claims) ==
    {c.path : c \in {x \in claims : x.at # "files" \/ x.path \notin {e.path : e \in ToSet(safe)}}}

\* reconcileArtifactClaims
Reconcile(held, heard, claims, task) ==
    LET safe == SortSeq(held, LAMBDA a, b : a.path < b.path)
        none == [stopped |-> FALSE, spent |-> 0, failed |-> FALSE, read |-> Unread,
                 digested |-> <<>>]
        read == FoldLeft(LAMBDA acc, entry : ReconcileFile(acc, entry, task), none, safe)
    IN [read |-> read.read, digested |-> read.digested,
        ceiling |-> IF read.failed \/ Orphaned(safe) # {} THEN "failed" ELSE "success",
        discrepancies |-> Fileless(safe, claims)
                          \cup (IF heard THEN Claimless(safe, claims) ELSE {})]

-----------------------------------------------------------------------------
(* The exam.                                                               *)

\* execBounded, runOne: an unspawnable command is a failed one, an untokenizable
\* one was not run.
RunOne(command, budget) ==
    CASE budget <= 0 -> "not_run"
      [] command.ends = "untokenizable" -> "not_run"
      [] command.ends = "timed_out" -> "timed_out"
      [] command.ends = "exit 0" -> "passed"
      [] OTHER -> "failed"

\* runAcceptance: whole in a fresh clone, or none of it; "throws" is the scratch
\* that cannot be made, which the caller takes for an exam with no commands.
RunAcceptance(exam, commands) ==
    CASE exam.fault = "throws" -> <<>>
      [] exam.fault # "none" \/ exam.budget <= 0 -> [i \in DOMAIN commands |-> "not_run"]
      [] OTHER -> [i \in DOMAIN commands |-> RunOne(commands[i], exam.budget - i)]

\* acceptanceEvidence
AcceptanceEvidence(outcomes) ==
    CASE outcomes = <<>> -> "unknown"
      [] Contains(outcomes, "failed") -> "failed"
      [] ToSet(outcomes) \cap {"timed_out", "not_run"} # {} -> "unknown"
      [] OTHER -> "success"

\* gradedSurface, peakTier: the strictest tier any file the diff touches has for
\* a runner the exam used.
TierRank(t) == CASE t = "dependency" -> 1 [] t = "toolchain" -> 2 [] t = "executes" -> 3
GradedSurface(runners, files) ==
    UNION {{Surface[r][f] : f \in files \cap DOMAIN Surface[r]} :
              r \in runners \cap DOMAIN Surface}
\* capFor
TierCap(tiers) ==
    CASE tiers = {} -> "success"
      [] \A t \in tiers : TierRank(t) = 1 -> "partial"
      [] OTHER -> "unknown"

-----------------------------------------------------------------------------
(* The verdict.                                                            *)

\* What the evidence says before the claim is weighed: a claim that disagrees
\* with the diff is a failure, and so is success with nothing done or passed.
Derived(facts, claim) ==
    LET exam == AcceptanceEvidence(facts.acceptance) IN
    IF claim.status # "none" /\
       (facts.files # claim.files
        \/ (facts.repository /\ claim.status = "success" /\ facts.files = {}
              /\ facts.commits = {} /\ exam # "success"))
    THEN "failed" ELSE exam

\* Mutant: the claim is adopted whatever became of the exam (before ISC-230).
AdjudicateTrusting(facts, claim) ==
    IF facts.repository /\ ~ facts.ancestor THEN "unknown"
    ELSE FoldLeft(Cap, Combine(Derived(facts, claim), claim.status),
                  <<CensusCeiling(facts.census, claim.status), TierCap(facts.tiers)>>)

\* adjudicate
Adjudicate(facts, claim) ==
    LET ceilings == <<CensusCeiling(facts.census, claim.status),
                      IF facts.files \cap HarnessFiles # {} THEN "unknown" ELSE "success",
                      TierCap(facts.tiers),
                      IF ToSet(facts.acceptance) \cap {"timed_out", "not_run"} # {}
                      THEN "unknown" ELSE "success">>
    IN
    IF "none" \notin {facts.quiesced, facts.harvested} /\ facts.quiesced # facts.harvested
    THEN "unknown"
    ELSE IF facts.repository /\ ~ facts.ancestor THEN "unknown"
    ELSE FoldLeft(Cap, Combine(Derived(facts, claim), claim.status), ceilings)

NoClaim == [status |-> "none", artifacts |-> {}, files |-> {}]

\* The record of this epoch; a record of another says nothing.
RecordOf(task, record) == IF record.epoch = task.epoch THEN record ELSE
    [epoch |-> task.epoch, verdict |-> "none", tree |-> "none"]

\* harvestTask, of a dispatch record that was read.
Graded(task, world) ==
    LET git == GitFacts(task.worktree, world.git)
        envelope == ReadEnvelope(world.result, task)
        claim == IF envelope = "ok" THEN world.result.envelope ELSE NoClaim
        scan == Scan(world.directory, world.entries)
        books == Reconcile(scan.safe, envelope = "ok", claim.artifacts, task)
        examined == world.exam.asked /\ git.ok /\ git.facts.head /\ task.worktree
        outcomes == IF examined THEN RunAcceptance(world.exam, task.acceptance) ELSE <<>>
        runners == IF outcomes = <<>> THEN {} ELSE {c.runner : c \in ToSet(task.acceptance)}
        record == RecordOf(task, world.record)
        facts == [repository |-> git.facts.repository, ancestor |-> git.facts.ancestor,
                  files |-> git.facts.files, commits |-> git.facts.commits,
                  acceptance |-> outcomes, census |-> Census(books.read),
                  tiers |-> GradedSurface(runners, git.facts.files),
                  quiesced |-> record.tree,
                  harvested |-> IF task.worktree THEN world.tree ELSE "none"]
        capped == Cap(Cap(Adjudicate(facts, claim), books.ceiling),
                      CollationCeiling(task, claim.status, books.read))
    IN
    [verdict |-> IF record.verdict \in {"aborted", "timed_out"} THEN record.verdict ELSE capped,
     status |-> CASE ~ git.ok /\ envelope # "ok" -> "unavailable"
                  [] git.ok /\ envelope \in {"ok", "missing"} /\ scan.refused = 0 -> "complete"
                  [] OTHER -> "partial",
     discrepancies |-> books.discrepancies]

\* harvestTask, unavailableHarvest; harvestAll takes it of every dispatched task
HarvestTask(task, world) ==
    IF world.inbox # "ok"
    THEN [verdict |-> "unknown", status |-> "unavailable", discrepancies |-> {}]
    ELSE Graded(task, world)
-----------------------------------------------------------------------------
(* What the collator of a review is told (run/relay.ts): per lens, what    *)
(* became of it, as much of its artifacts as fits, and what to say of a    *)
(* report that did not reach it.                                           *)

\* planInlineBudget: the smallest first, each no more than an even share of what
\* is left.
PlanInlineBudget(sizes) ==
    LET want == [i \in DOMAIN sizes |-> Min({sizes[i], ReplyCap})]
        order == SortSeq([i \in DOMAIN sizes |-> i],
                         LAMBDA i, k : want[i] < want[k] \/ (want[i] = want[k] /\ i < k))
        Grant(acc, i) ==
            LET give == Min({want[i], acc.left \div acc.waiting}) IN
            [left |-> acc.left - give, waiting |-> acc.waiting - 1,
             granted |-> [acc.granted EXCEPT ![i] = give]]
    IN FoldLeft(Grant, [left |-> InlineCap, waiting |-> Len(sizes),
                        granted |-> [i \in DOMAIN sizes |-> 0]], order).granted

\* One artifact, of which the file may by now hold less; with nothing granted it
\* is not opened.
Inline(artifact, budget) ==
    LET unreadable == budget # 0 /\ ~ artifact.readable
        included == IF unreadable THEN 0 ELSE Min({budget, artifact.holds})
    IN [path |-> artifact.path, bytes |-> artifact.bytes, included |-> included,
        truncated |-> ~ unreadable /\ included < artifact.bytes, unreadable |-> unreadable]
Inlined(artifacts) ==
    LET budgets == PlanInlineBudget([i \in DOMAIN artifacts |-> artifacts[i].bytes]) IN
    [i \in DOMAIN artifacts |-> Inline(artifacts[i], budgets[i])]

\* relayEnvelopeState: where the harvest placed an unreadable report, that is
\* what counts.
RelayEnvelopeState(bundle) ==
    CASE bundle.placed -> "unreadable"
      [] ~ bundle.placed /\ bundle.read = "missing" -> "absent"
      [] ~ bundle.placed /\ bundle.read = "ok" -> "present"
      [] ~ bundle.placed /\ bundle.read = "unreadable" -> "unreadable_unspecified"
      [] OTHER -> bundle.read

\* What a note says of the outbox: of a report that was looked for,
OutboxClause(outbox) ==
    CASE outbox \in {"none", "unlistable"} -> {}
      [] outbox = "empty" -> {"nothing else is there"}
      [] outbox = "entries" -> {"more is there, unopened"}
\* and of one that nobody could look for.
UnreadOutboxClause(outbox) ==
    CASE outbox = "none" -> {}
      [] outbox \in {"unlistable", "empty"} -> {"a report may be there, unread"}
      [] outbox = "entries" -> {"a report may be there, unread", "more is there, unopened"}

MissingLensNote(envelope, outbox) ==
    CASE envelope = "unreadable" -> {"written, not readable"}
      [] envelope = "unreadable_unspecified" -> {"written, not readable"} \cup OutboxClause(outbox)
      [] envelope = "absent" -> {"not written"} \cup OutboxClause(outbox)
      [] envelope = "refused" -> {"written, refused"} \cup OutboxClause(outbox)
      [] envelope = "present" -> {"readable, not a success"}
      [] envelope = "none" -> {"did not arrive"} \cup OutboxClause(outbox)

\* What became of a seat's lens: not asked for, asked for in vain, not harvested
\* (the outbox is listed instead), or harvested.
RelayChild(fate) ==
    LET lost == [verdict |-> "unknown", succeeded |-> FALSE, issued |-> FALSE,
                 harvestFailed |-> FALSE, inlined |-> <<>>, envelope |-> "none"]
        With(child, note) == [note |-> note] @@ child
    IN CASE fate.is = "unnamed" -> With(lost, {"not asked for"})
         [] fate.is = "not landed" -> With(lost, {"never dispatched"})
         [] fate.is = "unharvested" ->
              With([lost EXCEPT !.issued = TRUE, !.harvestFailed = TRUE],
                   {"not harvested"} \cup UnreadOutboxClause(fate.outbox))
         [] fate.is = "harvested" ->
              LET envelope == RelayEnvelopeState(fate.bundle)
                  succeeded == fate.verdict = "success"
              IN With([lost EXCEPT !.verdict = fate.verdict, !.succeeded = succeeded,
                                   !.issued = TRUE, !.envelope = envelope,
                                   !.inlined = Inlined(fate.artifacts)],
                      IF succeeded THEN {} ELSE MissingLensNote(envelope, fate.outbox))

\* collationBrief: the reports there are, the lenses without one, why that is no
\* finding of theirs, and which artifacts are there in part or not at all.
CollationBrief(fates) ==
    LET children == [w \in DOMAIN fates |-> RelayChild(fates[w])]
        survived == {w \in DOMAIN fates : children[w].succeeded}
        missing == DOMAIN fates \ survived
        parts(Said(_)) == UNION {{<<w, a.path>> : a \in {x \in ToSet(children[w].inlined) : Said(x)}} :
                                    w \in survived}
    IN [reports |-> survived,
        missing |-> [w \in missing |-> children[w].note],
        unreadable |-> {w \in missing : children[w].envelope \in {"unreadable", "unreadable_unspecified"}},
        unharvested |-> {w \in missing : children[w].harvestFailed},
        refused |-> {w \in missing : children[w].envelope = "refused"},
        cut |-> parts(LAMBDA a : a.truncated),
        lost |-> parts(LAMBDA a : a.unreadable),
        coverage |-> [reported |-> Cardinality(survived), dispatched |-> Cardinality(DOMAIN fates)]]
=============================================================================

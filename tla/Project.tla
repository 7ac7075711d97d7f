------------------------------ MODULE Project ------------------------------
(***************************************************************************)
(* The project manager's console: the merge of the workers' branches into  *)
(* the integration branch, one after the other (run/pm-integration.ts), the*)
(* state file and what it may claim of a phase (run/pm-state.ts), the      *)
(* verdict of a review (run/pm-verdict.ts) and the two guards around a     *)
(* dispatch (run/pm-guards.ts).                                            *)
(*                                                                         *)
(* A checkout is [branch, dirty, midMerge, refs, at]: the merges its       *)
(* branch holds, what is left in its tree, the incoming refs in it, and    *)
(* whether HEAD names a branch.  A worker brings [name, paths, fate]: the  *)
(* paths its branch changes and the one git command that fails.            *)
(***************************************************************************)
EXTENDS Naturals, Sequences, SequencesExt, FiniteSets

CONSTANTS Hazardous,    \* the paths HAZARD_PATH_RULES match
          Seats         \* REVIEW_CONSOLE_ASPECTS: the aspects of the review console

-----------------------------------------------------------------------------
(* Integration.                                                            *)

\* classifyHazardPath, findHazardTouches, over what incomingTreeChanges lists.
HazardTouches(paths) == paths \cap Hazardous

\* assertMergePreconditions: on a branch, with no tracked file changed; what an
\* earlier merge left is refused like the operator's own work, with its evidence.
PreconditionsHold(checkout) == checkout.onBranch /\ ~ checkout.dirty
Leftover(checkout, unrestored) == checkout.dirty /\ (unrestored # {} \/ checkout.midMerge)

\* workerCloneLocalPath, scanWorkerCloneBeforeFetch: only a local clone is scanned,
\* and what is found is evidence on the row, not a refusal.
PreFetchHazards(worker) == IF worker.remote = "path" THEN worker.cloneHazards ELSE {}

\* fetch into a ref of the worker's own, replacing what is there.
Fetched(checkout, worker) == [checkout EXCEPT !.refs = @ \cup {worker.name}]
\* deleteIncomingRef
RefDropped(checkout, worker) == [checkout EXCEPT !.refs = @ \ {worker.name}]

\* restoreAfterFailedMerge: the exit of --abort is not believed; what MERGE_HEAD
\* and status then say is, and a status that cannot be read is no restored tree.
AfterAbort(checkout, worker) ==
    [checkout EXCEPT !.midMerge = worker.fate = "abort", !.dirty = worker.fate = "abort"]
TreeRestored(checkout, worker) ==
    ~ checkout.midMerge /\ ~ checkout.dirty /\ worker.fate # "abort_status"

Row(worker, kind, restored) ==
    [worker |-> worker.name, kind |-> kind, merged |-> kind = "merged", restored |-> restored,
     commit |-> IF kind = "merged" THEN worker.name ELSE "none",
     hazards |-> IF kind = "refused_hazard" THEN HazardTouches(worker.paths) ELSE {},
     preFetch |-> PreFetchHazards(worker)]
NoRow == <<>>

\* Mutant: a hazardous change is merged, and neutralised after.
MergeWorkerUninspected(checkout, worker) ==
    [checkout |-> [checkout EXCEPT !.branch = @ \cup {worker.name}], threw |-> FALSE,
     row |-> <<Row(worker, "merged", TRUE)>>]

\* mergeWorkerBranch and toIntegrationWorkerRow: the checkout it leaves, and its row
\* if it did not throw.
MergeWorker(checkout, worker) ==
    LET fetched == Fetched(checkout, worker)
        refused == RefDropped(fetched, worker)
        aborted == AfterAbort(refused, worker)
        merged == [fetched EXCEPT !.branch = @ \cup {worker.name}]
    IN
    CASE ~ PreconditionsHold(checkout) -> [checkout |-> checkout, row |-> NoRow, threw |-> TRUE]
      [] worker.fate = "fetch" -> [checkout |-> checkout, row |-> NoRow, threw |-> TRUE]
      [] worker.fate = "rev-parse" -> [checkout |-> fetched, row |-> NoRow, threw |-> TRUE]
      [] worker.fate = "diff" -> [checkout |-> refused, row |-> NoRow, threw |-> TRUE]
      [] HazardTouches(worker.paths) # {} ->
            [checkout |-> refused, threw |-> FALSE, row |-> <<Row(worker, "refused_hazard", TRUE)>>]
      [] worker.fate \in {"merge", "abort", "abort_status"} ->
            [checkout |-> aborted, threw |-> FALSE,
             row |-> <<Row(worker, "merge_failed", TreeRestored(aborted, worker))>>]
      [] worker.fate = "head" -> [checkout |-> RefDropped(merged, worker), row |-> NoRow, threw |-> TRUE]
      [] OTHER -> [checkout |-> merged, threw |-> FALSE, row |-> <<Row(worker, "merged", TRUE)>>]

\* A batch, worker by worker: each told who before it left the tree unrestored.
MergeBatch(checkout, workers) ==
    FoldLeft(LAMBDA acc, worker :
                LET done == MergeWorker(acc.checkout, worker) IN
                [checkout |-> done.checkout, rows |-> acc.rows \o done.row,
                 blamed |-> acc.blamed \cup
                    (IF Leftover(acc.checkout, {r.worker : r \in {x \in ToSet(acc.rows) : ~ x.restored}})
                     THEN {worker.name} ELSE {})],
             [checkout |-> checkout, rows |-> <<>>, blamed |-> {}], workers)

\* IntegrationWorkerRowSchema: a row is merged exactly when it names its commit.
RowAccepted(row) == row.merged <=> row.commit # "none"

-----------------------------------------------------------------------------
(* The state file.                                                         *)

Intended(phase) == FlattenSeq([i \in DOMAIN phase.partition |-> phase.partition[i].tasks])
Owner(phase, task) == {e.worker : e \in {x \in ToSet(phase.partition) : task \in ToSet(x.tasks)}}

\* PmPhaseSchema: one owner per file and round and per task, and no dispatch the
\* partition does not assign to that worker.
PhaseAccepted(phase) ==
    /\ \A i, j \in DOMAIN phase.partition :
          LET a == phase.partition[i]
              b == phase.partition[j] IN
          (i # j /\ a.round = b.round) => a.files \cap b.files = {}
    /\ IsInjective(Intended(phase))
    /\ \A d \in ToSet(phase.dispatched) : Owner(phase, d.task) = {d.worker}

\* PmStateDocumentSchema
DocumentAccepted(doc) ==
    LET numbers == {p.n : p \in ToSet(doc.phases)} IN
    /\ \A p \in ToSet(doc.phases) : PhaseAccepted(p)
    /\ Cardinality(numbers) = Len(doc.phases) /\ doc.total = Len(doc.phases)
    /\ doc.current \in numbers
    /\ IsInjective(doc.completed) /\ ToSet(doc.completed) \subseteq numbers
    /\ \A p \in ToSet(doc.phases) :
          (p.partition = <<>>) => (~ Contains(doc.completed, p.n) /\ p.dispatched = <<>>)

\* phaseCompletionClaim
CompletionClaim(doc, phase) ==
    CASE Contains(doc.completed, phase.n) -> "claimed_complete_unverified"
      [] phase.dispatched # <<>> \/ doc.current = phase.n -> "started_not_claimed_complete"
      [] OTHER -> "never_started"

\* resolvePhaseCompletion: evidence is the tasks with artifacts and the tasks merged.
Resolution(doc, phase, evidence) ==
    LET intended == ToSet(Intended(phase)) IN
    CASE intended = {} -> "no_partition"
      [] intended \subseteq (evidence.artifacts \cap evidence.merged) -> "complete"
      [] Contains(doc.completed, phase.n) -> "stale_file"
      [] OTHER -> "incomplete"

-----------------------------------------------------------------------------
(* The verdict of a review.                                                *)

\* Mutant: a report that could not be read is one that said nothing.
MissingLensesSilent(review) == {c \in review.children : review.reply[c] = "missing"}

\* computeCoverageCounts, computeMissingLenses: replies of the children dispatched.
MissingLenses(review) == {c \in review.children : review.reply[c] # "reported"}

\* computeLensDisagreements: what the collation says of the lenses against what the
\* journal dispatched and the host can read.
Disagreements(review) ==
    {<<"no_row", s>> : s \in {x \in Seats : x \in review.children
                                  /\ x \notin {l.aspect : l \in review.lenses}}}
      \cup {<<"undispatched", l.aspect>> : l \in {x \in review.lenses : x.aspect \notin review.children}}
      \cup {<<"no_reply", l.aspect>> : l \in {x \in review.lenses :
               x.aspect \in review.children /\ x.reported /\ review.reply[x.aspect] # "reported"}}

\* isDisputedSingleRaiser
Dissent(finding) == Cardinality(finding.raised) = 1 /\ finding.disputed # {}

\* deriveReviewVerdict
ReviewVerdict(review) ==
    CASE review.recorded # review.current -> "VOID"
      [] ~ review.journalled -> "NO_COLLATION"
      [] MissingLenses(review) = review.children -> "NO_COLLATION"
      [] MissingLenses(review) # {} -> "REVIEW_INCOMPLETE"
      [] ~ review.collated -> "NO_COLLATION"
      [] review.findings = {} -> "APPROVED"
      [] \A f \in review.findings : Dissent(f) -> "APPROVED_WITH_DISSENT"
      [] OTHER -> "CHANGES_REQUESTED"

\* nextReviewIterationCount: only a verdict that asks for changes spends one.
NextIteration(current, review) ==
    IF ReviewVerdict(review) = "CHANGES_REQUESTED" THEN current + 1 ELSE current

-----------------------------------------------------------------------------
(* The guards of a dispatch.                                               *)

\* confirmDispatchStarted, dispatchProblem: what the dispatch said, then what status says.
Confirmation(dispatch, status, worker, task) ==
    CASE dispatch # "accepted" -> "refused"
      [] ~ status.readable \/ worker \notin DOMAIN status.rows -> "unconfirmed"
      [] status.rows[worker].task = task -> "started"
      [] status.rows[worker].staged = task -> "staged"
      [] OTHER -> "unconfirmed"

\* testerCloneCoversMerge
CloneFresh(contained, merges) == merges \subseteq contained
=============================================================================

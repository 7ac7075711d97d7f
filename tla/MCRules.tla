------------------------------- MODULE MCRules -------------------------------
(***************************************************************************)
(* The program's pure rules, each over every input of a small set: a state *)
(* is one input, and a rule's invariant says what its answer may be.       *)
(***************************************************************************)
EXTENDS Naturals, Sequences, SequencesExt, FiniteSets, FiniteSetsExt

VARIABLE input
vars == <<input>>

\* Nothing asked yet, of one family of rules.
Asked(family) == input = [of |-> "none", family |-> family]

\* The sequences of at most n members of S.
UpTo(S, n) == UNION {[1..k -> S] : k \in 0..n}

-----------------------------------------------------------------------------
(* A sweep: two scenarios of targets, partitions, artifacts, documents.    *)

Seats == [k1 |-> "k8s", k2 |-> "k8s", d1 |-> "docker"]
V == INSTANCE SweepVerdict WITH SeatKind <- Seats, MaxServices <- 4

Environment(name, kind, services) ==
    [name |-> name, kind |-> kind, context |-> "ctx", window |-> 2,
     override |-> [s \in ToSet(services) |-> 1], services |-> services]
OneCluster == <<Environment("prod", "k8s", <<"a", "b">>)>>
ClusterAndHost == <<Environment("prod", "k8s", <<"a">>), Environment("host", "docker", <<"a">>)>>

Asks(worker, services) == [worker |-> worker, services |-> services]
Partitions(envs) ==
    IF Len(envs) = 1
    THEN {<<Asks("k1", <<"a">>), Asks("k2", <<"b">>)>>, <<Asks("k1", <<"b", "a">>)>>,
          <<Asks("k1", <<"a">>), Asks("k2", <<"a", "b">>)>>, <<Asks("k2", <<"b">>)>>}
    ELSE {<<Asks("k1", <<"a">>), Asks("d1", <<"a">>)>>,
          <<Asks("k1", <<"a">>), Asks("k2", <<"a">>)>>, <<Asks("d1", <<"a">>)>>}

Policy == [at |-> 5, window |-> 2, reserve |-> 1]
Artifact(worker, sweep, opened) == [worker |-> worker, sweep |-> sweep, opened |-> opened]
Artifacts(worker) ==
    {{}} \cup {{Artifact(worker, w[1], w[2])} :
                  w \in {<<"now", 4>>, <<"now", 1>>, <<"before", 4>>, <<"none", 4>>, <<"now", 0>>}}

Row(environment, service, assessment, evidence) ==
    [environment |-> environment, service |-> service, assessment |-> assessment,
     coverage |-> <<"attempted">>, selector |-> "sel", window |-> "win",
     evidence |-> evidence, note |-> "note", channels |-> <<>>]
Healthy(environment, service) == Row(environment, service, "healthy", <<"ref">>)
Rows(envs) ==
    {Healthy(e, "a") : e \in {"none"} \cup {x.name : x \in ToSet(envs)}}
      \cup {Row("prod", "a", "healthy", <<>>), Row("none", "a", "unhealthy", <<"ref">>),
            [Healthy("none", "a") EXCEPT !.selector = "blank"],
            [Healthy("prod", "a") EXCEPT !.window = "none"],
            [Healthy("prod", "a") EXCEPT !.coverage = <<"not_attempted">>]}
Documents(envs) ==
    {[sweep |-> id, rows |-> rows, unaccounted |-> <<>>] :
        id \in {"now", "before"}, rows \in UpTo(Rows(envs), 2)}

Sweep ==
    \E envs \in {OneCluster, ClusterAndHost} :
    \E wanted \in Partitions(envs), probe \in {"answered", "timeout"} :
    \E mine \in Artifacts("k1"),
       theirs \in {{}, {Artifact(IF Len(envs) = 1 THEN "k2" ELSE "d1", "now", 4)}} :
    \E document \in Documents(envs) :
        /\ input' = [of |-> "sweep", envs |-> envs, sweep |-> "now", policy |-> Policy,
                     assignments |-> V!ReadPartition(<<[kind |-> "ok", requests |-> wanted]>>),
                     artifacts |-> mine \cup theirs, probe |-> probe,
                     document |-> V!Merged("now", <<document>>)]

\* The service is told clear only when the observer the partition gives it to
\* answered in this sweep and inside its window, the collation is this sweep's
\* and holds exactly one row of it, healthy with all four kinds of evidence; a
\* dispatched partition leaves no service to nobody and none to two; and what
\* the next sweep is told of a graded service is the grade
\* (triage-verdict.ts: assessTriageSweep, sweepObservations;
\* triage-partition.ts: dispatchPartition; triage-envelope.ts:
\* projectPreviousState).
SweepsEarned ==
    input.of = "sweep" =>
    LET claims(e, s) == {a \in ToSet(input.assignments) :
                            s \in ToSet(a.services) /\ Seats[a.worker] = e.kind}
        graded(e, s) == V!AssessService(e.name, s, input)
    IN \A e \in ToSet(input.envs) : \A s \in ToSet(e.services) :
        /\ V!DispatchPartition(input.envs, input.assignments).kind = "dispatched"
              => Cardinality(claims(e, s)) = 1
        /\ V!Signal(e.name, s, input, input.probe) = "clear" =>
              /\ \E a \in claims(e, s), r \in input.artifacts :
                    /\ r.worker = a.worker /\ r.sweep = input.sweep
                    /\ r.opened \in (Policy.at - Policy.window - Policy.reserve)..Policy.at
              /\ input.document.sweep = input.sweep
              /\ Cardinality({i \in DOMAIN input.document.rows :
                    LET row == input.document.rows[i] IN
                    /\ row.service = s
                    /\ row.environment \in {e.name, "none"}}) >= 1
              /\ \A row \in ToSet(V!RowsOf(e.name, s, input.envs, input.document)) :
                    row.assessment = "healthy" /\ V!EvidenceGaps(row) = {}
              /\ Len(V!RowsOf(e.name, s, input.envs, input.document)) = 1
        /\ graded(e, s).reason = "observed" =>
              [environment |-> e.name, service |-> s, assessment |-> graded(e, s).assessment]
                 \in V!PreviousState(input.document, input.envs)

\* The console's files.
I == INSTANCE Inventory WITH SeatKind <- Seats, MaxServices <- 4, MaxUnits <- 1

Service(name, checks) ==
    [name |-> name, token |-> TRUE, namespace |-> "ns", checks |-> checks, units |-> <<>>, window |-> 0]
Logs == Service("a", <<"logs">>)
DeclaredServices ==
    {<<Logs>>, <<Service("a", <<>>)>>, <<Service("a", <<"logs", "logs">>)>>, <<Service("a", <<"state">>)>>,
     <<Logs, Logs>>, <<[Logs EXCEPT !.token = FALSE]>>, <<[Logs EXCEPT !.namespace = "target"]>>, <<>>,
     <<[Logs EXCEPT !.namespace = "target", !.units = <<"u">>]>>,
     <<[Logs EXCEPT !.units = <<"u", "u">>]>>, [n \in 1..3 |-> Service(<<"a", "b", "c">>[n], <<"logs">>)]}
       \cup {<<[Logs EXCEPT !.window = w], Service("b", <<"logs">>)>> : w \in {60, 300, 301, 400}}
DeclaredEnvironments(name) ==
    {[name |-> name, token |-> TRUE, kind |-> k, target |-> "target", context |-> name, window |-> 300,
      services |-> s] : k \in {"none", "k8s", "docker", "vm", "other"}, s \in DeclaredServices}
      \cup {[name |-> name, token |-> t, kind |-> "k8s", target |-> "target", context |-> name,
             window |-> w, services |-> <<Logs>>] : t \in BOOLEAN, w \in {60, 301}}
Absent == [is |-> "missing"]
Unread == [is |-> "torn"]
TargetsFiles ==
    {Absent, Unread, [is |-> "document", environments |-> <<>>]}
      \cup {[is |-> "document", environments |-> <<e>>] : e \in DeclaredEnvironments("prod")}
      \cup {[is |-> "document", environments |-> <<e, f>>] :
               e \in {x \in DeclaredEnvironments("prod") : x.kind = "k8s"},
               f \in {x \in DeclaredEnvironments("host") : x.kind \in {"k8s", "docker"}}}
Endpoint == [parses |-> TRUE, scheme |-> "https", userinfo |-> FALSE, query |-> FALSE]
Notify == [endpoint |-> Endpoint, timeout |-> 5000, retries |-> 12, priority |-> <<4, 3, 3, 4>>,
           tokenNamed |-> TRUE]
Notifies == {<<>>, <<Notify>>, <<[Notify EXCEPT !.timeout = 999]>>, <<[Notify EXCEPT !.retries = 0]>>,
             <<[Notify EXCEPT !.priority = <<4, 3, 6, 4>>]>>, <<[Notify EXCEPT !.tokenNamed = FALSE]>>}
              \cup {<<[Notify EXCEPT !.endpoint = e]>> :
                       e \in {[Endpoint EXCEPT !.parses = FALSE], [Endpoint EXCEPT !.scheme = "ftp"],
                              [Endpoint EXCEPT !.userinfo = TRUE], [Endpoint EXCEPT !.query = TRUE]}}
ConsoleFile(fields, notify) == [is |-> "document", fields |-> fields, notify |-> notify]
ConsoleFiles ==
    {Absent, Unread, ConsoleFile([deadline |-> 240], <<>>)}
      \cup {ConsoleFile([cadence |-> c, reserve |-> r, skips |-> s], <<>>) :
               c \in {59, 60, 300, 3600}, r \in {15, 60, 299, 300, 601}, s \in {1, 24, 25}}
      \cup {ConsoleFile(<<>>, n) : n \in Notifies}
Kubeconfigs == {<<>>, <<Absent>>, <<Unread>>, <<[is |-> "other"]>>}
                 \cup {<<[is |-> "document", contexts |-> c]>> : c \in {{}, {"prod"}, {"prod", "host"}}}
Loads ==
    \E targets \in TargetsFiles, console \in ConsoleFiles, kubeconfig \in Kubeconfigs :
       /\ console = Absent \/ Len(IF targets.is = "document" THEN targets.environments ELSE <<>>) < 2
       /\ input' = [of |-> "inventory",
                    files |-> [targets |-> targets, console |-> console, kubeconfig |-> kubeconfig]]

\* What `config validate` accepts as fenced is what the console loads, and what
\* it accepts unfenced loads as soon as a kubeconfig carries its contexts; of
\* what loads, a sweep has its deadline within its cadence and both its turns
\* within its expiry, a collation holds every service, an endpoint that is
\* printed carries no secret; and an observer that looked back over the window
\* of any of its services is never refused for its window, in an inventory the
\* console sweeps (triage-config.ts: validateTriageFiles, sweepExpiryS;
\* triage-targets.ts: windowIssues; triage-verdict.ts: windowEcho).
InventoryTrue ==
    input.of = "inventory" =>
    LET files == input.files
        stage == I!ValidateTriageFiles(files)
        loaded == I!LoadTriagePair(files)
        console == loaded[1].console
        envs == loaded[1].environments
        contexts == {files.targets.environments[i].context : i \in DOMAIN files.targets.environments}
        carrying == [files EXCEPT !.kubeconfig = <<[is |-> "document", contexts |-> contexts]>>]
        policy == [at |-> 10000, window |-> envs[1].window, reserve |-> console.reserve]
        ofHosts == \A e \in ToSet(files.targets.environments) : I!Kinded(e) # "k8s"
    IN /\ files.kubeconfig # <<>> /\ files.targets.is # "missing" => (stage = "fenced") = (loaded # <<>>)
       /\ stage = "unfenced" => I!LoadTriagePair(carrying) # <<>> /\ (loaded # <<>>) = ofHosts
       /\ stage = "no-inventory" => loaded = <<>>
       /\ loaded # <<>> =>
             /\ I!SweepDeadline(console) \in 1..(console.cadence - 1)
             /\ I!SweepExpiry(console) >= 2 * I!SweepDeadline(console)
             /\ I!SweepExpiry(console) >= console.skips * console.cadence
             /\ FoldLeft(LAMBDA n, e : n + Len(e.services), 0, envs) \in 1..4
             /\ files.console.is = "document" =>
                   \A n \in ToSet(files.console.notify) : ~n.endpoint.userinfo /\ ~n.endpoint.query
             /\ I!ConsoleAccepts(envs) =>
                   \A e \in ToSet(envs) : \A s \in ToSet(e.services) :
                      LET looked == IF s \in DOMAIN e.override THEN e.override[s] ELSE e.window
                      IN V!WindowEcho(policy.at - looked, policy) = "fresh"

\* What a sweep may claim, and what it may be asked (its parts are above).
ClearIsEarned == SweepsEarned /\ InventoryTrue

-----------------------------------------------------------------------------
(* A harvest: one task, with what git, the outbox, the exam and the record *)
(* of its supervisor show of it.                                           *)

Reviewers == [r1 |-> "security", r2 |-> "style"]
H == INSTANCE Harvest WITH ArtifactCap <- 3, TaskCap <- 4, HeldCap <- 2, EntryCap <- 3,
        Surface <- [bun |-> [lock |-> "dependency", conf |-> "executes"]],
        HarnessFiles <- {"spec"}, LensSeats <- Reviewers, ReplyCap <- 3, InlineCap <- 5

Lens(worker, reported) ==
    [worker |-> worker, aspect |-> Reviewers[worker], reported |-> reported]
Finding(file, by, against) == [file |-> file, line |-> 1, raised_by |-> by, disputed_by |-> against]
Collation(findings) ==
    [json |-> TRUE, task |-> "t1", derived |-> TRUE,
     lenses |-> <<Lens("r1", TRUE), Lens("r2", FALSE)>>, findings |-> findings]
Collations ==
    {Collation(fs) : fs \in UpTo({Finding("inside", <<"r1">>, {}), Finding("phrase", <<"r1">>, {}),
                                   Finding("inside", <<"r2">>, {}),
                                   Finding("inside", <<"r1">>, {"r1"})}, 1)}
      \cup {[Collation(<<>>) EXCEPT !.lenses = <<Lens("r1", TRUE)>>],
            [Collation(<<Finding("inside", <<"r1">>, {})>>) EXCEPT !.task = "t0"]}

Entry(path, name) ==
    [path |-> path, name |-> name, dir |-> "files", is |-> "file", escapes |-> FALSE,
     opens |-> "regular", readable |-> TRUE, size |-> 1, valid |-> TRUE,
     collation |-> Collation(<<>>)]
Outboxes ==
    {<<>>, <<Entry(1, "observer"), Entry(2, "observer.md")>>, <<Entry(2, "observer.md")>>,
     <<[Entry(1, "observer") EXCEPT !.valid = FALSE]>>, <<[Entry(1, "ticket-ops") EXCEPT !.size = 4]>>,
     <<[Entry(3, "observer") EXCEPT !.valid = FALSE], [Entry(1, "plain") EXCEPT !.size = 3],
       [Entry(2, "plain") EXCEPT !.size = 3]>>,
     <<[Entry(1, "plain") EXCEPT !.opens = "hard_link"], Entry(2, "ticket-ops")>>,
     <<[Entry(1, "plain") EXCEPT !.is = "directory"], Entry(2, "plain"), Entry(3, "plain"),
       Entry(4, "plain")>>,
     <<[Entry(1, "plain") EXCEPT !.is = "link", !.escapes = TRUE],
       [Entry(2, "collation") EXCEPT !.readable = FALSE]>>}
      \cup {<<[Entry(1, "collation") EXCEPT !.collation = c]>> : c \in Collations}

Checkout == [head |-> "ok", base |-> "known", ancestry |-> "yes", diff |-> "ok",
             files |-> {"code"}, commits |-> {"c1"}]
Checkouts ==
    {[Checkout EXCEPT !.files = f] : f \in {{"code"}, {"spec"}, {"lock"}, {"conf"}}}
      \cup {[Checkout EXCEPT !.files = {}, !.commits = {}], [Checkout EXCEPT !.head = "error"],
            [Checkout EXCEPT !.base = "unknown"], [Checkout EXCEPT !.ancestry = "no"]}

Claim(status, files) ==
    [is |-> "file", envelope |-> [task |-> "t1", epoch |-> 2, status |-> status, files |-> files,
                                  artifacts |-> {[path |-> 1, at |-> "files"]}]]
Results(files) ==
    {Claim(s, files) : s \in {"success", "partial", "failed", "unknown"}}
      \cup {Claim("success", {"other"}), [Claim("success", files) EXCEPT !.is = "absent"],
            [Claim("success", files) EXCEPT !.is = "schema"],
            [Claim("success", files) EXCEPT !.envelope.epoch = 1]}

Exams == {[asked |-> FALSE, fault |-> "none", budget |-> 3]}
           \cup {[asked |-> TRUE, fault |-> f, budget |-> 3] : f \in {"none", "clone", "throws"}}
           \cup {[asked |-> TRUE, fault |-> "none", budget |-> 1]}
Commands == {<<[runner |-> "bun", ends |-> e]>> : e \in {"exit 0", "exit 1", "timed_out"}}
Records == {[epoch |-> 2, verdict |-> "success", tree |-> "h1"],
            [epoch |-> 2, verdict |-> "aborted", tree |-> "h1"],
            [epoch |-> 1, verdict |-> "aborted", tree |-> "h0"],
            [epoch |-> 2, verdict |-> "success", tree |-> "h0"]}

World(git, result, entries, exam, record) ==
    [inbox |-> "ok", git |-> git, result |-> result, directory |-> "present",
     entries |-> entries, exam |-> exam, record |-> record, tree |-> "h1"]
Task(worktree, collates, commands) ==
    [id |-> "t1", epoch |-> 2, worktree |-> worktree, collates |-> collates,
     acceptance |-> commands]
Settled == [epoch |-> 2, verdict |-> "success", tree |-> "h1"]
Unexamined == [asked |-> FALSE, fault |-> "none", budget |-> 3]

\* A change, and what is left beside it.
HarvestOfAChange ==
    \E git \in Checkouts, commands \in Commands, exam \in Exams, record \in Records :
    \E result \in Results(git.files), entries \in {<<>>, <<[Entry(1, "observer") EXCEPT !.valid = FALSE]>>} :
        /\ input' = [of |-> "harvest", task |-> Task(TRUE, FALSE, commands),
                     world |-> World(git, result, entries, exam, record)]

\* A report: no worktree, and everything the outbox may hold.
HarvestOfAReport ==
    \E collates \in BOOLEAN, result \in Results({}), entries \in Outboxes, record \in Records :
        /\ input' = [of |-> "harvest", task |-> Task(FALSE, collates, <<>>),
                     world |-> World(Checkout, result, entries, Unexamined, record)]

Fits(entries) == FoldLeft(LAMBDA n, e : n + e.size, 0, entries) <= 4

\* A harvested task is a success only where everything that could have said
\* otherwise was heard and did not: the tree is the one the supervisor hashed, its
\* base an ancestor, no harness file touched, every command of an exam that was
\* held passed, the claim is a success about the same files, every observer's
\* report held to its schema, the review's findings located; the worker is never
\* graded above its own claim, and an aborted epoch stays aborted, whatever came
\* later.  An exam that could not even be begun is here as one that was not asked
\* for, which is how the code grades it: ThrownUncertified, below, is what its
\* comment says instead (harvest/index.ts: harvestTask, harvest/adjudicate.ts:
\* adjudicate, harvest/reconcile.ts: reconcileArtifactClaims).
HarvestHonest ==
    input.of = "harvest" =>
    LET w == input.world
        t == input.task
        graded == H!HarvestTask(t, w)
        heard == H!ReadEnvelope(w.result, t) = "ok"
        claimed == w.result.envelope.status
        mine == w.record.epoch = t.epoch
        sat == t.worktree /\ w.exam.asked /\ w.exam.fault # "throws"
    IN
    /\ graded.verdict = "success" =>
        /\ heard \/ sat
        /\ t.worktree => /\ w.git.ancestry = "yes" /\ w.git.base = "known"
                         /\ w.git.files \cap {"spec", "conf", "lock"} # {} =>
                               w.git.files \cap {"spec"} = {} /\ ~ sat
                         /\ mine => w.record.tree = w.tree
        /\ sat => /\ w.exam.fault = "none" /\ w.exam.budget > 1
                  /\ \A c \in ToSet(t.acceptance) : c.ends = "exit 0"
        /\ \A e \in ToSet(w.entries) :
              (e.name = "observer" \/ (e.name = "ticket-ops" /\ Fits(w.entries))) => e.valid
        /\ heard /\ t.collates =>
              \E e \in ToSet(w.entries) :
                 /\ e.name = "collation" /\ e.readable /\ e.collation.findings # <<>>
                 /\ \A f \in ToSet(e.collation.findings) :
                       f.file = "inside" /\ ToSet(f.raised_by) \cap {"r2"} = {}
    /\ heard /\ claimed # "unknown" =>
          graded.verdict \in {"unknown", "aborted"} \/ H!Rank(graded.verdict) <= H!Rank(claimed)
    /\ mine /\ w.record.verdict = "aborted" => graded.verdict = "aborted"
    /\ graded.status = "complete" => heard \/ w.result.is = "absent"

\* An exam that was asked for and threw leaves the verdict "uncertifiable", as the
\* comment of its catch has it (harvest/index.ts).  The code does not keep it: the
\* evidence stays empty, and a claim of success is adopted.
ThrownUncertified ==
    input.of = "harvest" =>
        (input.task.worktree /\ input.world.git.head = "ok" /\ input.world.exam.asked
           /\ input.world.exam.fault = "throws"
         => H!HarvestTask(input.task, input.world).verdict # "success")

\* What becomes of a lens: two are briefed together.
ArtifactsOf(bytes) ==
    {<<[path |-> "a", bytes |-> b, holds |-> h, readable |-> r], [path |-> "b", bytes |-> c, holds |-> c, readable |-> TRUE]>> :
        b \in bytes, c \in bytes, h \in {0, 9}, r \in BOOLEAN}
Bundles == {[placed |-> FALSE, read |-> r] : r \in {"ok", "missing", "unreadable", "refused", "none"}}
             \cup {[placed |-> TRUE, read |-> "unreadable"]}
LensFates ==
    {[is |-> f] : f \in {"unnamed", "not landed"}}
      \cup {[is |-> "unharvested", outbox |-> o] : o \in {"none", "unlistable", "empty", "entries"}}
      \cup {[is |-> "harvested", verdict |-> "partial", bundle |-> b, outbox |-> o, artifacts |-> <<>>] :
               b \in Bundles, o \in {"none", "unlistable", "empty", "entries"}}
      \cup {[is |-> "harvested", verdict |-> "success", bundle |-> [placed |-> FALSE, read |-> "ok"],
             outbox |-> "none", artifacts |-> a] : a \in ArtifactsOf({0, 2, 9})}
Briefed ==
    \/ \E fates \in [{"r1", "r2"} -> LensFates] : input' = [of |-> "brief", fates |-> fates, sizes |-> <<>>]
    \/ \E sizes \in UpTo(0..4, 4) : input' = [of |-> "brief", fates |-> [r1 |-> [is |-> "unnamed"]], sizes |-> sizes]

\* The collator is told of every lens once, as a report it has or as one that is
\* missing; of a report that was written and did not arrive it is told so, never
\* that none was written, and never of a lens that did not run; that nothing
\* more is there is said only of an outbox that was listed beside its harvest;
\* an artifact that is not there in full is never passed over; and what is
\* inlined keeps to the budget, nobody getting more while somebody gets a
\* smaller share than asked (relay.ts: fanOut, missingLensNote,
\* harvestFailureNote, planInlineBudget, collationBrief).
BriefHonest ==
    input.of = "brief" =>
    LET brief == H!CollationBrief(input.fates)
        fate(w) == input.fates[w]
        harvested(w) == fate(w).is = "harvested"
        kept(w) == /\ fate(w).is \in {"harvested", "unharvested"}
                   /\ harvested(w) => /\ fate(w).verdict # "success"
                                     /\ fate(w).bundle.read \in {"unreadable", "refused"}
        budget == H!PlanInlineBudget(input.sizes)
    IN /\ \A w \in DOMAIN input.fates :
             /\ (w \in brief.reports) = (w \notin DOMAIN brief.missing)
             /\ w \in brief.reports => harvested(w) /\ fate(w).verdict = "success"
             /\ kept(w) = (w \in brief.unreadable \cup brief.unharvested \cup brief.refused)
             /\ w \in DOMAIN brief.missing =>
                   LET note == brief.missing[w] IN
                   /\ "not written" \in note => harvested(w) /\ fate(w).bundle.read = "missing"
                   /\ "nothing else is there" \in note => harvested(w) /\ fate(w).outbox = "empty"
                   /\ fate(w).is \in {"unnamed", "not landed"} => Cardinality(note) = 1
             /\ w \in brief.reports => \A a \in ToSet(H!Inlined(fate(w).artifacts)) :
                   a.included >= a.bytes \/ <<w, a.path>> \in brief.cut \cup brief.lost
       /\ brief.coverage.reported + Cardinality(DOMAIN brief.missing) = brief.coverage.dispatched
       /\ FoldLeft(LAMBDA n, b : n + b, 0, budget) <= 5
       /\ \A i, k \in DOMAIN input.sizes :
             /\ budget[i] <= Min({input.sizes[i], 3})
             /\ budget[i] < Min({input.sizes[i], 3}) => budget[k] <= budget[i] + 1

\* A verdict, and what is told of it, claims no more than was seen (its parts
\* are above).
VerdictHonest == HarvestHonest /\ BriefHonest

-----------------------------------------------------------------------------
(* A phase of a project: two workers' branches, and what the state file    *)
(* and the review then say.                                                *)

J == INSTANCE Project WITH Hazardous <- {"AGENTS.md"}, Seats <- {"security", "style"}

Fates == {"none", "fetch", "rev-parse", "diff", "merge", "abort", "abort_status", "head"}
Branches(name) ==
    {[name |-> name, paths |-> paths, fate |-> fate, remote |-> remote,
      cloneHazards |-> {"config"}] :
        paths \in {{"code"}, {"code", "AGENTS.md"}}, fate \in Fates, remote \in {"path", "url"}}
CleanTree == [branch |-> {}, dirty |-> FALSE, midMerge |-> FALSE, refs |-> {}, onBranch |-> TRUE]
Trees == {CleanTree, [CleanTree EXCEPT !.dirty = TRUE], [CleanTree EXCEPT !.onBranch = FALSE]}

Merge ==
    \E tree \in Trees, first \in Branches("w1"), second \in Branches("w2") :
        /\ input' = [of |-> "merge", tree |-> tree, workers |-> <<first, second>>]

Part(worker, files, tasks) == [worker |-> worker, round |-> 1, files |-> files, tasks |-> tasks]
Parts == {<<>>, <<Part("w1", {"f1"}, <<"p">>), Part("w2", {"f2"}, <<"q">>)>>,
          <<Part("w1", {"f1"}, <<"p">>), Part("w2", {"f1"}, <<"q">>)>>,
          <<Part("w1", {"f1"}, <<"p">>), Part("w2", {"f2"}, <<"p">>)>>}
Phase(n, parts, sent) == [n |-> n, partition |-> parts, dispatched |-> sent]
Documents2 ==
    {[phases |-> <<Phase(1, parts, sent)>>, total |-> 1, current |-> current, completed |-> done] :
        parts \in Parts, sent \in UpTo({[task |-> "p", worker |-> "w1"], [task |-> "p", worker |-> "w2"]}, 1),
        current \in {1, 2}, done \in {<<>>, <<1>>, <<1, 1>>}}
Reviews ==
    {[recorded |-> "h1", current |-> head, journalled |-> journalled, collated |-> collated,
      children |-> {"security", "style"}, reply |-> [security |-> mine, style |-> theirs],
      lenses |-> {[aspect |-> "security", reported |-> TRUE], [aspect |-> "style", reported |-> TRUE]},
      findings |-> findings] :
        head \in {"h1", "h2"}, journalled \in BOOLEAN, collated \in BOOLEAN,
        mine \in {"reported", "missing"}, theirs \in {"reported", "unreadable"},
        findings \in SUBSET {[raised |-> {"r1"}, disputed |-> {}], [raised |-> {"r1"}, disputed |-> {"r2"}]}}

PhaseRead ==
    \E doc \in Documents2, artifacts, merged \in SUBSET {"p", "q"} :
        /\ input' = [of |-> "phase", doc |-> doc, evidence |-> [artifacts |-> artifacts, merged |-> merged]]
Reviewed ==
    \E review \in Reviews :
        /\ input' = [of |-> "review", review |-> review]

\* The integration branch gains a worker's commits only when none of its paths is
\* one the harness obeys and the tree was clean on a branch; a merge that left the
\* tree dirty is not merged over; only a fetch whose head could not be read leaves
\* its ref behind, besides the merged ones; and no row says merged of what the
\* branch lacks (run/pm-integration.ts: mergeWorkerBranch).
MergesGated ==
    input.of = "merge" =>
    LET done == J!MergeBatch(input.tree, input.workers)
        named(n) == CHOOSE w \in ToSet(input.workers) : w.name = n
        unrestored == {i \in DOMAIN done.rows : done.rows[i].kind = "merge_failed"
                          /\ named(done.rows[i].worker).fate = "abort"}
    IN
    /\ done.checkout.branch # {} => input.tree.onBranch /\ ~ input.tree.dirty
    /\ \A n \in done.checkout.branch : "AGENTS.md" \notin named(n).paths
    /\ \A i \in DOMAIN done.rows :
          /\ J!RowAccepted(done.rows[i])
          /\ done.rows[i].merged <=> done.rows[i].worker \in done.checkout.branch
          /\ unrestored # {} => \A k \in unrestored : i <= k
    /\ done.checkout.refs \subseteq
          {n \in {"w1", "w2"} : n \in done.checkout.branch \/ named(n).fate = "rev-parse"}

T == INSTANCE Tree WITH
        Plain <- <<"AGENTS.md", "settings">>, Parents <- {".pi"}, Dirs <- {"skills"},
        Under <- [p \in {"AGENTS.md", ".pi", "settings", "skills"} |->
                     IF p \in {"settings", "skills"} THEN ".pi" ELSE "root"],
        ConfigHazards <- {<<"core", "hookspath">>, <<"diff", "external">>},
        MaxText <- 3, MaxEntries <- 2, MaxDepth <- 1

Node(is) == [is |-> is, taken |-> 0, stuck |-> FALSE, entries |-> 1, readable |-> TRUE,
             lines |-> <<>>, hooks |-> <<>>, dirs |-> {}]
Nodes(kinds) == {[Node(is) EXCEPT !.taken = t, !.stuck = s] :
                   is \in kinds, t \in {0, 5}, s \in BOOLEAN}
CleanCheckout ==
    [p \in {"AGENTS.md", ".pi", "settings", "skills", ".git", "config", "config.worktree",
            "attributes", "alternates", "hooks", "below", "b1"} |->
        Node(IF p \in {".pi", "skills", ".git", "hooks"} THEN "dir"
             ELSE IF p = "config" THEN "file" ELSE "absent")]
Scans(tree) == input' = [of |-> "scan", tree |-> tree]

Names ==
    \E agents \in Nodes({"absent", "file", "link"}), pi \in Nodes({"absent", "dir", "link"}),
       settings \in {Node("absent"), Node("file")}, skills \in Nodes({"dir", "link"}), n \in 0..1 :
    \E git \in {Node("absent"), Node("file"), Node("dir"), Node("link"), [Node("link") EXCEPT !.stuck = TRUE]} :
       Scans([CleanCheckout EXCEPT !["AGENTS.md"] = agents, ![".pi"] = pi, !["settings"] = settings,
                                  !["skills"] = [skills EXCEPT !.entries = n], ![".git"] = git])

ConfigLine(headers, key) == [headers |-> headers, key |-> key]
ConfigLines == {ConfigLine(h, k) : h \in {<<>>, <<"core">>, <<"diff", "core">>, <<"core", "diff">>},
                                  k \in {"none", "hookspath", "external"}}
Texts(lines) == {[Node(is) EXCEPT !.stuck = s, !.readable = r, !.lines = l] :
                   is \in {"file"}, s, r \in BOOLEAN, l \in lines}
                 \cup {Node(is) : is \in {"absent", "link", "other"}}
Drivers == UpTo({ConfigLine(<<>>, "driver"), ConfigLine(<<>>, "text")}, 2)
Below == {[path |-> "b1", link |-> l, listed |-> r, depth |-> d, entries |-> e] :
             l, r \in BOOLEAN, d \in 1..2, e \in 2..3}
GitTexts ==
    \/ \E config \in Texts(UpTo(ConfigLines, 3)) : Scans([CleanCheckout EXCEPT !["config"] = config])
    \/ \E worktree \in Texts(UpTo(ConfigLines, 1)), attributes \in Texts(Drivers) :
          Scans([CleanCheckout EXCEPT !["config.worktree"] = worktree, !["attributes"] = attributes])
    \/ \E nested \in Texts(Drivers), d \in Below :
          Scans([CleanCheckout EXCEPT !["b1"] = nested, !["below"].dirs = {d}])
Hook(name, is, exec, taken, stuck) ==
    [name |-> name, is |-> is, exec |-> exec, taken |-> taken, stuck |-> stuck]
Hooks == {Hook(n, is, x, t, s) : n \in {"plain", "sample", "aside"}, is \in {"file", "link", "dir"},
             x, s \in BOOLEAN, t \in {0, 1, 5}}
GitHooks ==
    \E is \in {"absent", "file", "dir", "link"}, hooks \in UpTo(Hooks, 1) \cup {<<h, h>> : h \in Hooks}
                                                             \cup {<<h, h, h>> : h \in Hooks} :
    \E alternates \in Texts({<<>>, <<ConfigLine(<<>>, "path")>>}) :
       Scans([CleanCheckout EXCEPT !["hooks"] = [Node(is) EXCEPT !.hooks = hooks],
                                  !["alternates"] = alternates])

\* A scan that only detects changes nothing and finds what a neutralizing one
\* does; what that one calls neutralized is not there for the next scan, and
\* what it does not is (but for a hook moved to a name the next one reads); and
\* every line of git's configuration it leaves is still in its section
\* (repo-hazards.ts: scanRepoHazards, scanOneGitConfig, quarantine).
TreeTrue ==
    input.of = "scan" =>
    LET paths(records) == [i \in DOMAIN records |-> records[i].path]
        seen == T!Scan(input.tree, FALSE)
        cleaned == T!Scan(input.tree, TRUE)
        left == SelectSeq(cleaned.records, LAMBDA r : ~r.neutralized)
        renumbered == {i \in DOMAIN input.tree["hooks"].hooks :
                         LET h == input.tree["hooks"].hooks[i]
                         IN h.name = "plain" /\ h.taken > 0 /\ T!Runs(h)}
        before == input.tree["config"].lines
        after == cleaned.tree["config"].lines
    IN /\ seen.tree = input.tree /\ \A i \in DOMAIN seen.records : ~seen.records[i].neutralized
       /\ paths(seen.records) = paths(cleaned.records)
       /\ renumbered = {} => paths(T!Scan(cleaned.tree, FALSE).records) = paths(left)
       /\ T!Scan(T!Scan(cleaned.tree, TRUE).tree, TRUE).records = left
       /\ \A i \in DOMAIN before :
             after[i] = before[i] \/ (after[i].key = "comment" /\ T!Offends("config", before, i))
       /\ \A i \in DOMAIN before : T!SectionAt(after, i) = T!SectionAt(before, i)

\* A phase counts as complete only when every task of its partition left artifacts
\* and reached the branch, in a file that gives each task one owner; a review
\* approves only the commit it was made of, with every lens it asked heard, and
\* nothing it found that a second reader did not dispute
\* (run/pm-state.ts: resolvePhaseCompletion, run/pm-verdict.ts: deriveReviewVerdict).
PhaseEarned ==
    /\ input.of = "phase" /\ J!DocumentAccepted(input.doc) =>
          LET phase == input.doc.phases[1] IN
          /\ J!Resolution(input.doc, phase, input.evidence) = "complete" =>
                \A e \in ToSet(phase.partition) : \A t \in ToSet(e.tasks) :
                    /\ t \in input.evidence.artifacts \cap input.evidence.merged
                    /\ \A o \in ToSet(phase.partition) : t \in ToSet(o.tasks) => o = e
          /\ phase.dispatched # <<>> => J!Resolution(input.doc, phase, input.evidence) # "no_partition"
    /\ input.of = "review" =>
          LET verdict == J!ReviewVerdict(input.review) IN
          /\ verdict \in {"APPROVED", "APPROVED_WITH_DISSENT", "CHANGES_REQUESTED"} =>
                /\ input.review.current = "h1"
                /\ \A c \in input.review.children : input.review.reply[c] = "reported"
          /\ verdict \in {"APPROVED", "APPROVED_WITH_DISSENT"} =>
                \A f \in input.review.findings : f.disputed # {}
          /\ J!NextIteration(0, input.review) = 1 =>
                input.review.collated /\ \E f \in input.review.findings : f.disputed = {}

\* What the project manager merges was inspected, what it leaves behind is
\* disarmed, and what it claims of a phase is earned (its parts are above).
MergesInspected == MergesGated /\ TreeTrue /\ PhaseEarned

-----------------------------------------------------------------------------
(* A fleet: a reader on the operator's own model and a writer on a         *)
(* vendor's, one thing of the config, the host or the disk at a time.      *)

G == INSTANCE Grants WITH Builtin <- {"read", "bash"}, WriteCapable <- {"bash", "write"},
        Reserved <- {"PROXY"}, Colliding <- {"POINTS"},
        WellNamed <- {"reader", "writer", "local", "vendor", "contract", "lint"},
        TooLong <- {}

Model(prefix, name, suffix) == [prefix |-> prefix, name |-> name, suffix |-> suffix]
Provider(hosted, key, upstream, allow) ==
    [hosted |-> hosted, key |-> key, upstream |-> upstream, listen |-> "alias",
     allow |-> allow, tags |-> FALSE]
ByName == [is |-> "name", host |-> "api"]
Fleet ==
    [backend |-> "tmux", isolation |-> "worktree", kubeconfig |-> TRUE, briefing |-> "present", clone |-> FALSE,
     egress |-> {"api"}, allowlist |-> <<[name |-> "TOKEN", credential |-> TRUE, multiline |-> FALSE]>>,
     llm |-> [flat |-> FALSE, doubled |-> FALSE, provider |-> "local", key |-> "KEY_L",
              model |-> Model("none", "m", "none"), upstream |-> [is |-> "none"],
              listen |-> "alias", allow |-> {},
              providers |-> [local |-> Provider(FALSE, "KEY_L", [is |-> "none"], {}),
                             vendor |-> Provider(TRUE, "KEY_V", ByName, {})]],
     defaults |-> [isolation |-> "worktree"],
     roles |-> [reader |-> [read_only |-> TRUE, tools |-> {"read"}], writer |-> [kind |-> "persistent"]],
     workers |-> <<[id |-> "w1", role |-> "reader", fields |-> [isolation |-> "shared-ro"]],
                   [id |-> "w2", role |-> "writer", fields |-> [model |-> Model("vendor", "m", "none")]]>>]
Host == [TOKEN |-> "line", KEY_L |-> "line", KEY_V |-> "line", PROXY |-> "line", POINTS |-> "line",
         LINES |-> "lines"]
Disk == [links |-> {}, fails |-> {}, store |-> "as written", skills |-> {"contract", "lint"},
         bundle |-> {[is |-> "file", git |-> FALSE, fits |-> TRUE]}]
Dns == [api |-> {7, 9}]
Granted(cfg, host, dns, disk) ==
    input' = [of |-> "grants", cfg |-> cfg, host |-> host, dns |-> dns, disk |-> disk]

\* Secrets asked for, at any layer, against the allowlist and the host.
Secrets ==
    \E asked \in UpTo({"TOKEN", "LINES", "KEY_V", "KEY_L", "PROXY", "POINTS"}, 1)
                   \cup {<<"TOKEN", "LINES">>, <<"TOKEN", "KEY_V">>, <<"TOKEN", "TOKEN">>} :
    \E at \in {"worker", "role", "defaults"}, flags \in BOOLEAN \X BOOLEAN,
       listed \in {{}, {"TOKEN"}, {"TOKEN", "LINES", "KEY_V"}}, value \in {"line", "empty", "crlf"} :
    \E flat \in BOOLEAN :
        LET layer == [secrets |-> asked]
            entry(n) == [name |-> n, credential |-> flags[1], multiline |-> flags[2]]
            cfg == [Fleet EXCEPT !.llm.flat = flat, !.allowlist = SetToSeq({entry(n) : n \in listed}),
                       !.workers[1].fields = IF at = "worker" THEN layer ELSE @,
                       !.roles.reader = IF at = "role" THEN layer ELSE @,
                       !.defaults = IF at = "defaults" THEN layer ELSE @]
        IN  Granted(cfg, [Host EXCEPT !.TOKEN = value, !.KEY_L = value], Dns, Disk)

\* Tools and panes, at any layer.
Powers ==
    \E mine, roles, defaults \in {[tools |-> {"read"}], [tools |-> {"bash"}], [read_only |-> TRUE],
                                  [read_only |-> FALSE], [pane_mode |-> "tui"], [kind |-> "oneshot"],
                                  [cloud_access |-> TRUE], [egress_access |-> TRUE],
                                  [skills |-> <<"lint">>], [skills |-> <<"../x">>]} :
    \E backend \in {"tmux", "headless"}, kubeconfig \in BOOLEAN :
        /\ Granted([Fleet EXCEPT !.workers[1].fields = mine, !.roles.reader = roles,
                       !.defaults = defaults, !.backend = backend, !.kubeconfig = kubeconfig],
                   Host, Dns, Disk)

\* Models against the lists of their providers, and the bridge they lead to.
Models ==
    \E model \in {Model(p, n, s) : p \in {"none", "local", "vendor", "nobody"}, n \in {"m", "x", ""},
                                   s \in {"none", "high"}} :
    \E mine, theirs \in {{}, {Model("none", "m", "none")},
                         {Model("vendor", "x", "none"), Model("org", "x", "high")}} :
    \E flat, tags \in BOOLEAN :
    \E upstream \in {[is |-> "none"], [is |-> "address", host |-> "ip"], ByName}, addresses \in {{}, {7, 9}},
       allowed \in {{"api"}, {"ip"}} :
        /\ Granted([Fleet EXCEPT !.workers[2].fields = [model |-> model], !.llm.flat = flat,
                       !.llm.providers.local.allow = mine, !.llm.providers.vendor.allow = theirs,
                       !.llm.providers.vendor.upstream = upstream, !.llm.providers.local.tags = tags,
                       !.llm.allow = mine, !.egress = allowed],
                   Host, [api |-> addresses], Disk)

\* What cannot be put where it belongs.
Places == {"outbox", "replies", "skills", "cloud policy", "task policy", "dispatch policy",
           "replies policy", "briefing", "kubeconfig", "secrets", "env", "launch"}
Put ==
    \E links, fails \in {{}} \cup {{p} : p \in Places} :
    \E is \in {"file", "symlink"}, store \in {"as written", "short"}, git, cloud \in BOOLEAN, skill \in {"lint", "lost"},
       briefing \in {"none", "present", "missing"} :
        /\ (links = {} \/ fails = {})
        /\ Granted([Fleet EXCEPT !.briefing = briefing,
                       !.workers[1].fields = [cloud_access |-> cloud, skills |-> <<skill>>]], Host, Dns,
                   [Disk EXCEPT !.links = links, !.fails = fails, !.store = store,
                       !.bundle = {[is |-> is, git |-> git, fits |-> TRUE]}])

\* A worker of a fleet that may be launched holds what its layers grant and
\* nothing else: its secret store has its own provider's key and what is both
\* asked for and on the allowlist, all of it swept from what it writes unless the
\* allowlist says it is no credential; nobody who is read-only can write, no model
\* runs that its provider's list does not name, the network it is on leads to its
\* own provider's upstream, two workers write in no place both but the sessions,
\* and it has a launch record only after everything it needs was put in place
\* (run/worker-env.ts: buildWorkerEnv, config/schema.ts: FleetConfigSchema,
\* config/load.ts: assertModelAllowed, security/relay.ts: egressBridgePlan,
\* run/materialize.ts: materializeWorkerInputs).
GrantsOnly ==
    input.of = "grants" /\ G!Launchable(input.cfg, input.host, input.dns) =>
    LET cfg == input.cfg
        all == ToSet(cfg.workers)
        provider(w) == G!Spec(cfg, w).provider
        fleetwide == {e.name : e \in ToSet(cfg.allowlist)}
        writes(w) == {m \in G!Mounts(cfg, w) : m.rw /\ m.what # "sessions"}
    IN
    /\ \A e, f \in G!Bridges(cfg, all, input.dns) :
          e.network = f.network => e.target = f.target /\ e.names = f.names
    /\ \A w \in all :
        LET files == G!SecretFiles(cfg, w, input.host)
            block == G!Block(cfg.llm, provider(w))
            steps == G!Established(cfg, w, input.host, input.disk)
            has(what) == \E m \in G!Mounts(cfg, w) : m.what = what
        IN
        /\ files \ {block.key} \subseteq G!Requested(cfg, w) \cap fleetwide
        /\ files \cap {"PROXY", "POINTS"} = {}
        /\ \A n \in files \ G!Redactable(cfg, w, input.host) :
              \A e \in ToSet(cfg.allowlist) : e.name = n => ~ e.credential
        /\ G!ProviderKeyName(cfg, w, input.host) \in {"none"} \cup (files \cap {block.key})
        /\ \A b \in G!Bridges(cfg, all, input.dns) :
              b.network = G!Network(cfg.llm, provider(w)) =>
                 /\ G!Told(cfg, w).dials \in b.names
                 /\ b.target.judged \in {"docker host"} \cup (IF block.upstream.is = "none" THEN {}
                                                           ELSE {block.upstream.host} \cap cfg.egress)
        /\ block.allow # {} =>
              \E e \in block.allow : e.name = G!Spec(cfg, w).model[1]
                                       /\ (~ cfg.llm.flat => e.prefix \in {"none", "org", provider(w)})
        /\ G!Pick("read_only", G!Layers(cfg, w), FALSE) =>
              "bash" \notin G!Tools(G!Layers(cfg, w))
        /\ G!Triggers(cfg, w) => cfg.backend # "headless"
        /\ has("kubeconfig") => "token" \in G!Vars(cfg, w)
        /\ "token" \in G!Vars(cfg, w) /\ ~ has("kubeconfig") => w \in G!Unfenced(cfg)
        /\ "launch" \in ToSet(steps) =>
              LET record == G!LaunchRecord(cfg, w, input.host) IN
              /\ files \subseteq record.secrets \cup {block.key}
              /\ files \ record.unswept \subseteq G!Redactable(cfg, w, input.host)
              /\ block.hosted => /\ record.disclosure.secrets = files \ {block.key}
                                 /\ record.disclosure.repo <=> has("checkout") \/ has("repository")
        /\ \A v \in all \ {w} : writes(v) \cap writes(w) = {}
        /\ "launch" \in ToSet(steps) =>
              /\ ToSet(steps) \cap (input.disk.links \cup input.disk.fails) = {}
              /\ {m.what : m \in G!Mounts(cfg, w)} \ {"sessions", "pi", "checkout", "repository"}
                    \subseteq ToSet(steps)

-----------------------------------------------------------------------------
(* Those who read a run: a file that is followed while it grows, is        *)
(* rewritten and replaced; a wait over two tasks; the monitor's clocks; and *)
(* what one disk says to each watcher.                                     *)

L == INSTANCE Lines WITH MaxLine <- 2, HeadBytes <- 3, TailBytes <- 3
W == INSTANCE Watch WITH Grace <- 1, Timeout <- 2, Unconsumed <- 3

\* What the writer of a generation has written so far: a header that every
\* generation shares, then lines of its own, some of them over the cap.
LineKinds == UpTo({"short", "long"}, 2)
JournalLine(kind, g) == IF kind = "short" THEN <<9, g, 0>> ELSE <<9, g, g, 0>>
Whole(rows, g) == FoldLeft(LAMBDA data, kind : data \o JournalLine(kind, g), <<9, 9, 0>>, rows)
Journals == [g \in 1..3 |->
                UNION {{SubSeq(Whole(rows, g), 1, n) : n \in 0..Len(Whole(rows, g))} : rows \in LineKinds}]

Follow == /\ input' = [of |-> "file", file |-> [id |-> 1, data |-> <<>>], generation |-> 1,
                       reader |-> L!Reader, looked |-> FALSE, changed |-> FALSE, raced |-> FALSE]
Following == input.of = "file"
Grow == /\ Following
        /\ \E data \in Journals[input.generation] :
              /\ Len(data) = Len(input.file.data) + 1
              /\ SubSeq(data, 1, Len(data) - 1) = input.file.data
              /\ input' = [input EXCEPT !.file.data = data]
\* The writer begins again in the same file, or puts a whole file in its place;
\* in the middle of a poll, the poll is lost.
Again(file) ==
    input' = [input EXCEPT !.file = file, !.generation = @ + 1, !.changed = TRUE,
                           !.raced = @ \/ input.looked]
Rewrite == /\ Following /\ input.generation < 3
           /\ \E data \in Journals[input.generation + 1] : Again([input.file EXCEPT !.data = data])
Replace == /\ Following /\ input.generation < 3
           /\ \E rows \in LineKinds :
                 Again(L!WriteTextAtomic(input.file, Whole(rows, input.generation + 1), "never"))
Looks == /\ Following /\ ~input.looked
         /\ LET reader == L!Look(input.reader, input.file)
            IN input' = [input EXCEPT !.reader = reader, !.looked = TRUE, !.changed = FALSE,
                                      !.raced = @ /\ reader.restarts = input.reader.restarts]
Takes == /\ Following /\ input.looked
         /\ input' = [input EXCEPT !.reader = L!Take(@, input.file), !.looked = FALSE]

\* What has been given since the last restart, with the lines kept for the next
\* push, is each complete line under the cap of the file that is followed, up
\* to the offset, once and in order, whatever was rewritten or put in the
\* file's place between two polls (util/jsonl.ts: TailReader.poll,
\* LineSplitter).
LinesOnce ==
    (Following /\ ~input.looked /\ ~input.changed /\ ~input.raced) =>
    LET short(text) == SelectSeq(L!Cut(text).lines, LAMBDA line : Len(line) <= 2)
        reader == input.reader
    IN reader.given \o short(reader.splitter.buffer)
          = short(SubSeq(input.file.data, 1, reader.offset))

Seen == [worker |-> TRUE, record |-> "none", state |-> "busy", running |-> TRUE,
         staged |-> FALSE, armed |-> FALSE]
Sights == {Seen, [Seen EXCEPT !.worker = FALSE], [Seen EXCEPT !.state = "dead"],
           [Seen EXCEPT !.running = FALSE], [Seen EXCEPT !.staged = TRUE],
           [Seen EXCEPT !.staged = TRUE, !.armed = TRUE],
           [Seen EXCEPT !.staged = TRUE, !.armed = TRUE, !.running = FALSE]}
      \cup {[Seen EXCEPT !.record = r, !.running = alive] :
               r \in {"success", "partial", "timed_out"}, alive \in BOOLEAN}
Wait == /\ \E budget \in {"none", "open", "halted"} :
              input' = [of |-> "wait", w |-> W!Waiting, budget |-> budget, inbox |-> {},
                        succeeded |-> {}, died |-> {}]
Poll == /\ input.of = "wait" /\ ~input.w.over
        /\ \E tasks \in {{"t1"}, {"t1", "t2"}} :
              /\ input.inbox \subseteq tasks
              /\ \E seen \in [tasks -> Sights] :
                    input' = [input EXCEPT !.w = W!WaitPoll(@, seen), !.inbox = tasks,
                       !.succeeded = @ \cup {t \in tasks : seen[t].record = "success"},
                       !.died = @ \cup {t \in tasks \ DOMAIN input.w.results :
                                           seen[t].record = "none" /\ W!Dead(seen[t])}]

\* A wait ends within its timeout; success says that every task in the inbox at
\* its last poll has a success on record and that no budget is halted; and a
\* task whose supervisor died is told by nothing milder than worker_died
\* (wait.ts: register, exitFor; contracts.ts: worstExit).
WaitHonest ==
    input.of = "wait" =>
    LET exit == W!WaitExit(input.w, input.budget) IN
    /\ input.w.polls > 2 => input.w.over
    /\ input.w.over => /\ DOMAIN input.w.results = input.inbox
                       /\ exit = "SUCCESS" =>
                             input.inbox \subseteq input.succeeded /\ input.budget # "halted"
                       /\ input.died # {} => exit \in {"BUDGET", "WORKER_DIED"}

MaxTicks == 5
Monitor ==  /\ input' = [of |-> "clocks", c |-> W!Tick(W!FleetClocks)]
Clocked == input.of = "clocks"
Ticks == /\ Clocked /\ Len(input.c.ticks) < MaxTicks
         /\ input' = [input EXCEPT !.c = W!Tick([@ EXCEPT !.now = @ + 1])]
Named == Clocked /\ input.c.names < 2 /\ input' = [input EXCEPT !.c.names = @ + 1]
Finished == /\ Clocked
            /\ \E s \in DOMAIN W!Sources, ok \in BOOLEAN :
                  /\ input.c.jobs[s].doing = "reads"
                  /\ ok \/ s \in {"containers", "runNames"}
                  /\ input' = [input EXCEPT !.c = W!Finish(@, s, ok)]
PassEnds == /\ Clocked
            /\ \E t \in DOMAIN input.c.ticks :
                  /\ input.c.ticks[t].pass < 3
                  /\ \A s \in DOMAIN W!Sources : input.c.jobs[s].tick # t
                  /\ input' = [input EXCEPT !.c = W!PassOver(@, t)]

\* A walk that its own pass started after a container listing marks its rows
\* from that listing and no older one, and a tick that saw the run names change
\* has fired the walk's clock by the time it is over (clocks.ts: FleetClocks).
ClocksOrdered ==
    Clocked =>
    /\ \A r \in {input.c.regions.runs} : r.paired => r.value = r.tick
    /\ \A t \in DOMAIN input.c.ticks :
          LET tick == input.c.ticks[t]
          IN tick.pass = 3 /\ tick.promoted # {} => input.c.fired["slow"] > tick.slowBefore

DiskDocuments == [launch : {"missing", "unreadable", "rpc", "tui"}, attended : BOOLEAN,
               presentation : [is : {"ok", "missing"}, adopted : BOOLEAN, headless : BOOLEAN]]
WorkerDisk == [worker |-> "w1", state |-> "busy", fence |-> "live", grew |-> 0, counted |-> TRUE,
          session |-> TRUE, documents |-> [launch |-> "tui", attended |-> FALSE,
             presentation |-> [is |-> "ok", adopted |-> FALSE, headless |-> FALSE]]]
Listings == {W!ReadDockerContainers([code |-> c, names |-> n]) : c \in {0, 1}, n \in {{}, {"w1"}}}
Watched ==
    \E documents \in DiskDocuments, state \in {"missing", "unreadable", "busy", "idle", "dead"} :
    \E grew \in 0..4, counted \in BOOLEAN, names \in Listings, alive \in BOOLEAN :
        /\ input' = [of |-> "disk", containers |-> W!ContainerSet(names), alive |-> alive, beat |-> 4, at |-> 5,
                     disk |-> [WorkerDisk EXCEPT !.documents = documents, !.state = state,
                                            !.grew = grew, !.counted = counted],
                     requests |-> {[task |-> "t1", file |-> counted, journal |-> j,
                                    waiting |-> grew] : j \in {"ok", "missing"}}]

\* The watchers of one disk do not contradict each other: a worker that status
\* calls wedged is not one the monitor paints as active nor one a wait would
\* end as dead; a worker a wait ends as dead has no silence; the fast clock's
\* row is the walk's while the documents stand; a row of a worker whose launch
\* or presentation cannot be read offers no pane; and a request whose journal
\* answers is not told as stranded (status.ts: classifyWorkerSilence,
\* classifyDispatchRequest; read/worker.ts: readWorkerRow, refreshWorkerRow;
\* activity.ts: deriveActivity; wait.ts).
WatchersAgree ==
    input.of = "disk" =>
    LET disk == input.disk
        read == W!ReadWorkerRow(disk, input.containers)
        silence == W!Silence([phase |-> disk.state, alive |-> input.alive, counted |-> disk.counted,
                              grew |-> disk.grew, beat |-> input.beat, window |-> <<2, 3>>])
        dead == W!Dead([Seen EXCEPT !.state = disk.state, !.running = input.alive])
        painted == W!JoinRuns([w \in {"w1"} |-> read], input.at, 2)
        fast == W!RefreshKnown([w \in {"w1"} |-> read], [w \in {"w1"} |-> disk], input.containers)
    IN /\ silence = "wedged" => ~dead /\ (read.status = "ok" => painted["w1"] # "active")
       /\ (\E w \in DOMAIN painted : painted[w] = "container-gone") => input.containers.known
       /\ (disk.state \notin {"missing", "unreadable"} /\ dead) => silence = "not_applicable"
       /\ IF read.status = "never" THEN DOMAIN fast = {} ELSE fast["w1"] = read
       /\ (read.status = "ok" /\ read.row.via = "pane") =>
             disk.documents.launch = "tui" /\ ~disk.documents.presentation.headless
       /\ \A r \in W!DispatchRequests(input.requests, {"t1"}) :
             r.verdict = "consumed" \/ (r.verdict = "unconsumed") = (disk.grew >= 3)
       /\ W!PreferFresher(read, [status |-> "failed"]) = read

Said(id, parent, stop) == [is |-> "assistant", id |-> id, parent |-> parent, stop |-> stop,
                           kept |-> "e1", tokens |-> 1]
SessionHeader == [is |-> "header", id |-> "header"]
SessionRecords ==
    {SessionHeader, [is |-> "malformed", id |-> "malformed"]}
      \cup {Said(id, parent, stop) : id \in {"e1", "e2"}, parent \in {"none", "e1", "e2", "e9"},
                                     stop \in {"aborted", "stop"}}
      \cup {[Said("e3", parent, "none") EXCEPT !.is = "compaction", !.kept = kept] :
               parent \in {"e1", "e2"}, kept \in {"e1", "e9"}}
Transcript ==
    \E records \in UpTo(SessionRecords, 3) :
        input' = [of |-> "transcript", records |-> records, entries |-> L!Learn(<<>>, records)]
Log == \E data \in {Whole(rows, 1) : rows \in LineKinds}, window \in 1..8 :
           input' = [of |-> "log", data |-> data, window |-> window]

\* A transcript names each entry once, whatever was read twice; the path it is
\* judged by runs parent to child and, when it is called complete, from a root
\* or from what a compaction kept to the last entry; no transcript is a success;
\* reading the same records again changes nothing; and the lines shown of an
\* event log are whole lines of it (transcript.ts: TranscriptReader.poll,
\* activePath, reconstruct; events.ts: readEventTail).
LogTrue ==
    input.of = "log" =>
    ToSet(L!ReadEventTail(TRUE, input.data, input.window).lines) \subseteq ToSet(L!Cut(input.data).lines)
PathsTrue ==
    input.of = "transcript" =>
    LET entries == input.entries
        path == L!ActivePath(entries)
        n == Len(path.entries)
    IN /\ Cardinality({e.id : e \in ToSet(entries)}) = Len(entries)
       /\ \A i \in 2..n : path.entries[i].parent = path.entries[i - 1].id
       /\ entries # <<>> => path.entries[n] = Last(entries)
       /\ (entries # <<>> /\ path.complete) =>
             \/ path.entries[1].parent = "none"
             \/ \E e \in ToSet(path.entries) : e.is = "compaction" /\ e.kept = path.entries[1].id
       /\ L!Reconstruct(entries).verdict # "success"
       /\ SessionHeader \in ToSet(input.records) => L!Learn(entries, input.records) = entries

F == INSTANCE RunFiles WITH DefaultConcurrent <- 4

Field(is, value) == [is |-> is, value |-> value]
Nothing == Field("absent", 0)
OnDisk(doc, size) == [is |-> "whole", size |-> size] @@ doc
NotThere == [is |-> "missing", size |-> 0]
Configured == [is |-> "value", concurrent |-> 4, ceiling |-> 7, reserve |-> F!NoField,
               warn |-> 2, kill |-> 6]
Budgets == {F!BudgetRecord(c) :
               c \in {[is |-> "null"], Configured, [Configured EXCEPT !.reserve = F!Budgeted(3)]}}
             \cup {[F!BudgetRecord(Configured) EXCEPT ![f] = x] :
                      f \in {"concurrent", "ceiling", "reserve", "warn", "kill"},
                      x \in {Nothing, Field("other", 0), Field("value", 0), Field("value", 1)}}
Fences == {F!WriteFence("w1", F!Snapshot(n, live, done)) :
              n \in 0..1, live \in {<<>>, <<"t1">>}, done \in UpTo({"t1"}, 1)}
Versions(docs) == {<<OnDisk(d, 1)>> : d \in docs} \cup {<<NotThere, OnDisk(d, 1)>> : d \in docs}
                    \cup {<<OnDisk(d, 1), OnDisk(e, 2)>> : d, e \in docs}
                    \cup {<<OnDisk(d, 1), OnDisk(d, 2), OnDisk(d, 3)>> : d \in docs}
Moments(n) == {at \in [1..5 -> 1..n] : \A i \in 1..4 : at[i] <= at[i + 1]}
Reads ==
    \E of \in {"budget", "fence"} :
    \E versions \in Versions(IF of = "budget" THEN Budgets ELSE Fences) :
    \E at \in Moments(Len(versions)) :
       input' = [of |-> of, versions |-> versions, at |-> at]

\* A file replaced once while it is read is read whole, as it was before or
\* after, or not found where it was not there at first: no fence is refused,
\* a dispatch is refused only for a budget that is none, and it is unbounded
\* only where some version of the document sets no ceiling
\* (state.ts: readValidated, readFence, readRunBudgetPolicy).
FilesRead ==
    input.of \in {"budget", "fence"} =>
    LET versions == ToSet(input.versions)
        once == Len(input.versions) <= 2
        accepted == {v \in versions : v # NotThere /\ (input.of = "fence" \/ F!BudgetAccepts(v))}
        read == F!Read(F!Seen(input.versions, input.at), accepted)
        budget == F!BudgetPolicy(read)
    IN /\ read.is \in {"none", "read"} => read.doc \in versions
       /\ once /\ versions \subseteq accepted \cup {NotThere} => read.is \in {"none", "read"}
       /\ read.is = "none" => NotThere \in versions
       /\ input.of = "fence" /\ once =>
             F!ReadFence(read) # <<>>
             /\ F!ReadFence(read)[1] \in {F!EmptyFence} \cup {v.fence : v \in versions \ {NotThere}}
       /\ input.of = "budget" /\ budget # <<>> =>
             /\ budget[1].ceiling = <<>> =>
                   \E v \in versions : v = NotThere \/ v.ceiling.is \in {"absent", "null"}
             /\ budget[1].concurrent >= 1
             /\ budget[1].stall # <<>> => /\ budget[1].stall[1] > 0
                                          /\ budget[1].stall[2] >= budget[1].stall[1]

Lines3 == {[worker |-> w, path |-> p, legal |-> l] : w \in {"w1", "w2"}, p \in 1..2, l \in BOOLEAN}
RunRecords ==
    {[patterns |-> p, models |-> m, beat |-> b, worktrees |-> w] :
        p \in {Nothing, Field("null", 0), Field("value", <<>>), Field("value", <<"spec">>)},
        m \in {Nothing, Field("null", 0)} \cup {Field("value", [x \in {"w1", "w2"} |-> IF x = "w1" THEN v ELSE "m"]) :
                                                  v \in {"m", "", "other"}},
        b \in {Nothing, Field("value", 3)},
        w \in {Nothing, Field("null", 0), Field("other", 0)}
                 \cup {Field("value", es) : es \in UpTo(Lines3, 2)}}
Recorded ==
    \E is \in {"none", "read", "unreadable", "error"}, doc \in RunRecords :
       input' = [of |-> "run record", read |-> [is |-> is, doc |-> doc]]

\* The cap on what a worker may change is never off; a checkout or a model
\* that was written well is not lost to a bad one beside it; a run whose
\* checkouts were never written down, or cannot be read, is not told as one
\* that has none; and only an unreadable document leaves a reader without a
\* heartbeat to judge by (state.ts: readRunHarnessPatterns,
\* readRunWorkerModels, readRunWorktrees, readRunHeartbeatIntervalMs).
RecordsRead ==
    input.of = "run record" =>
    LET doc == input.read.doc
        read == input.read.is = "read"
        trees == F!RunWorktrees(input.read)
        models == F!WorkerModels(input.read)
        surface == F!HarnessPatterns(input.read)
    IN /\ surface.patterns = "recorded" => read /\ doc.patterns.value # <<>>
       /\ surface.patterns = "built in" /\ ~surface.note =>
             input.read.is = "none" \/ (read /\ doc.patterns.is \in {"absent", "null"})
       /\ read /\ doc.models.is = "value" => models.models["w2"] = "m" /\ "" \notin Range(models.models)
       /\ (DOMAIN trees.byWorker = {} /\ trees.note = "none" /\ trees.perWorker = 0) =>
             \/ input.read.is = "none"
             \/ read /\ (doc.worktrees.is = "absent" \/ doc.worktrees.value = <<>>)
       /\ read /\ doc.worktrees.is = "value" =>
             \A e \in ToSet(doc.worktrees.value) :
                IF e.legal THEN e.worker \in DOMAIN trees.byWorker ELSE trees.perWorker > 0
       /\ (F!Timer(input.read, "beat", 2) = <<>>) = (input.read.is \in {"unreadable", "error"})

Exchange == [fate : {"timeout", "refused", "answered"}, status : {200, 401, 404}, namesModel : BOOLEAN,
             json : BOOLEAN, choices : 0..1, finish : {"stop", "tool_calls", "length", "(absent)"}, calls : 0..1]
Served(id, embeds) == [id |-> id, embeds |-> embeds]
Endpoints == [host : {"relay", "legacy relay", "unparsed", "gpu"}, port : 1..2]
Probed ==
    \E x \in Exchange, base \in Endpoints, configured \in {<<>>, <<"m">>} :
    \E upstream \in {<<>>} \cup {<<[host |-> h, port |-> 2]>> : h \in {"docker host", "gpu"}} :
    \E served \in UpTo({Served("e", TRUE), Served("m", FALSE)}, 2) :
       /\ x.fate # "answered" =>
             x = [fate |-> x.fate, status |-> 200, namesModel |-> FALSE, json |-> TRUE,
                  choices |-> 1, finish |-> "stop", calls |-> 0]
       /\ input' = [of |-> "probe", x |-> x, base |-> base, upstream |-> upstream,
                    configured |-> configured, served |-> served]

\* A model is called able for a tool call the server sent under the reason of
\* one, and unable for a stop without any: an answer cut at its budget, or of
\* another reason, settles neither; the probe is dialled at no name that only a
\* container resolves; and it asks an embedding model only where no other is
\* served (model-probe.ts: probeNativeToolCalls, hostReachableBaseUrl,
\* chatProbeModel).
ProbesTrue ==
    input.of = "probe" =>
    LET said == F!ProbeNativeToolCalls(input.x)
        dialled == F!HostDial(input.base, input.upstream)
        asked == F!ChatProbeModel(input.configured, input.served)
    IN /\ said \in {"ok", "prose"} =>
             /\ input.x.fate = "answered" /\ input.x.status = 200 /\ input.x.json
             /\ input.x.finish # "length" /\ (said = "ok") = (input.x.calls > 0)
       /\ dialled.host \notin {"relay", "legacy relay", "unparsed", "docker host"}
       /\ input.base.host = "gpu" => dialled = input.base
       /\ asked = <<"e">> => input.configured = <<>> /\ \A m \in ToSet(input.served) : m.embeds
       /\ asked = <<>> => input.served = <<>>

-----------------------------------------------------------------------------
(* A machine, as doctor finds it: its tools, its cmux, what its daemon     *)
(* sees of its disk, and the models its endpoint serves.                   *)

O == INSTANCE Doctor WITH None <- "none", NotFound <- 127, Levels <- {"high", "low"}

Answer(code, banner) == [code |-> code, banner |-> banner]
ToolAnswers(banners) == {Answer(127, <<>>), Answer(1, <<>>)} \cup {Answer(0, b) : b \in banners}
Sound ==
    [docker |-> Answer(0, <<28, 3, 1>>), client |-> Answer(0, <<28, 3, 1>>),
     git |-> Answer(0, <<2, 39, 5>>), pi |-> Answer(127, <<>>), tmux |-> Answer(0, <<3, 4>>),
     cmux |-> Answer(127, <<>>), capabilities |-> <<{}>>, mode |-> "password", insidePane |-> FALSE,
     config |-> <<[toolchains |-> <<"bun">>, provider |-> "local", tagStyle |-> {}, allow |-> {}]>>,
     image |-> [bun |-> "present", rust |-> "present"], relayImage |-> FALSE,
     shared |-> ToSet(O!Roots), endpoint |-> [is |-> "listed", data |-> <<>>]]

Tools ==
    {[Sound EXCEPT !.docker = d, !.client = c, !.git = g, !.tmux = t] :
        d \in ToolAnswers({<<>>, <<22, 9, 9>>, <<23, 0>>, <<24, 0, 0>>}), c \in ToolAnswers({<<24, 0, 0>>}),
        g \in ToolAnswers({<<2>>, <<2, 31, 9>>, <<2, 32>>, <<3, 0, 1>>}),
        t \in ToolAnswers({<<>>, <<2, 3>>, <<2, 4>>, <<1, 9>>})}
Capability(name, required, ok) == [name |-> name, required |-> required, ok |-> ok]
Cmuxes ==
    {[Sound EXCEPT !.cmux = a, !.capabilities = c, !.mode = m, !.insidePane = i] :
        a \in ToolAnswers({<<>>, <<0, 64, 20>>}), i \in BOOLEAN,
        c \in {<<>>} \cup {<<x>> : x \in SUBSET {Capability("split", TRUE, TRUE),
                                             Capability("send", TRUE, FALSE),
                                             Capability("group", FALSE, FALSE)}},
        m \in {"torn", "unset", "allowAll", "cmuxOnly", "password"}}
Disks ==
    {[Sound EXCEPT !.docker = d, !.config = c, !.image = i, !.relayImage = r, !.shared = s] :
        d \in ToolAnswers({<<23, 0>>}), r \in BOOLEAN, s \in SUBSET ToSet(O!Roots),
        c \in {<<>>, Sound.config, <<[Sound.config[1] EXCEPT !.toolchains = <<"bun", "rust">>]>>},
        i \in [{"bun", "rust"} -> {"uncomputable", "absent", "present"}]}
Endpointed ==
    {[Sound EXCEPT !.endpoint = e, !.config = c] :
        e \in {[is |-> "unreachable"], [is |-> "not json"]}
             \cup {[is |-> "listed", data |-> d] :
                      d \in UpTo({<<>>} \cup {<<Model(p, "m", s)>> : p \in {"none", "community"},
                                                 s \in {"none", "high", "low", "8b"}}, 2)},
        c \in {<<>>} \cup {<<[Sound.config[1] EXCEPT !.tagStyle = t, !.allow = a]>> :
                 t \in {{}, {"tagger"}},
                 a \in {{}} \cup {{Model(p, "m", s)} : p \in {"none", "tagger"}, s \in {"none", "high", "8b"}}
                       \cup {{Model("none", "m", "high"), Model("none", "n", "none")}}}}
Doctored == \E m \in Tools \cup Cmuxes \cup Disks \cup Endpointed : input' = [of |-> "doctor", m |-> m]

Encoded(version) == 10000 * version[1] + 100 * version[2] + version[3]
Reaches(answer, floor) ==
    /\ answer.code = 0 /\ Len(answer.banner) > 1
    /\ Encoded(answer.banner \o <<0>>) >= floor

\* Docker and git are blamed unless they answer with a version pifleet can
\* use, each of the two fixes of docker by its own name; where doctor finds
\* nothing wrong, no root is hidden from a container that looked, every
\* toolchain's image has a tag, a cmux that is there can be driven, and each
\* entry of the allowlist is served under its name, at no other thinking level
\* than the one it names; what is served as it is written is never missing; no
\* tool is to be fixed in two ways; and a tmux offered as a backend is not one
\* known to be too old (doctor.ts: versionProbe, probeDocker, probeCmux,
\* imageStatus, allowlistVerdicts, register).
DoctorTrue ==
    input.of = "doctor" =>
    LET m == input.m
        said == O!Diagnoses(m)
        blamed(tool) == {i \in DOMAIN said : said[i].of = tool}
        entries == IF m.config = <<>> THEN {} ELSE m.config[1].allow
    IN /\ O!ExitForDiagnoses(said) = "success" =>
             /\ \A r \in ToSet(O!Mounts(m)) : r.probed => r.name \in m.shared
             /\ m.config # <<>> => \A t \in ToSet(m.config[1].toolchains) : m.image[t] # "uncomputable"
             /\ m.cmux.code = 0 => "cmux" \in O!Backends(m) /\ m.mode # "allowAll"
             /\ O!AllowlistChecked(m) => \A e \in entries : \E id \in O!Served(m) :
                   /\ id.name = e.name
                   /\ id.suffix = e.suffix \/ "none" \in {id.suffix, e.suffix}
       /\ (blamed("docker") = {}) = Reaches(m.docker, 230000)
       /\ (blamed("git") = {}) = Reaches(m.git, 23200)
       /\ \A e \in O!NotServed(m), id \in O!Served(m) :
             <<id.name, id.suffix>> # <<e.name, e.suffix>>
       /\ \A tool \in {"docker", "git", "pi", "tmux"} : Cardinality(blamed(tool)) < 2
       /\ (\E i \in blamed("docker") : said[i].class = "absent-daemon")
             = (m.docker.code # 0 /\ m.client.code = 0)
       /\ "tmux" \in O!Backends(m) /\ Len(m.tmux.banner) > 1 => Reaches(m.tmux, 20400)

\* The readers of a run tell what is there.
ReadersTrue == /\ LinesOnce /\ WaitHonest /\ ClocksOrdered /\ WatchersAgree /\ PathsTrue /\ LogTrue
               /\ FilesRead /\ RecordsRead /\ ProbesTrue /\ DoctorTrue

-----------------------------------------------------------------------------
(* The container: a fan-out's request from the tool's call to the host's   *)
(* verdict, the drop, the replies, truncated output, and a worker's report *)
(* with the host staging beside it.                                        *)

Full == <<"r1", "r2", "obs", "w4", "w5", "w6", "w7", "w8", "w9">>
S == INSTANCE Seat WITH
        Spellable <- {"col", "r1", "r2", "obs", "stranger", "R1", "p", "p-collate", "q", "a"}
                        \cup ToSet(Full),
        Bare <- {"p", "p-collate", "q", "none", "report", "notes"}, Collations <- {"p-collate"},
        Folded <- [id \in {"col", "r1", "r2", "obs", "R1"} |-> IF id = "R1" THEN "r1" ELSE id],
        Owns <- [obs |-> {"observer-ops.json", "observer-ops.md"}],
        MaxItems <- 8, MaxServices <- 16, MaxText <- 32768, MaxBytes <- 4194304,
        MaxReports <- 2, MaxDrop <- 8, MaxProbe <- 2

Console(collators, reviewers, rule) ==
    [collators |-> collators, reviewers |-> reviewers, services |-> rule]
Consoles == {Console(<<"col">>, <<"r1", "r2">>, "refused"), Console(<<"col">>, <<"obs", "r1">>, "required"),
             Console(<<"col">>, <<"r1", "R1">>, "refused"), Console(<<"col">>, <<"col">>, "refused")}
Item(worker) == [worker |-> worker, title |-> 1, brief |-> 32768, names |-> {}, services |-> <<>>,
                 extra |-> FALSE]
Partitioned(worker) == [Item(worker) EXCEPT !.services = <<<<"a">>>>]
Items == {Item(w) : w \in {"col", "r1", "r2", "stranger", "../x"}}
           \cup {Partitioned(w) : w \in {"r1", "obs"}}
           \cup {[Partitioned("obs") EXCEPT !.names = n] :
                    n \in {{"observer-ops.md"}, {"observer-ops.json", "observer-vm-ops.json"}}}
           \cup {[Partitioned("r1") EXCEPT !.names = {"observer-vm-ops.json"}],
                 [Item("r1") EXCEPT !.title = 32769], [Item("r1") EXCEPT !.extra = TRUE],
                 [Item("r1") EXCEPT !.services = <<<<"../x">>>>],
                 [Item("r1") EXCEPT !.services = <<[i \in 1..17 |-> "a"]>>]}
Fullest(n) == [i \in 1..n |-> [Item(Full[i]) EXCEPT !.title = 32768,
                                                    !.services = <<[j \in 1..16 |-> "a"]>>]]
Requests == UpTo(Items, 2) \cup {Fullest(8), Fullest(9)}
Frames == {[json |-> TRUE, tagged |-> TRUE, extra |-> FALSE, parent |-> p] : p \in {"p", "p-collate"}}
            \cup {[json |-> j, tagged |-> ~j, extra |-> j, parent |-> "p"] : j \in BOOLEAN}
            \cup {[json |-> TRUE, tagged |-> FALSE, extra |-> FALSE, parent |-> "p"]}

Policed(task, epoch) == [task |-> task, epoch |-> epoch, digits |-> TRUE]

Request ==
    \E console \in {c \in Consoles : S!RosterAccepted(c)}, sender \in {"col", "r1", "../x"},
       task \in {"p", "p-collate", "../x"}, items \in Requests, frame \in Frames :
       input' = [of |-> "request", console |-> console, sender |-> sender, task |-> task,
                 doc |-> [json |-> frame.json, tagged |-> frame.tagged, extra |-> frame.extra,
                          parent |-> frame.parent, requests |-> items]]

\* What the host takes is a collator's, from the directory of a task that is
\* no collation, for distinct reviewers of the console and under its rule for
\* services; and it refuses what the tool wrote only for who asked, from
\* where, whom it named, or the services rule, which the tool cannot see:
\* never for its form, a repeated name or its size
\* (dispatch-request.ts: parseDispatchRequest; report-tools.ts:
\* dispatchRequest).
RequestsRead ==
    input.of = "request" =>
    LET doc == input.doc
        reads(d) == S!Parse(d, input.sender, input.task, input.console)
        named == [i \in DOMAIN doc.requests |-> doc.requests[i].worker]
        wrote == S!Requested(Policed(input.task, 1), doc.requests)
    IN /\ reads(doc) = "ok" =>
             /\ input.sender \in ToSet(input.console.collators)
             /\ input.task # "p-collate" /\ doc.parent = input.task
             /\ ToSet(named) \subseteq ToSet(input.console.reviewers)
             /\ Cardinality(ToSet(named)) = Len(named) /\ Len(named) \in 1..8
             /\ \A item \in ToSet(doc.requests) :
                   /\ (item.services # <<>>) = (input.console.services = "required")
                   /\ item.worker = "obs" => "observer-vm-ops.json" \notin item.names
       /\ wrote # <<>> =>
             /\ reads(wrote[1]) \in {"ok", "unspellable_id", "sender_not_collator", "collation_parent",
                                     "collator_target", "worker_not_in_console",
                                     "services_missing", "services_not_permitted"}
             /\ reads(wrote[1]) = "unspellable_id" => input.sender = "../x"
             /\ S!WorstBytes(wrote[1]) <= 4194304

Policies == {Policed(t, 1) : t \in {"p", "p-collate", "none", "../x"}}
              \cup {[Policed("p", 1) EXCEPT !.digits = FALSE]}
Entries == {[task |-> "q", name |-> n] : n \in {"report", "notes", "../x"}}
Answers ==
    \E policy \in Policies, held \in SUBSET {"report", "notes"}, whole \in BOOLEAN :
    \E declared \in {<<>>} \cup {<<[schema |-> k, task |-> t, replies |-> r]>> :
                        k \in BOOLEAN, t \in {"p", "p-collate", "none"}, r \in UpTo(Entries, 2)} :
       input' = [of |-> "replies", policy |-> policy, declared |-> declared,
                 files |-> [n \in held |-> [json |-> whole]]]
\* Replies are given for the live task alone, one for each that the host
\* declared, and the missing ones are those no file is there for
\* (report-tools.ts: getReplies).
RepliesGiven ==
    input.of = "replies" =>
    LET given == S!Replies(input.policy, input.declared, input.files) IN
    given # <<>> =>
        /\ input.declared[1].task = input.policy.task /\ input.policy.digits
        /\ input.policy.task \notin {"none", "../x"}
        /\ Len(given) = Len(input.declared[1].replies)
        /\ \A i \in DOMAIN given :
              /\ given[i].name = input.declared[1].replies[i].name /\ given[i].name # "../x"
              /\ (given[i].says = "missing") = (given[i].name \notin DOMAIN input.files)

Headers == {[staged |-> TRUE, task |-> t] : t \in {"p", "q"}} \cup {[staged |-> FALSE, task |-> "none"]}
Drop == \E header \in Headers, prompt \in UpTo({"x", "nl", "sep"}, 5) :
        \E fault \in {[at |-> a, wrote |-> 0] : a \in {"none", "chmod"}}
                      \cup {[at |-> "write", wrote |-> n] : n \in 0..5} :
           input' = [of |-> "drop", header |-> header, prompt |-> prompt,
                     drop |-> S!WriteDrop([outcome |-> "none", closed |-> TRUE,
                                           body |-> S!RenderDrop([staged |-> TRUE, task |-> "q"], <<"x">>)],
                                          header, prompt, fault)]
\* Whatever the prompt holds, a drop splits into the header and the prompt
\* that made it; a beginning of one never shows a header that was not staged,
\* and a refused drop leaves the one before it
\* (dispatch-policy.ts: splitDispatchPolicy, writeDispatchPolicy;
\* dispatch-trigger.ts: readStagedHeader).
DropsWhole ==
    input.of = "drop" =>
    LET seen == S!StagedHeader(input.drop.body) IN
    /\ input.drop.closed
    /\ input.drop.outcome = "written" =>
          /\ Len(S!RenderDrop(input.header, input.prompt)) <= 8
          /\ S!SplitDrop(input.drop.body) =
                <<[identity |-> <<input.header>>,
                   prompt |-> IF input.header.staged THEN input.prompt ELSE <<"none">>]>>
          /\ (seen # <<>>) = input.header.staged
    /\ input.drop.outcome = "too large" => seen = <<[staged |-> TRUE, task |-> "q"]>>
    /\ seen # <<>> /\ seen # <<input.header>> =>
          input.drop.outcome # "written" /\ seen[1].task = "q"

Contents == UpTo({[is |-> "text"], [is |-> "image"]}, 2)
Output ==
    \E tool \in {"bash", "read"}, truncated, path, readable \in BOOLEAN, content \in Contents :
    \E bytes \in 1..3, form \in {"array", "object", "object of one list", "text"} :
       input' = [of |-> "output", tool |-> tool, truncated |-> truncated, path |-> path,
                 content |-> content, full |-> [readable |-> readable, bytes |-> bytes, is |-> form]]
\* Only a truncated bash result is touched, and all that it held stays in
\* its order; the banner says that the whole parses only of a file that was
\* read whole and does (truncation-recovery.ts: rewriteBashResult).
BannersTrue ==
    input.of = "output" =>
    LET shown == S!Rewritten(input)
        banners == SelectSeq(shown, LAMBDA c : c.is = "banner")
    IN /\ SelectSeq(shown, LAMBDA c : c.is # "banner") = input.content
       /\ Len(banners) = IF input.tool = "bash" /\ input.truncated THEN 1 ELSE 0
       /\ \A b \in ToSet(banners) :
             /\ b.parses => input.path /\ input.full.readable /\ input.full.bytes < 3
                              /\ input.full.is # "text"
             /\ (b.command = "none") = ~input.path

Params(reports, artifacts) == [reports |-> reports, artifacts |-> artifacts]
Made(root, name, exists) == [root |-> root, name |-> name, exists |-> exists]
Submissions == {Params(r, {}) : r \in {<<"report", "notes">>, <<"report", "report">>, <<"../x">>}}
                 \cup {Params(<<>>, {a}) :
                         a \in {Made("p", "report", FALSE), Made("q", "notes", FALSE),
                                Made("workdir", "x", TRUE), Made("workdir", "x", FALSE),
                                Made("elsewhere", "x", TRUE)}}
Starts == input' = [of |-> "seat", s |-> S!Container({"p", "q"}), epoch |-> 0]
At == input.of = "seat"
Becomes(s) == At /\ s # input.s /\ Len(s.session) <= 4 /\ input' = [input EXCEPT !.s = s]
Stage == /\ At /\ input.epoch < 2
         /\ \E t \in {"p", "q"} :
               input' = [input EXCEPT !.epoch = @ + 1, !.s.policy = Policed(t, input.epoch + 1)]
Unstage == At /\ Becomes([input.s EXCEPT !.policy = Policed("none", 0)])
Calls == /\ At /\ input.s.writing = <<>>
         /\ \A t \in ToSet(input.s.tally) : t.calls < 1
         /\ Becomes(S!ToolCall(input.s))
Begins == /\ At /\ input.s.writing = <<>>
          /\ \E params \in Submissions : Becomes(S!SubmitBegins(input.s, params))
Writes == At /\ input.s.writing # <<>> /\ Becomes(S!SubmitWrites(input.s))
Ends == /\ At /\ input.s.writing = <<>>
        /\ \E sent \in BOOLEAN : Becomes(S!AgentEnds(input.s, sent))
Restart == At /\ input.s.restarts < 1 /\ Becomes(S!Restarts(input.s))

\* An envelope is in its own task's directory and every file it declares
\* there is on disk when it appears; what the session says was submitted is
\* on disk, under that epoch or a later one; and an epoch is reminded once,
\* or once more after a restart, and never once it has delivered
\* (report-tools.ts: submitReport, agent_end).
ReportsWhole ==
    input.of = "seat" =>
    LET s == input.s
        said(kind) == {i \in DOMAIN s.session : s.session[i].kind = kind}
    IN /\ \A t \in {"p", "q"} : \A e \in ToSet(s.envelope[t]) :
             e.at.task = t /\ e.declares \subseteq s.files[t] /\ e.at.epoch <= input.epoch
       /\ \A i \in said("submitted") :
             LET at == s.session[i].at IN
             /\ s.envelope[at.task] # <<>> /\ s.envelope[at.task][1].at.epoch >= at.epoch
             /\ \A j \in said("nag") \cup said("not submitted") :
                   s.session[j].at = at => j < i \/ (s.restarts > 0 /\ j \notin said("nag"))
       /\ \A at \in {s.session[i].at : i \in said("nag")} :
             Cardinality({i \in said("nag") : s.session[i].at = at}) <= 1 + s.restarts

\* What a worker asks, is told and reports reaches the other side whole
\* (its parts are above).
RequestsHeld == RequestsRead /\ RepliesGiven /\ DropsWhole /\ BannersTrue /\ ReportsWhole

-----------------------------------------------------------------------------
(* The consoles: every shape a workspace may be found in when it is        *)
(* corrected, or a border dragged at any read; and what is open before.    *)

Crew(n) == SubSeq(<<"w1", "w2", "w3", "w4", "w5", "w6", "w7", "w8">>, 1, n)
P == INSTANCE Panes WITH
        Width <- 795, Height <- 1052, MinPane <- 20, Parts <- 100000,
        PlainWords <- ToSet(Crew(8)) \cup {"headless"}
                        \cup {"obs-1", "tick-1", "eng-1", "eng-2", "tst-1", "tst-2", "col-1", "rev-arch-1",
                              "rev-ctx-1", "rev-lang-1", "tri-1", "obs-t1", "obs-td1", "obs-t2", "obs-t3",
                              "obs-td2", "obs-tv1"}

ConsoleNames == {"operations", "development", "review", "triage"}
PaneOptions ==
    [workers |-> <<Crew(2)>>, tuiWorkers |-> {"w1", "w3", "tri-1"}, backend |-> "headless",
     poll |-> 5, workspaceName |-> "none"]
Planned(console, n) == P!Plan(console, [PaneOptions EXCEPT !.workers = <<Crew(n)>>])
Halved(console, n) == P!SplitFor(Planned(console, n))
Layout ==
    \E console \in ConsoleNames, n \in 1..8 :
       /\ Planned(console, n) # <<>>
       /\ LET borders == DOMAIN Halved(console, n).ratio IN
          \/ \E ratio \in [borders -> {25000, 50000, 75000}] :
                input' = [of |-> "layout", console |-> console, drag |-> P!Untouched,
                          lay |-> [Halved(console, n) EXCEPT !.ratio = ratio]]
          \/ \E after \in 1..13, b \in borders, ratio \in {25000, 75000} :
                input' = [of |-> "layout", console |-> console, lay |-> Halved(console, n),
                          drag |-> [after |-> after, border |-> b, ratio |-> ratio]]

\* Within a pixel of a fraction of the whole.
Near(size, f, whole) == f.den * size - f.num * whole \in (-f.den)..f.den
HeightsRight(l, spec) ==
    LET ys == P!RowYs(l)
        tall(i) == P!Tallest(l, P!Row(l, ys[i]))
    IN /\ spec.top # P!Left /\ Len(ys) > 1 => Near(tall(1), spec.top, 1052)
       /\ spec.middle # P!Left /\ Len(ys) = 3 => Near(tall(2), spec.middle, tall(2) + tall(3))
WidthsRight(l, spec) ==
    spec.columns # P!Left =>
       \A y \in ToSet(P!RowYs(l)) :
          LET row == P!Row(l, y) IN
          \A i \in 1..(Len(row) - 1) : Near(P!Wide(l, row[i]), spec.columns, 795)

SettledWell(spec, done) ==
    LET dragged == IF input.drag = P!Untouched THEN "none" ELSE input.lay.axis[input.drag.border]
    IN /\ ~done.ever
       /\ dragged # "y" => HeightsRight(done.lay, spec)
       /\ dragged # "x" => WidthsRight(done.lay, spec)
       /\ dragged = "none" => P!Corrected(done.lay, spec, P!Untouched).sent = <<>>
       /\ input.console = "development" => done.sent = <<>>
       /\ input.console \in {"review", "triage"} => P!Wide(done.lay, 1) = 795
       /\ input.console = "operations" => P!Wide(done.lay, 2) = 795

\* No pass asks for a border that is not there, whatever a person drags
\* between a read and the resize it led to; left alone, the passes give every
\* row and column its share from any shape, then have nothing more to ask;
\* a border dragged across one axis leaves the other right; and a console
\* without fractions stays as it was split (operations.ts: applyTopFraction,
\* applyMiddleRowFraction, applyBottomWidths).
PanesSettle ==
    input.of = "layout" =>
       SettledWell(P!Spec(input.console), P!Corrected(input.lay, P!Spec(input.console), input.drag))

Failures ==
    {[at |-> a, pane |-> 0] : a \in {"none", "create", "select", "close"}}
      \cup {[at |-> a, pane |-> i] : a \in {"split", "start"}, i \in 1..2}
Open(console, plan) ==
    {[title |-> t, panes |-> p, id |-> "none"] :
        t \in {console, "else"}, p \in {plan, Reverse(plan), SubSeq(plan, 1, 1), <<P!Untitled>>}}
Opened ==
    \E console \in {"operations", "review"}, n \in {1, 3, 5}, recreate \in BOOLEAN, failure \in Failures :
       LET plan == Planned(console, n) IN
       /\ plan # <<>>
       /\ \E open \in UpTo(Open(console, plan), 2), word \in {"observer", "w1", "w2", "monitor", "none"} :
             input' = [of |-> "opening", console |-> console, plan |-> plan, recreate |-> recreate,
                       failure |-> failure, word |-> word,
                       open |-> [i \in DOMAIN open |->
                                    [open[i] EXCEPT !.id = <<"first", "second">>[i]]]]

\* A console that could not be opened costs nobody theirs; one that was
\* opened anew replaces the first of its name, and only that; a review
\* console is adopted only if its panes are its own; and whichever name a
\* pane is restarted by, the pane respawned runs the worker that was stopped
\* (operations.ts: ensureWorkspace, createWorkspace, adoptionRefusal,
\* plannedPane, surfaceForTitle).
ConsolesKept ==
    input.of = "opening" =>
    LET end == P!EnsureWorkspace(input.open, input.console, input.plan, input.recreate, input.failure)
        lost == ToSet(input.open) \ ToSet(end.open)
        mine == SelectSeq(input.open, LAMBDA w : w.title = input.console)
        named == P!PlannedPane(input.plan, input.word)
        built == SelectSeq(end.open, LAMBDA w : w.id = end.id)
    IN /\ end.outcome # "created" => lost = {}
       /\ end.outcome = "created" =>
             /\ lost = IF mine = <<>> THEN {} ELSE {mine[1]}
             /\ built[1].panes = input.plan
             /\ mine # <<>> => input.recreate
       /\ end.outcome = "adopted" =>
             /\ end.open = input.open /\ built[1].title = input.console
             /\ input.console = "review" =>
                   {p.command.worker : p \in ToSet(built[1].panes)}
                      = {p.command.worker : p \in ToSet(input.plan)}
       /\ end.outcome = "created" /\ named # <<>> =>
             \E i \in DOMAIN built[1].panes :
                /\ P!SurfaceForTitle(built[1].panes, named[1].title) = {i}
                /\ built[1].panes[i].command.worker = named[1].command.worker
                /\ input.word \in {named[1].title, named[1].command.worker}

Planning ==
    \E console \in ConsoleNames, backend \in {"headless", "no backend"}, poll \in 0..1 :
    \E workers \in {<<>>} \cup {<<Crew(n)>> : n \in 3..8} \cup {<<w>> : w \in UpTo({"w1", "w2", "a b"}, 2)} :
       input' = [of |-> "plan", console |-> console,
                 opts |-> [PaneOptions EXCEPT !.backend = backend, !.poll = poll, !.workers = workers]]

\* A plan that is not refused seats the workers it was asked for, each where it
\* is split off a pane already there, and operations alone leaves out those
\* after its second; who attaches is a tui worker, told its own console; the
\* consoles' own crews are never refused; and no word reaches a shell that is
\* not plain (operations-plan.ts: operationsPanes, agentSquarePanes,
\* collatorOverRowPanes, triagePanes).
PlansTrue ==
    input.of = "plan" =>
    LET opts == input.opts
        plan == P!Plan(input.console, opts)
        run == SelectSeq([i \in DOMAIN plan |-> plan[i].command.worker], LAMBDA w : w # "none")
        crew == P!Chosen(opts, P!DefaultWorkers[input.console])
        plain == opts.backend = "headless" /\ "a b" \notin ToSet(crew)
    IN /\ plan # <<>> =>
             /\ run = IF input.console = "operations" THEN SubSeq(crew, 1, Min({2, Len(crew)})) ELSE crew
             /\ \A i \in DOMAIN plan : plan[i].from \in (IF i = 1 THEN {0} ELSE 1..(i - 1))
             /\ \A pane \in ToSet(plan) :
                   /\ pane.command.attach = (pane.command.worker \in opts.tuiWorkers)
                   /\ pane.command.attach => pane.command.into = input.console
             /\ plain
       /\ opts.workers = <<>> /\ plain /\ opts.poll > 0 => plan # <<>>

\* The consoles an operator sees are the ones planned, and are kept
\* (its parts are above).
ConsolesTrue == PanesSettle /\ ConsolesKept /\ PlansTrue

-----------------------------------------------------------------------------
(* What a supervisor watches: a turn polled as it is written, an epoch's    *)
(* events, dialogs, and the credential's refresher.                        *)

D == INSTANCE Watchdogs WITH
        ToolLoop <- 3, ProseLoop <- 2, Quiet <- 2, ErrorGrace <- 3, DialogTime <- 2,
        Interval <- 4, Retry <- 2, Nap <- 1

Says(stop, content) == [role |-> "assistant", content |-> content, stop |-> stop]
Hears(role, id) == [role |-> role, content |-> <<>>, answers |-> id]
Called(id, args) == [is |-> "call", id |-> id, args |-> args]
Prose(kind, parts) == [is |-> kind, parts |-> parts]
Words(words) == [words |-> words, long |-> words # "Hm.", ends |-> words # "a row"]
Written == {Says("toolUse", <<Called("c1", "ls")>>),
            Says("toolUse", <<Called("c1", "ls"), Called("c2", "ls")>>),
            Says("toolUse", <<Called("c1", "ls"), Called("c2", "cat")>>),
            Says("endTurn", <<Prose("thinking", <<Words("s1"), Words("s2"), Words("s1")>>)>>),
            Says("endTurn", <<Prose("text", <<Words("s1"), Words("s1"), Words("s2")>>),
                              Prose("text", <<Words("s1"), Words("a row"), Words("Hm."), Words("a row"), Words("Hm.")>>)>>),
            Hears("user", "none"), Hears("submit", "none"), Hears("result", "c1"), Hears("result", "c2")}
        \cup {Says(stop, <<>>) : stop \in {"endTurn", "error", "length", "aborted", "none"}}
MaxEntries == 3

Turns == input' = [of |-> "turn", entries |-> <<>>, still |-> 0,
                   watch |-> [seen |-> 0, quiet |-> <<>>, end |-> <<>>],
                   noted |-> [timedOut |-> FALSE, aborted |-> FALSE]]
UnderWatch == input.of = "turn" /\ input.watch.end = <<>>
Adds == /\ UnderWatch /\ Len(input.entries) < MaxEntries
            /\ \E e \in Written : input' = [input EXCEPT !.entries = Append(@, e), !.still = 0]
Noted == /\ UnderWatch /\ ~input.noted.timedOut /\ ~input.noted.aborted
         /\ \E what \in {"timedOut", "aborted"} : input' = [input EXCEPT !.noted[what] = TRUE]
Polled == /\ UnderWatch /\ input.still <= 4
          /\ input' = [input EXCEPT !.watch = D!PollTurn(@, input.entries, input.noted), !.still = @ + 1]

\* A turn is a success only if its last message ended it and was left standing
\* for as long as its ending calls for, with no loop in what was written and
\* nobody having given it up; a loop is found at the next poll and only where
\* there is one, though a loop of calls never ends and one of prose ends well;
\* and whatever has ended is settled
\* (supervisor/index.ts: the transcript poll, tool-loop.ts, prose-loop.ts).
TurnJudged ==
    input.of = "turn" =>
    LET spoken == SelectSeq(input.entries, LAMBDA e : e.role = "assistant")
        blocks == FlattenSeq([i \in DOMAIN spoken |-> spoken[i].content])
        calls == SelectSeq(blocks, LAMBDA b : b.is = "call")
        looped == \E i \in 1..Len(calls) : i + 2 <= Len(calls)
                     /\ calls[i].args = calls[i + 1].args /\ calls[i].args = calls[i + 2].args
        rambled == \E b \in ToSet(blocks) : b.is # "call" /\
                      \E i, j, k \in DOMAIN b.parts :
                         /\ i < j /\ j < k /\ b.parts[i] = b.parts[k] /\ b.parts[j] # b.parts[i]
                         /\ \A at \in {i, j} : b.parts[at].long /\ b.parts[at].ends
        stop == IF spoken = <<>> THEN "none" ELSE Last(spoken).stop
        asked == \E i \in DOMAIN input.entries : input.entries[i].role = "user"
                    /\ \A j \in i..Len(input.entries) : input.entries[j].role # "assistant"
        over == \/ stop \notin {"toolUse"} /\ ~asked
                \/ D!ClassifyTurn(input.entries) = "ended"
        end == input.watch.end
    IN IF end = <<>> THEN input.still > 4 => ~looped /\ ~rambled /\ (spoken = <<>> \/ ~over)
       ELSE /\ (end[1].reason = "tool_loop") = looped
            /\ (end[1].reason = "prose_loop") = (rambled /\ ~looped)
            /\ looped \/ rambled => end[1].verdict = "failed" /\ input.still = 1
            /\ ~looped /\ ~rambled =>
                  /\ spoken # <<>> /\ ~asked
                  /\ input.still > IF stop = "error" THEN 3 ELSE 2
                  /\ (end[1].verdict = "failed") = (stop = "error")
            /\ end[1].verdict = "success" =>
                  /\ stop \notin {"error", "aborted", "length"}
                  /\ ~input.noted.timedOut /\ ~input.noted.aborted
                  /\ stop = "toolUse" => \E i \in DOMAIN input.entries : input.entries[i].role = "submit"

\* The events of two epochs, with what an earlier one still sends; an agent_start
\* that opens nothing is left out.
Epochs == \E threshold \in {0, 2} :
    input' = [of |-> "events", log |-> <<>>, tripped |-> <<>>,
              epoch |-> [live |-> FALSE, open |-> FALSE, interrupted |-> FALSE,
                         prose |-> D!Detector(threshold)]]
MaxEvents == 7
Happens == /\ input.of = "events" /\ Len(input.log) < MaxEvents
           /\ \E type \in {"dispatch", "abort", "settle", "agent_start", "tool_execution_end", "turn_end"},
                 live \in BOOLEAN :
                 LET event == [type |-> type, live |-> live]
                     epoch == D!OnEvent(input.epoch, event)
                 IN /\ type = "dispatch" => ~input.epoch.live /\ live
                    /\ type \in {"abort", "settle"} => input.epoch.live /\ live
                    /\ type = "agent_start" => input.epoch.live /\ ~input.epoch.open
                    /\ type \in {"tool_execution_end", "turn_end"} /\ live => input.epoch.open
                    /\ input' = [input EXCEPT !.log = Append(@, event), !.epoch = epoch,
                                    !.tripped = IF epoch.prose.tripped /\ ~input.epoch.prose.tripped
                                                THEN Append(@, Len(input.log) + 1) ELSE @]

\* An epoch is told to have stopped acting at the second of two turns of its own
\* in a row that it ended by itself with no call of its own in them, whatever an
\* earlier epoch called or ended meanwhile; once, and not in the next epoch
\* (supervisor/prose-detector.ts, supervisor/index.ts: onEvent).
EpochJudged ==
    input.of = "events" =>
    LET log == input.log
        own(i, type) == log[i].type = type /\ log[i].live
        last(i, type) == Max({0} \cup {k \in 1..(i - 1) : own(k, type)})
        before(i) == Max({last(i, "agent_start"), last(i, "turn_end")})
        idle(i) == /\ own(i, "turn_end")
                   /\ last(i, "abort") <= last(i, "settle")
                   /\ last(i, "tool_execution_end") <= before(i)
        told == {i \in DOMAIN log : /\ idle(i) /\ before(i) > last(i, "agent_start")
                                    /\ idle(before(i))}
        first == {j \in told : ~\E k \in told : k < j /\ last(k, "agent_start") = last(j, "agent_start")}
    IN ToSet(input.tripped) = IF input.epoch.prose.threshold = 0 THEN {} ELSE first

\* Dialogs, some of which the supervisor cannot write its answer to.
Dialogues == input' = [of |-> "dialogs", ui |-> D!NoDialogs, asked |-> <<>>, child |-> "up"]
MaxDialogs == 2
Dialog ==
    /\ input.of = "dialogs" /\ input.child # "gone" /\ Len(input.asked) < MaxDialogs
    /\ \E method \in {"notify", "confirm", "editor", "novel", "none"}, named, writes \in BOOLEAN :
          LET id == IF named THEN <<"d1", "d2">>[Len(input.asked) + 1] ELSE "none"
              event == [method |-> method, id |-> id]
          IN input' = [input EXCEPT !.ui = D!HandleUiRequest(@, event, writes),
                          !.asked = Append(@, [event |-> event, writes |-> writes,
                                               age |-> 0, moot |-> input.child # "up"])]
Waits == /\ input.of = "dialogs" /\ \E i \in DOMAIN input.asked : input.asked[i].age < 3
         /\ input' = [input EXCEPT !.ui = D!DialogsWait(@),
                         !.asked = [i \in DOMAIN @ |-> [@[i] EXCEPT !.age = Min({3, @ + 1})]]]
Stopped == /\ input.of = "dialogs" /\ input.child # "gone"
          /\ input' = [input EXCEPT !.ui = D!ClearUiDeadlines(@),
                          !.child = IF @ = "up" THEN "stopping" ELSE "gone",
                          !.asked = [i \in DOMAIN @ |-> [@[i] EXCEPT !.moot = TRUE]]]

\* Whoever may be waiting is answered, by whatever name it asked, and whoever is
\* not, never; an answer that could not be written is told of when its time is
\* up, as an incident where nothing else frees the turn.  Of a dialog pending when
\* the worker is stopped, or asked while it stops, nothing is required: a shutdown
\* has no incidents to write (supervisor/ui-requests.ts, supervisor/index.ts:
\* handleUiRequest, clearUiDeadlines).
DialogsHeard ==
    input.of = "dialogs" =>
    LET ui == input.ui IN
    /\ \A i \in DOMAIN input.asked :
          LET ask == input.asked[i]
              id == ask.event.id
              blocks == ask.event.method # "notify" /\ id # "none"
          IN /\ id # "none" => (id \in ui.answered) = (blocks /\ ask.writes)
             /\ blocks /\ ~ask.writes /\ ~ask.moot => (id \in ui.reported) = (ask.age >= 2)
             /\ id \in ui.reported => blocks /\ ~ask.writes /\ ask.age >= 2
             /\ (id \in ui.ledger) = (id \in ui.reported /\ ask.event.method = "editor")
             /\ ask.event.method # "notify" /\ id = "none" /\ ~ask.moot =>
                   "unanswerable" \in ui.ledger
    /\ ui.denied = Cardinality(ui.answered)
    /\ input.child = "gone" => ui.armed = <<>>

\* The refresher: how long a mint takes, and what becomes of it.
Credentials == input' = [of |-> "credential", r |-> D!Unborn, now |-> 0, shown |-> D!NoCredential,
                         token |-> [is |-> 0, since |-> 0, failures |-> 0, spent |-> 0],
                         minted |-> 0, records |-> <<>>, last |-> <<>>]
MaxTime == 11
Refreshing == input.of = "credential"
Due == /\ Refreshing /\ input.r.loop = "awake"
       /\ input' = [input EXCEPT !.r = D!Tick(@, input.now),
                       !.minted = IF D!DueIn(input.r, input.now) = 0 THEN @ + 1 ELSE @]
\* Appending its record may fail: an event in the log, and no more.
Lands == /\ Refreshing /\ input.r.flight
         /\ \E appends \in BOOLEAN :
               input' = [input EXCEPT
                   !.r = D!Injected(@, input.now),
                   !.token = [is |-> input.minted, since |-> input.r.attempt[1], failures |-> 0,
                              spent |-> input.now - input.r.attempt[1]],
                   !.records = IF appends THEN Append(@, [generation |-> input.r.generation, token |-> input.minted])
                               ELSE @,
                   !.shown = D!OnInjected(@, input.r.generation),
                   !.last = <<[start |-> input.r.attempt[1], ok |-> TRUE]>>]
\* Also when it is in the container and its record was refused.
Refused == /\ Refreshing /\ input.r.flight
           /\ \E inside \in BOOLEAN :
                 input' = [input EXCEPT
                    !.r = D!Fails(@, input.now), !.shown = D!OnFailure(@),
                    !.token = [@ EXCEPT !.is = IF inside THEN input.minted ELSE @, !.failures = @ + 1],
                    !.last = <<[start |-> input.r.attempt[1], ok |-> FALSE]>>]
Passes == /\ Refreshing /\ input.now < MaxTime /\ ~input.r.aborted
          /\ input.r.loop # "awake" /\ (input.r.loop = "asleep" => input.now < input.r.wake)
          /\ input' = [input EXCEPT !.now = @ + 1, !.token.spent = IF input.r.flight THEN @ + 1 ELSE @]
Wakes == /\ Refreshing /\ input.r.loop = "asleep" /\ input.now >= input.r.wake
         /\ input' = [input EXCEPT !.r.loop = "awake"]
Aborted == /\ Refreshing /\ ~input.r.aborted /\ input' = [input EXCEPT !.r = D!Abort(@)]

\* A worker's token is replaced an interval after it was asked for, each failure
\* costing a retry and what it took, never an interval, and never in a storm;
\* no two tokens go by one generation; a credential shown as healthy is the last
\* that was asked for, and it is in the container; and who told the refresher to
\* stop waits for nothing (security/refresh.ts, supervisor/index.ts: onInjected).
CredentialKept ==
    input.of = "credential" =>
    LET r == input.r
        token == input.token
    IN /\ ~r.aborted /\ token.is # 0 /\ r.injected # <<>> =>
             input.now - token.since <= 4 + 1 + token.spent + 2 * token.failures
       /\ ~r.aborted /\ r.injected = <<>> =>
             input.now <= token.spent + 2 * token.failures
       /\ r.flight /\ input.last # <<>> =>
             r.attempt[1] - input.last[1].start >= IF input.last[1].ok THEN 4 ELSE 2
       /\ \A i, j \in DOMAIN input.records : i < j =>
             /\ input.records[i].generation < input.records[j].generation
             /\ input.records[i].token < input.records[j].token
       /\ input.shown.shown /\ ~input.shown.degraded =>
             /\ input.last[1].ok /\ token.failures = 0
             /\ token.is = input.minted - (IF r.flight THEN 1 ELSE 0)
             /\ input.shown.generation + 1 = r.generation /\ input.shown.injections = r.generation
       /\ r.aborted => r.loop = "over"

\* A supervisor sees what its worker needs it to (its parts are above).
SeatsWatched == TurnJudged /\ EpochJudged /\ DialogsHeard /\ CredentialKept

Init == \E family \in {"graded", "granted", "followed", "seated", "shown", "watched"} : Asked(family)
Next ==
    \/ /\ Asked("graded")
       /\ (Sweep \/ HarvestOfAChange \/ HarvestOfAReport \/ Briefed \/ Merge \/ PhaseRead \/ Reviewed)
    \/ Asked("graded") /\ (Names \/ GitTexts \/ GitHooks \/ Loads)
    \/ Asked("granted") /\ (Secrets \/ Powers \/ Models \/ Put)
    \/ Asked("followed") /\ (Follow \/ Wait \/ Monitor \/ Watched \/ Transcript \/ Log \/ Reads \/ Recorded \/ Probed \/ Doctored)
    \/ Grow \/ Rewrite \/ Replace \/ Looks \/ Takes
    \/ Poll
    \/ Asked("seated") /\ (Request \/ Answers \/ Drop \/ Output \/ Starts)
    \/ Stage \/ Unstage \/ Calls \/ Begins \/ Writes \/ Ends \/ Restart
    \/ Asked("shown") /\ (Planning \/ Layout \/ Opened)
    \/ Ticks \/ Named \/ Finished \/ PassEnds
    \/ Asked("watched") /\ (Turns \/ Epochs \/ Dialogues \/ Credentials)
    \/ Adds \/ Noted \/ Polled \/ Happens \/ Dialog \/ Waits \/ Stopped
    \/ Due \/ Lands \/ Refused \/ Passes \/ Wakes \/ Aborted
Spec == Init /\ [][Next]_vars
=============================================================================

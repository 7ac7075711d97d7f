---------------------------- MODULE SweepVerdict ----------------------------
(***************************************************************************)
(* What a sweep of the triage console may claim: from the targets file to  *)
(* the collators' shares, the partition a collator asks for, the artifacts *)
(* and the documents that come back, the assessment of every service, the  *)
(* signal it becomes, and what of it crosses into the next sweep           *)
(* (run/triage-partition.ts, run/triage-verdict.ts, run/triage-envelope.ts,*)
(* run/triage-targets.ts, cli/commands/triage.ts).  Pure functions: Triage *)
(* takes their result as the signal a subject is given.                    *)
(*                                                                         *)
(* An environment is [name, kind, context, window, override, services], a  *)
(* service's own window in override; "none" is a field left out; a text is *)
(* the set of the strings it contains.                                     *)
(***************************************************************************)
EXTENDS Naturals, Sequences, SequencesExt, FiniteSets

CONSTANTS SeatKind,     \* TRIAGE_SEAT_KINDS: the kind of every seat
          MaxServices   \* MAX_SERVICES_PER_ENVIRONMENT, the sweep's cap

Kinds == {"k8s", "docker", "vm"}

\* seatKind
KindOf(worker) == IF worker \in DOMAIN SeatKind THEN SeatKind[worker] ELSE "none"
Named(value) == value \notin {"none", "blank"}
Times(x, seq) == Cardinality({i \in DOMAIN seq : seq[i] = x})

-----------------------------------------------------------------------------
(* The targets file.                                                       *)

\* duplicateServiceNameIssues
ServicesAccepted(e) == e.services # <<>> /\ IsInjective(e.services)

\* TriageTargetsSchema and the schemas of its environments
TargetsAccepted(envs) ==
    /\ envs # <<>>
    /\ FoldLeft(LAMBDA n, e : n + Len(e.services), 0, envs) <= MaxServices
    /\ \A e \in ToSet(envs) : ServicesAccepted(e)

\* environmentsByKind
OfKind(envs, kind) == SelectSeq(envs, LAMBDA e : e.kind = kind)
ConsoleAccepts(envs) ==
    /\ Len(OfKind(envs, "k8s")) = 1
    /\ Len(OfKind(envs, "docker")) <= 1 /\ Len(OfKind(envs, "vm")) <= 1
    /\ \A a, b \in ToSet(envs) : a.window = b.window

\* windowIssues: no service may look back over less than one sweep, nor may a
\* service of a cluster over more than its environment.
WindowsFit(envs, cadence) ==
    \A e \in ToSet(envs) :
        /\ e.window <= cadence
        /\ e.kind = "k8s" => \A s \in DOMAIN e.override : e.override[s] <= e.window

\* kubeContextIssues: reach is the set of declared contexts, or undeclared.
ContextsReached(envs, reach) ==
    LET k8s == OfKind(envs, "k8s") IN
    IF ~ reach.declared THEN k8s = <<>>
    ELSE \A e \in ToSet(k8s) : e.context \in reach.contexts

\* seatsForEnvironments
SeatsFor(envs, seats) ==
    SelectSeq(seats, LAMBDA s : \E e \in ToSet(envs) : KindOf(s) = e.kind)

\* evenSlices: front-loaded shares, as even as the count allows.
EvenSlices(items, parts) ==
    LET size(i) == Len(items) \div parts + (IF i <= Len(items) % parts THEN 1 ELSE 0)
        at[i \in 0..parts] == IF i = 0 THEN 0 ELSE at[i - 1] + size(i)
    IN [i \in 1..parts |-> SubSeq(items, at[i - 1] + 1, at[i])]

\* The pairs a sweep opens: every environment and the seats, shared out.
Pairs(envs, seats, collators) ==
    [i \in DOMAIN collators |->
        [collator |-> collators[i],
         seats |-> EvenSlices(SeatsFor(envs, seats), Len(collators))[i],
         environments |-> [e \in DOMAIN envs |-> [envs[e] EXCEPT !.services =
                              EvenSlices(envs[e].services, Len(collators))[i]]]]]

-----------------------------------------------------------------------------
(* The partition: who looks at what.                                       *)

\* partitionFromRequests, of the requests that were readable.
PartitionOf(requests) ==
    [i \in DOMAIN requests |-> [worker |-> requests[i].worker,
        services |-> IF requests[i].services = "none" THEN <<>> ELSE requests[i].services]]

\* readSweepPartition: a refused request is one sender's slice, not the sweep.
ReadPartition(reads) ==
    FlattenSeq([i \in DOMAIN reads |->
                   IF reads[i].kind = "ok" THEN PartitionOf(reads[i].requests) ELSE <<>>])

Claims(assignments) == FlattenSeq([i \in DOMAIN assignments |-> assignments[i].services])

\* checkTriagePartition
CheckPartition(declared, assignments) ==
    LET claims == Claims(assignments) IN
    CASE \E s \in ToSet(claims) : Times(s, claims) > 1 -> "partition_duplicate"
      [] ToSet(claims) # ToSet(declared) -> "partition_incomplete"
      [] OTHER -> "complete"

\* refuseOrphanedAssignments: the workers of no kind this sweep declares.
Orphaned(envs, assignments) ==
    {a.worker : a \in {x \in ToSet(assignments) : OfKind(envs, KindOf(x.worker)) = <<>>}}

\* dispatchPartition: whole or not at all, kind by kind; a worker of no declared
\* kind refuses it whatever it claims.
DispatchPartition(envs, assignments) ==
    LET of(kind) == SelectSeq(assignments, LAMBDA a : KindOf(a.worker) = kind)
        declared(kind) == FlattenSeq([i \in DOMAIN OfKind(envs, kind) |->
                                         OfKind(envs, kind)[i].services])
        faults == {CheckPartition(declared(k), of(k)) : k \in Kinds} \ {"complete"}
    IN
    IF Orphaned(envs, assignments) # {}
    THEN [kind |-> "refused", code |-> "partition_incomplete", told |-> {}]
    ELSE IF faults # {}
    THEN [kind |-> "refused", code |-> CHOOSE f \in faults : TRUE, told |-> {}]
    ELSE [kind |-> "dispatched", code |-> "none", told |-> {a.worker : a \in ToSet(assignments)}]

-----------------------------------------------------------------------------
(* The assessment: what came back, service by service.                     *)

\* sweepIdEcho
SweepIdEcho(dispatched, echoed) ==
    IF echoed \in {"none", "blank"} THEN "absent"
    ELSE IF echoed = dispatched THEN "fresh" ELSE "stale"

\* windowEcho, of instants, 0 for none; policy.at is the host's own.
WindowEcho(opened, policy) ==
    IF opened = 0 THEN "absent"
    ELSE IF opened < policy.at - (policy.window + policy.reserve) \/ opened > policy.at
    THEN "out_of_range" ELSE "fresh"

\* evidenceGaps
EvidenceGaps(row) ==
    {g \in {"coverage", "selector", "window", "ledger"} :
        \/ g = "coverage" /\ ToSet(row.coverage) \subseteq {"not_attempted"}
        \/ g = "selector" /\ ~ Named(row.selector)
        \/ g = "window" /\ ~ Named(row.window)
        \/ g = "ledger" /\ ~ \E r \in ToSet(row.evidence) : Named(r)}

\* resolveRowEnvironment: what the row says, or what it can only mean.
RowEnvironment(row, envs) ==
    LET owners == {e.name : e \in {x \in ToSet(envs) : row.service \in ToSet(x.services)}} IN
    CASE Named(row.environment) -> row.environment
      [] Len(envs) = 1 -> envs[1].name
      [] OTHER -> IF Cardinality(owners) = 1 THEN CHOOSE o \in owners : TRUE ELSE "none"

\* resolveAssignmentEnvironment
AssignmentEnvironment(a, envs) ==
    IF Len(envs) = 1 THEN envs[1].name
    ELSE IF OfKind(envs, KindOf(a.worker)) = <<>> THEN "none"
    ELSE OfKind(envs, KindOf(a.worker))[1].name

\* assignedTo: the first that claims it.
Observer(name, service, envs, assignments) ==
    LET mine == SelectSeq(assignments, LAMBDA a :
                    AssignmentEnvironment(a, envs) = name /\ service \in ToSet(a.services))
    IN IF mine = <<>> THEN "none" ELSE mine[1].worker

\* The echoes of the artifacts the dispatch asked for.
Solicited(artifacts, assignments) ==
    {a \in artifacts : a.worker \in {x.worker : x \in ToSet(assignments)}}
EchoOf(worker, sweep, artifacts) ==
    LET mine == {a \in artifacts : a.worker = worker} IN
    IF mine = {} THEN "missing" ELSE SweepIdEcho(sweep, (CHOOSE a \in mine : TRUE).sweep)
\* Mutant: when the window was opened is not asked.
BadWindowTrusting(worker, artifacts, policy) == FALSE
BadWindow(worker, artifacts, policy) ==
    \E a \in artifacts : a.worker = worker /\ WindowEcho(a.opened, policy) # "fresh"

\* The rows a document holds of one service of one environment.
RowsOf(name, service, envs, document) ==
    SelectSeq(document.rows, LAMBDA r :
        r.service = service /\ RowEnvironment(r, envs) = name)

Blank(why) == [assessment |-> "indeterminate", reason |-> why, claimed |-> "none", ref |-> "none"]

\* assessTriageSweep, of one declared service.
AssessService(name, service, s) ==
    LET observer == Observer(name, service, s.envs, s.assignments)
        artifacts == Solicited(s.artifacts, s.assignments)
        echo == EchoOf(observer, s.sweep, artifacts)
        rows == RowsOf(name, service, s.envs, s.document)
    IN
    CASE observer = "none" -> Blank("unassigned")
      [] observer # "none" /\ echo = "missing" -> Blank("no_artifact")
      [] observer # "none" /\ echo \in {"stale", "absent"} -> Blank("stale_replay")
      [] echo = "fresh" /\ SweepIdEcho(s.sweep, s.document.sweep) # "fresh" -> Blank("stale_replay")
      [] OTHER ->
         IF BadWindow(observer, artifacts, s.policy) THEN Blank("stale_window")
         ELSE IF rows = <<>> THEN Blank("unreported")
         ELSE IF Len(rows) > 1 THEN Blank("duplicate_rows")
         ELSE LET row == rows[1]
                  refs == SelectSeq(row.evidence, Named)
                  ref == IF refs = <<>> THEN "none" ELSE refs[1]
              IN IF row.assessment = "healthy" /\ EvidenceGaps(row) # {}
                 THEN [Blank("unevidenced_healthy") EXCEPT !.claimed = "healthy", !.ref = ref]
                 ELSE [assessment |-> row.assessment, reason |-> "observed",
                       claimed |-> row.assessment, ref |-> ref]

\* The census of the observers, and the verdict on what they share.
Missing(s) == {a.worker : a \in ToSet(s.assignments)} \ {a.worker : a \in s.artifacts}
Stale(s) == {a.worker : a \in {x \in Solicited(s.artifacts, s.assignments) :
                                 SweepIdEcho(s.sweep, x.sweep) # "fresh"}}
StaleWindow(s) == {a.worker : a \in {x \in Solicited(s.artifacts, s.assignments) :
                                 /\ SweepIdEcho(s.sweep, x.sweep) = "fresh"
                                 /\ WindowEcho(x.opened, s.policy) # "fresh"}}
Reported(s) == {a.worker : a \in ToSet(s.assignments)} \ (Missing(s) \cup Stale(s) \cup StaleWindow(s))
Unsolicited(s) == s.artifacts \ Solicited(s.artifacts, s.assignments)

\* saturationVerdict; the pair of claims each verdict makes is SATURATION_PAIR.
Saturation(s, probe) ==
    LET total == Cardinality({a.worker : a \in ToSet(s.assignments)})
        missing == Cardinality(Missing(s)) IN
    CASE total = 0 -> "unconfirmed"
      [] total > 0 /\ missing = 0 -> "clear"
      [] missing = 1 -> "uncorrelated"
      [] missing >= 2 -> CASE probe = "timeout" -> "saturated"
                           [] probe = "unreachable" -> "endpoint_down"
                           [] OTHER -> "unconfirmed"

\* serviceSignal, and sweepObservations: a saturated sweep speaks of nobody.
ServiceSignal(a) ==
    CASE a.assessment = "indeterminate" -> "unobserved"
      [] a.assessment = "healthy" -> IF a.ref = "none" THEN "unobserved" ELSE "clear"
      [] OTHER -> "issue"
Signal(name, service, s, probe) ==
    IF Saturation(s, probe) \in {"saturated", "endpoint_down"} THEN "suppressed"
    ELSE ServiceSignal(AssessService(name, service, s))

-----------------------------------------------------------------------------
(* Two collators' documents, and what crosses into the next sweep.         *)

\* collate: the rows of every document that is this sweep's own.
Merged(sweep, documents) ==
    LET own == SelectSeq(documents, LAMBDA d : d.sweep = sweep) IN
    [sweep |-> IF own = <<>> THEN "none" ELSE sweep,
     rows |-> FlattenSeq([i \in DOMAIN own |-> own[i].rows])]

\* projectPreviousState: a declared service's assessment, the first it was given.
PreviousState(document, envs) ==
    {[environment |-> e.name, service |-> s,
      assessment |-> RowsOf(e.name, s, envs, document)[1].assessment] :
        <<e, s>> \in {<<e, s>> \in ToSet(envs) \X UNION {ToSet(x.services) : x \in ToSet(envs)} :
            s \in ToSet(e.services) /\ RowsOf(e.name, s, envs, document) # <<>>}}

\* workerAuthoredStrings: what a document says that its host did not say first.
\* Short strings and the host's own vocabulary are nobody's prose; a declared
\* name or namespace is none either, except in a note, a window or a ledger.
WorkerAuthored(document, names, namespaces, vocabulary) ==
    (UNION {({r.selector} \cup ToSet(r.channels)) \ (names \cup namespaces) : r \in ToSet(document.rows)}
      \cup UNION {{r.note, r.window} \cup ToSet(r.evidence) : r \in ToSet(document.rows)}
      \cup (ToSet(document.unaccounted) \ names))
    \ (vocabulary \cup {"none", "blank"})

\* envelopeIssues, of the class that depends on the previous document.
EnvelopeRefused(text, document, names, namespaces, vocabulary) ==
    text \cap WorkerAuthored(document, names, namespaces, vocabulary) # {}

-----------------------------------------------------------------------------
(* What the host writes to its workers, and how it reads them back.        *)

\* childTaskId: the id a seat's slice is dispatched under.
Child(sweep, worker) == <<sweep, worker>>

\* The facts a sweep's envelope states; an environment's name only where
\* there are several.
EnvelopeStates(sweep, opened, pair, document) ==
    [sweep |-> sweep, window |-> opened,
     environments |-> {[name |-> e.name, services |-> ToSet(e.services)] :
                          e \in ToSet(pair.environments)},
     rows_name |-> IF Len(pair.environments) = 1 THEN {} ELSE {e.name : e \in ToSet(pair.environments)},
     previous |-> PreviousState(document, pair.environments)]

\* renderSweepEnvelope: refused over nothing, over one name twice, and where a
\* string of the previous document would be read in the host's voice.
SweepEnvelope(sweep, opened, pair, document, audit) ==
    LET names == [i \in DOMAIN pair.environments |-> pair.environments[i].name]
        declared == UNION {ToSet(e.services) : e \in ToSet(pair.environments)}
        text == audit.brief \cup {sweep} \cup ToSet(names) \cup declared
    IN
    IF \/ names = <<>> \/ ~ IsInjective(names)
       \/ EnvelopeRefused(text, document, declared, {}, audit.vocabulary)
    THEN [kind |-> "refused"]
    ELSE [kind |-> "envelope", states |-> EnvelopeStates(sweep, opened, pair, document),
          seats |-> {[worker |-> s, child |-> Child(sweep, s)] : s \in ToSet(pair.seats)}]

\* composeObserverBrief: the collator's words with every outbox path rewritten
\* to the slice's own, and the demand to echo what the host minted.
ObserverBrief(judgement, sweep, worker) ==
    [paths |-> {Child(sweep, worker) : p \in judgement.paths},
     rewrote |-> judgement.paths \ {Child(sweep, worker)},
     echo |-> [sweep |-> sweep, window |-> judgement.window]]

\* renderCollationEnvelope
CollationEnvelope(sweep, seats, envs) ==
    [sweep |-> sweep,
     replies |-> {[path |-> Child(sweep, s),
                   environment |-> IF Len(envs) = 1 \/ OfKind(envs, KindOf(s)) = <<>> THEN "none"
                                   ELSE OfKind(envs, KindOf(s))[Len(OfKind(envs, KindOf(s)))].name] :
                      s \in ToSet(seats)}]

\* parseObserverArtifact: who wrote it is where it was found.
ParseArtifact(file, worker) ==
    IF file.shape # "object" THEN [kind |-> "refused"]
    ELSE [kind |-> "ok", artifact |-> [worker |-> worker, sweep |-> file.sweep, opened |-> file.opened]]

\* parseTriageDocument
ParseDocument(file) ==
    CASE file.size = "over" -> [kind |-> "refused", code |-> "too_large"]
      [] file.size # "over" /\ file.shape = "text" -> [kind |-> "refused", code |-> "not_json"]
      [] file.size # "over" /\ file.shape \in {"array", "scalar"} -> [kind |-> "refused", code |-> "not_an_object"]
      [] OTHER -> IF file.shape # "schema" \/ Len(file.rows) > MaxServices
                  THEN [kind |-> "refused", code |-> "schema"]
                  ELSE [kind |-> "ok", document |-> [sweep |-> file.sweep, rows |-> file.rows,
                                                     unaccounted |-> file.unaccounted]]
=============================================================================

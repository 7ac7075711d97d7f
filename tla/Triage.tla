------------------------------- MODULE Triage -------------------------------
(***************************************************************************)
(* The triage console's actor: one process that opens a sweep per tick of  *)
(* its cadence, waits for the workers it asks, feeds what they found to    *)
(* the incident records, announces what changed and sleeps                 *)
(* (run/triage-actor.ts, run/triage-pass.ts, cli/commands/triage.ts).      *)
(*                                                                         *)
(* A sweep is a task of the collator (the parent), a task of every         *)
(* observer, and a second task of the collator (the collation).  What      *)
(* survives the actor is on disk: the tasks in the collator's run tree,    *)
(* the incident records, the actor's record and its cursor file.           *)
(*                                                                         *)
(* The console has one collator and one environment here, whose service is *)
(* the slice of the first observer; an assessment is a signal.             *)
(***************************************************************************)
EXTENDS Incident

CONSTANTS Seats,         \* the observers
          Watcher,       \* the one whose slice holds the service
          Subjects,      \* the subjects followed, in the order they are observed
          MaxSweeps,     \* bound: sweeps that may be opened
          MaxTrees,      \* bound: runs the collator's seat may go through
          RecycleAfter,  \* recycle_after_sweeps
          MaxSkips,      \* max_consecutive_skips
          Expiry,        \* sweepExpiryS, in ticks
          MaxRetry,      \* notify.max_retry_sweeps
          Tolerance,     \* passes without its console the actor survives
          Faults         \* bound: budgets, how often each fault may happen

AllSubjects ==
    {"service", "nothing", "skips", "saturated", "unreachable", "budget", "reporter"}

Budgets == [late : Nat, recycle : Nat, halt : Nat, save : Nat, lose : Nat, die : Nat,
            crash : Nat, remove : Nat]

ASSUME TriageConstants ==
    /\ Watcher \in Seats
    /\ Subjects \in Seq(AllSubjects)
    /\ {MaxSweeps, MaxTrees, Expiry, MaxRetry, Tolerance} \subseteq Nat \ {0}
    /\ RecycleAfter \in Nat /\ MaxSkips \in Nat
    /\ Faults \subseteq Budgets

VARIABLES
    sweep,      \* sweep[k]: the k-th sweep ever opened, its tasks and its age
    collator,   \* its run tree, whether it is up, whether the budget is halted
    disk,       \* the actor's record, its cursor file
    incident,   \* the incident records
    actor,      \* the actor's place and memory
    pass,       \* the pass under way
    faults

vars == <<sweep, collator, disk, incident, actor, pass, faults>>
world == <<sweep, collator>>

Followed == {Subjects[i] : i \in DOMAIN Subjects}
Position(s) == CHOOSE i \in DOMAIN Subjects : Subjects[i] = s
Sweeps == 1..MaxSweeps
MaxNumber == MaxSweeps + 1   \* bound: numbers consumed
Larger(a, b) == IF a >= b THEN a ELSE b
\* 0 of none.
Largest(S) == CHOOSE m \in S \cup {0} : \A n \in S : n <= m
Spend(f) == faults[f] > 0 /\ faults' = [faults EXCEPT ![f] = @ - 1]

Unopened == [num |-> 0, tree |-> 0, parent |-> "none", seats |-> [s \in Seats |-> "none"],
             collate |-> "none", refused |-> FALSE, age |-> 0, fed |-> 0]
NoRecord == [cursor |-> 0, skips |-> 0, stamp |-> 0]
FreshDelivery == [retry |-> 0, wait |-> 0, rejected |-> FALSE]
NoPass == [k |-> 0, kind |-> "none", cursor |-> 0, skips |-> 0, document |-> FALSE,
           artifacts |-> {}, notes |-> [s \in Followed |-> "none"], told |-> {}, lost |-> {}, delivery |-> FreshDelivery,
           memo |-> "none"]
Dead == [pc |-> "down", loop |-> 0, stamp |-> 0, cursor |-> 0, skips |-> 0,
         delivery |-> FreshDelivery, memo |-> "none", gone |-> 0]

Init ==
    /\ sweep = [k \in Sweeps |-> Unopened]
    /\ collator = [tree |-> 1, up |-> TRUE, halted |-> FALSE]
    /\ disk = [record |-> NoRecord, file |-> 0]
    /\ incident = [s \in Followed |-> FreshIncident]
    /\ actor = Dead
    /\ pass = NoPass
    /\ faults \in Faults

At(pc) == actor.pc = pc
Goto(pc) == actor' = [actor EXCEPT !.pc = pc]
\* A pass that throws is logged; what it held is forgotten, the loop goes on.
PassFails == Goto("watch") /\ pass' = NoPass

-----------------------------------------------------------------------------
(* What the run tree says.                                                 *)

\* highestSweepNumber: of the collator's present tree only.
InTree == {k \in Sweeps : sweep[k].parent # "none" /\ sweep[k].tree = collator.tree}
Latest == Largest(InTree)
Highest == IF Latest = 0 THEN 0 ELSE sweep[Latest].num

\* inFlightSweep: the latest sweep, while the collator owes its task or its
\* collation.
InFlight ==
    /\ Latest # 0
    /\ IF sweep[Latest].collate = "none"
       THEN sweep[Latest].parent \in {"open", "lost"}
       ELSE sweep[Latest].collate \in {"open", "lost"}

\* expiredSweep.  Mutant: a sweep in flight is never given up.
NeverExpired == FALSE
Expired == InFlight /\ sweep[Latest].age >= Expiry

Wrote(k) == {s \in Seats : sweep[k].seats[s] = "wrote"}

\* resumableSweep, and the artifacts that decide it.
\* Mutant: whether a collation was dispatched is not asked.
ResumesAgain ==
    Latest # 0 /\ sweep[Latest].parent = "settled" /\ Wrote(Latest) # {}
Resumes ==
    /\ Latest # 0 /\ sweep[Latest].parent = "settled"
    /\ sweep[Latest].collate = "none"
    /\ Wrote(Latest) # {}

\* The collator takes one task at a time; so does an observer.
CollatorBusy == \E k \in InTree : "open" \in {sweep[k].parent, sweep[k].collate}
SeatBusy(s) == \E k \in Sweeps : sweep[k].seats[s] = "running"

-----------------------------------------------------------------------------
(* The actor between passes.                                               *)

\* It starts from what its predecessor left: the larger of the two cursors.
Start ==
    /\ At("down")
    /\ actor' = [Dead EXCEPT !.pc = "top", !.loop = disk.record.cursor,
                    !.stamp = disk.record.stamp, !.skips = disk.record.skips,
                    !.cursor = Larger(disk.record.cursor, disk.file)]
    /\ UNCHANGED <<world, disk, incident, pass, faults>>

\* seatsDueForRecycle, of the collator's seat; never under a sweep in flight.
Due == IF collator.up
       THEN RecycleAfter # 0 /\ actor.loop - actor.stamp >= RecycleAfter
       ELSE TRUE
MayRecycle == ~ InFlight /\ Due /\ collator.tree < MaxTrees

Recycle ==
    /\ At("top") /\ MayRecycle
    /\ collator' = [tree |-> collator.tree + 1, up |-> TRUE, halted |-> FALSE]
    /\ actor' = [actor EXCEPT !.pc = "account", !.stamp = actor.loop]
    /\ disk' = IF actor.loop = 0 THEN disk
               ELSE [disk EXCEPT !.record = [cursor |-> actor.loop, skips |-> actor.skips,
                                             stamp |-> actor.loop],
                                 !.file = actor.loop]
    /\ UNCHANGED <<sweep, incident, pass, faults>>

\* The old run does not go down, or goes down and no new one comes up.
RecycleFails ==
    /\ At("top") /\ MayRecycle /\ Spend("recycle")
    /\ \/ collator.up /\ Goto("account") /\ UNCHANGED collator
       \/ collator' = [collator EXCEPT !.up = FALSE] /\ Goto("watch")
    /\ UNCHANGED <<sweep, disk, incident, pass>>

\* A console with a seat missing sweeps nothing.
Withheld ==
    /\ At("top") /\ ~ collator.up /\ ~ MayRecycle
    /\ Goto("watch")
    /\ UNCHANGED <<world, disk, incident, pass, faults>>

Boundary ==
    /\ At("top") /\ collator.up /\ ~ MayRecycle
    /\ Goto("account")
    /\ UNCHANGED <<world, disk, incident, pass, faults>>

\* accountConsoleSpend: a crossed ceiling halts the run, and stays crossed.
Account ==
    /\ At("account") /\ Goto("read")
    /\ \/ UNCHANGED <<collator, faults>>
       \/ Spend("halt") /\ ~ collator.halted /\ collator' = [collator EXCEPT !.halted = TRUE]
    /\ UNCHANGED <<sweep, disk, incident, pass>>

\* ConsoleWatch, then the cadence: a tick later everything is a tick older.
Watch ==
    /\ At("watch")
    /\ LET gone == IF collator.up THEN 0 ELSE actor.gone + 1 IN
       actor' = [actor EXCEPT !.gone = gone, !.pc = IF gone >= Tolerance THEN "gone" ELSE "sleep"]
    /\ UNCHANGED <<world, disk, incident, pass, faults>>

Sleep ==
    /\ At("sleep") /\ Goto("top")
    /\ sweep' = [k \in Sweeps |-> [sweep[k] EXCEPT !.age =
                    IF sweep[k].parent # "none" /\ @ < Expiry THEN @ + 1 ELSE @]]
    /\ incident' = [s \in Followed |-> Aged(incident[s])]
    /\ UNCHANGED <<collator, disk, pass, faults>>

-----------------------------------------------------------------------------
(* triagePass: skip, resume, or open the next sweep.                       *)

ResumedCursor == Larger(actor.cursor, Highest)

\* Counted as far as anything is compared with it.
MoreSkips == IF actor.skips <= MaxSkips THEN actor.skips + 1 ELSE actor.skips

Skip ==
    /\ At("read") /\ InFlight /\ ~ Expired
    /\ pass' = [NoPass EXCEPT !.kind = "skipped", !.cursor = ResumedCursor,
                              !.skips = MoreSkips, !.memo = actor.memo]
    /\ Goto("settle")
    /\ UNCHANGED <<world, disk, incident, faults>>

Opens == At("read") /\ (InFlight => Expired)

Resume ==
    /\ Opens /\ Resumes
    /\ pass' = [NoPass EXCEPT !.k = Latest, !.kind = "swept", !.cursor = ResumedCursor,
                              !.artifacts = Wrote(Latest)]
    /\ Goto("collate")
    /\ UNCHANGED <<world, disk, incident, faults>>

\* The number is consumed though nothing was dispatched.
OpenRefused ==
    /\ Opens /\ ~ Resumes /\ collator.halted /\ ResumedCursor < MaxNumber
    /\ pass' = [NoPass EXCEPT !.kind = "budget", !.cursor = ResumedCursor + 1,
                              !.skips = actor.skips, !.memo = actor.memo]
    /\ Goto("settle")
    /\ UNCHANGED <<world, disk, incident, faults>>

OpenThrows ==
    /\ Opens /\ ~ Resumes /\ ~ collator.halted
    /\ CollatorBusy \/ ~ collator.up
    /\ PassFails
    /\ UNCHANGED <<world, disk, incident, faults>>

OpenSweep ==
    /\ Opens /\ ~ Resumes /\ ~ collator.halted /\ ~ CollatorBusy /\ collator.up
    /\ \E k \in Sweeps :
          /\ sweep[k].parent = "none" /\ \A j \in 1..(k - 1) : sweep[j].parent # "none"
          /\ sweep' = [sweep EXCEPT ![k] = [Unopened EXCEPT !.parent = "open",
                          !.num = ResumedCursor + 1, !.tree = collator.tree]]
          /\ pass' = [NoPass EXCEPT !.k = k, !.kind = "swept", !.cursor = ResumedCursor + 1]
    /\ Goto("parent")
    /\ UNCHANGED <<collator, disk, incident, faults>>

This == sweep[pass.k]

\* The parent settled: its partition is dispatched, whole or not at all.
Partition ==
    /\ At("parent") /\ This.parent = "settled"
    /\ \/ /\ pass' = [pass EXCEPT !.kind = "refused"]
          /\ Goto("settle") /\ UNCHANGED sweep
       \/ IF collator.halted \/ \E s \in Seats : SeatBusy(s)
          THEN PassFails /\ UNCHANGED sweep
          ELSE /\ sweep' = [sweep EXCEPT ![pass.k].seats = [s \in Seats |-> "running"]]
               /\ Goto("observe") /\ UNCHANGED pass
    /\ UNCHANGED <<collator, disk, incident, faults>>

\* Every observer settled: join, and the zero-row is settled as it is.
Join ==
    /\ At("observe") /\ \A s \in Seats : This.seats[s] # "running"
    /\ pass' = [pass EXCEPT !.artifacts = Wrote(pass.k)]
    /\ Goto(IF Wrote(pass.k) = {} THEN "settle" ELSE "collate")
    /\ UNCHANGED <<world, disk, incident, faults>>

\* A collation that is refused is no document; one that is accepted is waited for.
Collate ==
    /\ At("collate")
    /\ IF collator.halted \/ CollatorBusy \/ ~ collator.up
       THEN /\ sweep' = [sweep EXCEPT ![pass.k].refused = TRUE]
            /\ Goto("settle")
       ELSE /\ sweep' = [sweep EXCEPT ![pass.k].collate = "open"]
            /\ Goto("collating")
    /\ UNCHANGED <<collator, disk, incident, pass, faults>>

Collated ==
    /\ At("collating") /\ This.collate = "settled"
    /\ \E d \in BOOLEAN : pass' = [pass EXCEPT !.document = d]
    /\ Goto("settle")
    /\ UNCHANGED <<world, disk, incident, faults>>

\* A wait whose deadline passes throws out of the pass.
TimesOut ==
    /\ \/ At("parent") /\ This.parent # "settled"
       \/ At("observe") /\ \E s \in Seats : This.seats[s] = "running"
       \/ At("collating") /\ This.collate # "settled"
    /\ IF This.parent = "lost" \/ This.collate = "lost" \/ ~ collator.up
       THEN UNCHANGED faults ELSE Spend("late")
    /\ PassFails
    /\ UNCHANGED <<world, disk, incident>>

-----------------------------------------------------------------------------
(* settle: every subject is observed once, then what changed is announced. *)

Assessed == pass.kind \in {"swept", "refused"}
Missing == IF pass.kind = "swept" THEN Seats \ pass.artifacts ELSE {}
Correlated == Cardinality(Missing) >= 2

\* saturationVerdict: what the probe answers, once for as long as sweeps stay
\* correlated.
ProbeResults ==
    IF ~ Correlated THEN {"none"}
    ELSE IF actor.memo # "none" THEN {actor.memo}
    ELSE {"timeout", "unreachable", "answers"}

\* sweepObservations: a saturated endpoint speaks of no service.
ServiceSignals(probe) ==
    IF ~ Assessed THEN {"none"}
    ELSE IF probe \in {"timeout", "unreachable"} THEN {"suppressed"}
    ELSE IF pass.document /\ Watcher \in pass.artifacts THEN {"issue", "clear", "unobserved"}
    ELSE {"unobserved"}

\* reporterUndelivered
ReporterUndelivered(d) == d.rejected \/ d.retry >= 2

Raised(bad) == IF bad THEN "issue" ELSE "clear"

\* SATURATION_PAIR: each answer is evidence of its own fault only, and nothing
\* but a sweep that every observer answered clears either.
Endpoint(probe, fault) ==
    IF probe = fault THEN "issue"
    ELSE IF pass.kind = "swept" /\ Missing = {} THEN "clear" ELSE "none"

\* consoleHealthObservations
HealthSignal(probe) ==
    [nothing |-> IF Assessed THEN Raised(~ pass.document) ELSE "none",
     skips |-> IF pass.skips >= Larger(1, IF MaxSkips = 0 THEN 0 ELSE MaxSkips - 1)
               THEN "issue" ELSE IF pass.skips = 0 THEN "clear" ELSE "none",
     saturated |-> Endpoint(probe, "timeout"),
     unreachable |-> Endpoint(probe, "unreachable"),
     budget |-> Raised(pass.kind = "budget"),
     reporter |-> Raised(ReporterUndelivered(actor.delivery))]

Signal(s, probe, found) == IF s = "service" THEN found ELSE HealthSignal(probe)[s]
Observed(signal, s) ==
    IF signal = "none" THEN Quiet(incident[s]) ELSE AdvanceIncident(incident[s], signal)

Settle ==
    /\ At("settle")
    /\ \E probe \in ProbeResults : \E found \in ServiceSignals(probe) :
        LET advance == [s \in Followed |-> Observed(Signal(s, probe, found), s)]
        IN \/ /\ incident' = [s \in Followed |-> advance[s].record]
              /\ pass' = [pass EXCEPT !.notes = [s \in Followed |-> advance[s].note],
                             !.memo = IF Assessed THEN probe ELSE @]
              /\ Goto("deliver") /\ UNCHANGED faults
           \* A record that cannot be saved throws out of the pass.
           \/ /\ Spend("save")
              /\ \E last \in Followed :
                    incident' = [s \in Followed |->
                       IF Position(s) < Position(last) THEN advance[s].record ELSE incident[s]]
              /\ PassFails
    /\ sweep' = IF Assessed THEN [sweep EXCEPT ![pass.k].fed = IF @ < 2 THEN @ + 1 ELSE @]
                ELSE sweep
    /\ UNCHANGED <<collator, disk>>

\* backoffSweeps: doubled with each failure, up to the limit.
Backoff(n) == Largest({wait \in 1..MaxRetry : n # 0 /\ wait <= 2 ^ (n - 1)})

\* recordOutcome, of an attempt that failed.
Failed(d, how) ==
    IF how = "rejected" THEN [retry |-> 0, wait |-> 0, rejected |-> TRUE]
    ELSE LET n == IF d.retry < MaxRetry + 2 THEN d.retry + 1 ELSE d.retry IN
         [d EXCEPT !.retry = n, !.wait = Backoff(n)]

Spoken(notes) == {s \in Followed : notes[s] # "none"}

\* orderForDelivery: the news that the reporter is back goes first; the rest as
\* observed.  The sets a delivery that goes so far has delivered.
Returned(notes, s) == s = "reporter" /\ notes[s] = "recovered"
OrderForDelivery(notes) ==
    {told \in SUBSET Spoken(notes) :
        \A s \in told, r \in Spoken(notes) \ told :
            /\ ~ Returned(notes, r)
            /\ Returned(notes, s) \/ Position(s) < Position(r)}

\* reportSweep: nothing is tried while a failure is being waited out, nor after
\* a failure in the same pass; what is not delivered is lost, and said to be.
\* Mutant: what was held back is not.
LostAttempted(notes, told) ==
    {s \in Spoken(notes) \ told : told \cup {s} \in OrderForDelivery(notes)}
Lost(notes, told) == Spoken(notes) \ told

Deliver ==
    /\ At("deliver")
    /\ LET d == actor.delivery
       IN IF d.wait > 0
          THEN pass' = [pass EXCEPT !.lost = Lost(pass.notes, {}),
                                    !.delivery = [d EXCEPT !.wait = @ - 1]]
          ELSE \E told \in OrderForDelivery(pass.notes), how \in {"rejected", "retryable"} :
               LET after == IF told = {} THEN d ELSE FreshDelivery IN
               pass' = [pass EXCEPT !.told = told, !.lost = Lost(pass.notes, told),
                           !.delivery = IF told = Spoken(pass.notes) THEN after
                                        ELSE Failed(after, how)]
    /\ Goto("fold")
    /\ UNCHANGED <<world, disk, incident, faults>>

\* What was lost is noted on its subject's record, in the order of delivery;
\* then the pass has an outcome, which the actor keeps before it saves it.
Noted(lost) ==
    [s \in Followed |-> IF s \in lost THEN WithUndelivered(incident[s], pass.notes[s])
                        ELSE incident[s]]
Fold ==
    /\ At("fold")
    /\ \/ /\ incident' = Noted(pass.lost)
          /\ actor' = [actor EXCEPT !.pc = "save", !.cursor = pass.cursor, !.loop = pass.cursor,
                           !.skips = pass.skips, !.delivery = pass.delivery, !.memo = pass.memo]
          /\ UNCHANGED <<pass, faults>>
       \/ /\ \E part \in SUBSET pass.lost :
                /\ part # pass.lost /\ pass.told \cup part \in OrderForDelivery(pass.notes)
                /\ incident' = Noted(part)
          /\ Spend("save") /\ PassFails
    /\ UNCHANGED <<world, disk>>

\* saveCursor: the record, then the cursor's own file.
SaveRecord ==
    /\ At("save")
    /\ disk' = [disk EXCEPT !.record = [cursor |-> actor.cursor, skips |-> actor.skips,
                                        stamp |-> actor.stamp]]
    /\ Goto("file")
    /\ UNCHANGED <<world, incident, pass, faults>>

SaveFile ==
    /\ At("file")
    /\ disk' = [disk EXCEPT !.file = actor.cursor]
    /\ Goto("watch") /\ pass' = NoPass
    /\ UNCHANGED <<world, incident, faults>>

-----------------------------------------------------------------------------
(* The workers, and what may go wrong.                                     *)

ParentSettles(k) ==
    /\ sweep[k].parent = "open" /\ sweep[k].tree = collator.tree /\ collator.up
    /\ sweep' = [sweep EXCEPT ![k].parent = "settled"]
    /\ UNCHANGED <<collator, disk, incident, actor, pass, faults>>

CollateSettles(k) ==
    /\ sweep[k].collate = "open" /\ sweep[k].tree = collator.tree /\ collator.up
    /\ sweep' = [sweep EXCEPT ![k].collate = "settled"]
    /\ UNCHANGED <<collator, disk, incident, actor, pass, faults>>

SeatSettles(k, s) ==
    /\ sweep[k].seats[s] = "running"
    /\ \E how \in {"wrote", "empty"} : sweep' = [sweep EXCEPT ![k].seats[s] = how]
    /\ UNCHANGED <<collator, disk, incident, actor, pass, faults>>

\* A task whose record never lands: its worker was restarted under it.
TaskLost(k) ==
    /\ "open" \in {sweep[k].parent, sweep[k].collate} /\ Spend("lose")
    /\ sweep' = [sweep EXCEPT ![k].parent = IF @ = "open" THEN "lost" ELSE @,
                              ![k].collate = IF @ = "open" THEN "lost" ELSE @]
    /\ UNCHANGED <<collator, disk, incident, actor, pass>>

CollatorDies ==
    /\ collator.up /\ Spend("die")
    /\ collator' = [collator EXCEPT !.up = FALSE]
    /\ UNCHANGED <<sweep, disk, incident, actor, pass>>

Crash ==
    /\ actor.pc \notin {"down", "gone"} /\ Spend("crash")
    /\ actor' = Dead /\ pass' = NoPass
    /\ UNCHANGED <<world, disk, incident>>

\* The console's script stops an actor and removes its record; the cursor's
\* file stays.
RecordRemoved ==
    /\ At("down") /\ disk.record # NoRecord /\ Spend("remove")
    /\ disk' = [disk EXCEPT !.record = NoRecord]
    /\ UNCHANGED <<world, incident, actor, pass>>

Act == \/ Start \/ Recycle \/ RecycleFails \/ Withheld \/ Boundary \/ Account
       \/ Watch \/ Sleep
       \/ Skip \/ Resume \/ OpenRefused \/ OpenThrows \/ OpenSweep \/ Partition
       \/ Join \/ Collate \/ Collated \/ TimesOut
       \/ Settle \/ Deliver \/ Fold \/ SaveRecord \/ SaveFile
Works(k) == ParentSettles(k) \/ CollateSettles(k) \/ \E s \in Seats : SeatSettles(k, s)

Next ==
    \/ Start \/ Recycle \/ RecycleFails \/ Withheld \/ Boundary \/ Account
    \/ Watch \/ Sleep
    \/ Skip \/ Resume \/ OpenRefused \/ OpenThrows \/ OpenSweep \/ Partition
    \/ Join \/ Collate \/ Collated \/ TimesOut
    \/ Settle \/ Deliver \/ Fold \/ SaveRecord \/ SaveFile
    \/ \E k \in Sweeps : ParentSettles(k) \/ CollateSettles(k) \/ TaskLost(k)
    \/ \E k \in Sweeps, s \in Seats : SeatSettles(k, s)
    \/ CollatorDies \/ Crash \/ RecordRemoved

Spec == Init /\ [][Next]_vars

\* The actor's loop runs while its process does, whoever starts it again, and a
\* worker's task ends by its own deadline.
FairSpec ==
    /\ Spec /\ WF_vars(Act)
    /\ \A k \in Sweeps : WF_vars(Works(k))

-----------------------------------------------------------------------------
(* Properties.                                                             *)

\* The incident machine counts sweeps: one sweep's assessment never reaches it
\* twice, whatever was resumed, given up or started again.  (A collation that
\* was refused leaves what reads as a sweep never collated: AssessedOnce.)
SweepOnce == \A k \in Sweeps : ~ sweep[k].refused => sweep[k].fed <= 1

\* "artifacts present AND no `-collate` task is a PROOF that ... the incident
\* machine has never seen a document from it": no sweep is assessed again.
AssessedOnce == \A k \in Sweeps : sweep[k].fed <= 1

\* What a pass announces it delivered, or it is noted on the subject's record:
\* a pass that got as far as saving its cursor lost nothing silently.
ToldOrNoted ==
    At("save") => \A s \in Spoken(pass.notes) :
        \/ s \in pass.told
        \/ incident[s].undelivered # <<>> /\ Last(incident[s].undelivered) = pass.notes[s]

\* "No sweep ever reuses an id".
IdsFresh ==
    \A j, k \in Sweeps : sweep[j].num = sweep[k].num /\ sweep[j].num # 0 => j = k

\* A sweep whose task or collation is never recorded does not wedge the console:
\* another is opened, unless the budget is halted or the console abandoned.
GoesOn ==
    \A k \in 1..(MaxSweeps - 1) :
        sweep[k].parent # "none" ~> sweep[k + 1].parent # "none" \/ collator.halted
                                      \/ At("gone")
=============================================================================

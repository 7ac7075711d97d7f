------------------------------- MODULE Relay -------------------------------
(***************************************************************************)
(* The console relay: the host actor that turns a collator's dispatch      *)
(* request into one review per lens, and their reports into one collation. *)
(* `relayPass` scans the inbox of the collator's run; `relayFanOut` issues  *)
(* the children, joins on their task records, harvests, publishes the      *)
(* replies, declares them in /policy/replies and dispatches the collation; *)
(* `recordDispatch` journals the fan-out once it happened.                 *)
(*                                                                         *)
(* The workers are reduced to what their epoch fences answer (module       *)
(* EpochFence), the request to the lenses it names and its text, a report  *)
(* to whether it could be harvested.  The actor keeps nothing on disk but  *)
(* the journal: a pass that throws or a crash forgets everything else.     *)
(***************************************************************************)
EXTENDS Naturals, FiniteSets

CONSTANTS Lenses,     \* the reviewers of the console's roster
          Collator,   \* the worker that asks and collates
          Parents,    \* tasks the operator gives the collator
          Texts,      \* briefs a request may carry
          Contents,   \* requests the collator may write
          Actors,     \* relay processes
          First,      \* the one that runs from the start
          None,       \* nothing there
          Tolerance,  \* passes without a collator an actor survives
          Faults      \* bound: budgets, how often each fault and a turn may happen

ASSUME ConstantsOK ==
    /\ Collator \notin Lenses /\ None \notin Lenses \cup {Collator}
    /\ None \notin Contents \cup Parents \cup Actors
    /\ None \notin Parents \X (Lenses \cup {Collator, None})
    /\ Contents \subseteq [names: (SUBSET Lenses) \ {{}}, text: Texts]
    /\ First \in Actors
    /\ Tolerance \in Nat \ {0}

Workers == Lenses \cup {Collator}

VARIABLES
    request,   \* request[p]: the dispatch request in the collator's outbox of p
    inbox,     \* parents dispatched to the collator
    journal,   \* journal[p]: the relay journal entry of p
    actor,     \* the memory of each relay process
    mail,      \* dispatches on their way to a worker
    alive,     \* workers whose supervisor runs
    live,      \* live[w]: the task of w's live epoch
    accepted,  \* attempts some worker's fence has given an epoch to
    done,      \* task records, with their verdict
    replies,   \* reply files under the collator's /replies
    policy,    \* /policy/replies: the task and the replies declared for it
    faults     \* faults and turns left

vars == <<request, inbox, journal, actor, mail, alive, live, accepted, done,
          replies, policy, faults>>
workers == <<alive, live, accepted, done>>
host == <<journal, replies, policy>>

-----------------------------------------------------------------------------
(* Task ids, attempt ids and what a fence answers.                         *)

\* Mutant: a child id that carries the request's text.
ChildTaskOfText(p, l, c) == <<p, l, c.text>>
ChildTask(p, l, c) == <<p, l>>
CollationTask(p) == <<p, Collator>>
Turn(p) == <<p, None>>
WorkerOf(t) == IF t[2] = None THEN Collator ELSE t[2]

\* relayAttemptId: a dispatch is known by its task and its brief.
\* Mutant: by its task alone.
AttemptOfTask(t, b) == <<t>>
Attempt(t, b) == <<t, b>>

Completed(t) == \E d \in done : d.task = t
Knows(t, b) == \E a \in accepted : Attempt(a.task, a.brief) = Attempt(t, b)
Starts(t, b) == ~ Knows(t, b) /\ live[WorkerOf(t)] = None /\ ~ Completed(t)
\* Mutant: every dispatch is an attempt of its own.
AcceptsFresh(t, b) == Starts(t, b)
Accepts(t, b) == Knows(t, b) \/ Starts(t, b)

\* The state of w's fence after it handled the dispatch of t with brief b.
Handled(t, b) ==
    /\ live' = IF Starts(t, b) THEN [live EXCEPT ![WorkerOf(t)] = t] ELSE live
    /\ accepted' = IF Starts(t, b) THEN accepted \cup {[task |-> t, brief |-> b]} ELSE accepted

-----------------------------------------------------------------------------
(* The memory of a relay process.                                          *)

Quiet == [w \in Workers |-> "no"]
Down == [pc |-> "down", todo |-> {}, parent |-> None, content |-> None,
         sent |-> Quiet, reply |-> {}, gone |-> 0]
Idle == [Down EXCEPT !.pc = "idle"]

Named(x) == actor[x].content.names
Child(x, l) == ChildTask(actor[x].parent, l, actor[x].content)
Landed(x) == {l \in Lenses : actor[x].sent[l] = "landed"}
Reports(x) == {Child(x, l) : l \in actor[x].reply}

\* What x sends to w: a child with its lens's brief, or the collation with a
\* brief that names the report of every lens that has one.
Dispatched(x, w) ==
    [task  |-> IF w = Collator THEN CollationTask(actor[x].parent) ELSE Child(x, w),
     brief |-> IF w = Collator THEN Reports(x) ELSE actor[x].content.text,
     from  |-> x]

\* The actor leaves the task it works on and goes on with its pass.
Onward(a) == [a EXCEPT !.pc = "scan", !.parent = None, !.content = None,
                      !.sent = Quiet, !.reply = {}]

Answered(m, how) ==
    actor' = IF m.from = None THEN actor
             ELSE [actor EXCEPT ![m.from].sent[WorkerOf(m.task)] = how]

Spend(f) == faults[f] > 0 /\ faults' = [faults EXCEPT ![f] = @ - 1]

Init ==
    /\ request = [p \in Parents |-> None]
    /\ inbox = {}
    /\ journal = [p \in Parents |-> None]
    /\ actor = [x \in Actors |-> IF x = First THEN Idle ELSE Down]
    /\ mail = {}
    /\ alive = Workers
    /\ live = [w \in Workers |-> None]
    /\ accepted = {}
    /\ done = {}
    /\ replies = {}
    /\ policy = [task |-> None, set |-> {}]
    /\ faults \in Faults

-----------------------------------------------------------------------------
(* A pass: the inbox, the request, the journal.                            *)

BeginPass(x) ==
    /\ actor[x].pc = "idle"
    /\ actor' = [actor EXCEPT ![x].pc = "scan", ![x].todo = inbox]
    /\ UNCHANGED <<request, inbox, mail, workers, host, faults>>

\* classifyRequest: a journalled fan-out is done, whatever its request says now.
Classified(p) == journal[p] # None

Skip(x, p) ==
    /\ actor[x].pc = "scan" /\ p \in actor[x].todo
    /\ request[p] = None \/ Classified(p)
    /\ actor' = [actor EXCEPT ![x].todo = @ \ {p}]
    /\ UNCHANGED <<request, inbox, mail, workers, host, faults>>

Take(x, p) ==
    /\ actor[x].pc = "scan" /\ p \in actor[x].todo
    /\ request[p] # None /\ ~ Classified(p)
    /\ actor' = [actor EXCEPT ![x].todo = @ \ {p}, ![x].pc = "route",
                              ![x].parent = p, ![x].content = request[p]]
    /\ UNCHANGED <<request, inbox, mail, workers, host, faults>>

\* A lens without a live run, or with two: nothing is dispatched.
Decline(x) ==
    /\ actor[x].pc = "route"
    /\ \/ ~ Named(x) \subseteq alive /\ UNCHANGED faults
       \/ Spend("ambiguous")
    /\ actor' = [actor EXCEPT ![x] = Onward(@)]
    /\ UNCHANGED <<request, inbox, mail, workers, host>>

\* Every child is dispatched at once.
Issue(x) ==
    /\ actor[x].pc = "route" /\ Named(x) \subseteq alive
    /\ mail' = mail \cup {Dispatched(x, l) : l \in Named(x)}
    /\ actor' = [actor EXCEPT ![x].pc = "issue",
                   ![x].sent = [w \in Workers |->
                                  IF w \in Named(x) THEN "sent" ELSE "no"]]
    /\ UNCHANGED <<request, inbox, workers, host, faults>>

Issued(x) == actor[x].pc = "issue" /\ \A l \in Lenses : actor[x].sent[l] # "sent"

\* Not one dispatch landed: nothing is journalled and a later pass retries.
NoneLanded(x) ==
    /\ Issued(x) /\ Landed(x) = {}
    /\ actor' = [actor EXCEPT ![x] = Onward(@)]
    /\ UNCHANGED <<request, inbox, mail, workers, host, faults>>

\* The join and the harvest.  The join gives up after its deadline, which is
\* longer than the child's own: only a dead worker leaves no record by then.
\* A report may be unreadable.
Harvest(x) ==
    /\ Issued(x) /\ Landed(x) # {}
    /\ \A l \in Landed(x) : Completed(Child(x, l)) \/ l \notin alive
    /\ LET good == {l \in Landed(x) : [task |-> Child(x, l), ok |-> TRUE] \in done} IN
       \E read \in SUBSET good :
          /\ IF read = good THEN UNCHANGED faults ELSE Spend("unread")
          /\ actor' = [actor EXCEPT ![x].reply = read,
                         ![x].pc = IF read = {} THEN "record" ELSE "publish"]
    /\ UNCHANGED <<request, inbox, mail, workers, host>>

-----------------------------------------------------------------------------
(* The replies, the collation and the journal.                             *)

Publish(x) ==
    /\ actor[x].pc = "publish"
    /\ replies' = replies \cup Reports(x)
    /\ actor' = [actor EXCEPT ![x].pc = "declare"]
    /\ UNCHANGED <<request, inbox, mail, workers, journal, policy, faults>>

\* A reply that cannot be written throws out of the whole pass.
PublishFails(x) ==
    /\ actor[x].pc = "publish"
    /\ Spend("publish")
    /\ actor' = [actor EXCEPT ![x] = [Idle EXCEPT !.gone = actor[x].gone]]
    /\ UNCHANGED <<request, inbox, mail, workers, host>>

Declare(x) ==
    /\ actor[x].pc = "declare"
    /\ policy' = [task |-> CollationTask(actor[x].parent), set |-> Reports(x)]
    /\ actor' = [actor EXCEPT ![x].pc = "collate"]
    /\ UNCHANGED <<request, inbox, mail, workers, journal, replies, faults>>

\* Mutant: the collation is dispatched before its replies are published.
CollateEarly(x) == actor[x].pc = "publish"
CollateReady(x) == actor[x].pc = "collate"

Collate(x) ==
    /\ CollateReady(x)
    /\ mail' = mail \cup {Dispatched(x, Collator)}
    /\ actor' = [actor EXCEPT ![x].pc = "collating", ![x].sent[Collator] = "sent"]
    /\ UNCHANGED <<request, inbox, workers, host, faults>>

\* Collated, not collated or refused, the children happened: recordDispatch.
Record(x) ==
    /\ \/ actor[x].pc = "record"
       \/ actor[x].pc = "collating" /\ actor[x].sent[Collator] # "sent"
    /\ journal' = [journal EXCEPT ![actor[x].parent] =
                     [digest |-> actor[x].content,
                      children |-> {Child(x, l) : l \in Landed(x)}]]
    /\ actor' = [actor EXCEPT ![x] = Onward(@)]
    /\ UNCHANGED <<request, inbox, mail, workers, replies, policy, faults>>

\* The end of a pass that threw nothing: ConsoleWatch looks for the collator.
EndPass(x) ==
    /\ actor[x].pc = "scan" /\ actor[x].todo = {}
    /\ LET gone == IF Collator \in alive THEN 0 ELSE actor[x].gone + 1 IN
       actor' = [actor EXCEPT ![x].gone = gone,
                              ![x].pc = IF gone = Tolerance THEN "over" ELSE "idle"]
    /\ UNCHANGED <<request, inbox, mail, workers, host, faults>>

Crash(x) ==
    /\ actor[x].pc \notin {"down", "over"}
    /\ Spend("crash")
    /\ actor' = [actor EXCEPT ![x] = Down]
    /\ mail' = {[m EXCEPT !.from = IF @ = x THEN None ELSE @] : m \in mail}
    /\ UNCHANGED <<request, inbox, workers, host>>

\* A relay is started: again, or beside one that already runs.
StartActor(x) ==
    /\ actor[x].pc = "down"
    /\ Spend("start")
    /\ actor' = [actor EXCEPT ![x] = Idle]
    /\ UNCHANGED <<request, inbox, mail, workers, host>>

-----------------------------------------------------------------------------
(* The dispatches in flight.                                               *)

\* The worker's fence handles the dispatch and answers who still waits.
Deliver(m) ==
    /\ m \in mail /\ WorkerOf(m.task) \in alive
    /\ Handled(m.task, m.brief)
    /\ Answered(m, IF Accepts(m.task, m.brief) THEN "landed" ELSE "failed")
    /\ mail' = mail \ {m}
    /\ UNCHANGED <<request, inbox, alive, done, host, faults>>

\* No supervisor to talk to.
Unreachable(m) ==
    /\ m \in mail /\ WorkerOf(m.task) \notin alive
    /\ Answered(m, "failed")
    /\ mail' = mail \ {m}
    /\ UNCHANGED <<request, inbox, workers, host, faults>>

\* The answer never comes, or the task was staged and its turn not triggered:
\* the dispatch counts as failed and may still be handled.
Lost(m) ==
    /\ m \in mail /\ m.from # None
    /\ Spend("lost")
    /\ Answered(m, "failed")
    /\ mail' = (mail \ {m}) \cup {[m EXCEPT !.from = None]}
    /\ UNCHANGED <<request, inbox, workers, host>>

-----------------------------------------------------------------------------
(* The workers.                                                            *)

\* The operator gives the collator a task.
OperatorTurn(p) ==
    /\ p \notin inbox /\ Collator \in alive /\ live[Collator] = None
    /\ Spend("turn")
    /\ inbox' = inbox \cup {p}
    /\ Handled(Turn(p), None)
    /\ UNCHANGED <<request, journal, actor, mail, alive, done, replies, policy>>

\* The collator asks for a fan-out in its turn; its outbox stays writable.
WriteRequest(p, c) ==
    /\ Collator \in alive
    /\ \/ request[p] = None /\ live[Collator] = Turn(p) /\ UNCHANGED faults
       \/ request[p] \notin {None, c} /\ Spend("rewrite")
    /\ request' = [request EXCEPT ![p] = c]
    /\ UNCHANGED <<inbox, actor, mail, workers, host>>

Finish(w) ==
    /\ w \in alive /\ live[w] # None
    /\ \E ok \in BOOLEAN :
          /\ IF ok THEN UNCHANGED faults ELSE Spend("fail")
          /\ done' = done \cup {[task |-> live[w], ok |-> ok]}
    /\ live' = [live EXCEPT ![w] = None]
    /\ UNCHANGED <<request, inbox, actor, mail, alive, accepted, host>>

\* A supervisor dies with its live epoch and leaves no record of it.
Dies(w) ==
    /\ w \in alive
    /\ Spend("death")
    /\ alive' = alive \ {w}
    /\ live' = [live EXCEPT ![w] = None]
    /\ UNCHANGED <<request, inbox, actor, mail, accepted, done, host>>

-----------------------------------------------------------------------------
Pass(x) ==
    \/ BeginPass(x)
    \/ \E p \in Parents : Skip(x, p) \/ Take(x, p)
    \/ Decline(x) \/ Issue(x) \/ NoneLanded(x) \/ Harvest(x)
    \/ Publish(x) \/ Declare(x) \/ Collate(x) \/ Record(x) \/ EndPass(x)

Mailing == \E m \in mail : Deliver(m) \/ Unreachable(m)

Next ==
    \/ \E x \in Actors : Pass(x) \/ PublishFails(x) \/ Crash(x) \/ StartActor(x)
    \/ Mailing
    \/ \E m \in mail : Lost(m)
    \/ \E p \in Parents : \/ OperatorTurn(p)
                          \/ \E c \in Contents : WriteRequest(p, c)
    \/ \E w \in Workers : Finish(w) \/ Dies(w)

Spec == Init /\ [][Next]_vars

\* The actor's loop runs, sockets answer or fail, and every accepted task is
\* recorded (AcceptedRecorded of module Supervisor).
Fairness ==
    /\ \A x \in Actors : WF_vars(Pass(x))
    /\ WF_vars(Mailing)
    /\ \A w \in Workers : WF_vars(Finish(w))

FairSpec == Spec /\ Fairness

-----------------------------------------------------------------------------
(* Correctness.                                                            *)

Resting == {"down", "idle", "scan", "over"}
Working == {"route", "issue", "publish", "declare", "collate", "collating", "record"}
Tasks == Parents \X (Workers \cup {None})
Briefs == Texts \cup (SUBSET Tasks) \cup {None}
Entry == [digest: Contents, children: SUBSET Tasks]
Memory == [pc: Resting \cup Working, todo: SUBSET Parents,
           parent: Parents \cup {None}, content: Contents \cup {None},
           sent: [Workers -> {"no", "sent", "landed", "failed"}],
           reply: SUBSET Lenses, gone: 0 .. Tolerance]

\* The state keeps its shape; an actor works on a request or on none, and it
\* waits for exactly the dispatches it has in the mail.
TypeOK ==
    /\ request \in [Parents -> Contents \cup {None}]
    /\ inbox \subseteq Parents
    /\ journal \in [Parents -> Entry \cup {None}]
    /\ actor \in [Actors -> Memory]
    /\ \A x \in Actors :
          /\ actor[x].pc \in Resting <=> actor[x].parent = None
          /\ actor[x].pc \in Resting <=> actor[x].content = None
          /\ actor[x].gone = Tolerance <=> actor[x].pc = "over"
    /\ mail \subseteq [task: Parents \X Workers, brief: Briefs, from: Actors \cup {None}]
    /\ \A x \in Actors, w \in Workers :
          actor[x].sent[w] = "sent" <=>
             \E m \in mail : m.from = x /\ WorkerOf(m.task) = w
    /\ alive \subseteq Workers
    /\ live \in [Workers -> Tasks \cup {None}]
    /\ accepted \subseteq [task: Tasks, brief: Briefs]
    /\ done \subseteq [task: Tasks, ok: BOOLEAN]
    /\ replies \subseteq Tasks

\* A lens reviews a parent at most once: whatever crashes, is rewritten, is
\* lost or runs twice, the second dispatch replays the first or is refused.
ReviewedOnce ==
    \A a, b \in accepted :
        a.task[1] = b.task[1] /\ a.task[2] = b.task[2] /\ a.task[2] \in Lenses => a = b

\* The journal says what was dispatched: each child it names ran under the
\* request whose digest it holds, and not under an earlier or later wording.
JournalTruthful ==
    \A p \in Parents : journal[p] # None =>
        \A t \in journal[p].children :
            [task |-> t, brief |-> journal[p].digest.text] \in accepted

\* A journalled fan-out is over: whatever the outbox says from then on, no
\* relay, restarted or second, takes the request up again.
TakenUp(p) == \E x \in Actors : actor[x].parent = p
JournalFinal ==
    [][\A p \in Parents : journal[p] # None /\ ~ TakenUp(p) => ~ TakenUp(p)']_vars

\* A collator that was told to read a report finds it under /replies.
ReadsPublished ==
    \A a \in accepted : a.task[2] = Collator => a.brief \subseteq replies

\* A request is acted on, once its console is whole: its fan-out is journalled
\* unless no relay runs, a worker died, or a child of it already ran under
\* another wording.
OtherWording(p) ==
    \E a \in accepted : /\ a.task[1] = p /\ a.task[2] \in Lenses
                        /\ a.brief # request[p].text
NoRelay == \A x \in Actors : actor[x].pc \in {"down", "over"}
FanOutHappens ==
    \A p \in Parents : request[p] # None ~>
        journal[p] # None \/ NoRelay \/ alive # Workers \/ OtherWording(p)

-----------------------------------------------------------------------------
(* The inductive invariant behind the three safety properties.             *)

\* A fence that gave a task an epoch has it live, recorded, or is gone.
NeverForgotten ==
    \A a \in accepted :
        Completed(a.task) \/ live[WorkerOf(a.task)] = a.task \/ WorkerOf(a.task) \notin alive
OneAttempt == \A a, b \in accepted : a.task = b.task => a = b

\* Mail is what its sender would still send.
MailOwn == \A m \in mail : m.from # None => m = Dispatched(m.from, WorkerOf(m.task))
SentWhen ==
    \A x \in Actors :
        /\ \A l \in Lenses : actor[x].sent[l] = "sent" => actor[x].pc = "issue"
        /\ \A l \in Lenses : actor[x].sent[l] = "landed" => actor[x].pc \in Working
        /\ actor[x].sent[Collator] = "sent" => actor[x].pc = "collating"

\* What landed was accepted as it was sent.
LandedRan ==
    \A x \in Actors, l \in Lenses : actor[x].sent[l] = "landed" =>
        [task |-> Child(x, l), brief |-> actor[x].content.text] \in accepted

\* No collation, sent or about to be, is ahead of its replies.
PublishedFirst ==
    /\ \A x \in Actors : actor[x].pc \in {"declare", "collate", "collating"} =>
          Reports(x) \subseteq replies
    /\ \A m \in mail : m.task[2] = Collator => m.brief \subseteq replies

IInv ==
    /\ TypeOK /\ NeverForgotten /\ OneAttempt /\ MailOwn /\ SentWhen
    /\ LandedRan /\ JournalTruthful /\ PublishedFirst /\ ReadsPublished

=============================================================================

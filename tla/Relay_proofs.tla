---------------------------- MODULE Relay_proofs ----------------------------
(***************************************************************************)
(* Machine-checked proofs about Relay: for any number of lenses, parents,  *)
(* requests and relay processes, and any faults, a lens reviews a parent   *)
(* at most once, the journal tells what ran, and a collation finds the     *)
(* reports its brief names.                                                *)
(***************************************************************************)
EXTENDS Relay, TLAPS

USE ConstantsOK

-----------------------------------------------------------------------------
(* Vocabulary of the proof: TypeOK, actor by actor.                        *)

ActorOK(a) ==
    /\ a \in Memory
    /\ a.pc \in Resting <=> a.parent = None
    /\ a.pc \in Resting <=> a.content = None
    /\ a.gone = Tolerance <=> a.pc = "over"

Awaited(x) ==
    \A w \in Workers :
        actor[x].sent[w] = "sent" <=> \E m \in mail : m.from = x /\ WorkerOf(m.task) = w

Message == [task: Parents \X Workers, brief: Briefs, from: Actors \cup {None}]

\* The part of TypeOK that no relay process touches but through the fences.
FencesOK ==
    /\ alive \subseteq Workers
    /\ live \in [Workers -> Tasks \cup {None}]
    /\ accepted \subseteq [task: Tasks, brief: Briefs]
    /\ done \subseteq [task: Tasks, ok: BOOLEAN]

HostOK ==
    /\ request \in [Parents -> Contents \cup {None}]
    /\ inbox \subseteq Parents
    /\ journal \in [Parents -> Entry \cup {None}]
    /\ replies \subseteq Tasks

\* TypeOK is these parts.
LEMMA TypeParts ==
  TypeOK <=> /\ FencesOK /\ HostOK /\ mail \subseteq Message
             /\ actor \in [Actors -> Memory]
             /\ \A x \in Actors : ActorOK(actor[x]) /\ Awaited(x)
  BY DEF TypeOK, FencesOK, HostOK, Message, ActorOK, Awaited

\* Tasks, and the worker each is for.
LEMMA TaskFacts ==
  /\ Collator \in Workers /\ None \notin Workers /\ None \notin Tasks
  /\ \A p \in Parents, l \in Lenses : \A c : ChildTask(p, l, c) \in Tasks
        /\ WorkerOf(ChildTask(p, l, c)) = l /\ ChildTask(p, l, c)[2] = l
        /\ ChildTask(p, l, c) \in Parents \X Workers
  /\ \A p \in Parents : CollationTask(p) \in Tasks
        /\ WorkerOf(CollationTask(p)) = Collator /\ CollationTask(p)[2] = Collator
        /\ CollationTask(p) \in Parents \X Workers
  /\ \A p \in Parents : Turn(p) \in Tasks
        /\ WorkerOf(Turn(p)) = Collator /\ Turn(p)[2] = None
  /\ \A t \in Tasks : WorkerOf(t) \in Workers
  /\ Parents \X Workers \subseteq Tasks
  <1>1. Collator \in Workers /\ None \notin Workers
    BY DEF Workers
  <1>2. None \notin Tasks
    BY DEF Tasks, Workers
  <1>3. \A t \in Tasks : WorkerOf(t) \in Workers
    BY <1>1 DEF Tasks, WorkerOf
  <1>4. \A p \in Parents, l \in Lenses : \A c : ChildTask(p, l, c) \in Tasks
          /\ WorkerOf(ChildTask(p, l, c)) = l /\ ChildTask(p, l, c)[2] = l
          /\ ChildTask(p, l, c) \in Parents \X Workers
    BY <1>1 DEF ChildTask, WorkerOf, Tasks, Workers
  <1>5. \A p \in Parents : CollationTask(p) \in Tasks
          /\ WorkerOf(CollationTask(p)) = Collator /\ CollationTask(p)[2] = Collator
          /\ CollationTask(p) \in Parents \X Workers
    BY <1>1 DEF CollationTask, WorkerOf, Tasks, Workers
  <1>6. \A p \in Parents : Turn(p) \in Tasks
          /\ WorkerOf(Turn(p)) = Collator /\ Turn(p)[2] = None
    BY <1>1 DEF Turn, WorkerOf, Tasks
  <1>7. Parents \X Workers \subseteq Tasks
    BY DEF Tasks
  <1> QED
    BY <1>1, <1>2, <1>3, <1>4, <1>5, <1>6, <1>7

-----------------------------------------------------------------------------
(* The fences.                                                             *)

\* A dispatch handled by a live worker: the fences keep their memory, and an
\* accepting answer means that this very dispatch was given an epoch.
LEMMA HandledOK ==
  ASSUME FencesOK, NeverForgotten, OneAttempt, ReadsPublished,
         NEW t \in Tasks, NEW b \in Briefs, WorkerOf(t) \in alive,
         t[2] = Collator => b \subseteq replies,
         Handled(t, b), UNCHANGED <<alive, done, replies>>
  PROVE  /\ FencesOK' /\ NeverForgotten' /\ OneAttempt' /\ ReadsPublished'
         /\ accepted \subseteq accepted'
         /\ Accepts(t, b) => [task |-> t, brief |-> b] \in accepted'
  <1>1. CASE ~ Starts(t, b)
    <2>1. live' = live /\ accepted' = accepted
      BY <1>1 DEF Handled
    <2>2. Knows(t, b) => [task |-> t, brief |-> b] \in accepted
      BY DEF Knows, Attempt, FencesOK
    <2> QED
      BY <1>1, <2>1, <2>2
      DEF FencesOK, NeverForgotten, OneAttempt, ReadsPublished, Completed, Accepts
  <1>2. CASE Starts(t, b)
    <2>1. /\ live' = [live EXCEPT ![WorkerOf(t)] = t]
          /\ accepted' = accepted \cup {[task |-> t, brief |-> b]}
      BY <1>2 DEF Handled
    <2>2. live[WorkerOf(t)] = None /\ ~ Completed(t)
      BY <1>2 DEF Starts
    <2>3. WorkerOf(t) \in Workers
      BY TaskFacts
    <2>4. FencesOK'
      BY <2>1, <2>3 DEF FencesOK
    <2>5. \A a \in accepted : a.task # t
      BY <2>2, TaskFacts DEF NeverForgotten
    <2>6. OneAttempt'
      BY <2>1, <2>5 DEF OneAttempt
    <2>7. NeverForgotten'
      <3> SUFFICES ASSUME NEW a \in accepted'
                   PROVE  \/ Completed(a.task)
                          \/ live'[WorkerOf(a.task)] = a.task
                          \/ WorkerOf(a.task) \notin alive
        BY DEF NeverForgotten, Completed
      <3>1. CASE a \in accepted
        <4>1. a.task \in Tasks
          BY <3>1 DEF FencesOK
        <4>2. WorkerOf(a.task) # WorkerOf(t) => live'[WorkerOf(a.task)] = live[WorkerOf(a.task)]
          BY <2>1, <2>3, <4>1, TaskFacts DEF FencesOK
        <4>3. None # a.task
          BY <4>1, TaskFacts
        <4> QED
          BY <3>1, <4>2, <4>3, <2>2 DEF NeverForgotten
      <3>2. CASE a = [task |-> t, brief |-> b]
        BY <3>2, <2>1, <2>3 DEF FencesOK
      <3> QED
        BY <3>1, <3>2, <2>1
    <2>8. ReadsPublished'
      BY <2>1 DEF ReadsPublished
    <2> QED
      BY <2>1, <2>4, <2>6, <2>7, <2>8
  <1> QED
    BY <1>1, <1>2

-----------------------------------------------------------------------------
(* The relay processes, one at a time.                                     *)

\* What IInv says of process x.
ProcessOK(x) ==
    /\ ActorOK(actor[x])
    /\ Awaited(x)
    /\ \A l \in Lenses : actor[x].sent[l] = "sent" => actor[x].pc = "issue"
    /\ \A l \in Lenses : actor[x].sent[l] = "landed" => actor[x].pc \in Working
    /\ actor[x].sent[Collator] = "sent" => actor[x].pc = "collating"
    /\ \A l \in Lenses : actor[x].sent[l] = "landed" =>
          [task |-> Child(x, l), brief |-> actor[x].content.text] \in accepted
    /\ actor[x].pc \in {"declare", "collate", "collating"} => Reports(x) \subseteq replies

\* What IInv says of a message.
MessageOK(m) ==
    /\ m.from # None => m = Dispatched(m.from, WorkerOf(m.task))
    /\ m.task[2] = Collator => m.brief \subseteq replies

PostOK == mail \subseteq Message /\ \A m \in mail : MessageOK(m)

\* IInv, part by part.
PartsOK ==
    /\ FencesOK /\ HostOK /\ PostOK
    /\ actor \in [Actors -> Memory] /\ \A x \in Actors : ProcessOK(x)
    /\ NeverForgotten /\ OneAttempt /\ JournalTruthful /\ ReadsPublished

LEMMA Parts == PartsOK => IInv
  <1>1. (\A x \in Actors : ProcessOK(x))
        => /\ SentWhen /\ LandedRan
           /\ \A x \in Actors : ActorOK(actor[x]) /\ Awaited(x)
           /\ \A x \in Actors : actor[x].pc \in {"declare", "collate", "collating"} =>
                 Reports(x) \subseteq replies
    BY DEF SentWhen, LandedRan, ProcessOK
  <1>2. (\A m \in mail : MessageOK(m))
        => MailOwn /\ \A m \in mail : m.task[2] = Collator => m.brief \subseteq replies
    BY DEF MailOwn, MessageOK
  <1> QED
    BY <1>1, <1>2, TypeParts DEF PartsOK, IInv, PublishedFirst, PostOK

\* What a process does not do leaves what another one relies on.
LEMMA OthersKeep ==
  ASSUME NEW y \in Actors, ProcessOK(y), actor'[y] = actor[y],
         \A m : m.from = y => (m \in mail' <=> m \in mail),
         accepted \subseteq accepted', replies \subseteq replies'
  PROVE  ProcessOK(y)'
  <1>1. Awaited(y)'
    BY DEF ProcessOK, Awaited
  <1>2. Reports(y)' = Reports(y) /\ \A l : Child(y, l)' = Child(y, l)
    BY DEF Reports, Child
  <1> QED
    BY <1>1, <1>2 DEF ProcessOK

LEMMA MessageKeep ==
  ASSUME NEW m, MessageOK(m), m.from # None => actor'[m.from] = actor[m.from],
         replies \subseteq replies'
  PROVE  MessageOK(m)'
  <1>1. ASSUME m.from # None
        PROVE  Dispatched(m.from, WorkerOf(m.task))' = Dispatched(m.from, WorkerOf(m.task))
    BY <1>1 DEF Dispatched, Child, Reports
  <1> QED
    BY <1>1 DEF MessageOK

\* A process that waits for nothing has nothing in the mail.
LEMMA Silent ==
  ASSUME NEW x \in Actors, ProcessOK(x), PostOK,
         \A w \in Workers : actor[x].sent[w] # "sent"
  PROVE  \A m \in mail : m.from # x
  BY TaskFacts DEF ProcessOK, Awaited, PostOK, Message

\* A process that rests, whatever it forgets, is in order.
LEMMA Resters ==
  ASSUME NEW x \in Actors, ActorOK(actor'[x]), actor'[x].pc \in Resting,
         \A w \in Workers : actor'[x].sent[w] # "sent",
         \A l \in Lenses : actor'[x].sent[l] # "landed",
         \A m \in mail' : m.from # x
  PROVE  ProcessOK(x)'
  BY TaskFacts DEF ProcessOK, Awaited, Resting, Workers

\* A step of one process x that sends nothing and leaves the fences alone.
LEMMA StepKeeps ==
  ASSUME PartsOK, NEW x \in Actors, NEW r, actor' = [actor EXCEPT ![x] = r],
         UNCHANGED <<mail, workers, request, inbox>>, HostOK', JournalTruthful',
         replies \subseteq replies', ProcessOK(x)',
         \A m \in mail : m.from = x => MessageOK(m)'
  PROVE  PartsOK'
  <1>1. actor' \in [Actors -> Memory]
    BY DEF PartsOK, ProcessOK, ActorOK
  <1>2. FencesOK' /\ NeverForgotten' /\ OneAttempt'
    BY DEF PartsOK, FencesOK, NeverForgotten, OneAttempt, Completed, workers
  <1>3. ReadsPublished'
    BY DEF PartsOK, ReadsPublished, workers
  <1>4. \A y \in Actors : ProcessOK(y)'
    <2> SUFFICES ASSUME NEW y \in Actors, y # x PROVE ProcessOK(y)'
      OBVIOUS
    <2>1. actor'[y] = actor[y]
      BY DEF PartsOK
    <2> QED
      BY <2>1, OthersKeep, TaskFacts DEF PartsOK, workers
  <1>5. PostOK'
    <2> SUFFICES ASSUME NEW m \in mail PROVE MessageOK(m)'
      BY DEF PartsOK, PostOK
    <2>1. m.from # x => actor'[m.from] = actor[m.from] \/ m.from = None
      BY DEF PartsOK, PostOK, Message
    <2> QED
      BY <2>1, MessageKeep, TaskFacts DEF PartsOK, PostOK
  <1> QED
    BY <1>1, <1>2, <1>3, <1>4, <1>5 DEF PartsOK, HostOK

\* A step of one process that has nothing in the mail.
LEMMA QuietStep ==
  ASSUME PartsOK, NEW x \in Actors, NEW r, actor' = [actor EXCEPT ![x] = r],
         \A w \in Workers : actor[x].sent[w] # "sent",
         UNCHANGED <<mail, workers, request, inbox>>, HostOK', JournalTruthful',
         replies \subseteq replies', ProcessOK(x)'
  PROVE  PartsOK'
  <1>1. \A m \in mail : m.from # x
    BY Silent DEF PartsOK
  <1> QED
    BY <1>1, StepKeeps

\* A process that comes to rest after such a step.
LEMMA RestStep ==
  ASSUME PartsOK, NEW x \in Actors, NEW r, actor' = [actor EXCEPT ![x] = r],
         ActorOK(r), r.pc \in Resting,
         \A w \in Workers : r.sent[w] # "sent",
         \A l \in Lenses : r.sent[l] # "landed",
         \A w \in Workers : actor[x].sent[w] # "sent",
         UNCHANGED <<mail, workers, request, inbox>>, HostOK', JournalTruthful',
         replies \subseteq replies'
  PROVE  PartsOK'
  <1>1. \A m \in mail' : m.from # x
    BY Silent DEF PartsOK
  <1>2. actor'[x] = r
    BY DEF PartsOK
  <1>3. ProcessOK(x)'
    BY <1>1, <1>2, Resters
  <1> QED
    BY <1>3, QuietStep

\* The three memories a process rests with.
LEMMA Memories ==
  /\ ActorOK(Down) /\ ActorOK(Idle)
  /\ \A g \in 0 .. Tolerance : g # Tolerance => ActorOK([Idle EXCEPT !.gone = g])
  /\ \A a : ActorOK(a) /\ a.pc \in Working => ActorOK(Onward(a)) /\ Onward(a).pc \in Resting
  /\ Down.pc \in Resting /\ Idle.pc \in Resting /\ Resting \cap Working = {}
  /\ \A w \in Workers : Quiet[w] = "no"
  <1>1. Quiet \in [Workers -> {"no", "sent", "landed", "failed"}] /\ \A w \in Workers : Quiet[w] = "no"
    BY DEF Quiet
  <1>2. ActorOK(Down)
    BY <1>1 DEF ActorOK, Down, Memory, Resting
  <1>3. \A g \in 0 .. Tolerance : g # Tolerance => ActorOK([Idle EXCEPT !.gone = g])
    BY <1>1 DEF ActorOK, Down, Idle, Memory, Resting
  <1>4. ActorOK(Idle)
    BY <1>1 DEF ActorOK, Down, Idle, Memory, Resting
  <1>5. ASSUME NEW a, ActorOK(a), a.pc \in Working
        PROVE  ActorOK(Onward(a)) /\ Onward(a).pc \in Resting
    BY <1>1, <1>5 DEF ActorOK, Onward, Memory, Resting, Working
  <1>6. Down.pc \in Resting /\ Idle.pc \in Resting /\ Resting \cap Working = {}
    BY DEF Down, Idle, Resting, Working
  <1> QED
    BY <1>1, <1>2, <1>3, <1>4, <1>5, <1>6

\* Outside its two waits a process waits for nothing.
LEMMA NotWaiting ==
  ASSUME NEW x \in Actors, ProcessOK(x),
         \/ actor[x].pc \notin {"issue", "collating"}
         \/ Issued(x)
         \/ actor[x].pc = "collating" /\ actor[x].sent[Collator] # "sent"
  PROVE  \A w \in Workers : actor[x].sent[w] # "sent"
  BY DEF ProcessOK, Issued, Workers

\* Between two requests nothing is out either way.
LEMMA AtRest ==
  ASSUME NEW x \in Actors, ProcessOK(x), actor[x].pc \in Resting
  PROVE  /\ \A w \in Workers : actor[x].sent[w] # "sent"
         /\ \A l \in Lenses : actor[x].sent[l] # "landed"
  <1>1. actor[x].pc \notin Working
    BY Memories
  <1>2. \A w \in Workers : actor[x].sent[w] # "sent"
    BY NotWaiting DEF Resting
  <1> QED
    BY <1>1, <1>2 DEF ProcessOK

-----------------------------------------------------------------------------
(* The passes, one lemma an action.                                        *)

LEMMA StepBeginPass ==
  ASSUME PartsOK, NEW x \in Actors, BeginPass(x)
  PROVE  PartsOK'
  <1> DEFINE r == [actor[x] EXCEPT !.pc = "scan", !.todo = inbox]
  <1>1. actor' = [actor EXCEPT ![x] = r]
    BY DEF BeginPass, PartsOK
  <1>2. ProcessOK(x) /\ HostOK /\ JournalTruthful
    BY DEF PartsOK
  <1>3. ActorOK(r) /\ r.pc \in Resting /\ r.sent = actor[x].sent
    BY <1>2 DEF ProcessOK, ActorOK, Memory, Resting, HostOK, BeginPass
  <1>4. actor[x].pc \in Resting
    BY DEF BeginPass, Resting
  <1>5. HostOK' /\ JournalTruthful' /\ replies' = replies /\ UNCHANGED <<mail, workers, request, inbox>>
    BY <1>2 DEF BeginPass, HostOK, JournalTruthful, host, workers
  <1> HIDE DEF r
  <1> QED
    BY <1>1, <1>2, <1>3, <1>4, <1>5, AtRest, RestStep

LEMMA StepSkip ==
  ASSUME PartsOK, NEW x \in Actors, NEW p \in Parents, Skip(x, p)
  PROVE  PartsOK'
  <1> DEFINE r == [actor[x] EXCEPT !.todo = @ \ {p}]
  <1>1. actor' = [actor EXCEPT ![x] = r]
    BY DEF Skip, PartsOK
  <1>2. ProcessOK(x) /\ HostOK /\ JournalTruthful
    BY DEF PartsOK
  <1>3. ActorOK(r) /\ r.pc \in Resting /\ r.sent = actor[x].sent
    BY <1>2 DEF ProcessOK, ActorOK, Memory, Resting, Skip
  <1>4. actor[x].pc \in Resting
    BY DEF Skip, Resting
  <1>5. HostOK' /\ JournalTruthful' /\ replies' = replies /\ UNCHANGED <<mail, workers, request, inbox>>
    BY <1>2 DEF Skip, HostOK, JournalTruthful, host, workers
  <1> HIDE DEF r
  <1> QED
    BY <1>1, <1>2, <1>3, <1>4, <1>5, AtRest, RestStep

LEMMA StepEndPass ==
  ASSUME PartsOK, NEW x \in Actors, EndPass(x)
  PROVE  PartsOK'
  <1> DEFINE g == IF Collator \in alive THEN 0 ELSE actor[x].gone + 1
             r == [actor[x] EXCEPT !.gone = g, !.pc = IF g = Tolerance THEN "over" ELSE "idle"]
  <1>1. actor' = [actor EXCEPT ![x] = r]
    BY DEF EndPass, PartsOK
  <1>2. ProcessOK(x) /\ HostOK /\ JournalTruthful
    BY DEF PartsOK
  <1>3. g \in 0 .. Tolerance
    BY <1>2 DEF ProcessOK, ActorOK, Memory, EndPass
  <1>4. ActorOK(r) /\ r.pc \in Resting /\ r.sent = actor[x].sent
    <2> HIDE DEF g
    <2> QED
      BY <1>2, <1>3 DEF ProcessOK, ActorOK, Memory, Resting, EndPass
  <1>5. actor[x].pc \in Resting
    BY DEF EndPass, Resting
  <1>6. HostOK' /\ JournalTruthful' /\ replies' = replies /\ UNCHANGED <<mail, workers, request, inbox>>
    BY <1>2 DEF EndPass, HostOK, JournalTruthful, host, workers
  <1> HIDE DEF r
  <1> QED
    BY <1>1, <1>2, <1>4, <1>5, <1>6, AtRest, RestStep

LEMMA StepStartActor ==
  ASSUME PartsOK, NEW x \in Actors, StartActor(x)
  PROVE  PartsOK'
  <1>1. actor' = [actor EXCEPT ![x] = Idle] /\ actor[x].pc \in Resting
    BY DEF StartActor, Resting
  <1>2. ProcessOK(x) /\ HostOK /\ JournalTruthful
    BY DEF PartsOK
  <1>3. Idle.sent = Quiet
    BY DEF Idle, Down
  <1>4. HostOK' /\ JournalTruthful' /\ replies' = replies /\ UNCHANGED <<mail, workers, request, inbox>>
    BY <1>2 DEF StartActor, HostOK, JournalTruthful, host, workers
  <1> QED
    BY <1>1, <1>2, <1>3, <1>4, AtRest, Memories, RestStep, TaskFacts DEF Workers

LEMMA StepDecline ==
  ASSUME PartsOK, NEW x \in Actors, Decline(x)
  PROVE  PartsOK'
  <1>1. actor' = [actor EXCEPT ![x] = Onward(actor[x])]
    BY DEF Decline, PartsOK
  <1>2. ProcessOK(x) /\ HostOK /\ JournalTruthful /\ ActorOK(actor[x])
    BY DEF PartsOK, ProcessOK
  <1>3. actor[x].pc \in Working /\ actor[x].pc \notin {"issue", "collating"}
    BY DEF Decline, Working
  <1>4. Onward(actor[x]).sent = Quiet
    BY <1>2 DEF Onward, ActorOK, Memory
  <1>5. HostOK' /\ JournalTruthful' /\ replies' = replies /\ UNCHANGED <<mail, workers, request, inbox>>
    BY <1>2 DEF Decline, HostOK, JournalTruthful, host, workers
  <1> QED
    BY <1>1, <1>2, <1>3, <1>4, <1>5, NotWaiting, Memories, RestStep, TaskFacts DEF Workers

LEMMA StepNoneLanded ==
  ASSUME PartsOK, NEW x \in Actors, NoneLanded(x)
  PROVE  PartsOK'
  <1>1. actor' = [actor EXCEPT ![x] = Onward(actor[x])]
    BY DEF NoneLanded, PartsOK
  <1>2. ProcessOK(x) /\ HostOK /\ JournalTruthful /\ ActorOK(actor[x])
    BY DEF PartsOK, ProcessOK
  <1>3. actor[x].pc \in Working /\ Issued(x)
    BY DEF NoneLanded, Issued, Working
  <1>4. Onward(actor[x]).sent = Quiet
    BY <1>2 DEF Onward, ActorOK, Memory
  <1>5. HostOK' /\ JournalTruthful' /\ replies' = replies /\ UNCHANGED <<mail, workers, request, inbox>>
    BY <1>2 DEF NoneLanded, HostOK, JournalTruthful, host, workers
  <1> QED
    BY <1>1, <1>2, <1>3, <1>4, <1>5, NotWaiting, Memories, RestStep, TaskFacts DEF Workers

LEMMA StepPublishFails ==
  ASSUME PartsOK, NEW x \in Actors, PublishFails(x)
  PROVE  PartsOK'
  <1> DEFINE r == [Idle EXCEPT !.gone = actor[x].gone]
  <1>1. actor' = [actor EXCEPT ![x] = r] /\ actor[x].pc = "publish"
    BY DEF PublishFails
  <1>2. ProcessOK(x) /\ HostOK /\ JournalTruthful
    BY DEF PartsOK
  <1>3. ActorOK(r)
    BY <1>1, <1>2, Memories DEF ProcessOK, ActorOK, Memory
  <1>4. r.sent = Quiet /\ r.pc \in Resting
    BY DEF Idle, Down, Resting
  <1>5. HostOK' /\ JournalTruthful' /\ replies' = replies /\ UNCHANGED <<mail, workers, request, inbox>>
    BY <1>2 DEF PublishFails, HostOK, JournalTruthful, host, workers
  <1> HIDE DEF r
  <1> QED
    BY <1>1, <1>2, <1>3, <1>4, <1>5, NotWaiting, Memories, RestStep, TaskFacts DEF Workers

\* The journal gains the entry of a fan-out whose landed children all ran.
LEMMA StepRecord ==
  ASSUME PartsOK, NEW x \in Actors, Record(x)
  PROVE  PartsOK'
  <1> DEFINE p == actor[x].parent
             e == [digest |-> actor[x].content, children |-> {Child(x, l) : l \in Landed(x)}]
  <1>1. actor' = [actor EXCEPT ![x] = Onward(actor[x])] /\ journal' = [journal EXCEPT ![p] = e]
    BY DEF Record, PartsOK
  <1>2. ProcessOK(x) /\ HostOK /\ JournalTruthful /\ ActorOK(actor[x])
    BY DEF PartsOK, ProcessOK
  <1>3. actor[x].pc \in Working /\ actor[x].pc \notin Resting
        /\ (actor[x].pc = "collating" => actor[x].sent[Collator] # "sent")
        /\ actor[x].pc # "issue"
    BY DEF Record, Working, Resting
  <1>4. Onward(actor[x]).sent = Quiet
    BY <1>2 DEF Onward, ActorOK, Memory
  <1>5. p \in Parents /\ actor[x].content \in Contents
    BY <1>2, <1>3 DEF ActorOK, Memory
  <1>6. e \in Entry
    BY <1>5, TaskFacts DEF Child, Landed, Entry
  <1>7. UNCHANGED <<mail, workers, request, inbox, replies>> /\ accepted' = accepted
    BY DEF Record, workers
  <1>8. HostOK'
    <2> HIDE DEF e, p
    <2> QED
      BY <1>1, <1>2, <1>5, <1>6, <1>7 DEF HostOK
  <1>9. JournalTruthful'
    <2> SUFFICES ASSUME NEW q \in Parents, journal'[q] # None, NEW t \in journal'[q].children
                 PROVE  [task |-> t, brief |-> journal'[q].digest.text] \in accepted
      BY <1>7 DEF JournalTruthful
    <2>1. CASE q = p
      <3>1. journal'[q] = e
        BY <1>1, <1>2, <2>1 DEF HostOK
      <3>2. PICK l \in Lenses : actor[x].sent[l] = "landed" /\ t = Child(x, l)
        BY <3>1 DEF Landed
      <3> QED
        BY <1>2, <3>1, <3>2 DEF ProcessOK
    <2>2. CASE q # p
      <3>1. journal'[q] = journal[q]
        BY <1>1, <1>2, <2>2 DEF HostOK
      <3> QED
        BY <1>2, <3>1 DEF JournalTruthful
    <2> QED
      BY <2>1, <2>2
  <1> QED
    BY <1>1, <1>2, <1>3, <1>4, <1>7, <1>8, <1>9, NotWaiting, Memories, RestStep, TaskFacts
    DEF Workers

LEMMA StepTake ==
  ASSUME PartsOK, NEW x \in Actors, NEW p \in Parents, Take(x, p)
  PROVE  PartsOK'
  <1> DEFINE r == [actor[x] EXCEPT !.todo = @ \ {p}, !.pc = "route",
                                   !.parent = p, !.content = request[p]]
  <1>1. actor' = [actor EXCEPT ![x] = r] /\ actor'[x] = r
    BY DEF Take, PartsOK
  <1>2. ProcessOK(x) /\ HostOK /\ JournalTruthful
    BY DEF PartsOK
  <1>3. p # None /\ request[p] \in Contents /\ request[p] # None
    BY <1>2 DEF Take, HostOK
  <1>4. ActorOK(r) /\ r.pc = "route" /\ r.sent = actor[x].sent
    BY <1>2, <1>3 DEF ProcessOK, ActorOK, Memory, Resting, Working, Take
  <1>5. actor[x].pc \in Resting
    BY DEF Take, Resting
  <1>6. HostOK' /\ JournalTruthful' /\ replies' = replies /\ UNCHANGED <<mail, workers, request, inbox>>
    BY <1>2 DEF Take, HostOK, JournalTruthful, host, workers
  <1>7. \A m \in mail' : m.from # x
    BY <1>2, <1>5, <1>6, AtRest, Silent DEF PartsOK
  <1>8. ProcessOK(x)'
    <2> HIDE DEF r
    <2> QED
      BY <1>1, <1>2, <1>4, <1>5, <1>7, AtRest, TaskFacts DEF ProcessOK, Awaited, Workers
  <1> HIDE DEF r
  <1> QED
    BY <1>1, <1>2, <1>5, <1>6, <1>8, AtRest, QuietStep

\* A step inside a fan-out, after the join: what landed stays as it was sent.
LEMMA MidStep ==
  ASSUME PartsOK, NEW x \in Actors, NEW r, actor' = [actor EXCEPT ![x] = r],
         \/ Issued(x)
         \/ actor[x].pc \in {"publish", "declare"},
         ActorOK(r), r.pc \in Working, r.pc # "issue",
         r.sent = actor[x].sent, r.parent = actor[x].parent, r.content = actor[x].content,
         r.pc \in {"declare", "collate", "collating"} =>
            {ChildTask(r.parent, l, r.content) : l \in r.reply} \subseteq replies',
         UNCHANGED <<mail, workers, request, inbox, journal>>,
         replies \subseteq replies', replies' \subseteq Tasks
  PROVE  PartsOK'
  <1>1. ProcessOK(x) /\ HostOK /\ JournalTruthful
    BY DEF PartsOK
  <1>2. \A w \in Workers : actor[x].sent[w] # "sent"
    BY <1>1, NotWaiting
  <1>3. \A m \in mail' : m.from # x
    BY <1>1, <1>2, Silent DEF PartsOK
  <1>4. actor'[x] = r /\ accepted' = accepted
    BY DEF PartsOK, workers
  <1>5. Reports(x)' = {ChildTask(r.parent, l, r.content) : l \in r.reply}
        /\ \A l : Child(x, l)' = Child(x, l)
    BY <1>4 DEF Reports, Child
  <1>6. Awaited(x)'
    BY <1>2, <1>3, <1>4 DEF Awaited
  <1>7. ProcessOK(x)'
    BY <1>1, <1>2, <1>4, <1>5, <1>6, TaskFacts DEF ProcessOK, Workers
  <1>8. HostOK' /\ JournalTruthful'
    BY <1>1, <1>4 DEF HostOK, JournalTruthful
  <1> QED
    BY <1>2, <1>7, <1>8, QuietStep

LEMMA StepHarvest ==
  ASSUME PartsOK, NEW x \in Actors, Harvest(x)
  PROVE  PartsOK'
  <1>1. ActorOK(actor[x])
    BY DEF PartsOK, ProcessOK
  <1>2. PICK read \in SUBSET Landed(x) :
           actor' = [actor EXCEPT ![x].reply = read,
                       ![x].pc = IF read = {} THEN "record" ELSE "publish"]
    BY DEF Harvest
  <1> DEFINE r == [actor[x] EXCEPT !.reply = read,
                                   !.pc = IF read = {} THEN "record" ELSE "publish"]
  <1>3. actor' = [actor EXCEPT ![x] = r]
    BY <1>2 DEF PartsOK
  <1>4. read \subseteq Lenses
    BY <1>2 DEF Landed
  <1>5. r.pc \in {"record", "publish"} /\ r.sent = actor[x].sent
        /\ r.parent = actor[x].parent /\ r.content = actor[x].content
    BY <1>1 DEF ActorOK, Memory
  <1>6. Issued(x) /\ actor[x].pc = "issue"
    BY DEF Harvest, Issued
  <1>7. ActorOK(r) /\ r.pc \in Working
    BY <1>1, <1>4, <1>6 DEF ActorOK, Memory, Resting, Working
  <1>8. UNCHANGED <<mail, workers, request, inbox, journal, replies>> /\ replies \subseteq Tasks
    BY DEF Harvest, host, PartsOK, HostOK
  <1> HIDE DEF r
  <1> QED
    BY <1>3, <1>5, <1>6, <1>7, <1>8, MidStep

LEMMA StepPublish ==
  ASSUME PartsOK, NEW x \in Actors, Publish(x)
  PROVE  PartsOK'
  <1> DEFINE r == [actor[x] EXCEPT !.pc = "declare"]
  <1>1. ActorOK(actor[x]) /\ HostOK /\ actor[x].pc = "publish"
    BY DEF PartsOK, ProcessOK, Publish
  <1>2. actor' = [actor EXCEPT ![x] = r]
    BY DEF Publish, PartsOK
  <1>3. ActorOK(r) /\ r.pc = "declare" /\ r.sent = actor[x].sent
        /\ r.parent = actor[x].parent /\ r.content = actor[x].content
        /\ r.reply = actor[x].reply
    BY <1>1 DEF ActorOK, Memory, Resting, Working
  <1>4. actor[x].parent \in Parents /\ actor[x].reply \subseteq Lenses
    BY <1>1 DEF ActorOK, Memory, Resting
  <1>5. Reports(x) \subseteq Tasks
    BY <1>4, TaskFacts DEF Reports, Child
  <1>6. /\ UNCHANGED <<mail, workers, request, inbox, journal>>
        /\ replies' = replies \cup Reports(x) /\ replies' \subseteq Tasks
    BY <1>1, <1>5 DEF Publish, HostOK
  <1>7. {ChildTask(r.parent, l, r.content) : l \in r.reply} = Reports(x)
    BY <1>3 DEF Reports, Child
  <1> HIDE DEF r
  <1> QED
    BY <1>1, <1>2, <1>3, <1>6, <1>7, MidStep DEF Working

LEMMA StepDeclare ==
  ASSUME PartsOK, NEW x \in Actors, Declare(x)
  PROVE  PartsOK'
  <1> DEFINE r == [actor[x] EXCEPT !.pc = "collate"]
  <1>1. ActorOK(actor[x]) /\ HostOK /\ actor[x].pc = "declare" /\ Reports(x) \subseteq replies
    BY DEF PartsOK, ProcessOK, Declare
  <1>2. actor' = [actor EXCEPT ![x] = r]
    BY DEF Declare, PartsOK
  <1>3. ActorOK(r) /\ r.pc = "collate" /\ r.sent = actor[x].sent
        /\ r.parent = actor[x].parent /\ r.content = actor[x].content
        /\ r.reply = actor[x].reply
    BY <1>1 DEF ActorOK, Memory, Resting, Working
  <1>4. UNCHANGED <<mail, workers, request, inbox, journal, replies>> /\ replies \subseteq Tasks
    BY <1>1 DEF Declare, HostOK
  <1>5. {ChildTask(r.parent, l, r.content) : l \in r.reply} = Reports(x)
    BY <1>3 DEF Reports, Child
  <1> HIDE DEF r
  <1> QED
    BY <1>1, <1>2, <1>3, <1>4, <1>5, MidStep DEF Working

-----------------------------------------------------------------------------
(* The mail.                                                               *)

\* A message leaves its sender's wait with an answer, and the mail for good or
\* as a message nobody waits for.
LEMMA AnswerStep ==
  ASSUME PartsOK, NEW m \in mail, NEW how \in {"landed", "failed"}, Answered(m, how),
         \/ mail' = mail \ {m}
         \/ mail' = (mail \ {m}) \cup {[m EXCEPT !.from = None]},
         accepted \subseteq accepted',
         how = "landed" => [task |-> m.task, brief |-> m.brief] \in accepted',
         FencesOK', NeverForgotten', OneAttempt', ReadsPublished',
         UNCHANGED <<request, inbox, journal, replies>>
  PROVE  PartsOK'
  <1> DEFINE n == [m EXCEPT !.from = None]
             w == WorkerOf(m.task)
  <1>1. m \in Message /\ MessageOK(m) /\ w \in Workers
    BY TaskFacts DEF PartsOK, PostOK, Message
  <1>2. n \in Message /\ n.from = None /\ n.task = m.task /\ n.brief = m.brief
    BY <1>1 DEF Message
  <1>3. \A k \in mail' : (k \in mail /\ k # m) \/ k = n
    OBVIOUS
  <1>4. \A k : k.from # None /\ k # m => (k \in mail' <=> k \in mail)
    BY <1>2
  <1>5. HostOK' /\ JournalTruthful'
    BY DEF PartsOK, HostOK, JournalTruthful
  <1>6. mail' \subseteq Message
    BY <1>2, <1>3 DEF PartsOK, PostOK
  <1> HIDE DEF n
  <1>7. CASE m.from = None
    <2>1. actor' = actor
      BY <1>7 DEF Answered
    <2>2. \A y \in Actors : ProcessOK(y)'
      <3> SUFFICES ASSUME NEW y \in Actors PROVE ProcessOK(y)'
        OBVIOUS
      <3>1. \A k : k.from = y => (k \in mail' <=> k \in mail)
        BY <1>4, <1>7
      <3> QED
        BY <2>1, <3>1, OthersKeep DEF PartsOK
    <2>3. \A k \in mail' : MessageOK(k)'
      <3> SUFFICES ASSUME NEW k \in mail' PROVE MessageOK(k)'
        OBVIOUS
      <3>1. MessageOK(k)
        BY <1>1, <1>2, <1>3 DEF PartsOK, PostOK, MessageOK
      <3> QED
        BY <2>1, <3>1, MessageKeep
    <2> QED
      BY <1>5, <1>6, <2>1, <2>2, <2>3 DEF PartsOK, PostOK
  <1>8. CASE m.from # None
    <2>0. PICK x \in Actors : x = m.from
      BY <1>1, <1>8 DEF Message
    <2>1. ProcessOK(x) /\ m = Dispatched(x, w) /\ m.from = x
      BY <1>1, <1>8, <2>0 DEF PartsOK, MessageOK
    <2>2. actor' = [actor EXCEPT ![x].sent[w] = how]
      BY <1>8, <2>1 DEF Answered
    <2>3. /\ actor'[x] = [actor[x] EXCEPT !.sent[w] = how]
          /\ \A y \in Actors : y # x => actor'[y] = actor[y]
      BY <2>1, <2>2 DEF PartsOK
    <2> DEFINE r == [actor[x] EXCEPT !.sent[w] = how]
    <2>4. actor[x] \in Memory /\ ActorOK(actor[x]) /\ actor[x].sent[w] = "sent"
      BY <1>1, <2>1 DEF ProcessOK, ActorOK, Awaited
    <2>5. /\ r.pc = actor[x].pc /\ r.parent = actor[x].parent
          /\ r.content = actor[x].content /\ r.reply = actor[x].reply
          /\ r.gone = actor[x].gone /\ r \in Memory
          /\ r.sent[w] = how /\ \A v \in Workers : v # w => r.sent[v] = actor[x].sent[v]
      BY <1>1, <2>4 DEF Memory
    <2>6. ActorOK(r)
      BY <2>4, <2>5 DEF ActorOK
    <2> HIDE DEF r
    <2>7. actor'[x] = r
      BY <2>3 DEF r
    <2>8. /\ Reports(x)' = Reports(x) /\ \A l : Child(x, l)' = Child(x, l)
          /\ \A v : Dispatched(x, v)' = Dispatched(x, v)
      <3>1. /\ actor'[x].parent = actor[x].parent /\ actor'[x].content = actor[x].content
            /\ actor'[x].reply = actor[x].reply
        BY <2>5, <2>7
      <3>2. \A l : Child(x, l)' = Child(x, l)
        BY <3>1 DEF Child
      <3>3. Reports(x)' = Reports(x)
        BY <3>1 DEF Reports, Child
      <3>4. \A v : Dispatched(x, v)' = Dispatched(x, v)
        <4> SUFFICES ASSUME NEW v PROVE Dispatched(x, v)' = Dispatched(x, v)
          OBVIOUS
        <4>1. Child(x, v)' = Child(x, v)
          BY <3>2
        <4> QED
          BY <3>1, <3>3, <4>1 DEF Dispatched
      <3> QED
        BY <3>2, <3>3, <3>4
    <2>9. Awaited(x)'
      <3> SUFFICES ASSUME NEW v \in Workers
                   PROVE  r.sent[v] = "sent" <=>
                            \E k \in mail' : k.from = x /\ WorkerOf(k.task) = v
        BY <2>7 DEF Awaited
      <3>1. CASE v = w
        <4>1. \A k \in mail' : ~ (k.from = x /\ WorkerOf(k.task) = v)
          <5> SUFFICES ASSUME NEW k \in mail', k.from = x, WorkerOf(k.task) = v PROVE FALSE
            OBVIOUS
          <5>1. k \in mail /\ k # m
            BY <1>2, <1>3
          <5> QED
            BY <1>8, <2>1, <3>1, <5>1 DEF PartsOK, PostOK, MessageOK
        <4> QED
          BY <2>5, <3>1, <4>1
      <3>2. CASE v # w
        <4>1. \A k : k.from = x /\ WorkerOf(k.task) = v => (k \in mail' <=> k \in mail)
          BY <1>4, <2>1, <3>2
        <4> QED
          BY <2>1, <2>5, <3>2, <4>1 DEF ProcessOK, Awaited
      <3> QED
        BY <3>1, <3>2
    <2>10. w \in Lenses => /\ actor[x].pc = "issue"
                           /\ m.task = Child(x, w) /\ m.brief = actor[x].content.text
      BY <2>1, <2>4 DEF ProcessOK, Dispatched
    <2>11. \A l \in Lenses : r.sent[l] = "landed" =>
              /\ r.pc \in Working
              /\ [task |-> Child(x, l), brief |-> r.content.text] \in accepted'
      <3> SUFFICES ASSUME NEW l \in Lenses, r.sent[l] = "landed"
                   PROVE  /\ r.pc \in Working
                          /\ [task |-> Child(x, l), brief |-> r.content.text] \in accepted'
        OBVIOUS
      <3>1. CASE l = w
        BY <2>5, <2>10, <3>1 DEF Working
      <3>2. CASE l # w
        BY <2>1, <2>5, <3>2 DEF ProcessOK, Workers
      <3> QED
        BY <3>1, <3>2
    <2>12. ProcessOK(x)'
      <3>1. \A l \in Lenses : r.sent[l] = "sent" => r.pc = "issue"
        BY <2>1, <2>5 DEF ProcessOK, Workers
      <3>2. r.sent[Collator] = "sent" => r.pc = "collating"
        BY <2>1, <2>5 DEF ProcessOK, Workers
      <3>3. r.pc \in {"declare", "collate", "collating"} => Reports(x)' \subseteq replies'
        BY <2>1, <2>5, <2>8 DEF ProcessOK
      <3>4. \A l \in Lenses : r.sent[l] = "landed" => r.pc \in Working
        BY <2>11
      <3>5. \A l \in Lenses : r.sent[l] = "landed" =>
               [task |-> Child(x, l)', brief |-> r.content.text] \in accepted'
        BY <2>8, <2>11
      <3> QED
        BY <2>6, <2>7, <2>9, <3>1, <3>2, <3>3, <3>4, <3>5 DEF ProcessOK
    <2>13. \A y \in Actors : ProcessOK(y)'
      <3> SUFFICES ASSUME NEW y \in Actors, y # x PROVE ProcessOK(y)'
        BY <2>12
      <3>1. \A k : k.from = y => (k \in mail' <=> k \in mail)
        BY <1>4, <2>1, TaskFacts
      <3> QED
        BY <2>3, <3>1, OthersKeep DEF PartsOK
    <2>14. \A k \in mail' : MessageOK(k)'
      <3> SUFFICES ASSUME NEW k \in mail' PROVE MessageOK(k)'
        OBVIOUS
      <3>1. MessageOK(k)
        BY <1>1, <1>2, <1>3 DEF PartsOK, PostOK, MessageOK
      <3>2. CASE k.from = x
        BY <2>8, <3>1, <3>2 DEF MessageOK
      <3>3. CASE k.from # x
        <4>1. k.from # None => actor'[k.from] = actor[k.from]
          BY <1>6, <2>3, <3>3 DEF Message
        <4> QED
          BY <3>1, <4>1, MessageKeep
      <3> QED
        BY <3>2, <3>3
    <2>15. actor' \in [Actors -> Memory]
      BY <2>1, <2>2, <2>5 DEF PartsOK, r
    <2> QED
      BY <1>5, <1>6, <2>13, <2>14, <2>15 DEF PartsOK, PostOK
  <1> QED
    BY <1>7, <1>8

LEMMA StepDeliver ==
  ASSUME PartsOK, NEW m \in mail, Deliver(m)
  PROVE  PartsOK'
  <1>1. m \in Message /\ MessageOK(m) /\ m.task \in Tasks
    BY TaskFacts DEF PartsOK, PostOK, Message
  <1>2. /\ FencesOK' /\ NeverForgotten' /\ OneAttempt' /\ ReadsPublished'
        /\ accepted \subseteq accepted'
        /\ Accepts(m.task, m.brief) => [task |-> m.task, brief |-> m.brief] \in accepted'
    BY <1>1, HandledOK DEF Deliver, PartsOK, MessageOK, Message, host
  <1>3. UNCHANGED <<request, inbox, journal, replies>> /\ mail' = mail \ {m}
    BY DEF Deliver, host
  <1>4. CASE Accepts(m.task, m.brief)
    <2>1. Answered(m, "landed")
      BY <1>4 DEF Deliver
    <2> QED
      BY <1>2, <1>3, <1>4, <2>1, AnswerStep
  <1>5. CASE ~ Accepts(m.task, m.brief)
    <2>1. Answered(m, "failed")
      BY <1>5 DEF Deliver
    <2> QED
      BY <1>2, <1>3, <2>1, AnswerStep
  <1> QED
    BY <1>4, <1>5

\* The fences keep what they know when their state does not change.
LEMMA FencesKeep ==
  ASSUME PartsOK, UNCHANGED <<workers, replies>>
  PROVE  FencesOK' /\ NeverForgotten' /\ OneAttempt' /\ ReadsPublished' /\ accepted' = accepted
  BY DEF PartsOK, FencesOK, NeverForgotten, OneAttempt, ReadsPublished, Completed, workers

LEMMA StepUnreachable ==
  ASSUME PartsOK, NEW m \in mail, Unreachable(m)
  PROVE  PartsOK'
  <1>1. /\ UNCHANGED <<request, inbox, journal, replies, workers>> /\ mail' = mail \ {m}
        /\ Answered(m, "failed")
    BY DEF Unreachable, host
  <1> QED
    BY <1>1, FencesKeep, AnswerStep

LEMMA StepLost ==
  ASSUME PartsOK, NEW m \in mail, Lost(m)
  PROVE  PartsOK'
  <1>1. /\ UNCHANGED <<request, inbox, journal, replies, workers>>
        /\ mail' = (mail \ {m}) \cup {[m EXCEPT !.from = None]}
        /\ Answered(m, "failed")
    BY DEF Lost, host
  <1> QED
    BY <1>1, FencesKeep, AnswerStep

\* A process that waited for nothing sends one dispatch to each of W.
LEMMA SendStep ==
  ASSUME PartsOK, NEW x \in Actors, NEW r, actor' = [actor EXCEPT ![x] = r],
         NEW W \in SUBSET Workers, ActorOK(r), actor[x].pc \in Working,
         \A w \in Workers : actor[x].sent[w] # "sent",
         \A w \in Workers : r.sent[w] = "sent" <=> w \in W,
         r.parent = actor[x].parent, r.content = actor[x].content, r.reply = actor[x].reply,
         \/ /\ W \subseteq Lenses /\ r.pc = "issue"
            /\ \A l \in Lenses : r.sent[l] # "landed"
         \/ /\ W = {Collator} /\ r.pc = "collating" /\ actor[x].pc = "collate"
            /\ \A l \in Lenses : r.sent[l] = actor[x].sent[l],
         mail' = mail \cup {Dispatched(x, w) : w \in W},
         UNCHANGED <<workers, host, request, inbox>>
  PROVE  PartsOK'
  <1>1. ProcessOK(x) /\ ActorOK(actor[x]) /\ actor[x].pc \notin Resting
    BY Memories DEF PartsOK, ProcessOK
  <1>2. /\ actor[x].parent \in Parents /\ actor[x].content \in Contents
        /\ actor[x].reply \subseteq Lenses /\ actor[x].content.text \in Texts
    BY <1>1 DEF ActorOK, Memory
  <1>3. Reports(x) \subseteq Tasks
    BY <1>2, TaskFacts DEF Reports, Child
  <1>4. \A w \in W : /\ Dispatched(x, w) \in Message
                     /\ WorkerOf(Dispatched(x, w).task) = w
                     /\ Dispatched(x, w).from = x
                     /\ Dispatched(x, w).task[2] = w
    <2> SUFFICES ASSUME NEW w \in W
                 PROVE  /\ Dispatched(x, w) \in Message
                        /\ WorkerOf(Dispatched(x, w).task) = w
                        /\ Dispatched(x, w).from = x
                        /\ Dispatched(x, w).task[2] = w
      OBVIOUS
    <2>1. CASE w = Collator
      BY <1>2, <1>3, <2>1, TaskFacts DEF Dispatched, Message, Briefs
    <2>2. CASE w \in Lenses
      BY <1>2, <2>2, TaskFacts DEF Dispatched, Child, Message, Briefs
    <2> QED
      BY <2>1, <2>2 DEF Workers
  <1>5. \A w \in W : w = Collator => Dispatched(x, w).brief \subseteq replies
    BY <1>1 DEF ProcessOK, Dispatched
  <1>6. actor'[x] = r /\ \A y \in Actors : y # x => actor'[y] = actor[y]
    BY DEF PartsOK
  <1>7. /\ Reports(x)' = Reports(x) /\ \A l : Child(x, l)' = Child(x, l)
        /\ \A v : Dispatched(x, v)' = Dispatched(x, v)
    <2>1. /\ actor'[x].parent = actor[x].parent /\ actor'[x].content = actor[x].content
          /\ actor'[x].reply = actor[x].reply
      BY <1>6
    <2>2. \A l : Child(x, l)' = Child(x, l)
      BY <2>1 DEF Child
    <2>3. Reports(x)' = Reports(x)
      BY <2>1 DEF Reports, Child
    <2>4. ASSUME NEW v PROVE Dispatched(x, v)' = Dispatched(x, v)
      <3>1. Child(x, v)' = Child(x, v)
        BY <2>2
      <3> QED
        BY <2>1, <2>3, <3>1 DEF Dispatched
    <2> QED
      BY <2>2, <2>3, <2>4
  <1>8. \A m \in mail : m.from # x
    BY <1>1, Silent DEF PartsOK
  <1>9. Awaited(x)'
    <2> SUFFICES ASSUME NEW v \in Workers
                 PROVE  v \in W <=> \E k \in mail' : k.from = x /\ WorkerOf(k.task) = v
      BY <1>6 DEF Awaited
    <2>1. ASSUME v \in W
          PROVE  \E k \in mail' : k.from = x /\ WorkerOf(k.task) = v
      BY <1>4, <2>1
    <2>2. ASSUME NEW k \in mail', k.from = x, WorkerOf(k.task) = v
          PROVE  v \in W
      BY <1>4, <1>8, <2>2
    <2> QED
      BY <2>1, <2>2
  <1>10. accepted' = accepted /\ replies' = replies
    BY DEF workers, host
  <1>11. ProcessOK(x)'
    <2>1. \A l \in Lenses : r.sent[l] = "sent" => r.pc = "issue"
      BY TaskFacts DEF Workers
    <2>2. r.sent[Collator] = "sent" => r.pc = "collating"
      BY TaskFacts
    <2>3. r.pc \in Working
      BY DEF Working
    <2>4. \A l \in Lenses : r.sent[l] = "landed" =>
            [task |-> Child(x, l), brief |-> r.content.text] \in accepted
      BY <1>1 DEF ProcessOK
    <2>5. r.pc \in {"declare", "collate", "collating"} => Reports(x) \subseteq replies
      BY <1>1 DEF ProcessOK
    <2> QED
      BY <1>6, <1>7, <1>9, <1>10, <2>1, <2>2, <2>3, <2>4, <2>5 DEF ProcessOK
  <1>12. \A y \in Actors : ProcessOK(y)'
    <2> SUFFICES ASSUME NEW y \in Actors, y # x PROVE ProcessOK(y)'
      BY <1>11
    <2>1. \A k : k.from = y => (k \in mail' <=> k \in mail)
      BY <1>4
    <2> QED
      BY <1>6, <1>10, <2>1, OthersKeep DEF PartsOK
  <1>13. \A k \in mail' : MessageOK(k)'
    <2> SUFFICES ASSUME NEW k \in mail' PROVE MessageOK(k)'
      OBVIOUS
    <2>1. CASE k \in mail
      <3>1. k.from # None => actor'[k.from] = actor[k.from]
        BY <1>6, <1>8, <2>1 DEF PartsOK, PostOK, Message
      <3> QED
        BY <1>10, <2>1, <3>1, MessageKeep DEF PartsOK, PostOK
    <2>2. CASE k \notin mail
      <3>1. PICK w \in W : k = Dispatched(x, w)
        BY <2>2
      <3> QED
        BY <1>4, <1>5, <1>7, <1>10, <3>1 DEF MessageOK
    <2> QED
      BY <2>1, <2>2
  <1>14. mail' \subseteq Message
    BY <1>4 DEF PartsOK, PostOK
  <1>15. FencesOK' /\ NeverForgotten' /\ OneAttempt' /\ ReadsPublished'
    BY <1>10, FencesKeep
  <1>16. HostOK' /\ JournalTruthful'
    BY <1>10 DEF PartsOK, HostOK, JournalTruthful, host
  <1>17. actor' \in [Actors -> Memory]
    BY DEF PartsOK, ActorOK
  <1> QED
    BY <1>12, <1>13, <1>14, <1>15, <1>16, <1>17 DEF PartsOK, PostOK

LEMMA StepIssue ==
  ASSUME PartsOK, NEW x \in Actors, Issue(x)
  PROVE  PartsOK'
  <1> DEFINE sent == [w \in Workers |-> IF w \in Named(x) THEN "sent" ELSE "no"]
             r == [actor[x] EXCEPT !.pc = "issue", !.sent = sent]
  <1>1. ProcessOK(x) /\ ActorOK(actor[x]) /\ actor[x].pc = "route"
    BY DEF PartsOK, ProcessOK, Issue
  <1>2. actor' = [actor EXCEPT ![x] = r]
    BY DEF Issue, PartsOK
  <1>3. actor[x].content \in Contents /\ Named(x) \subseteq Lenses
    BY <1>1 DEF ActorOK, Memory, Resting, Named
  <1>4. /\ ActorOK(r) /\ r.pc = "issue" /\ r.sent = sent /\ r.parent = actor[x].parent
        /\ r.content = actor[x].content /\ r.reply = actor[x].reply
    BY <1>1 DEF ActorOK, Memory, Resting, Working
  <1>5. /\ \A w \in Workers : sent[w] = "sent" <=> w \in Named(x)
        /\ \A l \in Lenses : sent[l] # "landed"
    BY DEF Workers
  <1>6. \A w \in Workers : actor[x].sent[w] # "sent"
    BY <1>1, NotWaiting
  <1>7. /\ mail' = mail \cup {Dispatched(x, l) : l \in Named(x)}
        /\ UNCHANGED <<workers, host, request, inbox>>
    BY DEF Issue
  <1> HIDE DEF r, sent
  <1>8. /\ \A w \in Workers : r.sent[w] = "sent" <=> w \in Named(x)
        /\ \A l \in Lenses : r.sent[l] # "landed"
    BY <1>4, <1>5
  <1>9. Named(x) \in SUBSET Workers /\ actor[x].pc \in Working
    BY <1>1, <1>3 DEF Workers, Working
  <1> DEFINE W == Named(x)
  <1> HIDE DEF W
  <1>10. /\ W \in SUBSET Workers /\ W \subseteq Lenses
         /\ \A w \in Workers : r.sent[w] = "sent" <=> w \in W
         /\ mail' = mail \cup {Dispatched(x, w) : w \in W}
    BY <1>3, <1>7, <1>8, <1>9 DEF W
  <1> QED
    BY <1>2, <1>4, <1>6, <1>7, <1>8, <1>9, <1>10, SendStep

LEMMA StepCollate ==
  ASSUME PartsOK, NEW x \in Actors, Collate(x)
  PROVE  PartsOK'
  <1> DEFINE r == [actor[x] EXCEPT !.pc = "collating", !.sent[Collator] = "sent"]
  <1>1. ProcessOK(x) /\ ActorOK(actor[x]) /\ actor[x].pc = "collate"
    BY DEF PartsOK, ProcessOK, Collate, CollateReady
  <1>2. actor' = [actor EXCEPT ![x] = r]
    BY DEF Collate, PartsOK
  <1>3. /\ ActorOK(r) /\ r.pc = "collating" /\ r.parent = actor[x].parent
        /\ r.content = actor[x].content /\ r.reply = actor[x].reply
        /\ r.sent = [actor[x].sent EXCEPT ![Collator] = "sent"]
    BY <1>1, TaskFacts DEF ActorOK, Memory, Resting, Working
  <1>4. \A w \in Workers : actor[x].sent[w] # "sent"
    BY <1>1, NotWaiting
  <1>5. /\ \A w \in Workers : r.sent[w] = "sent" <=> w \in {Collator}
        /\ \A l \in Lenses : r.sent[l] = actor[x].sent[l]
    <2> HIDE DEF r
    <2> QED
      BY <1>1, <1>3, <1>4, TaskFacts DEF ActorOK, Memory, Workers
  <1>6. /\ mail' = mail \cup {Dispatched(x, w) : w \in {Collator}}
        /\ UNCHANGED <<workers, host, request, inbox>>
    BY DEF Collate
  <1> HIDE DEF r
  <1> DEFINE W == {Collator}
  <1>7. W \in SUBSET Workers /\ W = {Collator} /\ actor[x].pc \in Working
    BY <1>1, TaskFacts DEF Working
  <1> HIDE DEF W
  <1>8. /\ \A w \in Workers : r.sent[w] = "sent" <=> w \in W
        /\ mail' = mail \cup {Dispatched(x, w) : w \in W}
    BY <1>5, <1>6, <1>7
  <1> QED
    BY <1>1, <1>2, <1>3, <1>4, <1>5, <1>6, <1>7, <1>8, SendStep

\* A crash: what the process had in the mail goes on without it.
LEMMA StepCrash ==
  ASSUME PartsOK, NEW x \in Actors, Crash(x)
  PROVE  PartsOK'
  <1> DEFINE n(m) == [m EXCEPT !.from = IF @ = x THEN None ELSE @]
  <1>1. /\ actor' = [actor EXCEPT ![x] = Down] /\ mail' = {n(m) : m \in mail}
        /\ UNCHANGED <<request, inbox, workers, host>>
    BY DEF Crash
  <1>2. ASSUME NEW m \in mail
        PROVE  /\ n(m) \in Message /\ n(m).task = m.task /\ n(m).brief = m.brief
               /\ n(m).from # x /\ (m.from # x => n(m) = m) /\ (m.from = x => n(m).from = None)
    BY <1>2 DEF PartsOK, PostOK, Message
  <1> HIDE DEF n
  <1>3. actor'[x] = Down /\ \A y \in Actors : y # x => actor'[y] = actor[y]
    BY <1>1 DEF PartsOK
  <1>4. ProcessOK(x)'
    <2>1. \A m \in mail' : m.from # x
      BY <1>1, <1>2
    <2>2. Down.sent = Quiet
      BY DEF Down
    <2> QED
      BY <1>3, <2>1, <2>2, Resters, Memories, TaskFacts DEF Workers
  <1>5. accepted' = accepted /\ replies' = replies
    BY <1>1 DEF workers, host
  <1>6. \A y \in Actors : ProcessOK(y)'
    <2> SUFFICES ASSUME NEW y \in Actors, y # x PROVE ProcessOK(y)'
      BY <1>4
    <2>1. \A k : k.from = y => (k \in mail' <=> k \in mail)
      BY <1>1, <1>2
    <2> QED
      BY <1>3, <1>5, <2>1, OthersKeep DEF PartsOK
  <1>7. \A k \in mail' : MessageOK(k)'
    <2> SUFFICES ASSUME NEW k \in mail' PROVE MessageOK(k)'
      OBVIOUS
    <2>1. PICK m \in mail : k = n(m)
      BY <1>1
    <2>2. MessageOK(m) /\ m \in Message
      BY DEF PartsOK, PostOK
    <2>3. k.from # None => k = m /\ k.from # x /\ k.from \in Actors
      BY <1>2, <2>1, <2>2 DEF Message
    <2>4. MessageOK(k)
      BY <1>2, <2>1, <2>2, <2>3 DEF MessageOK
    <2> QED
      BY <1>3, <1>5, <2>3, <2>4, MessageKeep
  <1>8. FencesOK' /\ NeverForgotten' /\ OneAttempt' /\ ReadsPublished'
    BY <1>1, <1>5, FencesKeep
  <1>9. HostOK' /\ JournalTruthful'
    BY <1>1, <1>5 DEF PartsOK, HostOK, JournalTruthful, host
  <1>10. actor' \in [Actors -> Memory]
    BY <1>1, Memories DEF PartsOK, ActorOK
  <1>11. mail' \subseteq Message
    BY <1>1, <1>2
  <1> QED
    BY <1>6, <1>7, <1>8, <1>9, <1>10, <1>11 DEF PartsOK, PostOK

-----------------------------------------------------------------------------
(* The workers and the operator.                                           *)

\* A step that leaves the relay processes, their mail and their files alone.
LEMMA WorldStep ==
  ASSUME PartsOK, UNCHANGED <<actor, mail, host>>, accepted \subseteq accepted',
         request' \in [Parents -> Contents \cup {None}], inbox' \subseteq Parents,
         FencesOK', NeverForgotten', OneAttempt', ReadsPublished'
  PROVE  PartsOK'
  <1>1. \A y \in Actors : ProcessOK(y)'
    BY OthersKeep DEF PartsOK, host
  <1>2. \A m \in mail' : MessageOK(m)'
    BY MessageKeep DEF PartsOK, PostOK, host
  <1>3. HostOK' /\ JournalTruthful'
    BY DEF PartsOK, HostOK, JournalTruthful, host
  <1> QED
    BY <1>1, <1>2, <1>3 DEF PartsOK, PostOK

LEMMA StepOperatorTurn ==
  ASSUME PartsOK, NEW p \in Parents, OperatorTurn(p)
  PROVE  PartsOK'
  <1>1. /\ Turn(p) \in Tasks /\ Turn(p)[2] # Collator /\ WorkerOf(Turn(p)) \in alive
        /\ None \in Briefs
    <2>1. Turn(p) \in Tasks /\ WorkerOf(Turn(p)) = Collator /\ Turn(p)[2] = None
      BY TaskFacts
    <2>2. Collator \in alive
      BY DEF OperatorTurn
    <2>3. None \in Briefs
      BY DEF Briefs
    <2> QED
      BY <2>1, <2>2, <2>3, TaskFacts
  <1>2. /\ FencesOK' /\ NeverForgotten' /\ OneAttempt' /\ ReadsPublished'
        /\ accepted \subseteq accepted'
    BY <1>1, HandledOK DEF OperatorTurn, PartsOK
  <1>3. UNCHANGED <<actor, mail, host, request>> /\ inbox' = inbox \cup {p}
    BY DEF OperatorTurn, host
  <1> QED
    BY <1>2, <1>3, WorldStep DEF PartsOK, HostOK

LEMMA StepWriteRequest ==
  ASSUME PartsOK, NEW p \in Parents, NEW c \in Contents, WriteRequest(p, c)
  PROVE  PartsOK'
  <1>1. /\ UNCHANGED <<actor, mail, host, workers, inbox, replies>>
        /\ request' = [request EXCEPT ![p] = c]
    BY DEF WriteRequest, host
  <1>2. request' \in [Parents -> Contents \cup {None}] /\ inbox' \subseteq Parents
    BY <1>1 DEF PartsOK, HostOK
  <1> QED
    BY <1>1, <1>2, FencesKeep, WorldStep

LEMMA StepFinish ==
  ASSUME PartsOK, NEW w \in Workers, Finish(w)
  PROVE  PartsOK'
  <1>1. PICK ok \in BOOLEAN : done' = done \cup {[task |-> live[w], ok |-> ok]}
    BY DEF Finish
  <1>2. /\ UNCHANGED <<actor, mail, host, request, inbox, alive, accepted, replies>>
        /\ live' = [live EXCEPT ![w] = None] /\ live[w] # None
    BY DEF Finish, host
  <1>3. FencesOK /\ NeverForgotten /\ live[w] \in Tasks
    BY <1>2 DEF PartsOK, FencesOK
  <1>4. FencesOK'
    BY <1>1, <1>2, <1>3 DEF FencesOK
  <1>5. NeverForgotten'
    <2> SUFFICES ASSUME NEW a \in accepted
                 PROVE  \/ Completed(a.task)' \/ live'[WorkerOf(a.task)] = a.task
                        \/ WorkerOf(a.task) \notin alive
      BY <1>2 DEF NeverForgotten
    <2>1. CASE live[w] = a.task
      <3>1. [task |-> a.task, ok |-> ok] \in done'
        BY <1>1, <2>1
      <3> QED
        BY <3>1 DEF Completed
    <2>2. CASE live[w] # a.task
      <3>1. live[WorkerOf(a.task)] = a.task => live'[WorkerOf(a.task)] = a.task
        BY <1>2, <1>3, <2>2, TaskFacts DEF FencesOK
      <3>2. Completed(a.task) => Completed(a.task)'
        BY <1>1 DEF Completed
      <3> QED
        BY <1>3, <3>1, <3>2 DEF NeverForgotten
    <2> QED
      BY <2>1, <2>2
  <1>6. OneAttempt' /\ ReadsPublished'
    BY <1>2 DEF PartsOK, OneAttempt, ReadsPublished
  <1> QED
    BY <1>2, <1>4, <1>5, <1>6, WorldStep DEF PartsOK, HostOK

LEMMA StepDies ==
  ASSUME PartsOK, NEW w \in Workers, Dies(w)
  PROVE  PartsOK'
  <1>1. /\ UNCHANGED <<actor, mail, host, request, inbox, accepted, done, replies>>
        /\ alive' = alive \ {w} /\ live' = [live EXCEPT ![w] = None]
    BY DEF Dies, host
  <1>2. FencesOK /\ NeverForgotten
    BY DEF PartsOK
  <1>3. FencesOK'
    BY <1>1, <1>2 DEF FencesOK
  <1>4. NeverForgotten'
    <2> SUFFICES ASSUME NEW a \in accepted
                 PROVE  \/ Completed(a.task) \/ live'[WorkerOf(a.task)] = a.task
                        \/ WorkerOf(a.task) \notin alive'
      BY <1>1 DEF NeverForgotten, Completed
    <2>1. WorkerOf(a.task) # w => live'[WorkerOf(a.task)] = live[WorkerOf(a.task)]
      BY <1>1, <1>2, TaskFacts DEF FencesOK
    <2> QED
      BY <1>1, <1>2, <2>1 DEF NeverForgotten
  <1>5. OneAttempt' /\ ReadsPublished'
    BY <1>1 DEF PartsOK, OneAttempt, ReadsPublished
  <1> QED
    BY <1>1, <1>3, <1>4, <1>5, WorldStep DEF PartsOK, HostOK

-----------------------------------------------------------------------------
(* The theorems.                                                           *)

\* A console starts in order.
LEMMA Initially == Init => PartsOK
  <1> SUFFICES ASSUME Init PROVE PartsOK
    OBVIOUS
  <1>1. FencesOK /\ HostOK
    BY DEF Init, FencesOK, HostOK
  <1>2. \A x \in Actors : ActorOK(actor[x]) /\ actor[x].sent = Quiet /\ actor[x].pc \in Resting
    BY Memories DEF Init, Idle, Down
  <1>3. actor \in [Actors -> Memory]
    BY <1>2 DEF Init, ActorOK
  <1>4. \A x \in Actors : ProcessOK(x)
    BY <1>2, Memories, TaskFacts DEF Init, ProcessOK, Awaited, Resting, Workers
  <1>5. PostOK /\ NeverForgotten /\ OneAttempt /\ JournalTruthful /\ ReadsPublished
    BY DEF Init, PostOK, NeverForgotten, OneAttempt, JournalTruthful, ReadsPublished
  <1> QED
    BY <1>1, <1>3, <1>4, <1>5 DEF PartsOK

\* Whatever the relays, the workers and the network do, order is kept.
LEMMA Inductive == PartsOK /\ [Next]_vars => PartsOK'
  <1> SUFFICES ASSUME PartsOK, [Next]_vars PROVE PartsOK'
    OBVIOUS
  <1>1. ASSUME NEW x \in Actors, Pass(x) PROVE PartsOK'
    <2>1. ASSUME NEW p \in Parents, Skip(x, p) \/ Take(x, p) PROVE PartsOK'
      BY <2>1, StepSkip, StepTake
    <2> QED
      BY <1>1, <2>1, StepBeginPass, StepDecline, StepIssue, StepNoneLanded, StepHarvest,
         StepPublish, StepDeclare, StepCollate, StepRecord, StepEndPass DEF Pass
  <1>2. ASSUME NEW x \in Actors, PublishFails(x) \/ Crash(x) \/ StartActor(x) PROVE PartsOK'
    BY <1>2, StepPublishFails, StepCrash, StepStartActor
  <1>3. ASSUME NEW m \in mail, Deliver(m) \/ Unreachable(m) \/ Lost(m) PROVE PartsOK'
    BY <1>3, StepDeliver, StepUnreachable, StepLost
  <1>4. ASSUME NEW p \in Parents, OperatorTurn(p) PROVE PartsOK'
    BY <1>4, StepOperatorTurn
  <1>5. ASSUME NEW p \in Parents, NEW c \in Contents, WriteRequest(p, c) PROVE PartsOK'
    BY <1>5, StepWriteRequest
  <1>6. ASSUME NEW w \in Workers, Finish(w) \/ Dies(w) PROVE PartsOK'
    BY <1>6, StepFinish, StepDies
  <1>7. CASE UNCHANGED vars
    <2>1. UNCHANGED <<actor, mail, host, workers, request, inbox, replies>>
      BY <1>7 DEF vars, host, workers
    <2> QED
      BY <2>1, FencesKeep, WorldStep DEF PartsOK, HostOK
  <1> QED
    BY <1>1, <1>2, <1>3, <1>4, <1>5, <1>6, <1>7 DEF Next, Mailing

\* The conjunction of all that follows.
LEMMA Always == Spec => []PartsOK
  BY Initially, Inductive, PTL DEF Spec

\* The state keeps its shape, and a relay process waits for exactly the
\* dispatches it has under way.
THEOREM TypeCorrect == Spec => []TypeOK
  <1>1. PartsOK => TypeOK
    BY Parts DEF IInv
  <1> QED
    BY <1>1, Always, PTL

\* A lens reviews a parent at most once.
THEOREM ReviewsOnce == Spec => []ReviewedOnce
  <1>1. PartsOK => ReviewedOnce
    <2> SUFFICES ASSUME PartsOK, NEW a \in accepted, NEW b \in accepted,
                        a.task[1] = b.task[1], a.task[2] = b.task[2]
                 PROVE  a = b
      BY DEF ReviewedOnce
    <2>1. a.task \in Parents \X (Workers \cup {None}) /\ b.task \in Parents \X (Workers \cup {None})
      BY DEF PartsOK, FencesOK, Tasks
    <2>2. a.task = b.task
      BY <2>1
    <2> QED
      BY <2>2 DEF PartsOK, OneAttempt
  <1> QED
    BY <1>1, Always, PTL

\* A journalled child ran under the request the journal names.
THEOREM JournalTells == Spec => []JournalTruthful
  <1>1. PartsOK => JournalTruthful
    BY DEF PartsOK
  <1> QED
    BY <1>1, Always, PTL

\* A collation finds the reports its brief names.
THEOREM CollationsFindReports == Spec => []ReadsPublished
  <1>1. PartsOK => ReadsPublished
    BY DEF PartsOK
  <1> QED
    BY <1>1, Always, PTL
=============================================================================

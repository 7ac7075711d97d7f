--------------------------- MODULE Console_proofs ---------------------------
(***************************************************************************)
(* The safety of Console: its lock, its actors and its record, for any     *)
(* invocations, runs, actors and budgets of faults; the lock's exclusion   *)
(* for two invocations, which is all it promises.                          *)
(***************************************************************************)
EXTENDS Console, FiniteSetTheorems, TLAPS

\* `scripts/review` at most twice at a time.
AtMostTwo == \A a, b, c \in Scripts : a = b \/ b = c \/ a = c

Stopping == {"stop", "stopping", "remove"}
Locking == {"lock", "judge", "rename", "reclaim"}

\* Whoever the lock names took it and has not let go; whoever is judged came first.
HolderInv ==
    /\ lock = NoLock \/ lock.holder \in Scripts
    /\ \A s \in Scripts :
          /\ lock.holder = s => script[s].pc \in Locked \cup {"crashed"}
          /\ script[s].pc \in {"judge", "rename"} =>
                LET h == script[s].holder.holder IN
                /\ h \in Scripts \ {s} /\ script[h].pc # "idle"
                /\ script[s].pc = "rename" => ~ Running(h)

\* Of two, the one that takes a lock over is left alone with it.
PairInv ==
    AtMostTwo /\ ~ Crashed =>
        \A s \in Scripts :
           /\ script[s].pc \in Locked => lock.holder = s
           /\ script[s].pc \in {"rename", "reclaim"} =>
                 \A t \in Scripts \ {s} : script[t].pc \in {"done", "refused"}

\* One that has been alone since it began is alone.
AloneInv ==
    \A s, t \in Scripts : Running(s) /\ script[s].alone /\ Running(t) => t = s

\* It finds the lock as it left it, and its own record.
RerunInv ==
    \A s \in Scripts :
        /\ script[s].pc = "write" => script[s].target \in Actors
        /\ script[s].pc = "idle" => script[s].alone
        /\ script[s].alone =>
              /\ script[s].pc \in {"judge", "rename"} =>
                    lock # NoLock /\ lock = script[s].holder
              /\ script[s].pc = "reclaim" => lock = NoLock
              /\ script[s].pc = "release" =>
                    record.actor # 0 /\ record.run = script[s].run

\* Which actors may run, by what an invocation has read and done: the one that the
\* record names; none once that one was stopped or found dead; one's own.
RunningOnly(S) == \A a \in Actors : actor[a].state = "running" => a \in S
AccountInv ==
    Crashed \/ Overlapped \/
    /\ ActorAccounted
    /\ \A s \in Scripts :
        /\ script[s].pc \in Stopping /\ script[s].next = "lock" =>
              IF script[s].pc = "stop" THEN record.pinned ELSE script[s].seen # "unverifiable"
        /\ script[s].pc = "stopping" =>
              /\ script[s].seen = "live" => RunningOnly({script[s].target})
              /\ script[s].seen \in {"absent", "stale"} => RunningOnly({})
        /\ script[s].pc = "remove" /\ script[s].seen # "unverifiable" => RunningOnly({})
        /\ script[s].pc \in Locking \cup {"spawn"} => RunningOnly({})
        /\ script[s].pc = "write" => RunningOnly({script[s].target})

IInv == TypeOK /\ HolderInv /\ PairInv /\ AloneInv /\ RerunInv /\ AccountInv
-----------------------------------------------------------------------------
(* What most steps have in common.                                         *)

Pcs == Over \cup Locked \cup Stopping \cup Locking
       \cup {"ensure", "wait", "teardown", "down", "ready", "dispatch", "map", "read"}

\* A fault that happens is one less to happen.
LEMMA SpendIs ==
  ASSUME faults \in Budgets, NEW f \in {"crash", "capture", "death", "task", "close", "down",
                                       "throw"},
         Spend(f)
  PROVE  faults' \in Budgets
  <1> DEFINE n == faults[f] - 1
  <1>1. faults[f] \in Nat /\ n \in Nat
    BY DEF Budgets, Spend
  <1>2. faults' = [faults EXCEPT ![f] = n]
    BY DEF Spend
  <1> HIDE DEF n
  <1> QED BY <1>1, <1>2 DEF Budgets

\* One invocation moves.
Moves(s, q) == script' = [script EXCEPT ![s] = q]

\* What an invocation that moves leaves to the others.
LEMMA MoveIs ==
  ASSUME TypeOK, NEW s \in Scripts, NEW q \in Invocations, Moves(s, q)
  PROVE  /\ script' \in [Scripts -> Invocations]
         /\ script'[s] = q
         /\ \A t \in Scripts : t # s => script'[t] = script[t]
  BY DEF Moves, TypeOK

\* Going on changes nothing but where the invocation stands.
LEMMA GoIs ==
  ASSUME TypeOK, NEW s \in Scripts, NEW p \in Pcs, Go(s, p)
  PROVE  \E q \in Invocations : Moves(s, q) /\ q = [script[s] EXCEPT !.pc = p]
  <1> DEFINE q == [script[s] EXCEPT !.pc = p]
  <1>1. script[s] \in Invocations
    BY DEF TypeOK
  <1>2. q \in Invocations
    BY <1>1 DEF Invocations, Pcs, Stopping, Locking
  <1>3. Moves(s, q)
    BY DEF Go, Moves
  <1> QED BY <1>2, <1>3

\* An invocation that does not begin, end its crash or lose its solitude leaves
\* the others as alone as they were.
LEMMA StaysAlone ==
  ASSUME TypeOK, AloneInv, NEW s \in Scripts, NEW q \in Invocations, Moves(s, q),
         Running(s), q.alone = script[s].alone
  PROVE  /\ AloneInv'
         /\ Overlapped => Overlapped'
  <1>1. /\ script'[s] = q
        /\ \A t \in Scripts : t # s => script'[t] = script[t]
    BY MoveIs
  <1>2. \A t \in Scripts : script'[t].alone = script[t].alone /\ (Running(t)' => Running(t))
    BY <1>1 DEF Running
  <1>3. AloneInv'
    BY <1>2 DEF AloneInv
  <1>4. Overlapped => Overlapped'
    BY <1>2 DEF Overlapped
  <1> QED BY <1>3, <1>4

\* One that moved and did not crash makes nobody crash, and nobody recover.
LEMMA StaysWhole ==
  ASSUME TypeOK, NEW s \in Scripts, NEW q \in Invocations, Moves(s, q), Running(s)
  PROVE  Crashed => Crashed'
  <1>1. \A t \in Scripts : t # s => script'[t] = script[t]
    BY MoveIs
  <1>2. script[s].pc # "crashed"
    BY DEF Running, Over
  <1> QED BY <1>1, <1>2 DEF Crashed

\* A step of the world: the invocations, the record and the lock are what they
\* were, and no actor comes to run.
LEMMA WorldStep ==
  ASSUME IInv, TypeOK', UNCHANGED <<script, record, lock>>,
         \A a \in Actors : actor'[a].state = "running" => actor[a].state = "running"
  PROVE  IInv'
  <1>1. HolderInv'
    BY DEF IInv, HolderInv, Running
  <1>2. PairInv'
    BY DEF IInv, PairInv, Crashed
  <1>3. AloneInv'
    BY DEF IInv, AloneInv, Running
  <1>4. RerunInv'
    BY DEF IInv, RerunInv
  <1>5. AccountInv'
    <2>1. \A S : RunningOnly(S) => RunningOnly(S)'
      BY DEF RunningOnly
    <2>2. (Crashed' <=> Crashed) /\ (Overlapped' <=> Overlapped)
      BY DEF Crashed, Overlapped
    <2>3. ActorAccounted => ActorAccounted'
      BY <2>2 DEF ActorAccounted
    <2> QED BY <2>1, <2>2, <2>3 DEF IInv, AccountInv, RunningOnly
  <1> QED BY <1>1, <1>2, <1>3, <1>4, <1>5 DEF IInv

\* An invocation that neither works on the lock nor on the record.
Plain == {"ensure", "wait", "stop", "teardown", "down", "ready", "dispatch", "map", "read",
          "done", "refused"}

\* A step of one to a place where the lock is not its concern.
LEMMA LocklessStep ==
  ASSUME IInv, NEW s \in Scripts, NEW q \in Invocations, Moves(s, q), lock' = lock,
         Running(s), script[s].pc \notin Locked,
         q.pc \in Plain \cup {"stopping", "remove", "lock"}, q.alone = script[s].alone
  PROVE  HolderInv' /\ PairInv' /\ AloneInv' /\ RerunInv'
  <1>0. TypeOK
    BY DEF IInv
  <1>1. /\ script'[s] = q
        /\ \A t \in Scripts : t # s => script'[t] = script[t]
    BY <1>0, MoveIs
  <1>2. /\ \A t \in Scripts : Running(t)' => Running(t)
        /\ AloneInv' /\ (Crashed => Crashed')
    BY <1>0, <1>1, StaysAlone, StaysWhole DEF IInv, Running
  <1>3. HolderInv'
    <2>1. lock.holder # s
      BY DEF IInv, HolderInv, Running, Over
    <2>2. script[s].pc # "idle" /\ q.pc # "idle"
      BY DEF Running, Over, Plain
    <2> QED BY <1>1, <1>2, <2>1, <2>2 DEF IInv, HolderInv, Plain, Locked, Running
  <1>4. PairInv'
    <2>1. script[s].pc \notin {"done", "refused"}
      BY DEF Running, Over
    <2> QED BY <1>1, <1>2, <2>1 DEF IInv, PairInv, Plain, Locked
  <1>5. RerunInv'
    <2>1. ASSUME NEW t \in Scripts, t # s, script[t].alone, script[t].pc = "release"
          PROVE  FALSE
      BY <2>1 DEF IInv, AloneInv, Running, Over
    <2> QED BY <1>1, <2>1 DEF IInv, RerunInv, Plain
  <1> QED BY <1>2, <1>3, <1>4, <1>5

\* Nobody is overlapped or crashed who was not so before.
LEMMA StillAccounted ==
  ASSUME IInv, NEW s \in Scripts, NEW q \in Invocations, Moves(s, q),
         Running(s), q.alone = script[s].alone,
         ~ Crashed', ~ Overlapped'
  PROVE  /\ ~ Crashed /\ ~ Overlapped /\ AccountInv
         /\ \A t \in Scripts \ {s} : ~ Running(t) /\ script'[t] = script[t]
  <1>0. TypeOK /\ AccountInv
    BY DEF IInv
  <1>1. ~ Crashed /\ ~ Overlapped
    BY <1>0, StaysAlone, StaysWhole DEF IInv
  <1> QED BY <1>0, <1>1, MoveIs DEF IInv, AloneInv, Overlapped

\* A step of one to a place like that, which leaves actors and record alone.
LEMMA PlainStep ==
  ASSUME IInv, TypeOK', NEW s \in Scripts, NEW q \in Invocations, Moves(s, q),
         UNCHANGED <<actor, record, lock>>,
         Running(s), script[s].pc \notin Locked,
         q.pc \in Plain, q.alone = script[s].alone,
         q.pc = "stop" /\ q.next = "lock" => record.pinned
  PROVE  IInv'
  <1>0. TypeOK
    BY DEF IInv
  <1>1. script'[s] = q
    BY <1>0, MoveIs
  <1>2. HolderInv' /\ PairInv' /\ AloneInv' /\ RerunInv'
    BY LocklessStep
  <1>3. AccountInv'
    <2> SUFFICES ASSUME ~ Crashed', ~ Overlapped' PROVE AccountInv'
      BY DEF AccountInv
    <2>1. /\ ~ Crashed /\ ~ Overlapped /\ AccountInv
          /\ \A t \in Scripts \ {s} : ~ Running(t) /\ script'[t] = script[t]
      BY StillAccounted
    <2>2. ActorAccounted'
      BY <2>1 DEF AccountInv, ActorAccounted, Running, Locked, Over
    <2>3. \A S : RunningOnly(S) => RunningOnly(S)'
      BY DEF RunningOnly
    <2> QED BY <1>1, <2>1, <2>2, <2>3
         DEF AccountInv, Plain, Stopping, Locking, RunningOnly, Running, Over
  <1> QED BY <1>2, <1>3 DEF IInv

-----------------------------------------------------------------------------
(* The actors, the pane, the runs.                                         *)

\* Actors end, runs come and go, tasks are given and settled.
LEMMA WorldKeeps ==
  ASSUME IInv,
         \/ \E a \in Actors : Polls(a) \/ Terminated(a) \/ Dies(a)
         \/ \E r \in Runs : Boots(r) \/ Assign(r) \/ Settles(r)
         \/ Comes \/ Closes
  PROVE  IInv'
  <1>0. TypeOK /\ Tolerance \in Nat
    BY ConsoleConstants DEF IInv
  <1>1. UNCHANGED <<script, record, lock>>
    BY DEF Polls, Pass, PassThrows, Terminated, Dies, Boots, Assign, Settles, Comes, Closes, console
  <1>2. faults' \in Budgets
    BY <1>0, SpendIs DEF Polls, Pass, PassThrows, Terminated, Dies, Boots, Assign, Settles,
       Comes, Closes, TypeOK, console
  <1>3. CASE \E a \in Actors : Polls(a) \/ Terminated(a) \/ Dies(a)
    <2>1. PICK a \in Actors : Polls(a) \/ Terminated(a) \/ Dies(a)
      BY <1>3
    <2>2. UNCHANGED console
      BY <2>1 DEF Polls, Pass, PassThrows, Terminated, Dies
    <2>3. \/ actor' = [actor EXCEPT ![a].state = "gone"]
          \/ actor' = [actor EXCEPT ![a].gone = Streak(a)] /\ Streak(a) \in 0..Tolerance
          \/ actor' = actor
      <3>1. Streak(a) \in Nat
        BY <1>0 DEF Streak, TypeOK
      <3>2. ~ (Streak(a) >= Tolerance) => Streak(a) \in 0..Tolerance
        BY <1>0, <3>1
      <3>3. CASE Pass(a)
        <4>1. CASE Streak(a) >= Tolerance
          BY <3>3, <4>1 DEF Pass
        <4>2. CASE ~ (Streak(a) >= Tolerance)
          BY <3>2, <3>3, <4>2 DEF Pass
        <4> QED BY <4>1, <4>2
      <3>4. CASE Terminated(a) \/ Dies(a)
        BY <3>4 DEF Terminated, Dies
      <3>5. CASE PassThrows(a)
        BY <3>5 DEF PassThrows
      <3> QED BY <2>1, <3>3, <3>4, <3>5 DEF Polls
    <2> DEFINE g == Streak(a)
    <2>4. \/ actor' = [actor EXCEPT ![a].state = "gone"]
          \/ actor' = [actor EXCEPT ![a].gone = g] /\ g \in 0..Tolerance
          \/ actor' = actor
      BY <2>3
    <2> HIDE DEF g
    <2>5. /\ actor' \in [Actors -> [state : {"unborn", "running", "stopping", "gone"},
                                    run : 0..MaxRuns, gone : 0..Tolerance]]
          /\ \A b \in Actors : actor'[b].state = "running" => actor[b].state = "running"
      BY <1>0, <2>4 DEF TypeOK
    <2>6. TypeOK'
      BY <1>0, <1>1, <1>2, <2>2, <2>5 DEF TypeOK, console
    <2> QED BY <1>1, <2>5, <2>6, WorldStep
  <1>4. CASE \/ \E r \in Runs : Boots(r) \/ Assign(r) \/ Settles(r)
             \/ Comes \/ Closes
    <2>1. actor' = actor
      BY <1>4 DEF Boots, Assign, Settles, Comes, Closes
    <2>2. run' \in [Runs -> {"unborn", "booting", "live", "down"}]
          /\ work' \in [Runs -> BOOLEAN]
          /\ pane' \in {"closed", "coming", "held"}
      <3>1. CASE \E r \in Runs : Boots(r) \/ Assign(r) \/ Settles(r)
        BY <1>0, <3>1 DEF Boots, Assign, Settles, TypeOK
      <3>2. CASE Comes
        BY <1>0, <3>2 DEF Comes, TypeOK
      <3>3. CASE Closes
        BY <1>0, <3>3 DEF Closes, TypeOK
      <3> QED BY <1>4, <3>1, <3>2, <3>3
    <2>3. TypeOK'
      BY <1>0, <1>1, <1>2, <2>1, <2>2 DEF TypeOK
    <2> QED BY <1>1, <2>1, <2>3, WorldStep
  <1> QED BY <1>3, <1>4

-----------------------------------------------------------------------------
(* Rebuilding the console.                                                 *)

\* The run `status` pins is a run, or none.
LEMMA PinIs == TypeOK => Pin \in 0..MaxRuns /\ (Pin # 0 => Pin \in Live)
  <1>1. MaxRuns \in Nat /\ Live \subseteq 1..MaxRuns
    BY ConsoleConstants DEF Live, Runs
  <1>2. Cardinality(Live) = 1 => Live # {}
    BY FS_EmptySet
  <1>3. CASE Cardinality(Live) = 1
    <2>1. Pin = CHOOSE r \in Live : TRUE
      BY <1>3 DEF Pin
    <2>2. Pin \in Live
      BY <1>2, <1>3, <2>1
    <2> QED BY <1>1, <2>2
  <1>4. CASE Cardinality(Live) # 1
    BY <1>1, <1>4 DEF Pin
  <1> QED BY <1>3, <1>4

\* Waiting for the worker, taking its runs down, respawning, awaiting, dispatching,
\* and resolving the run: neither the lock, nor the record, nor an actor.
LEMMA RebuildKeeps ==
  ASSUME IInv, NEW s \in Scripts,
         \/ Wait(s) \/ Busy(s) \/ Teardown(s) \/ Down(s) \/ DownFails(s) \/ Respawn(s)
         \/ NoPane(s) \/ Ready(s) \/ NotReady(s) \/ Dispatch(s) \/ Ensure(s) \/ Map(s)
  PROVE  IInv'
  <1>0. TypeOK /\ script[s] \in Invocations
    BY DEF IInv, TypeOK
  <1>1. UNCHANGED <<actor, record, lock>>
    BY DEF Wait, Busy, Teardown, Down, DownFails, Respawn, NoPane, Ready, NotReady, Dispatch,
       Ensure, Map
  <1>2. faults' \in Budgets
    BY <1>0, SpendIs DEF Wait, Busy, Teardown, Down, DownFails, Respawn, NoPane, Ready,
       NotReady, Dispatch, Ensure, Map, TypeOK
  <1>3. /\ run' \in [Runs -> {"unborn", "booting", "live", "down"}]
        /\ work' \in [Runs -> BOOLEAN]
        /\ pane' \in {"closed", "coming", "held"}
    <2>1. CASE Down(s)
      BY <1>0, <2>1 DEF Down, TypeOK
    <2>2. CASE Respawn(s) \/ Dispatch(s) \/ Ensure(s)
      BY <1>0, <2>2 DEF Respawn, Dispatch, Ensure, TypeOK
    <2>3. CASE ~ (Down(s) \/ Respawn(s) \/ Dispatch(s) \/ Ensure(s))
      BY <1>0, <2>3 DEF Wait, Busy, Teardown, DownFails, NoPane, Ready, NotReady, Map, TypeOK,
         console
    <2> QED BY <2>1, <2>2, <2>3
  <1>4. Running(s) /\ script[s].pc \notin Locked
    BY DEF Wait, Busy, Teardown, Down, DownFails, Respawn, NoPane, Ready, NotReady, Dispatch,
       Ensure, Map, Running, Over, Locked
  <1>5. \E q \in Invocations :
           /\ Moves(s, q) /\ q.pc \in Plain /\ q.alone = script[s].alone
           /\ q.pc = "stop" => q.next # "lock"
    <2> DEFINE Good(q) == /\ Moves(s, q) /\ q.pc \in Plain /\ q.alone = script[s].alone
                          /\ q.pc = "stop" => q.next # "lock"
    <2>1. ASSUME NEW p \in Plain \ {"stop"}, Go(s, p) PROVE \E q \in Invocations : Good(q)
      <3>1. p \in Pcs
        BY DEF Plain, Pcs, Over, Stopping, Locking
      <3>2. PICK q \in Invocations : Moves(s, q) /\ q = [script[s] EXCEPT !.pc = p]
        BY <1>0, <2>1, <3>1, GoIs
      <3> QED BY <1>0, <3>2 DEF Invocations
    <2>2. CASE Busy(s) \/ Respawn(s) \/ NoPane(s) \/ NotReady(s) \/ Dispatch(s) \/ Ensure(s)
      <3>1. \E p \in Plain \ {"stop"} : Go(s, p)
        BY <2>2 DEF Busy, Respawn, NoPane, NotReady, Dispatch, Ensure, Plain
      <3> QED BY <2>1, <3>1
    <2>3. CASE Wait(s)
      <3> DEFINE H == Holding
                 q == [script[s] EXCEPT !.pc = "stop", !.next = "down", !.previous = H, !.left = H]
      <3>1. H \in SUBSET Runs /\ Moves(s, q)
        BY <1>0, <2>3 DEF Wait, Moves, Holding, TypeOK
      <3> HIDE DEF H
      <3>2. q \in Invocations /\ q.pc = "stop" /\ q.next = "down" /\ q.alone = script[s].alone
        BY <1>0, <3>1 DEF Invocations
      <3> HIDE DEF q
      <3> QED BY <3>1, <3>2 DEF Plain
    <2>4. CASE Teardown(s)
      <3> DEFINE H == Holding
                 q == [script[s] EXCEPT !.pc = "down", !.previous = H, !.left = H]
      <3>1. H \in SUBSET Runs /\ Moves(s, q)
        BY <1>0, <2>4 DEF Teardown, Moves, Holding, TypeOK
      <3> HIDE DEF H
      <3>2. q \in Invocations /\ q.pc = "down" /\ q.alone = script[s].alone
        BY <1>0, <3>1 DEF Invocations
      <3> HIDE DEF q
      <3> QED BY <3>1, <3>2 DEF Plain
    <2>5. CASE Down(s) \/ DownFails(s)
      <3>1. PICK r \in script[s].left : script' = [script EXCEPT ![s].left = @ \ {r}]
        BY <2>5 DEF Down, DownFails
      <3> DEFINE H == script[s].left \ {r}
                 q == [script[s] EXCEPT !.left = H]
      <3>2. H \in SUBSET Runs /\ Moves(s, q)
        BY <1>0, <3>1 DEF Invocations, Moves, TypeOK
      <3>3. script[s].pc = "down"
        BY <2>5 DEF Down, DownFails
      <3> HIDE DEF H
      <3>4. q \in Invocations /\ q.pc = "down" /\ q.alone = script[s].alone
        BY <1>0, <3>2, <3>3 DEF Invocations
      <3> HIDE DEF q
      <3> QED BY <3>2, <3>4 DEF Plain
    <2>6. CASE Ready(s)
      <3>1. PICK r \in Live : script' = [script EXCEPT ![s].pc = "dispatch", ![s].target = r]
        BY <2>6 DEF Ready
      <3> DEFINE q == [script[s] EXCEPT !.pc = "dispatch", !.target = r]
      <3>2. r \in Nat
        BY ConsoleConstants DEF Live, Runs
      <3>3. Moves(s, q)
        BY <1>0, <3>1 DEF Moves, TypeOK
      <3>4. q \in Invocations /\ q.pc = "dispatch" /\ q.alone = script[s].alone
        BY <1>0, <3>2 DEF Invocations
      <3> HIDE DEF q
      <3> QED BY <3>3, <3>4 DEF Plain
    <2>7. CASE Map(s)
      <3> DEFINE r == Pin
                 q == [script[s] EXCEPT !.pc = "read", !.run = r]
      <3>1. r \in 0..MaxRuns
        BY <1>0, PinIs
      <3>3. Moves(s, q)
        BY <2>7 DEF Map, Moves
      <3> HIDE DEF r
      <3>2. q \in Invocations /\ q.pc = "read" /\ q.alone = script[s].alone
        BY <1>0, <3>1 DEF Invocations
      <3> HIDE DEF q
      <3> QED BY <3>2, <3>3 DEF Plain
    <2> QED BY <2>2, <2>3, <2>4, <2>5, <2>6, <2>7
  <1>6. PICK q \in Invocations :
           /\ Moves(s, q) /\ q.pc \in Plain /\ q.alone = script[s].alone
           /\ q.pc = "stop" => q.next # "lock"
    BY <1>5
  <1>7. TypeOK'
    BY <1>0, <1>1, <1>2, <1>3, <1>6, MoveIs DEF TypeOK
  <1> QED BY <1>1, <1>4, <1>6, <1>7, PlainStep

-----------------------------------------------------------------------------
(* Reading and removing the record.                                        *)

\* readRelayStatus, while nobody is about to write the record: which actors may run.
LEMMA StatusIs ==
  ASSUME TypeOK
  PROVE  /\ RecordStatus \in {"absent", "stale", "live", "unverifiable"}
         /\ RecordStatus = "live" => record.pinned
         /\ ActorAccounted /\ ~ Crashed /\ ~ Overlapped
            /\ (\A t \in Scripts : script[t].pc # "write") =>
               /\ RunningOnly({record.actor})
               /\ RecordStatus \in {"absent", "stale"} => RunningOnly({})
  <1>1. /\ RecordStatus \in {"absent", "stale", "live", "unverifiable"}
        /\ RecordStatus = "live" => record.pinned
    BY DEF RecordStatus
  <1>2. ASSUME ActorAccounted, ~ Crashed, ~ Overlapped,
               \A t \in Scripts : script[t].pc # "write"
        PROVE  /\ RunningOnly({record.actor})
               /\ RecordStatus \in {"absent", "stale"} => RunningOnly({})
    <2>1. RunningOnly({record.actor})
      BY <1>2 DEF ActorAccounted, RunningOnly
    <2>2. RecordStatus \in {"absent", "stale"} => record.actor = 0 \/ ~ Exists(record.actor)
      BY DEF RecordStatus
    <2>3. \A a \in Actors : a # 0
      BY ConsoleConstants DEF Actors
    <2> QED BY <2>1, <2>2, <2>3 DEF RunningOnly, Exists
  <1> QED BY <1>1, <1>2

\* stopRelay reads the record.
LEMMA StopReadKeeps == ASSUME IInv, NEW s \in Scripts, StopRead(s) PROVE IInv'
  <1>0. TypeOK /\ script[s] \in Invocations /\ script[s].pc = "stop"
    BY DEF IInv, TypeOK, StopRead
  <1>1. UNCHANGED <<run, work, pane, actor, record, lock, faults>>
    BY DEF StopRead, console
  <1> DEFINE st == RecordStatus
             a == record.actor
             q == [script[s] EXCEPT !.pc = "stopping", !.seen = st, !.target = a]
  <1>2. st \in {"absent", "stale", "live", "unverifiable"} /\ a \in Nat
    BY <1>0, StatusIs, ConsoleConstants DEF TypeOK
  <1>3. Moves(s, q)
    BY <1>0 DEF StopRead, Moves, TypeOK
  <1> HIDE DEF st, a
  <1>4. /\ q \in Invocations /\ q.pc = "stopping" /\ q.seen = st /\ q.target = a
        /\ q.alone = script[s].alone /\ q.next = script[s].next
    BY <1>0, <1>2 DEF Invocations
  <1> HIDE DEF q
  <1>5. TypeOK' /\ script'[s] = q
    BY <1>0, <1>1, <1>3, <1>4, MoveIs DEF TypeOK
  <1>6. Running(s) /\ script[s].pc \notin Locked
    BY <1>0 DEF Running, Over, Locked
  <1>7. HolderInv' /\ PairInv' /\ AloneInv' /\ RerunInv'
    BY <1>1, <1>3, <1>4, <1>6, LocklessStep
  <1>8. AccountInv'
    <2> SUFFICES ASSUME ~ Crashed', ~ Overlapped' PROVE AccountInv'
      BY DEF AccountInv
    <2>1. /\ ~ Crashed /\ ~ Overlapped /\ AccountInv
          /\ \A t \in Scripts \ {s} : ~ Running(t) /\ script'[t] = script[t]
      BY <1>3, <1>4, <1>6, StillAccounted
    <2>2. \A t \in Scripts : script[t].pc # "write"
      BY <1>0, <2>1 DEF Running, Over
    <2>3. /\ ActorAccounted /\ RunningOnly({a}) /\ (st \in {"absent", "stale"} => RunningOnly({}))
          /\ st = "live" => record.pinned
      BY <1>0, <2>1, <2>2, StatusIs DEF AccountInv, st, a
    <2>4. script[s].next = "lock" => st # "unverifiable"
      <3>1. script[s].next = "lock" => record.pinned
        BY <1>0, <2>1 DEF AccountInv, Stopping
      <3> QED BY <3>1 DEF st, RecordStatus
    <2>5. ActorAccounted'
      BY <1>1, <2>1, <2>2, <2>3 DEF ActorAccounted
    <2>6. \A S : RunningOnly(S) => RunningOnly(S)'
      BY <1>1 DEF RunningOnly
    <2> QED BY <1>4, <1>5, <2>1, <2>3, <2>4, <2>5, <2>6
         DEF AccountInv, Stopping, Locking, RunningOnly, Running, Over
  <1> QED BY <1>5, <1>7, <1>8 DEF IInv

\* It signals the actor it read of, if that one runs.
LEMMA StopSignalKeeps == ASSUME IInv, NEW s \in Scripts, StopSignal(s) PROVE IInv'
  <1>0. TypeOK /\ script[s] \in Invocations /\ script[s].pc = "stopping"
    BY DEF IInv, TypeOK, StopSignal
  <1>1. UNCHANGED <<run, work, pane, record, lock, faults>>
    BY DEF StopSignal, console
  <1>2. PICK q \in Invocations : Moves(s, q) /\ q = [script[s] EXCEPT !.pc = "remove"]
    BY <1>0, GoIs DEF StopSignal, Pcs, Stopping
  <1>3. /\ q.pc = "remove" /\ q.seen = script[s].seen
        /\ q.alone = script[s].alone /\ q.next = script[s].next
    BY <1>0, <1>2 DEF Invocations
  <1> DEFINE a == script[s].target
  <1>4. actor' = IF script[s].seen = "live" /\ Exists(a)
                 THEN [actor EXCEPT ![a].state = "stopping"] ELSE actor
    BY DEF StopSignal
  <1>5. /\ actor' \in [Actors -> [state : {"unborn", "running", "stopping", "gone"},
                                  run : 0..MaxRuns, gone : 0..Tolerance]]
        /\ \A b \in Actors : actor'[b].state = "running" =>
              actor[b].state = "running" /\ ~ (script[s].seen = "live" /\ b = a)
    <2>1. \A b \in Actors : b # 0
      BY ConsoleConstants DEF Actors
    <2> QED BY <1>0, <1>4, <2>1 DEF TypeOK, Exists
  <1>6. TypeOK' /\ script'[s] = q
    BY <1>0, <1>1, <1>2, <1>5, MoveIs DEF TypeOK
  <1>7. Running(s) /\ script[s].pc \notin Locked
    BY <1>0 DEF Running, Over, Locked
  <1>8. HolderInv' /\ PairInv' /\ AloneInv' /\ RerunInv'
    BY <1>1, <1>2, <1>3, <1>7, LocklessStep
  <1>9. AccountInv'
    <2> SUFFICES ASSUME ~ Crashed', ~ Overlapped' PROVE AccountInv'
      BY DEF AccountInv
    <2>1. /\ ~ Crashed /\ ~ Overlapped /\ AccountInv
          /\ \A t \in Scripts \ {s} : ~ Running(t) /\ script'[t] = script[t]
      BY <1>2, <1>3, <1>7, StillAccounted
    <2>2. ActorAccounted'
      BY <1>0, <1>1, <1>5, <2>1 DEF AccountInv, ActorAccounted, Running, Over
    <2>3. script[s].seen # "unverifiable" => RunningOnly({})'
      <3>1. CASE script[s].seen = "live"
        <4>1. RunningOnly({a})
          BY <1>0, <2>1, <3>1 DEF AccountInv
        <4> QED BY <1>5, <3>1, <4>1 DEF RunningOnly
      <3>2. CASE script[s].seen \in {"absent", "stale"}
        <4>1. RunningOnly({})
          BY <1>0, <2>1, <3>2 DEF AccountInv
        <4> QED BY <1>5, <4>1 DEF RunningOnly
      <3> QED BY <1>0, <3>1, <3>2 DEF Invocations
    <2>4. script[s].next = "lock" => script[s].seen # "unverifiable"
      BY <1>0, <2>1 DEF AccountInv, Stopping
    <2> QED BY <1>3, <1>6, <2>1, <2>2, <2>3, <2>4
         DEF AccountInv, Stopping, Locking, RunningOnly, Running, Over
  <1> QED BY <1>6, <1>8, <1>9 DEF IInv

\* It removes the file, unless it could not tell whose it is.
LEMMA StopRemoveKeeps == ASSUME IInv, NEW s \in Scripts, StopRemove(s) PROVE IInv'
  <1>0. TypeOK /\ script[s] \in Invocations /\ script[s].pc = "remove"
    BY DEF IInv, TypeOK, StopRemove
  <1>1. UNCHANGED <<run, work, pane, actor, lock, faults>>
    BY DEF StopRemove, console
  <1> DEFINE p == script[s].next
  <1>2. p \in {"map", "teardown", "down", "lock"}
    BY <1>0 DEF Invocations
  <1>3. PICK q \in Invocations : Moves(s, q) /\ q = [script[s] EXCEPT !.pc = p]
    BY <1>0, <1>2, GoIs DEF StopRemove, Pcs, Locking
  <1>4. q.pc = p /\ q.alone = script[s].alone /\ q.pc \in {"map", "teardown", "down", "lock"}
    BY <1>0, <1>2, <1>3 DEF Invocations
  <1>5. /\ record' = record \/ (record' = NoRecord /\ script[s].seen # "unverifiable")
        /\ record' \in [actor : 0..MaxActors, run : 0..MaxRuns, pinned : BOOLEAN]
    <2>1. 0 \in 0..MaxActors /\ 0 \in 0..MaxRuns
      BY ConsoleConstants
    <2> QED BY <1>0, <2>1 DEF StopRemove, Removed, NoRecord, TypeOK
  <1>6. TypeOK' /\ script'[s] = q
    BY <1>0, <1>1, <1>3, <1>5, MoveIs DEF TypeOK
  <1>7. Running(s) /\ script[s].pc \notin Locked
    BY <1>0 DEF Running, Over, Locked
  <1>8. HolderInv' /\ PairInv' /\ AloneInv' /\ RerunInv'
    BY <1>1, <1>3, <1>4, <1>7, LocklessStep DEF Plain
  <1>9. AccountInv'
    <2> SUFFICES ASSUME ~ Crashed', ~ Overlapped' PROVE AccountInv'
      BY DEF AccountInv
    <2>1. /\ ~ Crashed /\ ~ Overlapped /\ AccountInv
          /\ \A t \in Scripts \ {s} : ~ Running(t) /\ script'[t] = script[t]
      BY <1>3, <1>4, <1>7, StillAccounted
    <2>2. script[s].seen # "unverifiable" => RunningOnly({})
      BY <1>0, <2>1 DEF AccountInv
    <2>3. p = "lock" => script[s].seen # "unverifiable"
      BY <1>0, <2>1 DEF AccountInv, Stopping
    <2>4. ActorAccounted'
      BY <1>0, <1>1, <1>5, <2>1, <2>2 DEF AccountInv, ActorAccounted, RunningOnly, Running, Over
    <2>5. RunningOnly({}) => RunningOnly({})'
      BY <1>1 DEF RunningOnly
    <2> QED BY <1>4, <1>6, <2>1, <2>2, <2>3, <2>4, <2>5
         DEF AccountInv, Stopping, Locking, RunningOnly, Running, Over
  <1> QED BY <1>6, <1>8, <1>9 DEF IInv

\* startRelay: a record that names nobody who runs leaves the way to the lock free.
LEMMA ReadKeeps == ASSUME IInv, NEW s \in Scripts, Read(s) PROVE IInv'
  <1>0. TypeOK /\ script[s] \in Invocations /\ script[s].pc = "read"
    BY DEF IInv, TypeOK, Read
  <1>1. UNCHANGED <<run, work, pane, actor, record, lock, faults>>
    BY DEF Read, console
  <1> DEFINE st == RecordStatus
             p == IF \/ st = "unverifiable" \/ script[s].run = 0
                     \/ st = "live" /\ Serves(script[s].run)
                  THEN "done" ELSE IF st = "live" THEN "stop" ELSE "lock"
             q == [script[s] EXCEPT !.seen = st, !.next = "lock", !.pc = p]
  <1>2. st \in {"absent", "stale", "live", "unverifiable"} /\ (st = "live" => record.pinned)
    BY <1>0, StatusIs
  <1>3. Moves(s, q)
    BY <1>0 DEF Read, Moves, TypeOK
  <1> HIDE DEF st
  <1>4. /\ p \in {"done", "stop", "lock"} /\ (p = "stop" => st = "live")
        /\ p = "lock" => st \in {"absent", "stale"}
    BY <1>2
  <1> HIDE DEF p
  <1>5. /\ q \in Invocations /\ q.pc = p /\ q.alone = script[s].alone
    <2>1. [script[s] EXCEPT !.seen = st, !.next = "lock"] \in Invocations
      BY <1>0, <1>2 DEF Invocations
    <2>2. q = [[script[s] EXCEPT !.seen = st, !.next = "lock"] EXCEPT !.pc = p]
      BY <1>0 DEF Invocations
    <2> DEFINE r == [script[s] EXCEPT !.seen = st, !.next = "lock"]
    <2>3. r \in Invocations /\ r.alone = script[s].alone /\ q = [r EXCEPT !.pc = p]
      BY <1>0, <2>1, <2>2 DEF Invocations
    <2> HIDE DEF r, q
    <2> QED BY <1>4, <2>3 DEF Invocations, Over
  <1> HIDE DEF q
  <1>6. TypeOK' /\ script'[s] = q
    BY <1>0, <1>1, <1>3, <1>5, MoveIs DEF TypeOK
  <1>7. Running(s) /\ script[s].pc \notin Locked
    BY <1>0 DEF Running, Over, Locked
  <1>8. CASE p # "lock"
    BY <1>1, <1>2, <1>3, <1>4, <1>5, <1>6, <1>7, <1>8, PlainStep DEF Plain
  <1>9. CASE p = "lock"
    <2>1. HolderInv' /\ PairInv' /\ AloneInv' /\ RerunInv'
      BY <1>1, <1>3, <1>5, <1>7, <1>9, LocklessStep
    <2>2. AccountInv'
      <3> SUFFICES ASSUME ~ Crashed', ~ Overlapped' PROVE AccountInv'
        BY DEF AccountInv
      <3>1. /\ ~ Crashed /\ ~ Overlapped /\ AccountInv
            /\ \A t \in Scripts \ {s} : ~ Running(t) /\ script'[t] = script[t]
        BY <1>3, <1>5, <1>7, StillAccounted
      <3>2. \A t \in Scripts : script[t].pc # "write"
        BY <1>0, <3>1 DEF Running, Over
      <3>3. ActorAccounted /\ RunningOnly({})
        BY <1>0, <1>4, <1>9, <3>1, <3>2, StatusIs DEF AccountInv, st
      <3>4. ActorAccounted' /\ RunningOnly({})'
        BY <1>1, <3>3 DEF ActorAccounted, RunningOnly
      <3> QED BY <1>5, <1>6, <1>9, <3>1, <3>4
           DEF AccountInv, Stopping, Locking, Running, Over
    <2> QED BY <1>6, <2>1, <2>2 DEF IInv
  <1> QED BY <1>8, <1>9

-----------------------------------------------------------------------------
(* The lock and the actor.                                                 *)

\* An invocation that works on the lock or holds it: what is common.
LEMMA LockStep ==
  ASSUME IInv, NEW s \in Scripts, NEW q \in Invocations, Moves(s, q),
         Running(s), q.alone = script[s].alone, q.pc # "idle",
         lock' = NoLock \/ lock'.holder \in Scripts,
         \A t \in Scripts : lock'.holder = t => script'[t].pc \in Locked \cup {"crashed"},
         q.pc \in {"judge", "rename"} =>
             LET h == q.holder.holder IN
             /\ h \in Scripts \ {s} /\ script[h].pc # "idle"
             /\ q.pc = "rename" => ~ Running(h)
  PROVE  HolderInv' /\ AloneInv'
  <1>0. TypeOK
    BY DEF IInv
  <1>1. /\ script'[s] = q
        /\ \A t \in Scripts : t # s => script'[t] = script[t]
    BY <1>0, MoveIs
  <1>2. AloneInv' /\ \A t \in Scripts : Running(t)' => Running(t)
    BY <1>0, <1>1, StaysAlone DEF IInv, Running
  <1>3. ASSUME NEW t \in Scripts, script'[t].pc \in {"judge", "rename"},
               NEW h, h = script'[t].holder.holder
        PROVE  /\ h \in Scripts \ {t} /\ script'[h].pc # "idle"
               /\ script'[t].pc = "rename" => ~ (script'[h].pc \notin Over)
    <2>1. h \in Scripts \ {t} /\ script[h].pc # "idle"
          /\ (script'[t].pc = "rename" => ~ Running(h))
      <3>1. CASE t = s
        BY <1>1, <1>3, <3>1
      <3>2. CASE t # s
        BY <1>1, <1>3, <3>2 DEF IInv, HolderInv
      <3> QED BY <3>1, <3>2
    <2> QED BY <1>1, <1>2, <2>1 DEF Running
  <1>4. HolderInv'
    BY <1>3 DEF HolderInv, Running
  <1> QED BY <1>2, <1>4

\* What of the rerun and of the actors' account is left to the others.
LEMMA LoneRerun ==
  ASSUME IInv, NEW s \in Scripts, NEW q \in Invocations, Moves(s, q), Running(s),
         q.pc # "idle",
         q.pc = "write" => q.target \in Actors,
         q.alone =>
              /\ q.pc \in {"judge", "rename"} => lock' # NoLock /\ lock' = q.holder
              /\ q.pc = "reclaim" => lock' = NoLock
              /\ q.pc = "release" => record'.actor # 0 /\ record'.run = q.run
  PROVE  RerunInv'
  <1>1. /\ script'[s] = q
        /\ \A t \in Scripts : t # s => script'[t] = script[t]
    BY MoveIs DEF IInv
  <1>2. ASSUME NEW t \in Scripts, t # s, script[t].alone PROVE ~ Running(t)
    BY <1>2 DEF IInv, AloneInv
  <1> QED BY <1>1, <1>2 DEF IInv, RerunInv, Running, Over

\* The lock is taken: by the first who finds it free.
LEMMA ClaimKeeps ==
  ASSUME IInv, NEW s \in Scripts, script[s].pc \in {"lock", "reclaim"}, lock = NoLock,
         Claimed(s), Go(s, "spawn"), UNCHANGED <<console, actor, record>>
  PROVE  IInv'
  <1>0. TypeOK /\ script[s] \in Invocations
    BY DEF IInv, TypeOK
  <1>1. PICK known \in BOOLEAN : lock' = [holder |-> s, pinned |-> known]
    BY DEF Claimed
  <1>2. lock' \in Locks /\ lock'.holder = s
    BY <1>1 DEF Locks
  <1>3. faults' \in Budgets
    BY <1>0, SpendIs DEF Claimed, TypeOK
  <1>4. PICK q \in Invocations : Moves(s, q) /\ q = [script[s] EXCEPT !.pc = "spawn"]
    BY <1>0, GoIs DEF Pcs, Locked
  <1>5. q.pc = "spawn" /\ q.alone = script[s].alone
    BY <1>0, <1>4 DEF Invocations
  <1>6. /\ TypeOK' /\ script'[s] = q
        /\ \A t \in Scripts : t # s => script'[t] = script[t]
    BY <1>0, <1>2, <1>3, <1>4, MoveIs DEF TypeOK, console
  <1>7. Running(s)
    BY DEF Running, Over
  <1>8. HolderInv' /\ AloneInv'
    BY <1>2, <1>4, <1>5, <1>6, <1>7, LockStep DEF Locked
  <1>9. PairInv'
    <2> SUFFICES ASSUME AtMostTwo, ~ Crashed' PROVE PairInv'
      BY DEF PairInv
    <2>1. ~ Crashed
      BY <1>0, <1>4, <1>7, StaysWhole
    <2>2. \A t \in Scripts : script[t].pc \notin Locked
      BY <2>1, ConsoleConstants DEF IInv, PairInv, NoLock
    <2>3. \A t \in Scripts \ {s} : script[t].pc \notin {"rename", "reclaim"}
      BY <2>1, <1>7 DEF IInv, PairInv, Running, Over
    <2> QED BY <1>2, <1>5, <1>6, <2>2, <2>3 DEF PairInv
  <1>10. RerunInv'
    BY <1>4, <1>5, <1>7, LoneRerun
  <1>11. AccountInv'
    <2> SUFFICES ASSUME ~ Crashed', ~ Overlapped' PROVE AccountInv'
      BY DEF AccountInv
    <2>1. /\ ~ Crashed /\ ~ Overlapped /\ AccountInv
          /\ \A t \in Scripts \ {s} : ~ Running(t) /\ script'[t] = script[t]
      BY <1>4, <1>5, <1>7, StillAccounted
    <2>2. RunningOnly({})'
      BY <2>1 DEF AccountInv, Locking, RunningOnly
    <2>3. ActorAccounted'
      BY <2>2 DEF ActorAccounted, RunningOnly
    <2> QED BY <1>5, <1>6, <2>1, <2>2, <2>3
         DEF AccountInv, Stopping, Locking, RunningOnly, Running, Over
  <1> QED BY <1>6, <1>8, <1>9, <1>10, <1>11 DEF IInv

\* The lock's holder is read, and found alive.
LEMMA ContendedKeeps == ASSUME IInv, NEW s \in Scripts, Contended(s) PROVE IInv'
  <1>0. TypeOK /\ script[s] \in Invocations /\ script[s].pc = "lock" /\ lock # NoLock
        /\ lock \in Locks
    BY DEF IInv, TypeOK, Contended
  <1>1. UNCHANGED <<run, work, pane, actor, record, lock, faults>>
    BY DEF Contended, console
  <1> DEFINE l == lock
             q == [script[s] EXCEPT !.pc = "judge", !.holder = l]
  <1>2. Moves(s, q)
    BY <1>0 DEF Contended, Moves, TypeOK
  <1> HIDE DEF l
  <1>3. /\ q \in Invocations /\ q.pc = "judge" /\ q.holder = l
        /\ q.alone = script[s].alone
    BY <1>0 DEF Invocations, l
  <1> HIDE DEF q
  <1>4. /\ TypeOK' /\ script'[s] = q
        /\ \A t \in Scripts : t # s => script'[t] = script[t]
    BY <1>0, <1>1, <1>2, <1>3, MoveIs DEF TypeOK
  <1>5. Running(s)
    BY <1>0 DEF Running, Over
  <1>6. l = lock /\ l.holder \in Scripts \ {s} /\ script[l.holder].pc \in Locked \cup {"crashed"}
    <2>1. lock.holder \in Scripts
          /\ \A t \in Scripts : lock.holder = t => script[t].pc \in Locked \cup {"crashed"}
      BY <1>0 DEF IInv, HolderInv
    <2>2. script[s].pc \notin Locked \cup {"crashed"}
      BY <1>0 DEF Locked
    <2> QED BY <2>1, <2>2 DEF l
  <1>7. HolderInv' /\ AloneInv'
    <2>1. script[l.holder].pc # "idle"
      BY <1>6 DEF Locked
    <2>2. \A t \in Scripts : lock'.holder = t => script'[t].pc \in Locked \cup {"crashed"}
      BY <1>1, <1>4, <1>6
    <2>3. lock'.holder \in Scripts
      BY <1>1, <1>6
    <2> QED BY <1>2, <1>3, <1>5, <1>6, <2>1, <2>2, <2>3, LockStep
  <1>8. PairInv'
    <2> SUFFICES ASSUME AtMostTwo, ~ Crashed' PROVE PairInv'
      BY DEF PairInv
    <2>1. ~ Crashed
      BY <1>0, <1>2, <1>3, <1>5, StaysWhole
    <2>2. \A t \in Scripts \ {s} : script[t].pc \notin {"rename", "reclaim"}
      BY <1>5, <2>1 DEF IInv, PairInv, Running, Over
    <2> QED BY <1>1, <1>3, <1>4, <2>1, <2>2 DEF IInv, PairInv, Locked
  <1>9. RerunInv'
    BY <1>0, <1>1, <1>2, <1>3, <1>5, <1>6, LoneRerun
  <1>10. AccountInv'
    <2> SUFFICES ASSUME ~ Crashed', ~ Overlapped' PROVE AccountInv'
      BY DEF AccountInv
    <2>1. /\ ~ Crashed /\ ~ Overlapped /\ AccountInv
          /\ \A t \in Scripts \ {s} : ~ Running(t) /\ script'[t] = script[t]
      BY <1>2, <1>3, <1>5, StillAccounted
    <2>2. RunningOnly({})'
      BY <1>0, <1>1, <2>1 DEF AccountInv, Locking, RunningOnly
    <2>3. ActorAccounted'
      BY <2>2 DEF ActorAccounted, RunningOnly
    <2> QED BY <1>3, <1>4, <2>1, <2>2, <2>3
         DEF AccountInv, Stopping, Locking, RunningOnly, Running, Over
  <1> QED BY <1>4, <1>7, <1>8, <1>9, <1>10 DEF IInv

\* The holder that was read is looked up; one that ended has left its lock.
LEMMA JudgeKeeps == ASSUME IInv, NEW s \in Scripts, Judge(s) PROVE IInv'
  <1>0. TypeOK /\ script[s] \in Invocations /\ script[s].pc = "judge"
    BY DEF IInv, TypeOK, Judge
  <1>1. UNCHANGED <<run, work, pane, actor, record, lock, faults>>
    BY DEF Judge, console
  <1> DEFINE h == script[s].holder.holder
             p == IF StaleLock(script[s].holder) THEN "rename" ELSE "done"
  <1>2. PICK q \in Invocations : Moves(s, q) /\ q = [script[s] EXCEPT !.pc = p]
    BY <1>0, GoIs DEF Judge, Pcs, Locking, Over
  <1>3. q.pc = p /\ q.alone = script[s].alone /\ q.holder = script[s].holder
    BY <1>0, <1>2 DEF Invocations
  <1>4. /\ TypeOK' /\ script'[s] = q
        /\ \A t \in Scripts : t # s => script'[t] = script[t]
    BY <1>0, <1>1, <1>2, MoveIs DEF TypeOK
  <1>5. Running(s) /\ script[s].pc \notin Locked
    BY <1>0 DEF Running, Over, Locked
  <1>6. CASE ~ StaleLock(script[s].holder)
    <2>1. q.pc = "done"
      BY <1>3, <1>6
    <2> QED BY <1>1, <1>2, <1>3, <1>4, <1>5, <2>1, PlainStep DEF Plain
  <1>7. CASE StaleLock(script[s].holder)
    <2>1. q.pc = "rename" /\ ~ Running(h)
      BY <1>3, <1>7 DEF StaleLock
    <2>2. h \in Scripts \ {s} /\ script[h].pc # "idle"
      BY <1>0 DEF IInv, HolderInv
    <2>3. HolderInv' /\ AloneInv'
      <3>1. \A t \in Scripts : lock'.holder = t => script'[t].pc \in Locked \cup {"crashed"}
        BY <1>1, <1>4, <1>5 DEF IInv, HolderInv, Running, Over
      <3>2. lock' = NoLock \/ lock'.holder \in Scripts
        BY <1>1 DEF IInv, HolderInv
      <3>3. q.holder.holder = h
        BY <1>3
      <3> HIDE DEF h
      <3> QED BY <1>2, <1>3, <1>5, <2>1, <2>2, <3>1, <3>2, <3>3, LockStep
    <2>4. PairInv'
      <3> SUFFICES ASSUME AtMostTwo, ~ Crashed' PROVE PairInv'
        BY DEF PairInv
      <3>1. ~ Crashed
        BY <1>0, <1>2, <1>5, StaysWhole
      <3>2. \A t \in Scripts \ {s} : script[t].pc \notin {"rename", "reclaim"}
        BY <1>5, <3>1 DEF IInv, PairInv, Running, Over
      <3>3. \A t \in Scripts \ {s} : t = h
        BY <2>2 DEF AtMostTwo
      <3>4. script[h].pc \in {"done", "refused"}
        BY <2>1, <2>2, <3>1 DEF Running, Over, Crashed
      <3> QED BY <1>1, <1>4, <2>1, <3>1, <3>2, <3>3, <3>4 DEF IInv, PairInv, Locked
    <2>5. RerunInv'
      <3>1. script[s].alone => lock # NoLock /\ lock = script[s].holder
        BY <1>0 DEF IInv, RerunInv
      <3> QED BY <1>1, <1>2, <1>3, <1>5, <2>1, <3>1, LoneRerun
    <2>6. AccountInv'
      <3> SUFFICES ASSUME ~ Crashed', ~ Overlapped' PROVE AccountInv'
        BY DEF AccountInv
      <3>1. /\ ~ Crashed /\ ~ Overlapped /\ AccountInv
            /\ \A t \in Scripts \ {s} : ~ Running(t) /\ script'[t] = script[t]
        BY <1>2, <1>3, <1>5, StillAccounted
      <3>2. RunningOnly({})'
        BY <1>0, <1>1, <3>1 DEF AccountInv, Locking, RunningOnly
      <3>3. ActorAccounted'
        BY <3>2 DEF ActorAccounted, RunningOnly
      <3> QED BY <1>4, <2>1, <3>1, <3>2, <3>3
           DEF AccountInv, Stopping, Locking, RunningOnly, Running, Over
    <2> QED BY <1>4, <2>3, <2>4, <2>5, <2>6 DEF IInv
  <1> QED BY <1>6, <1>7

\* The lock is renamed aside, whosever it is: of two, the other is done with it.
LEMMA TakeoverKeeps == ASSUME IInv, NEW s \in Scripts, Takeover(s) PROVE IInv'
  <1>0. TypeOK /\ script[s] \in Invocations /\ script[s].pc = "rename"
    BY DEF IInv, TypeOK, Takeover
  <1>1. UNCHANGED <<run, work, pane, actor, record, faults>> /\ lock' = NoLock
    BY DEF Takeover, console
  <1> DEFINE p == IF lock = NoLock THEN "done" ELSE "reclaim"
  <1>2. PICK q \in Invocations : Moves(s, q) /\ q = [script[s] EXCEPT !.pc = p]
    BY <1>0, GoIs DEF Takeover, Pcs, Locking, Over
  <1>3. q.pc \in {"done", "reclaim"} /\ q.alone = script[s].alone
    BY <1>0, <1>2 DEF Invocations
  <1>4. NoLock \in Locks /\ NoLock.holder \notin Scripts
    BY ConsoleConstants DEF NoLock, Locks
  <1>5. /\ TypeOK' /\ script'[s] = q
        /\ \A t \in Scripts : t # s => script'[t] = script[t]
    BY <1>0, <1>1, <1>2, <1>4, MoveIs DEF TypeOK
  <1>6. Running(s)
    BY <1>0 DEF Running, Over
  <1>7. HolderInv' /\ AloneInv'
    BY <1>1, <1>2, <1>3, <1>4, <1>6, LockStep
  <1>8. PairInv'
    <2> SUFFICES ASSUME AtMostTwo, ~ Crashed' PROVE PairInv'
      BY DEF PairInv
    <2>1. ~ Crashed
      BY <1>0, <1>2, <1>6, StaysWhole
    <2>2. \A t \in Scripts \ {s} : script[t].pc \in {"done", "refused"}
      BY <1>0, <2>1 DEF IInv, PairInv
    <2> QED BY <1>3, <1>5, <2>2 DEF PairInv, Locked
  <1>9. RerunInv'
    BY <1>1, <1>2, <1>3, <1>6, LoneRerun
  <1>10. AccountInv'
    <2> SUFFICES ASSUME ~ Crashed', ~ Overlapped' PROVE AccountInv'
      BY DEF AccountInv
    <2>1. /\ ~ Crashed /\ ~ Overlapped /\ AccountInv
          /\ \A t \in Scripts \ {s} : ~ Running(t) /\ script'[t] = script[t]
      BY <1>2, <1>3, <1>6, StillAccounted
    <2>2. RunningOnly({})'
      BY <1>0, <1>1, <2>1 DEF AccountInv, Locking, RunningOnly
    <2>3. ActorAccounted'
      BY <2>2 DEF ActorAccounted, RunningOnly
    <2> QED BY <1>3, <1>5, <2>1, <2>2, <2>3
         DEF AccountInv, Stopping, Locking, RunningOnly, Running, Over
  <1> QED BY <1>5, <1>7, <1>8, <1>9, <1>10 DEF IInv

\* The name is claimed again, or somebody was faster.
LEMMA ReclaimKeeps == ASSUME IInv, NEW s \in Scripts, Lock(s) \/ Reclaim(s) PROVE IInv'
  <1>0. TypeOK /\ script[s] \in Invocations /\ script[s].pc \in {"lock", "reclaim"}
    BY DEF IInv, TypeOK, Lock, Reclaim
  <1>1. UNCHANGED <<console, actor, record>>
    BY DEF Lock, Reclaim
  <1>2. CASE lock = NoLock
    <2>1. Claimed(s) /\ Go(s, "spawn")
      BY <1>2 DEF Lock, Reclaim
    <2> QED BY <1>0, <1>1, <1>2, <2>1, ClaimKeeps
  <1>3. CASE lock # NoLock
    <2>1. Go(s, "done") /\ UNCHANGED <<lock, faults>>
      BY <1>3 DEF Lock, Reclaim
    <2>2. PICK q \in Invocations : Moves(s, q) /\ q = [script[s] EXCEPT !.pc = "done"]
      BY <1>0, <2>1, GoIs DEF Pcs, Over
    <2>3. q.pc = "done" /\ q.alone = script[s].alone
      BY <1>0, <2>2 DEF Invocations
    <2>4. TypeOK'
      BY <1>0, <1>1, <2>1, <2>2, MoveIs DEF TypeOK, console
    <2>5. Running(s) /\ script[s].pc \notin Locked
      BY <1>0 DEF Running, Over, Locked
    <2> QED BY <1>1, <2>1, <2>2, <2>3, <2>4, <2>5, PlainStep DEF Plain
  <1> QED BY <1>2, <1>3

\* An actor is spawned: nobody else's runs, or the invocation is not alone.
LEMMA SpawnKeeps == ASSUME IInv, NEW s \in Scripts, Spawn(s) PROVE IInv'
  <1>0. TypeOK /\ script[s] \in Invocations /\ script[s].pc = "spawn"
    BY DEF IInv, TypeOK, Spawn
  <1>1. UNCHANGED <<run, work, pane, record, lock, faults>>
    BY DEF Spawn, console
  <1>2. PICK a \in Actors :
          /\ actor' = [actor EXCEPT ![a] = [state |-> "running", run |-> script[s].run, gone |-> 0]]
          /\ script' = [script EXCEPT ![s].pc = "write", ![s].target = a]
    BY DEF Spawn
  <1> DEFINE q == [script[s] EXCEPT !.pc = "write", !.target = a]
             n == [state |-> "running", run |-> script[s].run, gone |-> 0]
  <1>3. Moves(s, q) /\ actor' = [actor EXCEPT ![a] = n]
    BY <1>0, <1>2 DEF Moves, TypeOK
  <1>4. a \in Nat /\ script[s].run \in 0..MaxRuns /\ 0 \in 0..Tolerance
    BY <1>0, ConsoleConstants DEF Actors, Invocations
  <1>5. q \in Invocations /\ q.pc = "write" /\ q.target = a /\ q.alone = script[s].alone
    BY <1>0, <1>4 DEF Invocations, Locked
  <1>6. n \in [state : {"unborn", "running", "stopping", "gone"},
               run : 0..MaxRuns, gone : 0..Tolerance]
    BY <1>4
  <1> HIDE DEF q, n
  <1>7. /\ actor' \in [Actors -> [state : {"unborn", "running", "stopping", "gone"},
                                  run : 0..MaxRuns, gone : 0..Tolerance]]
        /\ \A b \in Actors : b # a => actor'[b] = actor[b]
    BY <1>0, <1>3, <1>6 DEF TypeOK
  <1>8. /\ TypeOK' /\ script'[s] = q
        /\ \A t \in Scripts : t # s => script'[t] = script[t]
    BY <1>0, <1>1, <1>3, <1>5, <1>7, MoveIs DEF TypeOK
  <1>9. Running(s)
    BY <1>0 DEF Running, Over
  <1>10. HolderInv' /\ AloneInv'
    <2>1. \A t \in Scripts : lock'.holder = t => script'[t].pc \in Locked \cup {"crashed"}
      BY <1>1, <1>5, <1>8 DEF IInv, HolderInv, Locked
    <2>2. lock' = NoLock \/ lock'.holder \in Scripts
      BY <1>1 DEF IInv, HolderInv
    <2> QED BY <1>3, <1>5, <1>9, <2>1, <2>2, LockStep
  <1>11. PairInv'
    <2> SUFFICES ASSUME AtMostTwo, ~ Crashed' PROVE PairInv'
      BY DEF PairInv
    <2>1. ~ Crashed
      BY <1>0, <1>3, <1>5, <1>9, StaysWhole
    <2>2. \A t \in Scripts \ {s} : script[t].pc \notin {"rename", "reclaim"}
      BY <1>9, <2>1 DEF IInv, PairInv, Running, Over
    <2>3. script[s].pc \in Locked
      BY <1>0 DEF Locked
    <2> QED BY <1>1, <1>5, <1>8, <2>1, <2>2, <2>3 DEF IInv, PairInv
  <1>12. RerunInv'
    BY <1>3, <1>5, <1>9, LoneRerun
  <1>13. AccountInv'
    <2> SUFFICES ASSUME ~ Crashed', ~ Overlapped' PROVE AccountInv'
      BY DEF AccountInv
    <2>1. /\ ~ Crashed /\ ~ Overlapped /\ AccountInv
          /\ \A t \in Scripts \ {s} : ~ Running(t) /\ script'[t] = script[t]
      BY <1>3, <1>5, <1>9, StillAccounted
    <2>2. RunningOnly({a})'
      BY <1>0, <1>7, <2>1 DEF AccountInv, RunningOnly
    <2>3. ActorAccounted'
      BY <1>5, <1>8, <2>2 DEF ActorAccounted, RunningOnly
    <2> QED BY <1>5, <1>8, <2>1, <2>2, <2>3
         DEF AccountInv, Stopping, Locking, RunningOnly, Running, Over
  <1> QED BY <1>8, <1>10, <1>11, <1>12, <1>13 DEF IInv

\* The record names the actor that was spawned.
LEMMA WriteKeeps == ASSUME IInv, NEW s \in Scripts, Write(s) PROVE IInv'
  <1>0. TypeOK /\ script[s] \in Invocations /\ script[s].pc = "write"
    BY DEF IInv, TypeOK, Write
  <1>1. UNCHANGED <<run, work, pane, actor, lock>>
    BY DEF Write, console
  <1>2. faults' \in Budgets
    BY <1>0, SpendIs DEF Write, TypeOK
  <1>3. PICK known \in BOOLEAN :
          record' = [actor |-> script[s].target, run |-> script[s].run, pinned |-> known]
    BY DEF Write
  <1>4. script[s].target \in Actors /\ script[s].run \in 0..MaxRuns
    BY <1>0 DEF IInv, RerunInv, Invocations
  <1>5. /\ record' \in [actor : 0..MaxActors, run : 0..MaxRuns, pinned : BOOLEAN]
        /\ record'.actor = script[s].target /\ record'.run = script[s].run /\ record'.actor # 0
    BY <1>3, <1>4, ConsoleConstants DEF Actors
  <1>6. PICK q \in Invocations : Moves(s, q) /\ q = [script[s] EXCEPT !.pc = "release"]
    BY <1>0, GoIs DEF Write, Pcs, Locked
  <1>7. q.pc = "release" /\ q.alone = script[s].alone /\ q.run = script[s].run
    BY <1>0, <1>6 DEF Invocations
  <1>8. /\ TypeOK' /\ script'[s] = q
        /\ \A t \in Scripts : t # s => script'[t] = script[t]
    BY <1>0, <1>1, <1>2, <1>5, <1>6, MoveIs DEF TypeOK
  <1>9. Running(s)
    BY <1>0 DEF Running, Over
  <1>10. HolderInv' /\ AloneInv'
    <2>1. \A t \in Scripts : lock'.holder = t => script'[t].pc \in Locked \cup {"crashed"}
      BY <1>1, <1>7, <1>8 DEF IInv, HolderInv, Locked
    <2>2. lock' = NoLock \/ lock'.holder \in Scripts
      BY <1>1 DEF IInv, HolderInv
    <2> QED BY <1>6, <1>7, <1>9, <2>1, <2>2, LockStep
  <1>11. PairInv'
    <2> SUFFICES ASSUME AtMostTwo, ~ Crashed' PROVE PairInv'
      BY DEF PairInv
    <2>1. ~ Crashed
      BY <1>0, <1>6, <1>9, StaysWhole
    <2>2. \A t \in Scripts \ {s} : script[t].pc \notin {"rename", "reclaim"}
      BY <1>9, <2>1 DEF IInv, PairInv, Running, Over
    <2>3. script[s].pc \in Locked
      BY <1>0 DEF Locked
    <2> QED BY <1>1, <1>7, <1>8, <2>1, <2>2, <2>3 DEF IInv, PairInv
  <1>12. RerunInv'
    BY <1>5, <1>6, <1>7, <1>9, LoneRerun
  <1>13. AccountInv'
    <2> SUFFICES ASSUME ~ Crashed', ~ Overlapped' PROVE AccountInv'
      BY DEF AccountInv
    <2>1. /\ ~ Crashed /\ ~ Overlapped /\ AccountInv
          /\ \A t \in Scripts \ {s} : ~ Running(t) /\ script'[t] = script[t]
      BY <1>6, <1>7, <1>9, StillAccounted
    <2>2. RunningOnly({record'.actor})
      BY <1>0, <1>5, <2>1 DEF AccountInv
    <2>3. ActorAccounted'
      BY <1>1, <2>2 DEF ActorAccounted, RunningOnly
    <2> QED BY <1>7, <1>8, <2>1, <2>3
         DEF AccountInv, Stopping, Locking, RunningOnly, Running, Over
  <1> QED BY <1>8, <1>10, <1>11, <1>12, <1>13 DEF IInv

\* The lock is let go by removing its name.
LEMMA ReleaseKeeps == ASSUME IInv, NEW s \in Scripts, Release(s) PROVE IInv'
  <1>0. TypeOK /\ script[s] \in Invocations /\ script[s].pc = "release"
    BY DEF IInv, TypeOK, Release
  <1>1. UNCHANGED <<run, work, pane, actor, record, faults>> /\ lock' = NoLock
    BY DEF Release, console
  <1>2. PICK q \in Invocations : Moves(s, q) /\ q = [script[s] EXCEPT !.pc = "done"]
    BY <1>0, GoIs DEF Release, Pcs, Over
  <1>3. q.pc = "done" /\ q.alone = script[s].alone
    BY <1>0, <1>2 DEF Invocations
  <1>4. NoLock \in Locks /\ NoLock.holder \notin Scripts
    BY ConsoleConstants DEF NoLock, Locks
  <1>5. /\ TypeOK' /\ script'[s] = q
        /\ \A t \in Scripts : t # s => script'[t] = script[t]
    BY <1>0, <1>1, <1>2, <1>4, MoveIs DEF TypeOK
  <1>6. Running(s)
    BY <1>0 DEF Running, Over
  <1>7. HolderInv' /\ AloneInv'
    BY <1>1, <1>2, <1>3, <1>4, <1>6, LockStep
  <1>8. PairInv'
    <2> SUFFICES ASSUME AtMostTwo, ~ Crashed' PROVE PairInv'
      BY DEF PairInv
    <2>1. ~ Crashed
      BY <1>0, <1>2, <1>6, StaysWhole
    <2>2. \A t \in Scripts : script[t].pc \in Locked => t = s
      BY <1>0, <2>1 DEF IInv, PairInv, Locked
    <2>3. \A t \in Scripts \ {s} : script[t].pc \notin {"rename", "reclaim"}
      BY <1>6, <2>1 DEF IInv, PairInv, Running, Over
    <2> QED BY <1>3, <1>5, <2>2, <2>3 DEF PairInv, Locked
  <1>9. RerunInv'
    BY <1>2, <1>3, <1>6, LoneRerun
  <1>10. AccountInv'
    <2> SUFFICES ASSUME ~ Crashed', ~ Overlapped' PROVE AccountInv'
      BY DEF AccountInv
    <2>1. /\ ~ Crashed /\ ~ Overlapped /\ AccountInv
          /\ \A t \in Scripts \ {s} : ~ Running(t) /\ script'[t] = script[t]
      BY <1>2, <1>3, <1>6, StillAccounted
    <2>2. ActorAccounted'
      BY <1>0, <1>1, <2>1 DEF AccountInv, ActorAccounted, Running, Over
    <2> QED BY <1>3, <1>5, <2>1, <2>2
         DEF AccountInv, Stopping, Locking, RunningOnly, Running, Over
  <1> QED BY <1>5, <1>7, <1>8, <1>9, <1>10 DEF IInv

\* An invocation begins: whoever runs already is no longer alone, and it is alone
\* if nobody does.
LEMMA BeginKeeps == ASSUME IInv, NEW s \in Scripts, Begin(s) PROVE IInv'
  <1>0. TypeOK /\ script[s] \in Invocations /\ script[s].pc = "idle" /\ ~ Running(s)
    BY DEF IInv, TypeOK, Begin, Running, Over
  <1>1. UNCHANGED <<run, work, pane, actor, record, lock, faults>>
    BY DEF Begin, console
  <1> DEFINE lone == \A u \in Scripts : ~ Running(u)
  <1>2. PICK m \in Modes :
          script' = [t \in Scripts |->
             IF t = s
             THEN [Waiting EXCEPT !.mode = m, !.pc = Entry[m], !.next = "teardown", !.alone = lone]
             ELSE IF Running(t) THEN [script[t] EXCEPT !.alone = FALSE]
             ELSE script[t]]
    BY DEF Begin
  <1> DEFINE q == [Waiting EXCEPT !.mode = m, !.pc = Entry[m], !.next = "teardown", !.alone = lone]
             e == Entry[m]
  <1>3. e \in {"ensure", "wait", "stop"} /\ m \in {"plain", "recreate", "restart", "task"}
    BY ConsoleConstants DEF Entry
  <1>4. Waiting \in Invocations
    BY ConsoleConstants DEF Waiting, NoLock, Locks, Invocations, Over
  <1> HIDE DEF e, lone
  <1>5. q = [Waiting EXCEPT !.mode = m, !.pc = e, !.next = "teardown", !.alone = lone]
    BY DEF e
  <1>6. lone \in BOOLEAN
    BY DEF lone
  <1>7. /\ q \in Invocations /\ q.pc \in {"ensure", "wait", "stop"}
        /\ q.next = "teardown" /\ q.alone = lone
    BY <1>3, <1>4, <1>5, <1>6 DEF Invocations
  <1>8. /\ script' \in [Scripts -> Invocations]
        /\ script'[s] = q
        /\ \A t \in Scripts \ {s} :
              /\ ~ Running(t) => script'[t] = script[t]
              /\ Running(t) => script'[t] = [script[t] EXCEPT !.alone = FALSE]
    <2>1. script' = [t \in Scripts |->
             IF t = s THEN q
             ELSE IF Running(t) THEN [script[t] EXCEPT !.alone = FALSE] ELSE script[t]]
      BY <1>2
    <2> HIDE DEF q
    <2>2. \A t \in Scripts : [script[t] EXCEPT !.alone = FALSE] \in Invocations
      <3> SUFFICES ASSUME NEW t \in Scripts
                   PROVE  [script[t] EXCEPT !.alone = FALSE] \in Invocations
        OBVIOUS
      <3>1. script[t] \in Invocations
        BY <1>0 DEF TypeOK
      <3> QED BY <3>1 DEF Invocations
    <2>3. script \in [Scripts -> Invocations] /\ q \in Invocations
      BY <1>0, <1>7 DEF TypeOK
    <2>4. \A t \in Scripts \ {s} :
             script'[t] = IF Running(t) THEN [script[t] EXCEPT !.alone = FALSE] ELSE script[t]
      BY <2>1
    <2>5. DOMAIN script' = Scripts /\ script' = [t \in Scripts |-> script'[t]] /\ script'[s] = q
      BY <2>1
    <2>6. \A t \in Scripts : script'[t] \in Invocations
      BY <2>2, <2>3, <2>4, <2>5
    <2>7. script' \in [Scripts -> Invocations]
      BY <2>5, <2>6
    <2>8. ASSUME NEW t \in Scripts \ {s}
          PROVE  /\ ~ Running(t) => script'[t] = script[t]
                 /\ Running(t) => script'[t] = [script[t] EXCEPT !.alone = FALSE]
      BY <2>4
    <2> QED BY <2>5, <2>7, <2>8
  <1> HIDE DEF q
  <1>9. \A t \in Scripts \ {s} :
           /\ script'[t].pc = script[t].pc /\ script'[t].holder = script[t].holder
           /\ script'[t].target = script[t].target /\ script'[t].run = script[t].run
           /\ Running(t)' = Running(t)
           /\ Running(t) => ~ script'[t].alone
    <2> SUFFICES ASSUME NEW t \in Scripts \ {s}
                 PROVE  /\ script'[t].pc = script[t].pc /\ script'[t].holder = script[t].holder
                        /\ script'[t].target = script[t].target /\ script'[t].run = script[t].run
                        /\ Running(t) => ~ script'[t].alone
      BY DEF Running
    <2>1. CASE Running(t)
      <3>1. script[t] \in Invocations
        BY <1>0 DEF TypeOK
      <3> QED BY <1>8, <2>1, <3>1 DEF Invocations
    <2>2. CASE ~ Running(t)
      BY <1>8, <2>2
    <2> QED BY <2>1, <2>2
  <1>10. TypeOK'
    BY <1>0, <1>1, <1>8 DEF TypeOK
  <1>11. q.pc \notin Over \cup Locked \cup Locking
    BY <1>7 DEF Over, Locked, Locking
  <1>12. HolderInv'
    <2>1. lock.holder # s
      BY <1>0 DEF IInv, HolderInv, Locked
    <2>2. ASSUME NEW t \in Scripts, script'[t].pc \in {"judge", "rename"},
                 NEW h, h = script'[t].holder.holder
          PROVE  /\ h \in Scripts \ {t} /\ script'[h].pc # "idle"
                 /\ script'[t].pc = "rename" => ~ (script'[h].pc \notin Over)
      <3>1. t # s
        BY <1>8, <1>11, <2>2 DEF Locking
      <3>2. /\ script[t].pc \in {"judge", "rename"} /\ h = script[t].holder.holder
            /\ script'[t].pc = script[t].pc
        BY <1>9, <2>2, <3>1
      <3>3. /\ h \in Scripts \ {t} /\ script[h].pc # "idle"
            /\ script[t].pc = "rename" => ~ Running(h)
        BY <3>2 DEF IInv, HolderInv
      <3>4. h # s
        BY <1>0, <3>3
      <3> QED BY <1>9, <3>2, <3>3, <3>4 DEF Running
    <2>3. \A t \in Scripts : lock'.holder = t => script'[t].pc \in Locked \cup {"crashed"}
      BY <1>1, <1>9, <2>1 DEF IInv, HolderInv
    <2>4. lock' = NoLock \/ lock'.holder \in Scripts
      BY <1>1 DEF IInv, HolderInv
    <2> QED BY <2>2, <2>3, <2>4 DEF HolderInv, Running
  <1>13. PairInv'
    <2> SUFFICES ASSUME AtMostTwo, ~ Crashed' PROVE PairInv'
      BY DEF PairInv
    <2>1. ~ Crashed
      BY <1>0, <1>9 DEF Crashed
    <2>2. \A t \in Scripts \ {s} : script[t].pc \notin {"rename", "reclaim"}
      BY <1>0, <2>1 DEF IInv, PairInv
    <2> QED BY <1>1, <1>8, <1>9, <1>11, <2>1, <2>2 DEF IInv, PairInv, Locking
  <1>14. AloneInv'
    <2>1. q.alone => \A t \in Scripts \ {s} : ~ Running(t)
      BY <1>7 DEF lone
    <2>2. ASSUME NEW a \in Scripts, NEW b \in Scripts,
                 Running(a)', script'[a].alone, Running(b)'
          PROVE  a = b
      BY <1>8, <1>9, <2>1, <2>2
    <2> QED BY <2>2 DEF AloneInv
  <1>15. RerunInv'
    <2>1. \A t \in Scripts \ {s} : Running(t) => script[t].pc # "idle"
      BY DEF Running, Over
    <2> QED BY <1>1, <1>8, <1>9, <1>11, <2>1
         DEF IInv, RerunInv, Running, Over, Locked, Locking
  <1>16. AccountInv'
    <2> SUFFICES ASSUME ~ Crashed', ~ Overlapped' PROVE AccountInv'
      BY DEF AccountInv
    <2>1. \A t \in Scripts \ {s} : ~ Running(t) /\ script'[t] = script[t]
      BY <1>8, <1>9 DEF Overlapped
    <2>2. script[s].alone
      BY <1>0 DEF IInv, RerunInv
    <2>3. ~ Crashed /\ ~ Overlapped
      <3>1. \A t \in Scripts : script[t].alone
        BY <2>1, <2>2 DEF Overlapped
      <3>2. \A t \in Scripts : script[t].pc # "crashed"
        BY <1>0, <1>9 DEF Crashed
      <3> QED BY <3>1, <3>2 DEF Crashed, Overlapped
    <2>4. ActorAccounted
      BY <2>3 DEF IInv, AccountInv
    <2>5. ActorAccounted'
      BY <1>0, <1>1, <2>1, <2>3, <2>4 DEF ActorAccounted
    <2> QED BY <1>7, <1>8, <2>1, <2>5
         DEF AccountInv, Stopping, Locking, RunningOnly, Running, Over, Locked
  <1> QED BY <1>10, <1>12, <1>13, <1>14, <1>15, <1>16 DEF IInv

\* An invocation dies where it stands, and what it held stays held.
LEMMA CrashKeeps == ASSUME IInv, NEW s \in Scripts, Crash(s) PROVE IInv'
  <1>0. TypeOK /\ script[s] \in Invocations /\ Running(s)
    BY DEF IInv, TypeOK, Crash
  <1>1. UNCHANGED <<run, work, pane, actor, record, lock>>
    BY DEF Crash, console
  <1>2. faults' \in Budgets
    BY <1>0, SpendIs DEF Crash, TypeOK
  <1>3. PICK q \in Invocations : Moves(s, q) /\ q = [script[s] EXCEPT !.pc = "crashed"]
    BY <1>0, GoIs DEF Crash, Pcs, Over
  <1>4. q.pc = "crashed" /\ q.alone = script[s].alone
    BY <1>0, <1>3 DEF Invocations
  <1>5. /\ TypeOK' /\ script'[s] = q
        /\ \A t \in Scripts : t # s => script'[t] = script[t]
    BY <1>0, <1>1, <1>2, <1>3, MoveIs DEF TypeOK
  <1>6. Crashed'
    BY <1>4, <1>5 DEF Crashed
  <1>7. HolderInv' /\ AloneInv'
    <2>1. \A t \in Scripts : lock'.holder = t => script'[t].pc \in Locked \cup {"crashed"}
      BY <1>1, <1>4, <1>5 DEF IInv, HolderInv
    <2>2. lock' = NoLock \/ lock'.holder \in Scripts
      BY <1>1 DEF IInv, HolderInv
    <2> QED BY <1>0, <1>3, <1>4, <2>1, <2>2, LockStep
  <1>8. RerunInv'
    BY <1>0, <1>3, <1>4, LoneRerun
  <1> QED BY <1>5, <1>6, <1>7, <1>8 DEF IInv, PairInv, AccountInv

-----------------------------------------------------------------------------
(* The specification.                                                      *)

\* Nobody has run the script yet.
LEMMA InitHolds == Init => IInv
  <1> SUFFICES ASSUME Init PROVE IInv
    OBVIOUS
  <1>1. Waiting \in Invocations /\ Waiting.pc = "idle" /\ Waiting.alone
    BY ConsoleConstants DEF Waiting, NoLock, Locks, Invocations, Over
  <1>2. \A s \in Scripts : script[s] = Waiting
    BY DEF Init
  <1>3. TypeOK
    <2>1. actor \in [Actors -> [state : {"unborn", "running", "stopping", "gone"},
                                run : 0..MaxRuns, gone : 0..Tolerance]]
      BY ConsoleConstants DEF Init
    <2>2. record \in [actor : 0..MaxActors, run : 0..MaxRuns, pinned : BOOLEAN]
          /\ lock \in Locks /\ faults \in Budgets
      BY ConsoleConstants DEF Init, NoRecord, NoLock, Locks
    <2>3. script \in [Scripts -> Invocations]
      BY <1>1 DEF Init
    <2> QED BY <2>1, <2>2, <2>3 DEF Init, TypeOK
  <1>4. \A s \in Scripts : ~ Running(s) /\ script[s].pc = "idle"
    BY <1>1, <1>2 DEF Running, Over
  <1>5. lock = NoLock /\ NoLock.holder \notin Scripts
    BY ConsoleConstants DEF Init, NoLock
  <1>6. \A a \in Actors : actor[a].state # "running"
    BY DEF Init
  <1>7. HolderInv /\ PairInv /\ AloneInv
    BY <1>4, <1>5 DEF HolderInv, PairInv, AloneInv, Locked
  <1>8. RerunInv
    BY <1>1, <1>2 DEF RerunInv
  <1>9. AccountInv
    BY <1>4, <1>6 DEF AccountInv, ActorAccounted, Stopping, Locking
  <1> QED BY <1>3, <1>7, <1>8, <1>9 DEF IInv

\* Every step keeps it.
LEMMA StepHolds == IInv /\ [Next]_vars => IInv'
  <1> SUFFICES ASSUME IInv, [Next]_vars PROVE IInv'
    OBVIOUS
  <1>1. CASE \E s \in Scripts : Begin(s)
    BY <1>1, BeginKeeps
  <1>2. CASE \E s \in Scripts : Crash(s)
    BY <1>2, CrashKeeps
  <1>3. ASSUME NEW s \in Scripts, Proceeds(s) PROVE IInv'
    BY <1>3, RebuildKeeps, StopReadKeeps, StopSignalKeeps, StopRemoveKeeps, ReadKeeps,
       ReclaimKeeps, ContendedKeeps, JudgeKeeps, TakeoverKeeps, SpawnKeeps, WriteKeeps,
       ReleaseKeeps DEF Proceeds
  <1>4. CASE \/ \E a \in Actors : Polls(a) \/ Terminated(a) \/ Dies(a)
             \/ \E r \in Runs : Boots(r) \/ Assign(r) \/ Settles(r)
             \/ Comes \/ Closes
    BY <1>4, WorldKeeps
  <1>5. CASE UNCHANGED vars
    <2>1. TypeOK'
      BY <1>5 DEF vars, IInv, TypeOK
    <2> QED BY <1>5, <2>1, WorldStep DEF vars
  <1> QED BY <1>1, <1>2, <1>3, <1>4, <1>5 DEF Next

-----------------------------------------------------------------------------
(* Running the script again.                                               *)

\* An invocation finishes by finding its actor, by leaving the lock to another,
\* or by letting go of it.
LEMMA Finishes ==
  ASSUME TypeOK, [Next]_vars, NEW s \in Scripts, Running(s), script'[s].pc = "done"
  PROVE  Read(s) \/ Judge(s) \/ Takeover(s) \/ Reclaim(s) \/ Release(s)
  <1>0. /\ script \in [Scripts -> Invocations] /\ script[s] \in Invocations
        /\ script[s].pc \notin {"idle", "done"}
    BY DEF TypeOK, Running, Over
  <1>1. ASSUME script' = script PROVE FALSE
    BY <1>0, <1>1
  <1>2. ASSUME NEW t \in Scripts \ {s}, Begin(t) PROVE FALSE
    <2>1. script'[s] = IF Running(s) THEN [script[s] EXCEPT !.alone = FALSE] ELSE script[s]
      BY <1>2 DEF Begin
    <2>2. script'[s].pc = script[s].pc
      BY <1>0, <2>1 DEF Invocations
    <2> QED BY <1>0, <2>2
  <1>3. ASSUME NEW t \in Scripts \ {s}, Proceeds(t) \/ Crash(t) PROVE FALSE
    <2>1. script'[s] = script[s]
      <3>1. CASE \/ Wait(t) \/ Busy(t) \/ StopRead(t) \/ StopSignal(t) \/ StopRemove(t)
                 \/ Teardown(t) \/ Down(t) \/ DownFails(t) \/ Respawn(t) \/ NoPane(t)
                 \/ Ready(t) \/ NotReady(t)
        BY <1>0, <3>1 DEF Wait, Busy, StopRead, StopSignal, StopRemove, Teardown, Down,
           DownFails, Respawn, NoPane, Ready, NotReady, Go
      <3>2. CASE \/ Dispatch(t) \/ Ensure(t) \/ Map(t) \/ Read(t) \/ Lock(t) \/ Contended(t)
                 \/ Judge(t) \/ Takeover(t) \/ Reclaim(t) \/ Spawn(t) \/ Write(t)
                 \/ Release(t) \/ Crash(t)
        BY <1>0, <3>2 DEF Dispatch, Ensure, Map, Read, Lock, Contended, Judge, Takeover,
           Reclaim, Spawn, Write, Release, Crash, Go
      <3> QED BY <1>3, <3>1, <3>2 DEF Proceeds
    <2> QED BY <1>0, <2>1
  <1>4. ASSUME Begin(s) \/ Crash(s) PROVE FALSE
    <2>1. CASE Begin(s)
      BY <1>0, <2>1 DEF Begin
    <2>2. CASE Crash(s)
      BY <1>0, <2>2 DEF Crash, Go, Invocations
    <2> QED BY <1>4, <2>1, <2>2
  <1>5. ASSUME NEW p, Go(s, p) PROVE p = "done"
    BY <1>0, <1>5 DEF Go, Invocations
  <1>6. ASSUME \/ Busy(s) \/ StopSignal(s) \/ StopRemove(s) \/ Respawn(s) \/ NoPane(s)
               \/ NotReady(s) \/ Dispatch(s) \/ Ensure(s) \/ Lock(s) \/ Write(s)
        PROVE  FALSE
    <2>1. \E p : Go(s, p) /\ p # "done"
      <3>1. script[s].next # "done"
        BY <1>0 DEF Invocations
      <3> QED BY <1>6, <3>1 DEF Busy, StopSignal, StopRemove, Respawn, NoPane, NotReady,
               Dispatch, Ensure, Lock, Write
    <2> QED BY <1>5, <2>1
  <1>7. ASSUME \/ Wait(s) \/ StopRead(s) \/ Teardown(s) \/ Down(s) \/ DownFails(s)
               \/ Ready(s) \/ Map(s) \/ Contended(s) \/ Spawn(s)
        PROVE  FALSE
    <2>1. CASE Down(s) \/ DownFails(s)
      <3>1. PICK r \in script[s].left : script' = [script EXCEPT ![s].left = @ \ {r}]
        BY <2>1 DEF Down, DownFails
      <3>2. script'[s].pc = script[s].pc
        BY <1>0, <3>1 DEF Invocations
      <3> QED BY <1>0, <3>2
    <2>2. CASE Wait(s)
      BY <1>0, <2>2 DEF Wait, Invocations
    <2>3. CASE StopRead(s)
      BY <1>0, <2>3 DEF StopRead, Invocations
    <2>4. CASE Teardown(s)
      BY <1>0, <2>4 DEF Teardown, Invocations
    <2>5. CASE Ready(s)
      BY <1>0, <2>5 DEF Ready, Invocations
    <2>6. CASE Map(s) \/ Contended(s)
      BY <1>0, <2>6 DEF Map, Contended, Invocations
    <2>7. CASE Spawn(s)
      BY <1>0, <2>7 DEF Spawn, Invocations
    <2> QED BY <1>7, <2>1, <2>2, <2>3, <2>4, <2>5, <2>6, <2>7
  <1>8. script' # script => \E t \in Scripts : Begin(t) \/ Proceeds(t) \/ Crash(t)
    BY DEF Next, vars, Polls, Pass, PassThrows, Terminated, Dies, Boots, Assign, Settles, Comes,
           Closes
  <1> QED BY <1>1, <1>2, <1>3, <1>4, <1>6, <1>7, <1>8 DEF Proceeds

\* What such an invocation, alone and with a live run, leaves behind.
LEMMA RerunLeaves ==
  ASSUME IInv, [Next]_vars, NEW s \in Scripts, Running(s), script'[s].pc = "done",
         script[s].alone, script'[s].seen # "unverifiable", script[s].run \in Live
  PROVE  Named(script[s].run) /\ (script[s].pc = "read" => Exists(record.actor))
  <1>0. TypeOK /\ script \in [Scripts -> Invocations] /\ script[s] \in Invocations
        /\ script[s].run # 0
    BY DEF IInv, TypeOK, Live, Runs
  <1>1. CASE Read(s)
    <2> DEFINE st == RecordStatus
               leave == \/ st = "unverifiable" \/ script[s].run = 0
                        \/ st = "live" /\ Serves(script[s].run)
               p == IF leave THEN "done" ELSE IF st = "live" THEN "stop" ELSE "lock"
    <2>1. script' = [script EXCEPT ![s].seen = st, ![s].next = "lock", ![s].pc = p]
      BY <1>1 DEF Read
    <2> HIDE DEF p, st
    <2>2. script'[s].seen = st /\ script'[s].pc = p
      BY <1>0, <2>1 DEF Invocations
    <2>3. st # "unverifiable" /\ leave
      BY <2>2 DEF p
    <2>4. RecordStatus = "live" /\ record.run = script[s].run
      BY <1>0, <2>3 DEF Serves, st
    <2> QED BY <1>0, <2>4 DEF RecordStatus, Named
  <1>2. CASE Judge(s)
    <2>1. Go(s, IF StaleLock(script[s].holder) THEN "rename" ELSE "done")
          /\ script[s].pc = "judge"
      BY <1>2 DEF Judge
    <2>2. Running(script[s].holder.holder)
      BY <1>0, <2>1 DEF Go, StaleLock, Invocations
    <2>3. script[s].holder.holder \in Scripts \ {s}
      BY <2>1 DEF IInv, HolderInv
    <2> QED BY <2>2, <2>3 DEF IInv, AloneInv
  <1>3. CASE Takeover(s)
    <2>1. Go(s, IF lock = NoLock THEN "done" ELSE "reclaim") /\ script[s].pc = "rename"
      BY <1>3 DEF Takeover
    <2>2. lock # NoLock
      BY <2>1 DEF IInv, RerunInv
    <2> QED BY <1>0, <2>1, <2>2 DEF Go, Invocations
  <1>4. CASE Reclaim(s)
    <2>1. script[s].pc = "reclaim"
      BY <1>4 DEF Reclaim
    <2>2. lock = NoLock
      BY <2>1 DEF IInv, RerunInv
    <2>3. Go(s, "spawn")
      BY <1>4, <2>2 DEF Reclaim
    <2> QED BY <1>0, <2>3 DEF Go, Invocations
  <1>5. CASE Release(s)
    BY <1>5 DEF Release, IInv, RerunInv, Named
  <1> QED BY <1>0, <1>1, <1>2, <1>3, <1>4, <1>5, Finishes

-----------------------------------------------------------------------------
(* The theorems.                                                           *)

\* Invocations, lock, record and actors always agree: whoever holds the lock took
\* it, whoever is judged has begun, and what one that is alone read still stands.
THEOREM Inductive == Spec => []IInv
  <1>1. Init => IInv
    BY InitHolds
  <1>2. IInv /\ [Next]_vars => IInv'
    BY StepHolds
  <1> QED BY <1>1, <1>2, PTL DEF Spec

\* Every record, lock, actor and invocation is one the code can read or be.
THEOREM TypeCorrect == Spec => []TypeOK
  <1>1. IInv => TypeOK
    BY DEF IInv
  <1> QED BY <1>1, Inductive, PTL

\* Of two invocations, one spawns at a time, however the lock's claim, its check
\* and its takeover interleave; and the actor that runs is the one its record
\* names: acquireRelayLock, startRelay, stopRelay.
THEOREM TwoStartersExclude == ASSUME AtMostTwo PROVE Spec => []ConsoleExclusive
  <1>1. IInv => ConsoleExclusive
    <2> SUFFICES ASSUME IInv PROVE ConsoleExclusive
      OBVIOUS
    <2>1. StartersExclude
      BY DEF IInv, PairInv, StartersExclude
    <2>2. ActorAccounted
      BY DEF IInv, AccountInv, ActorAccounted
    <2> QED BY <2>1, <2>2 DEF ConsoleExclusive
  <1> QED BY <1>1, Inductive, PTL

\* While invocations neither overlap nor die, an actor nobody told to stop is the
\* one the record names, or is about to: startRelay, stopRelay, writeRelayRecord.
THEOREM ActorsAreAccounted == Spec => []ActorAccounted
  <1>1. IInv => ActorAccounted
    BY DEF IInv, AccountInv, ActorAccounted
  <1> QED BY <1>1, Inductive, PTL

\* Running the script again, alone, leaves the record of an actor that serves the
\* live run, whatever crashed before it and wherever: startRelay, and the takeover
\* of a dead starter's lock.
THEOREM RerunsRecover == Spec => RerunRecovers
  <1>1. IInv /\ [Next]_vars =>
          [\A s \in Scripts :
             /\ script[s].pc \notin Over /\ script'[s].pc = "done" /\ script[s].alone
             /\ script'[s].seen # "unverifiable"
             /\ script[s].run \in Live
             => Named(script[s].run) /\ (script[s].pc = "read" => Exists(record.actor))]_vars
    BY RerunLeaves DEF Running
  <1> QED BY <1>1, Inductive, PTL DEF Spec, RerunRecovers
=============================================================================

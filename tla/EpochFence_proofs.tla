-------------------------- MODULE EpochFence_proofs -------------------------
(***************************************************************************)
(* Machine-checked proofs about EpochFence: the fence record stays well    *)
(* formed, disk + queued snapshots + memory always form one run of the     *)
(* ledger, and from that the two guarantees of src/src/rpc/epoch.ts that   *)
(* survive crashes: a prompt is sent only under a durable epoch, and no    *)
(* epoch is prompted twice.                                                *)
(***************************************************************************)
EXTENDS EpochFence, TLAPS

USE NullAssumption, NobodyAssumption

-----------------------------------------------------------------------------
(* What each operator of the fence preserves.                              *)

\* A fence one step of the ledger after f, well formed like f.
Step(f, g) == /\ g \in FenceSnapshot
              /\ FenceOK(g)
              /\ Follows(f, g)
              /\ g.hwm >= f.hwm

\* The empty fence is well formed.
LEMMA EmptyFenceOK == EmptyFence \in FenceSnapshot /\ FenceOK(EmptyFence)
  BY BoundAssumption
  DEF EmptyFence, FenceSnapshot, FenceOK, IsLive, CompletedTask

\* allocate, when it admits the request, is a ledger step.
LEMMA AllocateStep ==
  ASSUME NEW f \in FenceSnapshot, FenceOK(f), NEW k \in Keys, NEW r,
         Admits(f, k, r), f.hwm < MaxEpoch
  PROVE  /\ Step(f, Allocate(f, k))
         /\ Allocate(f, k).hwm = f.hwm + 1
         /\ IsLive(Allocate(f, k))
         /\ Allocate(f, k).live.epoch = f.hwm + 1
         /\ KeyOf(Allocate(f, k).live) = k
  <1> DEFINE g == Allocate(f, k)
             l == [task |-> k[1], attempt |-> k[2], epoch |-> f.hwm + 1,
                   started |-> FALSE, abort |-> FALSE, timedout |-> FALSE]
  <1>1. l \in LiveEpoch
    BY DEF LiveEpoch, Keys, FenceSnapshot
  <1>2. g = [f EXCEPT !.hwm = f.hwm + 1, !.ack = NoAck, !.live = l,
                      !.attempts[k] = f.hwm + 1]
    BY DEF Allocate
  <1>a. l.task = k[1] /\ l.attempt = k[2] /\ l.epoch = f.hwm + 1
    OBVIOUS
  <1> HIDE DEF g, l
  <1>3. /\ g \in FenceSnapshot /\ g.hwm = f.hwm + 1 /\ g.live = l
        /\ g.completed = f.completed
        /\ g.attempts = [f.attempts EXCEPT ![k] = f.hwm + 1]
    <2>1. g = [hwm |-> f.hwm + 1, ack |-> NoAck, live |-> l,
               completed |-> f.completed,
               attempts |-> [f.attempts EXCEPT ![k] = f.hwm + 1]]
      BY <1>2 DEF FenceSnapshot
    <2>2. [f.attempts EXCEPT ![k] = f.hwm + 1] \in [Keys -> Nat]
      BY DEF FenceSnapshot
    <2>3. f.hwm + 1 \in Nat /\ f.completed \in SUBSET CompletedTask
      BY DEF FenceSnapshot
    <2> QED
      BY <1>1, <2>1, <2>2, <2>3 DEF FenceSnapshot
  <1>4. IsLive(g) /\ KeyOf(g.live) = k /\ g.live.epoch = f.hwm + 1
    BY <1>1, <1>3, <1>a DEF IsLive, KeyOf, Keys
  <1>5. FenceOK(g)
    <2>1. \A c \in f.completed : c.task # k[1] /\ KeyOf(c) # k
      BY DEF Admits, AlreadyCompleted, KeyOf, Keys, FenceSnapshot, CompletedTask
    <2>2. \A c \in f.completed : c.epoch <= f.hwm /\ c.epoch \in Nat
                                 /\ KeyOf(c) \in Keys
      BY DEF FenceOK, FenceSnapshot, CompletedTask, KeyOf, Keys
    <2>3. f.hwm \in Nat /\ f.attempts \in [Keys -> Nat]
      BY DEF FenceSnapshot
    <2>4. ~ AlreadyCompleted(g, g.live.task)
      BY <1>3, <1>a, <2>1 DEF AlreadyCompleted
    <2>5. \A c \in g.completed : c.epoch # g.hwm /\ c.epoch <= g.hwm
                                 /\ g.attempts[KeyOf(c)] = c.epoch
      BY <1>3, <2>1, <2>2, <2>3 DEF FenceOK
    <2> QED
      BY <1>3, <1>4, <2>3, <2>4, <2>5, BoundAssumption DEF FenceOK
  <1>6. Admits(f, KeyOf(g.live), 0) /\ ~ IsLive(f)
    BY <1>4 DEF Admits
  <1>7. Follows(f, g)
    BY <1>3, <1>4, <1>6 DEF Follows
  <1> USE DEF g
  <1> QED
    BY <1>3, <1>4, <1>5, <1>7 DEF Step, FenceSnapshot

\* A change of the ack, or of the live epoch's flags, is no ledger step.
LEMMA FlagStep ==
  ASSUME NEW f \in FenceSnapshot, FenceOK(f), NEW g \in FenceSnapshot,
         SameLedger(f, g), IsLive(f) => g.live.epoch = f.live.epoch
  PROVE  Step(f, g)
  <1>1. IsLive(g) => g.live.task = f.live.task
    BY DEF SameLedger, KeyOf
  <1>2. FenceOK(g)
    BY <1>1 DEF FenceOK, SameLedger, AlreadyCompleted
  <1> QED
    BY <1>2 DEF Step, Follows, SameLedger, FenceSnapshot

LEMMA NoteAckStep ==
  ASSUME NEW f \in FenceSnapshot, FenceOK(f), NEW s \in Nat
  PROVE  Step(f, NoteAck(f, s))
  <1>1. NoteAck(f, s) \in FenceSnapshot
    BY DEF NoteAck, FenceSnapshot
  <1>2. SameLedger(f, NoteAck(f, s)) /\ NoteAck(f, s).live = f.live
    BY DEF SameLedger, NoteAck, FenceSnapshot, IsLive
  <1> QED
    BY <1>1, <1>2, FlagStep

LEMMA LiveFlagStep ==
  ASSUME NEW f \in FenceSnapshot, FenceOK(f), IsLive(f), NEW l \in LiveEpoch,
         l.task = f.live.task, l.attempt = f.live.attempt,
         l.epoch = f.live.epoch
  PROVE  Step(f, [f EXCEPT !.live = l])
  <1> DEFINE g == [f EXCEPT !.live = l]
  <1>1. g \in FenceSnapshot /\ g.live = l /\ IsLive(g)
    BY DEF FenceSnapshot, IsLive
  <1>2. SameLedger(f, g)
    BY <1>1 DEF SameLedger, FenceSnapshot, KeyOf
  <1> QED
    BY <1>1, <1>2, FlagStep

LEMMA BindStartStep ==
  ASSUME NEW f \in FenceSnapshot, FenceOK(f), IsLive(f)
  PROVE  Step(f, BindStart(f))
  <1>1. f.live \in LiveEpoch
    BY DEF FenceSnapshot, IsLive
  <1> DEFINE l == [f.live EXCEPT !.started = TRUE]
  <1>2. BindStart(f) = [f EXCEPT !.live = l]
    BY DEF BindStart
  <1>3. l \in LiveEpoch /\ l.task = f.live.task
        /\ l.attempt = f.live.attempt /\ l.epoch = f.live.epoch
    BY <1>1 DEF LiveEpoch
  <1> HIDE DEF l
  <1> QED
    BY <1>2, <1>3, LiveFlagStep

LEMMA InterruptStep ==
  ASSUME NEW f \in FenceSnapshot, FenceOK(f), IsLive(f), NEW d \in BOOLEAN
  PROVE  Step(f, NoteAbort(IF d THEN NoteTimedOut(f) ELSE f))
  <1> DEFINE l == [f.live EXCEPT !.abort = TRUE,
                                 !.timedout = IF d THEN TRUE ELSE @]
  <1>1. f.live \in LiveEpoch
    BY DEF FenceSnapshot, IsLive
  <1>2. l \in LiveEpoch /\ l.task = f.live.task /\ l.attempt = f.live.attempt
        /\ l.epoch = f.live.epoch
    BY <1>1 DEF LiveEpoch
  <1>3. NoteAbort(IF d THEN NoteTimedOut(f) ELSE f) = [f EXCEPT !.live = l]
    <2>1. CASE d
      <3>1. NoteTimedOut(f) = [f EXCEPT !.live = [f.live EXCEPT !.timedout = TRUE]]
        BY DEF NoteTimedOut
      <3>2. [f.live EXCEPT !.timedout = TRUE] \in LiveEpoch
        BY <1>1 DEF LiveEpoch
      <3>3. NoteTimedOut(f).live = [f.live EXCEPT !.timedout = TRUE]
        BY <3>1 DEF FenceSnapshot
      <3>4. IsLive(NoteTimedOut(f))
        BY <3>2, <3>3 DEF IsLive
      <3> QED
        BY <2>1, <3>1, <3>4, <1>1 DEF NoteAbort, FenceSnapshot, LiveEpoch
    <2>2. CASE ~ d
      BY <2>2, <1>1 DEF NoteAbort, FenceSnapshot, LiveEpoch
    <2> QED BY <2>1, <2>2
  <1> QED
    BY <1>2, <1>3, LiveFlagStep

LEMMA SettleStep ==
  ASSUME NEW f \in FenceSnapshot, FenceOK(f), IsLive(f), NEW v \in Verdicts
  PROVE  Step(f, Settle(f, v)) /\ ~ IsLive(Settle(f, v))
  <1> DEFINE c == [task |-> f.live.task, attempt |-> f.live.attempt,
                   epoch |-> f.live.epoch, verdict |-> v]
             g == Settle(f, v)
  <1>1. f.live \in LiveEpoch
    BY DEF FenceSnapshot, IsLive
  <1>2. c \in CompletedTask
    BY <1>1 DEF LiveEpoch, CompletedTask
  <1>3. /\ c.task = f.live.task /\ c.epoch = f.live.epoch
        /\ KeyOf(c) = KeyOf(f.live)
    BY DEF KeyOf
  <1>4. g = [f EXCEPT !.completed = f.completed \cup {c}, !.live = NoLive,
                      !.ack = NoAck]
    BY DEF Settle
  <1> HIDE DEF c, g
  <1>5. /\ g \in FenceSnapshot /\ g.hwm = f.hwm /\ g.live = NoLive
        /\ g.completed = f.completed \cup {c} /\ g.attempts = f.attempts
    BY <1>2, <1>4 DEF FenceSnapshot
  <1>6. ~ IsLive(g)
    BY <1>5 DEF IsLive
  <1>7. FenceOK(g)
    <2>1. \A d \in f.completed : d.task # c.task /\ d.epoch # c.epoch
      BY <1>3 DEF FenceOK, AlreadyCompleted
    <2>2. c.epoch = f.hwm /\ f.attempts[KeyOf(c)] = f.hwm /\ f.hwm \in Nat
      BY <1>3 DEF FenceOK, FenceSnapshot
    <2> QED
      BY <1>5, <1>6, <2>1, <2>2 DEF FenceOK
  <1>8. Follows(f, g)
    <2>1. SameLedger(g, g)
      BY DEF SameLedger
    <2> QED
      BY <2>1 DEF Follows, g
  <1>9. g.hwm >= f.hwm
    BY <1>5 DEF FenceSnapshot
  <1> QED
    BY <1>5, <1>6, <1>7, <1>8, <1>9 DEF Step, g

LEMMA CancelStep ==
  ASSUME NEW f \in FenceSnapshot, FenceOK(f), NEW k \in Keys, Cancels(f, k)
  PROVE  Step(f, Cancel(f, k))
  <1> DEFINE g == Cancel(f, k)
  <1>1. IsLive(f) /\ KeyOf(f.live) = k
    BY DEF Cancels
  <1>2. g = [f EXCEPT !.live = NoLive, !.ack = NoAck, !.attempts[k] = 0]
    BY DEF Cancel
  <1> HIDE DEF g
  <1>3. /\ g.hwm = f.hwm /\ g.live = NoLive /\ g.ack = NoAck
        /\ g.completed = f.completed
        /\ g.attempts = [f.attempts EXCEPT ![k] = 0]
    BY <1>2 DEF FenceSnapshot
  <1>4. g \in FenceSnapshot
    <2>1. g = [hwm |-> f.hwm, ack |-> NoAck, live |-> NoLive,
               completed |-> f.completed,
               attempts |-> [f.attempts EXCEPT ![k] = 0]]
      BY <1>2 DEF FenceSnapshot
    <2>2. [f.attempts EXCEPT ![k] = 0] \in [Keys -> Nat]
      BY DEF FenceSnapshot
    <2> QED
      BY <2>1, <2>2 DEF FenceSnapshot
  <1>5. FenceOK(g)
    <2>1. \A c \in f.completed : KeyOf(c) # k /\ KeyOf(c) \in Keys
      <3>1. f.completed \in SUBSET CompletedTask
        BY DEF FenceSnapshot
      <3> QED
        BY <1>1, <3>1 DEF FenceOK, AlreadyCompleted, KeyOf, CompletedTask, Keys
    <2>2. f.attempts \in [Keys -> Nat]
      BY DEF FenceSnapshot
    <2>3. \A c \in g.completed : g.attempts[KeyOf(c)] = f.attempts[KeyOf(c)]
      BY <1>3, <2>1, <2>2
    <2> QED
      BY <1>3, <2>3 DEF FenceOK, IsLive
  <1>6. Follows(f, g)
    <2>1. SameLedger(g, g)
      BY DEF SameLedger
    <2> QED
      BY <1>1, <2>1 DEF Follows, g
  <1>7. g.hwm >= f.hwm
    BY <1>3 DEF FenceSnapshot
  <1> QED
    BY <1>4, <1>5, <1>6, <1>7 DEF Step, g

-----------------------------------------------------------------------------
(* The chain disk - queued snapshots - memory.                             *)

\* What appending one entry does to a sequence.
LEMMA AppendFacts ==
  ASSUME NEW S, NEW q \in Seq(S), NEW x \in S
  PROVE  /\ Append(q, x) \in Seq(S)
         /\ Len(Append(q, x)) = Len(q) + 1
         /\ DOMAIN Append(q, x) = 1 .. Len(q) + 1
         /\ DOMAIN q = 1 .. Len(q)
         /\ Append(q, x)[Len(q) + 1] = x
         /\ \A i \in 1 .. Len(q) : Append(q, x)[i] = q[i] /\ q[i] \in S
  OBVIOUS

\* Queueing a snapshot one ledger step after memory keeps the chain.
LEMMA EnqueueChain ==
  ASSUME TypeOK, ChainOK, process # "down", process' = process, disk' = disk,
         NEW g, Step(fence, g), fence' = g,
         NEW e \in 0 .. MaxEpoch, Persist(g, e)
  PROVE  ChainOK'
  <1> DEFINE S == [snap : FenceSnapshot, epoch : 0 .. MaxEpoch]
             x == [snap |-> g, epoch |-> e]
             n == Len(writes)
  <1>1. x \in S /\ x.snap = g
    BY DEF Step
  <1>2. writes \in Seq(S) /\ writes' = Append(writes, x)
    BY DEF TypeOK, Persist
  <1> HIDE DEF x, S
  <1>3. /\ Len(writes') = n + 1
        /\ DOMAIN writes' = 1 .. n + 1
        /\ DOMAIN writes = 1 .. n
        /\ n \in Nat
        /\ writes'[n + 1].snap = g
        /\ \A i \in 1 .. n : writes'[i] = writes[i] /\ writes[i] \in S
    BY <1>1, <1>2, AppendFacts
  <1>4. \A i \in 1 .. n + 1 : Before(i)' = Before(i)
    <2> SUFFICES ASSUME NEW i \in 1 .. n + 1 PROVE Before(i)' = Before(i)
      OBVIOUS
    <2>1. CASE i = 1
      BY <2>1 DEF Before
    <2>2. CASE i # 1
      <3>1. i - 1 \in 1 .. n
        BY <2>2, <1>3
      <3> QED
        BY <2>2, <3>1, <1>3 DEF Before
    <2> QED BY <2>1, <2>2
  <1>5. fence = Before(n + 1)
    BY DEF ChainOK
  <1>7. \A i \in 1 .. n + 1 : /\ FenceOK(writes'[i].snap)
                              /\ Follows(Before(i)', writes'[i].snap)
    <2> SUFFICES ASSUME NEW i \in 1 .. n + 1
                 PROVE  FenceOK(writes'[i].snap) /\ Follows(Before(i)', writes'[i].snap)
      OBVIOUS
    <2>1. CASE i = n + 1
      BY <2>1, <1>3, <1>4, <1>5 DEF Step
    <2>2. CASE i \in 1 .. n
      BY <2>2, <1>3, <1>4 DEF ChainOK
    <2> QED BY <1>3, <2>1, <2>2
  <1>8. /\ \A i \in 1 .. n : writes[i].snap.hwm <= fence.hwm
        /\ disk.hwm <= fence.hwm
    <2>1. CASE n = 0
      BY <2>1, <1>3, <1>5 DEF Before, TypeOK, FenceSnapshot
    <2>2. CASE n # 0
      <3>1. n \in 1 .. n /\ fence = writes[n].snap
        BY <2>2, <1>3, <1>5 DEF Before
      <3> QED
        BY <3>1, <1>3 DEF ChainOK
    <2> QED BY <2>1, <2>2
  <1>9. /\ g.hwm \in Nat /\ fence.hwm \in Nat /\ g.hwm >= fence.hwm
        /\ disk.hwm \in Nat
        /\ \A i \in 1 .. n : writes[i].snap.hwm \in Nat
    <2>1. \A i \in 1 .. n : writes[i] \in S
      BY <1>3
    <2> QED
      BY <2>1 DEF S, Step, TypeOK, FenceSnapshot
  <1>10. \A i, j \in 1 .. n + 1 :
            i <= j => writes'[i].snap.hwm <= writes'[j].snap.hwm
    <2> SUFFICES ASSUME NEW i \in 1 .. n + 1, NEW j \in 1 .. n + 1, i <= j
                 PROVE  writes'[i].snap.hwm <= writes'[j].snap.hwm
      OBVIOUS
    <2>1. CASE j \in 1 .. n
      <3>1. i \in 1 .. n
        BY <2>1, <1>3
      <3> QED
        BY <2>1, <3>1, <1>3 DEF ChainOK
    <2>2. CASE j = n + 1 /\ i \in 1 .. n
      BY <2>2, <1>3, <1>8, <1>9
    <2>3. CASE j = n + 1 /\ i = n + 1
      BY <2>3, <1>3, <1>9
    <2> QED BY <1>3, <2>1, <2>2, <2>3
  <1>11. \A i \in 1 .. n + 1 : disk.hwm <= writes'[i].snap.hwm
    <2> SUFFICES ASSUME NEW i \in 1 .. n + 1
                 PROVE  disk.hwm <= writes'[i].snap.hwm
      OBVIOUS
    <2>1. CASE i \in 1 .. n
      BY <2>1, <1>3 DEF ChainOK
    <2>2. CASE i = n + 1
      BY <2>2, <1>3, <1>8, <1>9
    <2> QED BY <1>3, <2>1, <2>2
  <1>12. FenceOK(disk')
    BY DEF ChainOK
  <1>13. fence' = (Before(Len(writes) + 1))'
    BY <1>3 DEF Before
  <1> QED
    BY <1>3, <1>7, <1>10, <1>11, <1>12, <1>13 DEF ChainOK

\* The common part of every action that changes the fence and queues it
\* without giving a handler something to wait for.
LEMMA EnqueueInv ==
  ASSUME IInv, process = "up", UNCHANGED <<process, disk, waiting, prompts, owner>>,
         life' \in Nat, seq' \in Nat,
         NEW g, Step(fence, g), fence' = g, Persist(g, 0)
  PROVE  IInv'
  <1> DEFINE S == [snap : FenceSnapshot, epoch : 0 .. MaxEpoch]
             x == [snap |-> g, epoch |-> 0]
             n == Len(writes)
  <1> USE DEF IInv
  <1>1. x \in S /\ x.epoch = 0
    BY BoundAssumption DEF Step
  <1>2. writes \in Seq(S) /\ writes' = Append(writes, x)
    BY DEF TypeOK, Persist
  <1>3. TypeOK'
    <2> HIDE DEF x, S
    <2>1. writes' \in Seq(S)
      BY <1>1, <1>2, AppendFacts
    <2> QED
      BY <2>1 DEF S, TypeOK, Step
  <1> HIDE DEF x, S
  <1>4. /\ DOMAIN writes' = 1 .. n + 1 /\ DOMAIN writes = 1 .. n /\ n \in Nat
        /\ writes'[n + 1].epoch = 0
        /\ \A i \in 1 .. n : writes'[i] = writes[i]
    BY <1>1, <1>2, AppendFacts
  <1>5. ChainOK'
    BY EnqueueChain, BoundAssumption
  <1>6. OwnerOK' /\ PromptDurable' /\ PromptOnce'
    BY DEF OwnerOK, PromptDurable, PromptOnce
  <1>7. WaitingOK'
    <2>1. \A i \in DOMAIN writes' :
             writes'[i].epoch # 0 => i \in DOMAIN writes /\ writes'[i] = writes[i]
      BY <1>4
    <2>2. \A w \in waiting : w.epoch # 0 /\ (Written(w.epoch)' => Written(w.epoch))
      BY <1>4 DEF Written, TypeOK, Epochs
    <2>3. \A w \in waiting : w.epoch <= g.hwm
      BY DEF WaitingOK, Step, TypeOK, FenceSnapshot, Epochs
    <2>4. \A i \in DOMAIN writes' :
             writes'[i].epoch # 0 => /\ IsLive(writes'[i].snap)
                                     /\ writes'[i].snap.live.epoch = writes'[i].epoch
      BY <2>1 DEF WaitingOK
    <2>5. \A w \in waiting : \A i \in DOMAIN writes' :
             writes'[i].epoch = w.epoch => KeyOf(writes'[i].snap.live) = w.key
      BY <2>1, <2>2 DEF WaitingOK
    <2>6. \A w \in waiting :
             /\ Written(w.epoch)' => owner[w.epoch] = w.key
             /\ \A v \in waiting : v.epoch = w.epoch => v = w
             /\ \A p \in prompts : p.epoch # w.epoch
      BY <2>2 DEF WaitingOK
    <2> QED
      BY <2>3, <2>4, <2>5, <2>6 DEF WaitingOK
  <1> QED
    BY <1>3, <1>5, <1>6, <1>7

\* Memory is a well-formed fence while the process runs, and no older than
\* the file.
LEMMA MemoryOK ==
  ASSUME IInv, process # "down"
  PROVE  fence \in FenceSnapshot /\ FenceOK(fence) /\ disk.hwm <= fence.hwm
  <1> USE DEF IInv
  <1> DEFINE n == Len(writes)
  <1>1. n \in Nat /\ DOMAIN writes = 1 .. n
    BY DEF TypeOK
  <1>2. CASE n = 0
    BY <1>2 DEF ChainOK, Before, TypeOK, FenceSnapshot
  <1>3. CASE n # 0
    <2>1. n \in DOMAIN writes /\ fence = writes[n].snap
      BY <1>1, <1>3 DEF ChainOK, Before
    <2> QED
      BY <2>1 DEF ChainOK, TypeOK
  <1> QED BY <1>2, <1>3

-----------------------------------------------------------------------------
(* The actions, one lemma each where the proof is not a line.              *)

LEMMA InitInv == Init => IInv
  <1> SUFFICES ASSUME Init PROVE IInv
    OBVIOUS
  <1>1. TypeOK
    BY EmptyFenceOK, BoundAssumption DEF Init, TypeOK
  <1>2. ChainOK
    BY EmptyFenceOK DEF Init, ChainOK, Before
  <1>3. OwnerOK
    BY DEF Init, OwnerOK, EmptyFence, IsLive, Epochs
  <1> QED
    BY <1>1, <1>2, <1>3 DEF IInv, Init, WaitingOK, PromptDurable, PromptOnce

LEMMA AcceptInv ==
  ASSUME IInv, NEW k \in Keys, NEW r \in 0 .. MaxEpoch, Accept(k, r)
  PROVE  IInv'
  <1> DEFINE S == [snap : FenceSnapshot, epoch : 0 .. MaxEpoch]
             g == Allocate(fence, k)
             e == fence.hwm + 1
             x == [snap |-> g, epoch |-> e]
             w == [epoch |-> e, key |-> k]
             n == Len(writes)
  <1> USE DEF IInv
  <1>1. /\ process = "up" /\ process' = "up" /\ fence.hwm < MaxEpoch
        /\ Admits(fence, k, r) /\ fence' = g
        /\ UNCHANGED <<disk, process, life, seq, prompts, owner>>
    BY DEF Accept
  <1>2. fence \in FenceSnapshot /\ FenceOK(fence) /\ disk.hwm <= fence.hwm
    BY <1>1, MemoryOK
  <1>3. /\ Step(fence, g) /\ g.hwm = e /\ IsLive(g) /\ g.live.epoch = e
        /\ KeyOf(g.live) = k
    BY <1>1, <1>2, AllocateStep
  <1>4. e \in Epochs /\ fence.hwm \in Nat /\ disk.hwm \in Nat
    BY <1>1, <1>2, BoundAssumption DEF Epochs, FenceSnapshot, TypeOK
  <1>5. /\ writes' = Append(writes, x)
        /\ waiting' = waiting \cup {w}
    BY <1>1, <1>3 DEF Accept, Persist
  <1>6. x \in S /\ x.epoch = e /\ x.snap = g /\ w.epoch = e /\ w.key = k
        /\ w \in [epoch : Epochs, key : Keys]
    BY <1>3, <1>4 DEF Step, Epochs
  <1>7. writes \in Seq(S)
    BY DEF TypeOK
  <1>8. ChainOK'
    <2>1. Persist(g, e) /\ e \in 0 .. MaxEpoch
      BY <1>4, <1>5 DEF Persist, Epochs
    <2> HIDE DEF g, e
    <2> QED
      BY <1>1, <1>3, <2>1, EnqueueChain
  <1> HIDE DEF S, g, e, x, w
  <1>9. /\ writes' \in Seq(S)
        /\ DOMAIN writes' = 1 .. n + 1 /\ DOMAIN writes = 1 .. n /\ n \in Nat
        /\ writes'[n + 1] = x
        /\ \A i \in 1 .. n : writes'[i] = writes[i] /\ writes[i] \in S
    BY <1>5, <1>6, <1>7, AppendFacts
  <1>10. TypeOK'
    <2>1. fence' \in FenceSnapshot
      BY <1>1, <1>3 DEF Step
    <2>2. waiting' \in SUBSET [epoch : Epochs, key : Keys]
      BY <1>5, <1>6 DEF TypeOK
    <2> QED
      BY <1>1, <1>9, <2>1, <2>2 DEF S, TypeOK
  <1>11. OwnerOK' /\ PromptDurable' /\ PromptOnce'
    BY <1>1 DEF OwnerOK, PromptDurable, PromptOnce
  <1>12. /\ \A v \in waiting : v.epoch # e /\ v.epoch \in Nat /\ v.epoch <= fence.hwm
         /\ \A p \in prompts : p.epoch # e
    BY <1>2, <1>4 DEF e, WaitingOK, PromptDurable, TypeOK, Epochs
  <1>13. \A i \in DOMAIN writes : writes[i].epoch # e
    <2> SUFFICES ASSUME NEW i \in DOMAIN writes, writes[i].epoch = e
                 PROVE  FALSE
      OBVIOUS
    <2>1. IsLive(writes[i].snap) /\ writes[i].snap.live.epoch = e
      BY <1>4 DEF WaitingOK, Epochs
    <2>2. writes[i].snap.hwm = e
      BY <2>1 DEF ChainOK, FenceOK
    <2>3. writes[i].snap.hwm <= fence.hwm
      <3>1. n \in DOMAIN writes /\ i <= n /\ i \in 1 .. n /\ n # 0
        BY <1>9
      <3>2. fence = writes[n].snap
        BY <1>1, <3>1 DEF ChainOK, Before
      <3> QED
        BY <3>1, <3>2 DEF ChainOK
    <2> QED
      BY <2>2, <2>3, <1>4 DEF e
  <1>14. WaitingOK'
    <2>1. \A i \in DOMAIN writes' :
             writes'[i].epoch # 0 => /\ IsLive(writes'[i].snap)
                                     /\ writes'[i].snap.live.epoch = writes'[i].epoch
      BY <1>3, <1>6, <1>9 DEF WaitingOK
    <2>2. ASSUME NEW v \in waiting'
          PROVE  /\ v.epoch <= fence'.hwm
                 /\ \A i \in DOMAIN writes' :
                       writes'[i].epoch = v.epoch
                          => KeyOf(writes'[i].snap.live) = v.key
                 /\ Written(v.epoch)' => owner[v.epoch] = v.key
                 /\ \A u \in waiting' : u.epoch = v.epoch => u = v
                 /\ \A p \in prompts : p.epoch # v.epoch
      <3>1. CASE v = w
        <4>1. ~ Written(v.epoch)'
          BY <3>1, <1>6, <1>9 DEF Written
        <4>2. \A i \in DOMAIN writes' :
                 writes'[i].epoch = e => KeyOf(writes'[i].snap.live) = k
          BY <1>3, <1>6, <1>9, <1>13
        <4>3. v.epoch = e /\ v.key = k /\ v.epoch <= fence'.hwm
          BY <3>1, <1>1, <1>3, <1>4, <1>6 DEF e
        <4>4. \A u \in waiting' : u.epoch = v.epoch => u = v
          BY <3>1, <4>3, <1>5, <1>12
        <4>5. \A p \in prompts : p.epoch # v.epoch
          BY <4>3, <1>12
        <4> QED
          BY <4>1, <4>2, <4>3, <4>4, <4>5
      <3>2. CASE v \in waiting
        <4>1. \A i \in DOMAIN writes' :
                 writes'[i].epoch = v.epoch => i \in DOMAIN writes /\ writes'[i] = writes[i]
          BY <3>2, <1>6, <1>9, <1>12
        <4>2. Written(v.epoch)' => Written(v.epoch)
          BY <1>9 DEF Written
        <4>3. v.epoch <= fence'.hwm
          BY <3>2, <1>1, <1>3, <1>4, <1>12 DEF e
        <4> QED
          BY <3>2, <4>1, <4>2, <4>3, <1>5, <1>6, <1>12 DEF WaitingOK
      <3> QED BY <3>1, <3>2, <1>5
    <2> QED
      BY <1>1, <2>1, <2>2 DEF WaitingOK
  <1> QED
    BY <1>8, <1>10, <1>11, <1>14

LEMMA SendPromptInv ==
  ASSUME IInv, NEW w \in waiting, SendPrompt(w)
  PROVE  IInv'
  <1> DEFINE p == [epoch |-> w.epoch, key |-> w.key, life |-> life]
  <1> USE DEF IInv
  <1>1. /\ process = "up" /\ Written(w.epoch)
        /\ waiting' = waiting \ {w} /\ prompts' = prompts \cup {p}
        /\ UNCHANGED <<fence, writes, disk, process, life, seq, owner>>
    BY DEF SendPrompt
  <1>2. w \in [epoch : Epochs, key : Keys] /\ w.epoch \in Epochs
    BY DEF TypeOK
  <1>3. p \in Prompt /\ p.epoch = w.epoch /\ p.key = w.key
    BY <1>2 DEF Prompt, TypeOK
  <1>4. owner[w.epoch] = w.key /\ \A q \in prompts : q.epoch # w.epoch
    BY <1>1 DEF WaitingOK
  <1>5. w.epoch <= disk.hwm
    BY <1>2, <1>4, NobodyAssumption DEF OwnerOK
  <1> HIDE DEF p
  <1>6. TypeOK'
    BY <1>1, <1>3 DEF TypeOK
  <1>7. ChainOK'
    BY <1>1 DEF ChainOK, Before
  <1>8. OwnerOK'
    BY <1>1 DEF OwnerOK
  <1>9. WaitingOK'
    <2>1. \A v \in waiting' : v \in waiting /\ v.epoch # w.epoch
      BY <1>1 DEF WaitingOK
    <2> QED
      BY <1>1, <1>3, <2>1 DEF WaitingOK, Written
  <1>10. PromptDurable'
    BY <1>1, <1>3, <1>4, <1>5 DEF PromptDurable
  <1>11. PromptOnce'
    BY <1>1, <1>3, <1>4 DEF PromptOnce
  <1> QED
    BY <1>6, <1>7, <1>8, <1>9, <1>10, <1>11

\* Taking the head off a sequence.
LEMMA TailFacts ==
  ASSUME NEW S, NEW q \in Seq(S), q # <<>>
  PROVE  /\ Head(q) \in S /\ Head(q) = q[1]
         /\ Tail(q) \in Seq(S)
         /\ DOMAIN q = 1 .. Len(q) /\ Len(q) \in Nat \ {0}
         /\ DOMAIN Tail(q) = 1 .. Len(q) - 1
         /\ Len(Tail(q)) = Len(q) - 1
         /\ \A i \in 1 .. Len(q) - 1 : Tail(q)[i] = q[i + 1]
  OBVIOUS

\* A snapshot landing on the file is one step of the issue history.
LEMMA LandOwner ==
  ASSUME NEW d \in FenceSnapshot, FenceOK(disk), FenceOK(d), Follows(disk, d),
         disk \in FenceSnapshot, OwnerOK, owner \in [Epochs -> Keys \cup {Nobody}],
         disk' = d,
         owner' = IF IsLive(d) /\ d.live.epoch \in Epochs
                  THEN [owner EXCEPT ![d.live.epoch] = KeyOf(d.live)]
                  ELSE owner
  PROVE  /\ OwnerOK'
         /\ owner' \in [Epochs -> Keys \cup {Nobody}]
         /\ \A e \in Epochs : owner[e] # Nobody => owner'[e] = owner[e]
         /\ IsLive(d) => owner'[d.live.epoch] = KeyOf(d.live)
  <1>1. /\ disk.hwm \in Nat /\ d.hwm \in Nat /\ d.hwm <= MaxEpoch
        /\ disk.hwm <= MaxEpoch
    BY DEF FenceSnapshot, FenceOK
  <1>2. IsLive(d) => /\ d.live \in LiveEpoch /\ d.live.epoch = d.hwm
                     /\ d.live.epoch \in Epochs /\ KeyOf(d.live) \in Keys
    BY <1>1, BoundAssumption
    DEF FenceSnapshot, FenceOK, IsLive, LiveEpoch, Epochs, KeyOf, Keys
  <1>3. IsLive(disk) => /\ disk.live \in LiveEpoch /\ disk.live.epoch = disk.hwm
                        /\ disk.live.epoch \in Epochs
    BY <1>1, BoundAssumption DEF FenceSnapshot, FenceOK, IsLive, LiveEpoch, Epochs
  <1>4. owner' \in [Epochs -> Keys \cup {Nobody}]
    BY <1>2
  <1>5. CASE SameLedger(disk, d)
    <2>1. /\ d.hwm = disk.hwm /\ d.completed = disk.completed
          /\ IsLive(d) <=> IsLive(disk)
          /\ IsLive(d) => KeyOf(d.live) = KeyOf(disk.live)
                          /\ d.live.epoch = disk.live.epoch
      BY <1>2, <1>3, <1>5 DEF SameLedger
    <2>2. owner' = owner
      BY <1>2, <2>1 DEF OwnerOK
    <2> QED
      BY <1>4, <2>1, <2>2 DEF OwnerOK
  <1>6. CASE /\ ~ IsLive(disk)
             /\ IsLive(d)
             /\ d.hwm = disk.hwm + 1
             /\ d.completed = disk.completed
    <2>1. owner' = [owner EXCEPT ![disk.hwm + 1] = KeyOf(d.live)]
      BY <1>2, <1>6
    <2>2. /\ disk.hwm + 1 \in Epochs
          /\ \A e \in Epochs : e <= disk.hwm => owner'[e] = owner[e]
          /\ \A e \in Epochs : e > disk.hwm + 1 => owner'[e] = owner[e]
          /\ owner'[disk.hwm + 1] = KeyOf(d.live)
          /\ KeyOf(d.live) # Nobody
      BY <1>1, <1>2, <1>6, <2>1, NobodyAssumption DEF Epochs
    <2>3. \A e \in Epochs : e <= disk.hwm + 1 <=> owner'[e] # Nobody
      BY <1>1, <2>2 DEF OwnerOK, Epochs
    <2>4. \A c \in disk.completed : c.epoch \in Epochs /\ c.epoch <= disk.hwm
      BY <1>1, BoundAssumption DEF FenceOK, FenceSnapshot, CompletedTask, Epochs
    <2>5. \A c \in d.completed : owner'[c.epoch] = KeyOf(c)
      BY <1>6, <2>2, <2>4 DEF OwnerOK
    <2>6. OwnerOK'
      BY <1>2, <1>6, <2>2, <2>3, <2>5 DEF OwnerOK
    <2>7. \A e \in Epochs : owner[e] # Nobody => owner'[e] = owner[e]
      BY <2>2 DEF OwnerOK
    <2> QED
      BY <1>2, <1>4, <1>6, <2>2, <2>6, <2>7
  <1>7. CASE IsLive(disk) /\ \E v \in Verdicts : SameLedger(Settle(disk, v), d)
    <2>1. PICK v \in Verdicts : SameLedger(Settle(disk, v), d)
      BY <1>7
    <2> DEFINE c == [task |-> disk.live.task, attempt |-> disk.live.attempt,
                     epoch |-> disk.live.epoch, verdict |-> v]
    <2>2. KeyOf(c) = KeyOf(disk.live) /\ c.epoch = disk.live.epoch
      BY DEF KeyOf
    <2>3. /\ Settle(disk, v).hwm = disk.hwm
          /\ Settle(disk, v).completed = disk.completed \cup {c}
          /\ ~ IsLive(Settle(disk, v))
      BY DEF Settle, FenceSnapshot, IsLive
    <2> HIDE DEF c
    <2>4. d.hwm = disk.hwm /\ d.completed = disk.completed \cup {c} /\ ~ IsLive(d)
      BY <2>1, <2>3 DEF SameLedger
    <2>5. owner' = owner
      BY <2>4
    <2> QED
      BY <1>4, <1>7, <2>2, <2>4, <2>5 DEF OwnerOK
  <1>8. CASE IsLive(disk) /\ SameLedger(Cancel(disk, KeyOf(disk.live)), d)
    <2>1. /\ Cancel(disk, KeyOf(disk.live)).hwm = disk.hwm
          /\ Cancel(disk, KeyOf(disk.live)).completed = disk.completed
          /\ ~ IsLive(Cancel(disk, KeyOf(disk.live)))
      BY DEF Cancel, FenceSnapshot, IsLive
    <2>2. d.hwm = disk.hwm /\ d.completed = disk.completed /\ ~ IsLive(d)
      BY <1>8, <2>1 DEF SameLedger
    <2>3. owner' = owner
      BY <2>2
    <2> QED
      BY <1>4, <2>2, <2>3 DEF OwnerOK
  <1> QED
    BY <1>5, <1>6, <1>7, <1>8 DEF Follows

\* A write that lands, its ledger step and the facts of the shorter queue.
LEMMA LandFacts ==
  ASSUME IInv, WriteLands
  PROVE  /\ writes[1].snap \in FenceSnapshot /\ disk' = writes[1].snap
         /\ FenceOK(writes[1].snap) /\ Follows(disk, writes[1].snap)
         /\ DOMAIN writes = 1 .. Len(writes) /\ Len(writes) \in Nat \ {0}
         /\ DOMAIN writes' = 1 .. Len(writes) - 1
         /\ Len(writes') = Len(writes) - 1
         /\ writes' \in Seq([snap : FenceSnapshot, epoch : 0 .. MaxEpoch])
         /\ \A i \in 1 .. Len(writes) - 1 : writes'[i] = writes[i + 1]
         /\ OwnerOK'
         /\ owner' \in [Epochs -> Keys \cup {Nobody}]
         /\ \A e \in Epochs : owner[e] # Nobody => owner'[e] = owner[e]
         /\ IsLive(disk') => owner'[disk'.live.epoch] = KeyOf(disk'.live)
         /\ disk.hwm <= disk'.hwm
  <1> DEFINE S == [snap : FenceSnapshot, epoch : 0 .. MaxEpoch]
             d == writes[1].snap
  <1> USE DEF IInv
  <1>1. writes \in Seq(S) /\ writes # <<>> /\ writes' = Tail(writes)
        /\ disk' = Head(writes).snap
    BY DEF WriteLands, TypeOK
  <1>2. /\ Head(writes) \in S /\ Head(writes) = writes[1]
        /\ Tail(writes) \in Seq(S)
        /\ DOMAIN writes = 1 .. Len(writes) /\ Len(writes) \in Nat \ {0}
        /\ DOMAIN Tail(writes) = 1 .. Len(writes) - 1
        /\ Len(Tail(writes)) = Len(writes) - 1
        /\ \A i \in 1 .. Len(writes) - 1 : Tail(writes)[i] = writes[i + 1]
    <2> HIDE DEF S
    <2> QED BY <1>1, TailFacts
  <1>3. d \in FenceSnapshot /\ disk' = d
    BY <1>1, <1>2
  <1>4. FenceOK(d) /\ Follows(disk, d) /\ disk.hwm <= d.hwm /\ FenceOK(disk)
    <2>1. 1 \in DOMAIN writes
      BY <1>2
    <2> QED
      BY <2>1 DEF ChainOK, Before
  <1>5. owner' = IF IsLive(d) /\ d.live.epoch \in Epochs
                 THEN [owner EXCEPT ![d.live.epoch] = KeyOf(d.live)]
                 ELSE owner
    BY <1>3 DEF WriteLands
  <1>6. disk \in FenceSnapshot /\ owner \in [Epochs -> Keys \cup {Nobody}] /\ OwnerOK
    BY DEF TypeOK
  <1> HIDE DEF d, S
  <1>7. /\ OwnerOK'
        /\ owner' \in [Epochs -> Keys \cup {Nobody}]
        /\ \A e \in Epochs : owner[e] # Nobody => owner'[e] = owner[e]
        /\ IsLive(d) => owner'[d.live.epoch] = KeyOf(d.live)
    BY <1>3, <1>4, <1>5, <1>6, LandOwner
  <1> QED
    BY <1>1, <1>2, <1>3, <1>4, <1>7 DEF d, S

LEMMA WriteLandsInv ==
  ASSUME IInv, WriteLands
  PROVE  IInv'
  <1> DEFINE n == Len(writes)
  <1> USE DEF IInv
  <1>1. /\ process # "down" /\ process' = process
        /\ UNCHANGED <<fence, life, seq, waiting, prompts>>
    BY DEF WriteLands
  <1>2. /\ writes[1].snap \in FenceSnapshot /\ disk' = writes[1].snap
        /\ DOMAIN writes = 1 .. n /\ n \in Nat \ {0}
        /\ DOMAIN writes' = 1 .. n - 1 /\ Len(writes') = n - 1
        /\ \A i \in 1 .. n - 1 : writes'[i] = writes[i + 1]
        /\ disk.hwm <= disk'.hwm
    BY LandFacts
  <1>3. TypeOK'
    BY <1>1, LandFacts DEF TypeOK
  <1>4. ChainOK'
    <2>1. FenceOK(disk')
      BY LandFacts
    <2>2. \A i \in 1 .. n - 1 : i \in DOMAIN writes /\ i + 1 \in DOMAIN writes
                                /\ 1 \in DOMAIN writes /\ 1 <= i + 1
      BY <1>2
    <2>3. \A i \in 1 .. n : (Before(i))' = writes[i].snap
      <3> SUFFICES ASSUME NEW i \in 1 .. n PROVE (Before(i))' = writes[i].snap
        OBVIOUS
      <3>1. CASE i = 1
        BY <3>1, <1>2 DEF Before
      <3>2. CASE i # 1
        <4>1. i - 1 \in 1 .. n - 1 /\ (i - 1) + 1 = i
          BY <3>2, <1>2
        <4>2. writes'[i - 1] = writes[i]
          BY <4>1, <1>2
        <4> QED
          BY <3>2, <4>2 DEF Before
      <3> QED BY <3>1, <3>2
    <2>4. \A i \in 1 .. n - 1 : Before(i + 1) = writes[i].snap
      BY <1>2 DEF Before
    <2>5. \A i \in DOMAIN writes' : /\ FenceOK(writes'[i].snap)
                                    /\ Follows((Before(i))', writes'[i].snap)
      <3> SUFFICES ASSUME NEW i \in 1 .. n - 1
                   PROVE  FenceOK(writes'[i].snap) /\ Follows((Before(i))', writes'[i].snap)
        BY <1>2
      <3>1. FenceOK(writes[i + 1].snap) /\ Follows(Before(i + 1), writes[i + 1].snap)
        BY <2>2 DEF ChainOK
      <3> QED
        BY <3>1, <2>2, <2>3, <2>4, <1>2
    <2>6. \A i, j \in DOMAIN writes' :
             i <= j => writes'[i].snap.hwm <= writes'[j].snap.hwm
      <3> SUFFICES ASSUME NEW i \in 1 .. n - 1, NEW j \in 1 .. n - 1, i <= j
                   PROVE  writes'[i].snap.hwm <= writes'[j].snap.hwm
        BY <1>2
      <3>1. i + 1 <= j + 1 /\ i + 1 \in DOMAIN writes /\ j + 1 \in DOMAIN writes
        BY <2>2
      <3> QED
        BY <3>1, <1>2 DEF ChainOK
    <2>7. \A i \in DOMAIN writes' : disk'.hwm <= writes'[i].snap.hwm
      <3> SUFFICES ASSUME NEW i \in 1 .. n - 1
                   PROVE  writes[1].snap.hwm <= writes[i + 1].snap.hwm
        BY <1>2
      <3> QED
        BY <2>2 DEF ChainOK
    <2>8. fence' = (Before(Len(writes) + 1))'
      <3>1. fence = writes[n].snap
        BY <1>1, <1>2 DEF ChainOK, Before
      <3>2. CASE n = 1
        <4>1. fence = writes[1].snap
          BY <3>1, <3>2
        <4>2. Len(writes') = 0
          BY <3>2, <1>2
        <4>3. fence' = disk'
          BY <4>1, <1>1, <1>2
        <4> QED
          BY <4>2, <4>3 DEF Before
      <3>3. CASE n # 1
        <4>1. n - 1 \in 1 .. n - 1 /\ (n - 1) + 1 = n
          BY <3>3, <1>2
        <4>2. writes'[n - 1] = writes[n]
          BY <4>1, <1>2
        <4> QED
          BY <3>1, <3>3, <4>1, <4>2, <1>1, <1>2 DEF Before
      <3> QED BY <3>2, <3>3
    <2> QED
      BY <2>1, <2>5, <2>6, <2>7, <2>8 DEF ChainOK
  <1>5. OwnerOK'
    BY LandFacts
  <1>6. PromptDurable'
    <2> SUFFICES ASSUME NEW p \in prompts
                 PROVE  p.epoch <= disk'.hwm /\ owner'[p.epoch] = p.key
      BY <1>1 DEF PromptDurable
    <2>1. p.epoch \in Epochs /\ p.key \in Keys /\ p.epoch <= disk.hwm
          /\ owner[p.epoch] = p.key
      BY DEF PromptDurable, TypeOK, Prompt
    <2>2. owner'[p.epoch] = p.key
      BY <2>1, LandFacts, NobodyAssumption
    <2>3. disk.hwm \in Nat /\ disk'.hwm \in Nat /\ p.epoch \in Nat
      BY <2>1, <1>2 DEF TypeOK, FenceSnapshot, Epochs
    <2> QED
      BY <2>1, <2>2, <2>3, <1>2
  <1>7. PromptOnce'
    BY <1>1 DEF PromptOnce
  <1>8. WaitingOK'
    <2>1. \A i \in DOMAIN writes' : i + 1 \in DOMAIN writes /\ writes'[i] = writes[i + 1]
      BY <1>2
    <2>2. ASSUME NEW w \in waiting, Written(w.epoch)'
          PROVE  owner'[w.epoch] = w.key
      <3>0. w.epoch \in Epochs /\ w.key \in Keys
        BY DEF TypeOK
      <3>1. CASE writes[1].epoch = w.epoch
        <4>1. 1 \in DOMAIN writes /\ w.epoch # 0
          BY <1>2, <3>0 DEF Epochs
        <4>2. /\ KeyOf(writes[1].snap.live) = w.key
              /\ IsLive(writes[1].snap)
              /\ writes[1].snap.live.epoch = w.epoch
          BY <3>1, <4>1 DEF WaitingOK
        <4> QED
          BY <4>2, <1>2, LandFacts
      <3>2. CASE writes[1].epoch # w.epoch
        <4>1. \A i \in DOMAIN writes : writes[i].epoch # w.epoch
          <5> SUFFICES ASSUME NEW i \in 1 .. n, i # 1
                       PROVE  writes[i].epoch # w.epoch
            BY <3>2, <1>2
          <5>1. i - 1 \in 1 .. n - 1 /\ (i - 1) + 1 = i
            BY <1>2
          <5>2. writes'[i - 1] = writes[i] /\ i - 1 \in DOMAIN writes'
            BY <5>1, <1>2
          <5> QED
            BY <5>2, <2>2 DEF Written
        <4>2. owner[w.epoch] = w.key
          BY <4>1 DEF WaitingOK, Written
        <4> QED
          BY <4>2, <3>0, LandFacts, NobodyAssumption
      <3> QED BY <3>1, <3>2
    <2>3. /\ process' # "up" => waiting' = {}
          /\ process' = "down" => writes' = <<>>
      BY <1>1 DEF WaitingOK
    <2>4. \A i \in DOMAIN writes' :
             writes'[i].epoch # 0 => /\ IsLive(writes'[i].snap)
                                     /\ writes'[i].snap.live.epoch = writes'[i].epoch
      BY <2>1 DEF WaitingOK
    <2>5. \A w \in waiting :
             /\ w.epoch <= fence.hwm
             /\ \A i \in DOMAIN writes' :
                   writes'[i].epoch = w.epoch => KeyOf(writes'[i].snap.live) = w.key
             /\ \A v \in waiting : v.epoch = w.epoch => v = w
             /\ \A p \in prompts : p.epoch # w.epoch
      BY <2>1 DEF WaitingOK
    <2> QED
      BY <1>1, <2>2, <2>3, <2>4, <2>5 DEF WaitingOK
  <1> QED
    BY <1>3, <1>4, <1>5, <1>6, <1>7, <1>8

LEMMA RestartInv ==
  ASSUME IInv, Restart
  PROVE  IInv'
  <1> USE DEF IInv
  <1>1. /\ process = "down" /\ life' = life + 1 /\ seq' = 0
        /\ UNCHANGED <<disk, waiting, prompts, owner>>
        /\ waiting = {} /\ writes = <<>>
    BY DEF Restart, WaitingOK
  <1>2. disk \in FenceSnapshot /\ FenceOK(disk) /\ life' \in Nat /\ seq' \in Nat
    BY <1>1 DEF TypeOK, ChainOK
  <1>3. OwnerOK' /\ PromptDurable' /\ PromptOnce'
    BY <1>1 DEF OwnerOK, PromptDurable, PromptOnce
  <1>4. CASE ~ IsLive(disk)
    <2>1. fence' = disk /\ process' = "up" /\ writes' = <<>>
      BY <1>1, <1>4 DEF Restart
    <2>2. TypeOK'
      BY <1>1, <1>2, <2>1 DEF TypeOK
    <2>3. ChainOK'
      BY <1>1, <1>2, <2>1 DEF ChainOK, Before
    <2>4. WaitingOK'
      BY <1>1, <2>1 DEF WaitingOK
    <2> QED
      BY <1>3, <2>2, <2>3, <2>4
  <1>5. CASE IsLive(disk)
    <2> DEFINE g == Settle(disk, "failed")
               x == [snap |-> g, epoch |-> 0]
               S == [snap : FenceSnapshot, epoch : 0 .. MaxEpoch]
    <2>1. /\ fence' = g /\ process' = "recovering"
          /\ writes' = Append(<<>>, x)
      BY <1>1, <1>5 DEF Restart, Persist
    <2>2. Step(disk, g)
      BY <1>2, <1>5, VerdictAssumption, SettleStep
    <2>3. x \in S /\ x.epoch = 0 /\ x.snap = g
      BY <2>2, BoundAssumption DEF Step
    <2> HIDE DEF g, x, S
    <2>4. /\ writes' \in Seq(S) /\ DOMAIN writes' = 1 .. 1 /\ Len(writes') = 1
          /\ writes'[1] = x
      BY <2>1, <2>3
    <2>5. TypeOK'
      BY <1>1, <1>2, <2>1, <2>2, <2>4 DEF S, TypeOK, Step
    <2>6. ChainOK'
      <3>1. (Before(1))' = disk /\ fence' = (Before(Len(writes) + 1))'
        BY <1>1, <2>1, <2>3, <2>4 DEF Before
      <3>2. g.hwm <= g.hwm /\ disk.hwm <= g.hwm
        BY <1>2, <2>2 DEF Step, FenceSnapshot
      <3> QED
        BY <1>1, <1>2, <2>2, <2>3, <2>4, <3>1, <3>2 DEF ChainOK, Step
    <2>7. WaitingOK'
      BY <1>1, <2>1, <2>3, <2>4 DEF WaitingOK
    <2> QED
      BY <1>3, <2>5, <2>6, <2>7
  <1> QED BY <1>4, <1>5

LEMMA CrashInv ==
  ASSUME IInv, Crash
  PROVE  IInv'
  <1> USE DEF IInv
  <1>1. /\ process' = "down" /\ fence' = EmptyFence /\ writes' = <<>>
        /\ waiting' = {} /\ UNCHANGED <<disk, life, seq, prompts, owner>>
    BY DEF Crash
  <1>2. TypeOK'
    BY <1>1, EmptyFenceOK DEF TypeOK
  <1>3. ChainOK' /\ WaitingOK'
    BY <1>1 DEF ChainOK, WaitingOK
  <1>4. OwnerOK' /\ PromptDurable' /\ PromptOnce'
    BY <1>1 DEF OwnerOK, PromptDurable, PromptOnce
  <1> QED
    BY <1>2, <1>3, <1>4

LEMMA RecoveredInv ==
  ASSUME IInv, Recovered
  PROVE  IInv'
  <1> USE DEF IInv
  <1>1. /\ process = "recovering" /\ process' = "up"
        /\ UNCHANGED <<fence, writes, disk, life, seq, waiting, prompts, owner>>
    BY DEF Recovered
  <1>2. TypeOK' /\ OwnerOK' /\ PromptDurable' /\ PromptOnce'
    BY <1>1 DEF TypeOK, OwnerOK, PromptDurable, PromptOnce
  <1>3. ChainOK'
    BY <1>1 DEF ChainOK, Before
  <1>4. WaitingOK'
    BY <1>1 DEF WaitingOK, Written
  <1> QED
    BY <1>2, <1>3, <1>4

\* Every step keeps the strengthening.
LEMMA NextInv ==
  ASSUME IInv, [Next]_vars
  PROVE  IInv'
  <1> USE DEF IInv
  <1>0. seq \in Nat /\ life \in Nat /\ seq + 1 \in Nat
    BY DEF TypeOK
  <1>1. ASSUME process = "up"
        PROVE  fence \in FenceSnapshot /\ FenceOK(fence)
    BY <1>1, MemoryOK
  <1>2. ASSUME NEW k \in Keys, NEW r \in 0 .. MaxEpoch, Accept(k, r) PROVE IInv'
    BY <1>2, AcceptInv
  <1>3. ASSUME NEW w \in waiting, SendPrompt(w) PROVE IInv'
    BY <1>3, SendPromptInv
  <1>4. CASE Ack
    <2>1. /\ process = "up" /\ seq' = seq + 1 /\ fence' = NoteAck(fence, seq + 1)
          /\ Persist(fence', 0)
          /\ UNCHANGED <<disk, process, life, waiting, prompts, owner>>
      BY <1>4 DEF Ack
    <2>2. Step(fence, fence')
      BY <1>0, <1>1, <2>1, NoteAckStep
    <2> QED
      BY <1>0, <2>1, <2>2, EnqueueInv
  <1>5. CASE Start
    <2>1. /\ process = "up" /\ seq' = seq + 1
          /\ UNCHANGED <<disk, process, life, waiting, prompts, owner>>
      BY <1>5 DEF Start
    <2>2. CASE BindsStart(fence, seq')
      <3>1. fence' = BindStart(fence) /\ Persist(fence', 0) /\ IsLive(fence)
        BY <1>5, <2>2 DEF Start, BindsStart, AttributedLive
      <3>2. Step(fence, fence')
        BY <1>1, <2>1, <3>1, BindStartStep
      <3> QED
        BY <1>0, <2>1, <3>1, <3>2, EnqueueInv
    <2>3. CASE ~ BindsStart(fence, seq')
      <3>1. UNCHANGED <<fence, writes>>
        BY <1>5, <2>3 DEF Start
      <3> QED
        BY <1>0, <2>1, <3>1
        DEF TypeOK, ChainOK, Before, OwnerOK, WaitingOK, Written,
            PromptDurable, PromptOnce
    <2> QED BY <2>2, <2>3
  <1>6. ASSUME NEW d \in BOOLEAN, NoteInterrupt(d) PROVE IInv'
    <2>1. /\ process = "up" /\ IsLive(fence) /\ seq' = seq
          /\ fence' = NoteAbort(IF d THEN NoteTimedOut(fence) ELSE fence)
          /\ Persist(fence', 0)
          /\ UNCHANGED <<disk, process, life, waiting, prompts, owner>>
      BY <1>6 DEF NoteInterrupt
    <2>2. Step(fence, fence')
      BY <1>1, <2>1, InterruptStep
    <2> QED
      BY <1>0, <2>1, <2>2, EnqueueInv
  <1>7. ASSUME NEW v \in Verdicts, SettleEpoch(v) PROVE IInv'
    <2>1. /\ process = "up" /\ IsLive(fence) /\ seq' = seq
          /\ fence' = Settle(fence, v) /\ Persist(fence', 0)
          /\ UNCHANGED <<disk, process, life, waiting, prompts, owner>>
      BY <1>7 DEF SettleEpoch
    <2>2. Step(fence, fence')
      BY <1>1, <2>1, SettleStep
    <2> QED
      BY <1>0, <2>1, <2>2, EnqueueInv
  <1>8. ASSUME NEW k \in Keys, CancelEpoch(k) PROVE IInv'
    <2>1. /\ process = "up" /\ Cancels(fence, k) /\ seq' = seq
          /\ fence' = Cancel(fence, k) /\ Persist(fence', 0)
          /\ UNCHANGED <<disk, process, life, waiting, prompts, owner>>
      BY <1>8 DEF CancelEpoch
    <2>2. Step(fence, fence')
      BY <1>1, <2>1, CancelStep
    <2> QED
      BY <1>0, <2>1, <2>2, EnqueueInv
  <1>9. CASE UNCHANGED vars
    BY <1>9
    DEF vars, TypeOK, ChainOK, Before, OwnerOK, WaitingOK, Written,
        PromptDurable, PromptOnce
  <1> HIDE DEF IInv
  <1> QED
    BY <1>2, <1>3, <1>4, <1>5, <1>6, <1>7, <1>8, <1>9, WriteLandsInv,
       CrashInv, RestartInv, RecoveredInv
    DEF Next

-----------------------------------------------------------------------------
(* The theorems.  They hold for every number of tasks, attempts, epochs,   *)
(* stdout records and restarts.                                            *)

\* The strengthening is an invariant.
THEOREM Inductive == Spec => []IInv
  <1>1. Init => IInv
    BY InitInv
  <1>2. IInv /\ [Next]_vars => IInv'
    BY NextInv
  <1> QED
    BY <1>1, <1>2, PTL DEF Spec

\* Types: memory, file and every queued snapshot are fence records.
THEOREM TypeCorrect == Spec => []TypeOK
  <1>1. IInv => TypeOK
    BY DEF IInv
  <1> QED
    BY <1>1, Inductive, PTL

\* "The high-water-mark is persisted BEFORE the prompt is sent."
THEOREM PromptsAreDurable == Spec => []PromptDurable
  <1>1. IInv => PromptDurable
    BY DEF IInv
  <1> QED
    BY <1>1, Inductive, PTL

\* "Allocate-then-crash-then-restart must not re-issue an epoch."
THEOREM EpochsNeverReissued == Spec => []PromptOnce
  <1>1. IInv => PromptOnce
    BY DEF IInv
  <1> QED
    BY <1>1, Inductive, PTL

-----------------------------------------------------------------------------
(* A retry is answered.  What the fence says of an epoch that some handler *)
(* was given, it says of that very attempt: in memory, in every queued     *)
(* snapshot and in the file.                                               *)

\* The fence g gives the epoch of x to no attempt but that of x.
Agrees(g, x) ==
    /\ IsLive(g) /\ g.live.epoch = x.epoch => KeyOf(g.live) = x.key
    /\ \A c \in g.completed : c.epoch = x.epoch => KeyOf(c) = x.key

Agreeing(x) ==
    /\ Agrees(disk, x)
    /\ Agrees(fence, x)
    /\ \A i \in DOMAIN writes : Agrees(writes[i].snap, x)

AgreeInv == \A x \in prompts \cup waiting : Agreeing(x)

\* A ledger step keeps the agreement about every epoch already handed out:
\* allocate takes a number above them, settle and cancel name the live one.
LEMMA AgreeFollows ==
  ASSUME NEW f \in FenceSnapshot, FenceOK(f), NEW g, Step(f, g),
         NEW x, x.epoch \in Nat, x.epoch <= f.hwm, Agrees(f, x)
  PROVE  Agrees(g, x)
  <1>1. /\ f.hwm \in Nat /\ g.hwm \in Nat
        /\ IsLive(f) => f.live.epoch = f.hwm
        /\ IsLive(g) => g.live.epoch = g.hwm
    BY DEF Step, FenceSnapshot, FenceOK
  <1>2. CASE SameLedger(f, g)
    BY <1>1, <1>2 DEF SameLedger, Agrees
  <1>3. CASE g.hwm = f.hwm + 1 /\ g.completed = f.completed
    BY <1>1, <1>3 DEF Agrees
  <1>4. CASE IsLive(f) /\ \E v \in Verdicts : SameLedger(Settle(f, v), g)
    <2>1. PICK v \in Verdicts : SameLedger(Settle(f, v), g)
      BY <1>4
    <2> DEFINE c == [task |-> f.live.task, attempt |-> f.live.attempt,
                     epoch |-> f.live.epoch, verdict |-> v]
    <2>2. c.epoch = f.live.epoch /\ KeyOf(c) = KeyOf(f.live)
      BY DEF KeyOf
    <2>3. /\ Settle(f, v).completed = f.completed \cup {c}
          /\ ~ IsLive(Settle(f, v))
      BY DEF Settle, FenceSnapshot, IsLive
    <2> HIDE DEF c
    <2>4. g.completed = f.completed \cup {c} /\ ~ IsLive(g)
      BY <2>1, <2>3 DEF SameLedger
    <2> QED
      BY <1>4, <2>2, <2>4 DEF Agrees
  <1>5. CASE IsLive(f) /\ SameLedger(Cancel(f, KeyOf(f.live)), g)
    <2>1. /\ Cancel(f, KeyOf(f.live)).completed = f.completed
          /\ ~ IsLive(Cancel(f, KeyOf(f.live)))
      BY DEF Cancel, FenceSnapshot, IsLive
    <2>2. g.completed = f.completed /\ ~ IsLive(g)
      BY <1>5, <2>1 DEF SameLedger
    <2> QED
      BY <2>2 DEF Agrees
  <1> QED
    BY <1>2, <1>3, <1>4, <1>5 DEF Step, Follows

\* A fence says nothing of an epoch above its high-water-mark.
LEMMA AgreeAbove ==
  ASSUME NEW f \in FenceSnapshot, FenceOK(f),
         NEW x, x.epoch \in Nat, x.epoch > f.hwm
  PROVE  Agrees(f, x)
  BY DEF Agrees, FenceOK, FenceSnapshot, CompletedTask, LiveEpoch, IsLive

\* Every epoch prompted or waited for was handed out by the fence in memory,
\* and every snapshot on its way to disk is no newer than it.
LEMMA HandedOut ==
  ASSUME IInv, process # "down"
  PROVE  /\ fence.hwm \in Nat
         /\ \A x \in prompts \cup waiting :
               x.epoch \in Nat /\ x.epoch <= fence.hwm
         /\ \A i \in DOMAIN writes : /\ writes[i].snap \in FenceSnapshot
                                     /\ FenceOK(writes[i].snap)
                                     /\ writes[i].snap.hwm <= fence.hwm
  <1> DEFINE n == Len(writes)
  <1> USE DEF IInv
  <1>1. /\ fence \in FenceSnapshot /\ disk.hwm <= fence.hwm
        /\ fence.hwm \in Nat /\ disk.hwm \in Nat
    BY MemoryOK DEF TypeOK, FenceSnapshot
  <1>2. \A p \in prompts : p.epoch \in Nat /\ p.epoch <= fence.hwm
    BY <1>1 DEF PromptDurable, TypeOK, Prompt, Epochs
  <1>3. \A w \in waiting : w.epoch \in Nat /\ w.epoch <= fence.hwm
    BY DEF WaitingOK, TypeOK, Epochs
  <1>4. ASSUME NEW i \in DOMAIN writes
        PROVE  writes[i].snap.hwm <= fence.hwm
    <2>1. n \in DOMAIN writes /\ i <= n /\ n # 0 /\ n \in Nat
      BY DEF TypeOK
    <2>2. fence = writes[n].snap
      BY <2>1 DEF ChainOK, Before
    <2> QED
      BY <2>1, <2>2 DEF ChainOK
  <1>5. \A i \in DOMAIN writes : /\ writes[i].snap \in FenceSnapshot
                                 /\ FenceOK(writes[i].snap)
    <2> DEFINE S == [snap : FenceSnapshot, epoch : 0 .. MaxEpoch]
    <2>1. writes \in Seq(S)
      BY DEF TypeOK
    <2>2. \A q \in S : q.snap \in FenceSnapshot
      OBVIOUS
    <2> HIDE DEF S
    <2>3. \A i \in DOMAIN writes : writes[i] \in S
      BY <2>1
    <2>4. \A i \in DOMAIN writes : FenceOK(writes[i].snap)
      BY DEF ChainOK
    <2> QED
      BY <2>2, <2>3, <2>4
  <1> QED
    BY <1>1, <1>2, <1>3, <1>4, <1>5

\* Queueing a snapshot one ledger step after memory keeps the agreement, also
\* about the epoch that very step hands out.
LEMMA EnqueueAgrees ==
  ASSUME IInv, AgreeInv, process = "up", UNCHANGED <<disk, prompts>>,
         NEW g, Step(fence, g), fence' = g,
         NEW e \in 0 .. MaxEpoch, Persist(g, e),
         \A x \in waiting' : \/ x \in waiting
                             \/ x.epoch = fence.hwm + 1 /\ Agrees(g, x)
  PROVE  AgreeInv'
  <1> DEFINE S == [snap : FenceSnapshot, epoch : 0 .. MaxEpoch]
             y == [snap |-> g, epoch |-> e]
             n == Len(writes)
  <1>1. y \in S /\ y.snap = g
    BY DEF Step
  <1>2. writes \in Seq(S) /\ writes' = Append(writes, y)
    BY DEF IInv, TypeOK, Persist
  <1> HIDE DEF y, S
  <1>3. /\ DOMAIN writes' = 1 .. n + 1 /\ DOMAIN writes = 1 .. n /\ n \in Nat
        /\ writes'[n + 1] = y
        /\ \A i \in 1 .. n : writes'[i] = writes[i]
    BY <1>1, <1>2, AppendFacts
  <1>4. /\ fence \in FenceSnapshot /\ FenceOK(fence) /\ disk.hwm <= fence.hwm
        /\ disk \in FenceSnapshot /\ FenceOK(disk)
        /\ fence.hwm \in Nat /\ disk.hwm \in Nat
    BY MemoryOK DEF IInv, TypeOK, ChainOK, FenceSnapshot
  <1>5. SUFFICES ASSUME NEW x \in prompts' \cup waiting'
                 PROVE  /\ Agrees(disk, x) /\ Agrees(g, x)
                        /\ \A i \in DOMAIN writes : Agrees(writes[i].snap, x)
    BY <1>1, <1>3 DEF AgreeInv, Agreeing
  <1>6. CASE x \in prompts \cup waiting
    <2>1. Agreeing(x)
      BY <1>6 DEF AgreeInv
    <2>2. x.epoch \in Nat /\ x.epoch <= fence.hwm
      BY <1>6, HandedOut
    <2> QED
      BY <1>4, <2>1, <2>2, AgreeFollows DEF Agreeing
  <1>7. CASE x.epoch = fence.hwm + 1 /\ Agrees(g, x)
    <2>1. /\ x.epoch \in Nat /\ x.epoch > disk.hwm
          /\ \A i \in DOMAIN writes : writes[i].snap.hwm < x.epoch
                                      /\ writes[i].snap \in FenceSnapshot
                                      /\ FenceOK(writes[i].snap)
      <3>1. \A i \in DOMAIN writes : /\ writes[i].snap.hwm <= fence.hwm
                                     /\ writes[i].snap \in FenceSnapshot
                                     /\ FenceOK(writes[i].snap)
                                     /\ writes[i].snap.hwm \in Nat
        BY HandedOut DEF FenceSnapshot
      <3> QED
        BY <3>1, <1>4, <1>7
    <2>2. Agrees(disk, x)
      BY <2>1, <1>4, AgreeAbove
    <2>3. ASSUME NEW i \in DOMAIN writes PROVE Agrees(writes[i].snap, x)
      <3>1. /\ writes[i].snap \in FenceSnapshot /\ FenceOK(writes[i].snap)
            /\ x.epoch > writes[i].snap.hwm
        BY <2>1 DEF FenceSnapshot
      <3> QED
        BY <3>1, <2>1, AgreeAbove
    <2> QED
      BY <1>7, <2>2, <2>3
  <1> QED
    BY <1>5, <1>6, <1>7

\* Accepting a request agrees about the epoch it hands out.
LEMMA AcceptAgrees ==
  ASSUME IInv, AgreeInv, NEW k \in Keys, NEW r \in 0 .. MaxEpoch, Accept(k, r)
  PROVE  AgreeInv'
  <1> DEFINE g == Allocate(fence, k)
             e == fence.hwm + 1
             w == [epoch |-> e, key |-> k]
  <1>1. /\ process = "up" /\ fence.hwm < MaxEpoch /\ Admits(fence, k, r)
        /\ fence' = g /\ UNCHANGED <<disk, prompts>>
    BY DEF Accept
  <1>2. fence \in FenceSnapshot /\ FenceOK(fence)
    BY <1>1, MemoryOK
  <1>3. /\ Step(fence, g) /\ g.hwm = e /\ IsLive(g) /\ g.live.epoch = e
        /\ KeyOf(g.live) = k
    BY <1>1, <1>2, AllocateStep
  <1>4. e \in 0 .. MaxEpoch /\ fence.hwm \in Nat
    BY <1>1, <1>2, BoundAssumption DEF FenceSnapshot
  <1>5. Persist(g, e) /\ waiting' = waiting \cup {w}
    BY <1>1, <1>3 DEF Accept
  <1>6. g.completed = fence.completed
    BY <1>2 DEF Allocate, FenceSnapshot
  <1>7. Agrees(g, w) /\ w.epoch = e
    <2>1. w.epoch = e /\ w.key = k
      OBVIOUS
    <2>2. \A c \in fence.completed : c.epoch # e
      BY <1>2, <1>4 DEF FenceOK, FenceSnapshot, CompletedTask
    <2> HIDE DEF g, e, w
    <2> QED
      BY <1>3, <1>6, <2>1, <2>2 DEF Agrees
  <1> HIDE DEF g, w
  <1>8. \A x \in waiting' : \/ x \in waiting
                            \/ x.epoch = fence.hwm + 1 /\ Agrees(g, x)
    BY <1>5, <1>7
  <1> HIDE DEF e
  <1> QED
    BY <1>1, <1>3, <1>4, <1>5, <1>8, EnqueueAgrees

\* Sending a prompt moves the attempt from the handlers to the prompts.
LEMMA SendPromptAgrees ==
  ASSUME IInv, AgreeInv, NEW w \in waiting, SendPrompt(w)
  PROVE  AgreeInv'
  <1> DEFINE p == [epoch |-> w.epoch, key |-> w.key, life |-> life]
  <1>1. /\ waiting' = waiting \ {w} /\ prompts' = prompts \cup {p}
        /\ UNCHANGED <<fence, writes, disk>>
    BY DEF SendPrompt
  <1>2. p.epoch = w.epoch /\ p.key = w.key
    OBVIOUS
  <1> HIDE DEF p
  <1>3. Agreeing(p)
    BY <1>2 DEF AgreeInv, Agreeing, Agrees
  <1>4. \A x \in prompts \cup waiting \cup {p} : Agreeing(x)
    BY <1>3 DEF AgreeInv
  <1>5. \A x \in prompts \cup waiting \cup {p} : Agreeing(x)'
    BY <1>1, <1>4 DEF Agreeing, Agrees
  <1> QED
    BY <1>1, <1>5 DEF AgreeInv

\* A write that lands puts on disk a snapshot that agreed in the queue.
LEMMA WriteLandsAgrees ==
  ASSUME IInv, AgreeInv, WriteLands
  PROVE  AgreeInv'
  <1> DEFINE n == Len(writes)
  <1>1. /\ DOMAIN writes = 1 .. n /\ n \in Nat \ {0}
        /\ DOMAIN writes' = 1 .. n - 1
        /\ \A i \in 1 .. n - 1 : writes'[i] = writes[i + 1]
        /\ disk' = writes[1].snap
    BY LandFacts
  <1>2. UNCHANGED <<fence, prompts, waiting>>
    BY DEF WriteLands
  <1>3. 1 \in DOMAIN writes /\ \A i \in 1 .. n - 1 : i + 1 \in DOMAIN writes
    BY <1>1
  <1> QED
    BY <1>1, <1>2, <1>3 DEF AgreeInv, Agreeing

\* A relaunch settles the epoch it finds live under its own attempt.
LEMMA RestartAgrees ==
  ASSUME IInv, AgreeInv, Restart
  PROVE  AgreeInv'
  <1>1. /\ waiting = {} /\ writes = <<>> /\ UNCHANGED <<disk, waiting, prompts>>
        /\ disk \in FenceSnapshot /\ FenceOK(disk)
    BY DEF Restart, IInv, WaitingOK, TypeOK, ChainOK
  <1>2. \A x \in prompts : /\ Agrees(disk, x) /\ x.epoch \in Nat
                           /\ x.epoch <= disk.hwm
    BY DEF AgreeInv, Agreeing, IInv, PromptDurable, TypeOK, Prompt, Epochs
  <1>3. CASE ~ IsLive(disk)
    <2>1. fence' = disk /\ writes' = <<>>
      BY <1>1, <1>3 DEF Restart
    <2> QED
      BY <1>1, <1>2, <2>1 DEF AgreeInv, Agreeing
  <1>4. CASE IsLive(disk)
    <2> DEFINE g == Settle(disk, "failed")
               y == [snap |-> g, epoch |-> 0]
    <2>1. fence' = g /\ writes' = Append(<<>>, y)
      BY <1>1, <1>4 DEF Restart, Persist
    <2>2. Step(disk, g)
      BY <1>1, <1>4, VerdictAssumption, SettleStep
    <2>3. y.snap = g
      OBVIOUS
    <2> HIDE DEF g, y
    <2>4. DOMAIN writes' = 1 .. 1 /\ writes'[1] = y
      BY <2>1
    <2>5. \A x \in prompts : Agrees(g, x)
      BY <1>1, <1>2, <2>2, AgreeFollows
    <2> QED
      BY <1>1, <1>2, <2>1, <2>3, <2>4, <2>5 DEF AgreeInv, Agreeing
  <1> QED BY <1>3, <1>4

\* Every step keeps the agreement.
LEMMA NextAgrees ==
  ASSUME IInv, AgreeInv, [Next]_vars
  PROVE  AgreeInv'
  <1>1. ASSUME process = "up"
        PROVE  fence \in FenceSnapshot /\ FenceOK(fence)
    BY <1>1, MemoryOK
  <1>2. ASSUME process = "up", UNCHANGED <<disk, prompts, waiting>>,
               NEW g, Step(fence, g), fence' = g, Persist(g, 0)
        PROVE  AgreeInv'
    <2>1. 0 \in 0 .. MaxEpoch
      BY BoundAssumption
    <2> QED
      BY <1>2, <2>1, EnqueueAgrees
  <1>3. ASSUME UNCHANGED <<fence, writes, disk, waiting, prompts>>
        PROVE  AgreeInv'
    BY <1>3 DEF AgreeInv, Agreeing
  <1>4. CASE Ack
    <2>1. /\ process = "up" /\ fence' = NoteAck(fence, seq + 1)
          /\ Persist(fence', 0) /\ UNCHANGED <<disk, waiting, prompts>>
          /\ seq + 1 \in Nat
      BY <1>4 DEF Ack, IInv, TypeOK
    <2> QED
      BY <1>1, <1>2, <2>1, NoteAckStep
  <1>5. CASE Start
    <2>1. process = "up" /\ UNCHANGED <<disk, waiting, prompts>>
      BY <1>5 DEF Start
    <2>2. CASE BindsStart(fence, seq')
      <3>1. fence' = BindStart(fence) /\ Persist(fence', 0) /\ IsLive(fence)
        BY <1>5, <2>2 DEF Start, BindsStart, AttributedLive
      <3> QED
        BY <1>1, <1>2, <2>1, <3>1, BindStartStep
    <2>3. CASE ~ BindsStart(fence, seq')
      BY <1>3, <1>5, <2>1, <2>3 DEF Start
    <2> QED BY <2>2, <2>3
  <1>6. ASSUME NEW d \in BOOLEAN, NoteInterrupt(d) PROVE AgreeInv'
    <2>1. /\ process = "up" /\ IsLive(fence)
          /\ fence' = NoteAbort(IF d THEN NoteTimedOut(fence) ELSE fence)
          /\ Persist(fence', 0) /\ UNCHANGED <<disk, waiting, prompts>>
      BY <1>6 DEF NoteInterrupt
    <2>2. Step(fence, fence')
      BY <1>1, <2>1, InterruptStep
    <2> QED
      BY <1>2, <2>1, <2>2
  <1>7. ASSUME NEW v \in Verdicts, SettleEpoch(v) PROVE AgreeInv'
    <2>1. /\ process = "up" /\ IsLive(fence) /\ fence' = Settle(fence, v)
          /\ Persist(fence', 0) /\ UNCHANGED <<disk, waiting, prompts>>
      BY <1>7 DEF SettleEpoch
    <2> QED
      BY <1>1, <1>2, <2>1, SettleStep
  <1>8. ASSUME NEW k \in Keys, CancelEpoch(k) PROVE AgreeInv'
    <2>1. /\ process = "up" /\ Cancels(fence, k) /\ fence' = Cancel(fence, k)
          /\ Persist(fence', 0) /\ UNCHANGED <<disk, waiting, prompts>>
      BY <1>8 DEF CancelEpoch
    <2> QED
      BY <1>1, <1>2, <2>1, CancelStep
  <1>9. CASE Crash
    <2>1. /\ fence' = EmptyFence /\ writes' = <<>> /\ waiting' = {}
          /\ UNCHANGED <<disk, prompts>>
      BY <1>9 DEF Crash
    <2>2. ~ IsLive(EmptyFence) /\ EmptyFence.completed = {}
      BY DEF EmptyFence, IsLive
    <2> QED
      BY <2>1, <2>2 DEF AgreeInv, Agreeing, Agrees
  <1>10. CASE Recovered \/ UNCHANGED vars
    BY <1>3, <1>10 DEF Recovered, vars
  <1> QED
    BY <1>4, <1>5, <1>6, <1>7, <1>8, <1>9, <1>10, AcceptAgrees,
       SendPromptAgrees, WriteLandsAgrees, RestartAgrees
    DEF Next

\* A caller that lost the answer to a dispatch that was prompted gets the
\* same epoch again on a retry, in this life of the supervisor or a later
\* one, unless the epoch was released: the dedup table of EpochManager never
\* forgets an attempt that ran.
THEOREM RetriesAreAnswered == Spec => []RetryAnswered
  <1>1. Init => AgreeInv
    BY DEF Init, AgreeInv
  <1>2. IInv /\ AgreeInv /\ [Next]_vars => AgreeInv'
    BY NextAgrees
  <1>3. IInv /\ AgreeInv => RetryAnswered
    <2> SUFFICES ASSUME IInv, AgreeInv, process = "up", NEW p \in prompts
                 PROVE  \/ fence.attempts[p.key] = p.epoch
                        \/ /\ \A c \in fence.completed : c.epoch # p.epoch
                           /\ IsLive(fence) => fence.live.epoch # p.epoch
      BY DEF RetryAnswered
    <2>1. FenceOK(fence) /\ Agrees(fence, p)
      BY MemoryOK DEF AgreeInv, Agreeing
    <2> QED
      BY <2>1 DEF FenceOK, Agrees
  <1> QED
    BY <1>1, <1>2, <1>3, Inductive, PTL DEF Spec

-----------------------------------------------------------------------------
(* The fence file implements EpochLedger.                                  *)

\* A completed epoch has one verdict to read.
LEMMA VerdictOf ==
  ASSUME NEW f, FenceOK(f), NEW c \in f.completed
  PROVE  (CHOOSE d \in f.completed : d.epoch = c.epoch) = c
  BY DEF FenceOK

\* Steps that leave the file alone leave the ledger alone.
LEMMA LedgerStutters ==
  ASSUME disk' = disk, owner' = owner
  PROVE  UNCHANGED Ledger!ledgerVars
  BY DEF Ledger!ledgerVars, DiskOutcome

\* A write that lands is at most one step of the ledger.
LEMMA LandImplementsLedger ==
  ASSUME IInv, WriteLands
  PROVE  Ledger!LedgerNext \/ UNCHANGED Ledger!ledgerVars
  <1> DEFINE d == writes[1].snap
             h == disk.hwm
  <1>1. /\ d \in FenceSnapshot /\ disk' = d /\ FenceOK(d) /\ Follows(disk, d)
        /\ OwnerOK' /\ disk \in FenceSnapshot /\ FenceOK(disk) /\ OwnerOK
        /\ owner \in [Epochs -> Keys \cup {Nobody}]
    BY LandFacts DEF IInv, TypeOK, ChainOK
  <1>2. owner' = IF IsLive(d) /\ d.live.epoch \in Epochs
                 THEN [owner EXCEPT ![d.live.epoch] = KeyOf(d.live)]
                 ELSE owner
    BY <1>1 DEF WriteLands
  <1> HIDE DEF d
  <1>3. /\ h \in Nat /\ d.hwm \in Nat /\ d.hwm <= MaxEpoch /\ h <= MaxEpoch
        /\ MaxEpoch \in Nat
    BY <1>1, BoundAssumption DEF FenceSnapshot, FenceOK
  <1>4. IsLive(d) => /\ d.live \in LiveEpoch /\ d.live.epoch = d.hwm
                     /\ d.live.epoch \in Epochs /\ KeyOf(d.live) \in Keys
    BY <1>1, <1>3 DEF FenceSnapshot, FenceOK, IsLive, LiveEpoch, Epochs, KeyOf, Keys
  <1>5. IsLive(disk) => /\ disk.live \in LiveEpoch /\ disk.live.epoch = h
                        /\ h \in Epochs /\ h # 0
                        /\ \A c \in disk.completed : c.epoch # h
    BY <1>1, <1>3 DEF FenceSnapshot, FenceOK, IsLive, LiveEpoch, Epochs
  <1>6. \A e \in Epochs : e \in Nat /\ e # 0
    BY DEF Epochs
  <1>7. \A c \in disk.completed : c.epoch \in Epochs /\ c.epoch <= h
                                  /\ c.verdict \in Verdicts
    BY <1>1, <1>3 DEF FenceOK, FenceSnapshot, CompletedTask, Epochs
  <1>8. CASE SameLedger(disk, d)
    <2>1. /\ d.hwm = h /\ d.completed = disk.completed
          /\ IsLive(d) <=> IsLive(disk)
          /\ IsLive(d) => d.live.epoch = disk.live.epoch
                          /\ KeyOf(d.live) = KeyOf(disk.live)
      BY <1>4, <1>5, <1>8 DEF SameLedger
    <2>2. owner' = owner
      BY <1>1, <1>2, <1>4, <2>1 DEF OwnerOK
    <2>3. \A e \in Epochs : DiskOutcome(e)' = DiskOutcome(e)
      BY <1>1, <2>1 DEF DiskOutcome
    <2>4. (IF IsLive(disk) THEN disk.live.epoch ELSE 0)'
            = IF IsLive(disk) THEN disk.live.epoch ELSE 0
      BY <1>1, <2>1
    <2> QED
      BY <2>2, <2>3, <2>4 DEF Ledger!ledgerVars
  <1>9. CASE /\ ~ IsLive(disk)
             /\ IsLive(d)
             /\ Admits(disk, KeyOf(d.live), 0)
             /\ d.hwm = h + 1
             /\ d.completed = disk.completed
    <2> DEFINE e == h + 1
               k == KeyOf(d.live)
    <2>1. e \in Epochs /\ k \in Tasks \X Attempts /\ d.live.epoch = e
      BY <1>3, <1>4, <1>9 DEF Epochs, Keys
    <2>2. \A f \in Epochs : f < e <=> owner[f] # Nobody
      BY <1>1, <1>3, <1>6 DEF OwnerOK
    <2>3. \A f \in Epochs : DiskOutcome(f)' = DiskOutcome(f)
      BY <1>1, <1>3, <1>4, <1>6, <1>9 DEF DiskOutcome
    <2>4. ~ \E f \in Epochs : /\ owner[f] # Nobody
                              /\ owner[f][1] = k[1]
                              /\ DiskOutcome(f) \in Verdicts
      <3> SUFFICES ASSUME NEW f \in Epochs, owner[f][1] = k[1],
                          DiskOutcome(f) \in Verdicts
                   PROVE  FALSE
        OBVIOUS
      <3>1. PICK c \in disk.completed : c.epoch = f
        BY VerdictAssumption DEF DiskOutcome
      <3>2. owner[f] = KeyOf(c)
        BY <1>1, <3>1 DEF OwnerOK
      <3>3. c.task = k[1]
        BY <3>2 DEF KeyOf
      <3> QED
        BY <1>9, <3>1, <3>3 DEF Admits, AlreadyCompleted
    <2>5. owner' = [owner EXCEPT ![e] = k]
      BY <1>2, <1>9, <2>1
    <2>6. Ledger!Issue(e, k)
      BY <1>1, <1>9, <2>1, <2>2, <2>3, <2>4, <2>5
      DEF Ledger!Issue, Ledger!HasVerdict, Ledger!Epochs, Epochs
    <2> QED
      BY <2>1, <2>6 DEF Ledger!LedgerNext, Ledger!Epochs, Epochs
  <1>10. ASSUME IsLive(disk), ~ IsLive(d), d.hwm = h,
                NEW o \in Verdicts \cup {"released"},
                \A f \in Epochs :
                   DiskOutcome(f)' = IF f = h THEN o ELSE DiskOutcome(f)
         PROVE  Ledger!LedgerNext
    <2>1. owner' = owner
      BY <1>2, <1>10
    <2>2. [f \in Epochs |-> DiskOutcome(f)]'
            = [[f \in Epochs |-> DiskOutcome(f)] EXCEPT ![h] = o]
      BY <1>5, <1>10
    <2>3. Ledger!Close(h, o)
      BY <1>1, <1>5, <1>10, <2>1, <2>2 DEF Ledger!Close
    <2> QED
      BY <1>5, <1>10, <2>3 DEF Ledger!LedgerNext, Ledger!Epochs, Epochs
  <1>11. CASE IsLive(disk) /\ \E v \in Verdicts : SameLedger(Settle(disk, v), d)
    <2>1. PICK v \in Verdicts : SameLedger(Settle(disk, v), d)
      BY <1>11
    <2> DEFINE c == [task |-> disk.live.task, attempt |-> disk.live.attempt,
                     epoch |-> disk.live.epoch, verdict |-> v]
    <2>2. c.epoch = h /\ c.verdict = v
      BY <1>5, <1>11
    <2>3. /\ Settle(disk, v).hwm = h
          /\ Settle(disk, v).completed = disk.completed \cup {c}
          /\ ~ IsLive(Settle(disk, v))
      BY <1>1 DEF Settle, FenceSnapshot, IsLive
    <2> HIDE DEF c
    <2>4. d.hwm = h /\ d.completed = disk.completed \cup {c} /\ ~ IsLive(d)
      BY <2>1, <2>3 DEF SameLedger
    <2>5. ASSUME NEW f \in Epochs, f = h PROVE DiskOutcome(f)' = v
      <3>1. c \in d.completed /\ c.epoch = f
        BY <2>2, <2>4, <2>5
      <3>2. (CHOOSE x \in d.completed : x.epoch = f) = c
        BY <1>1, <3>1, VerdictOf
      <3>3. ~ (f > d.hwm \/ (IsLive(d) /\ d.live.epoch = f))
        BY <1>3, <2>4, <2>5
      <3> QED
        BY <1>1, <2>2, <3>1, <3>2, <3>3 DEF DiskOutcome
    <2>6. ASSUME NEW f \in Epochs, f # h PROVE DiskOutcome(f)' = DiskOutcome(f)
      <3>1. (\E x \in d.completed : x.epoch = f) <=> \E x \in disk.completed : x.epoch = f
        BY <2>2, <2>4, <2>6
      <3>2. ASSUME NEW x \in disk.completed, x.epoch = f
            PROVE  /\ (CHOOSE y \in disk.completed : y.epoch = f) = x
                   /\ (CHOOSE y \in d.completed : y.epoch = f) = x
        BY <1>1, <2>4, <3>2, VerdictOf
      <3> QED
        BY <1>1, <1>5, <1>11, <2>4, <2>6, <3>1, <3>2 DEF DiskOutcome
    <2> QED
      BY <1>10, <1>11, <2>4, <2>5, <2>6
  <1>12. CASE IsLive(disk) /\ SameLedger(Cancel(disk, KeyOf(disk.live)), d)
    <2>1. /\ Cancel(disk, KeyOf(disk.live)).hwm = h
          /\ Cancel(disk, KeyOf(disk.live)).completed = disk.completed
          /\ ~ IsLive(Cancel(disk, KeyOf(disk.live)))
      BY <1>1 DEF Cancel, FenceSnapshot, IsLive
    <2>2. d.hwm = h /\ d.completed = disk.completed /\ ~ IsLive(d)
      BY <1>12, <2>1 DEF SameLedger
    <2>3. \A f \in Epochs :
             DiskOutcome(f)' = IF f = h THEN "released" ELSE DiskOutcome(f)
      BY <1>1, <1>3, <1>5, <1>12, <2>2 DEF DiskOutcome
    <2> QED
      BY <1>10, <1>12, <2>2, <2>3
  <1> QED
    BY <1>1, <1>8, <1>9, <1>11, <1>12 DEF Follows

\* Epochs read from the fence file are issued without gaps, one at a time,
\* to one attempt each, and closed once: crashes and the queue of writes
\* never show a reader anything else.
THEOREM FenceFileIsALedger == Spec => ImplementsLedger
  <1>1. Init => Ledger!LedgerInit
    BY BoundAssumption
    DEF Init, Ledger!LedgerInit, Ledger!Epochs, Epochs, EmptyFence, IsLive,
        DiskOutcome
  <1>2. IInv /\ [Next]_vars => [Ledger!LedgerNext]_(Ledger!ledgerVars)
    <2> SUFFICES ASSUME IInv, [Next]_vars
                 PROVE  Ledger!LedgerNext \/ UNCHANGED Ledger!ledgerVars
      OBVIOUS
    <2>1. CASE WriteLands
      BY <2>1, LandImplementsLedger
    <2>2. CASE ~ WriteLands
      <3>1. disk' = disk /\ owner' = owner
        BY <2>2
        DEF Next, vars, Accept, SendPrompt, Ack, Start, NoteInterrupt,
            SettleEpoch, CancelEpoch, Crash, Restart, Recovered
      <3> QED
        BY <3>1, LedgerStutters
    <2> QED BY <2>1, <2>2
  <1> QED
    BY <1>1, <1>2, Inductive, PTL DEF Spec, ImplementsLedger, Ledger!LedgerSpec
=============================================================================

------------------------- MODULE Supervisor_proofs --------------------------
(***************************************************************************)
(* The safety of Supervisor, for any tasks, attempts, epochs, probes and   *)
(* budgets of faults: the fence file is a ledger of epochs, a record is    *)
(* durable before it is seen and never rewritten, a kill ladder is the     *)
(* live epoch's, and a success is only recorded of a run that is over.     *)
(***************************************************************************)
EXTENDS Supervisor, TLAPS

USE NullAssumption

-----------------------------------------------------------------------------
(* What the fence's operators preserve.  rpc mode never cancels an epoch.  *)

\* What every fence the supervisor builds satisfies: one attempt for each epoch,
\* one verdict for each task, and the live epoch the last one.
Sound(f) ==
    /\ f.hwm <= MaxEpoch
    /\ \A k \in Keys : f.attempts[k] <= f.hwm
    /\ \A e \in 1 .. f.hwm : \E k \in Keys : f.attempts[k] = e
    /\ \A j, k \in Keys : f.attempts[j] = f.attempts[k] /\ f.attempts[j] # 0 => j = k
    /\ IsLive(f) =>
          /\ f.live.epoch = f.hwm /\ f.attempts[KeyOf(f.live)] = f.hwm
          /\ \A c \in f.completed : c.task # f.live.task /\ c.epoch # f.hwm
    /\ \A c \in f.completed : f.attempts[KeyOf(c)] = c.epoch
    /\ \A c, d \in f.completed : c.task = d.task \/ c.epoch = d.epoch => c = d

\* g is f, or f with one epoch issued, or f with its live epoch settled.
SameLedger(f, g) ==
    /\ g.hwm = f.hwm /\ g.completed = f.completed /\ g.attempts = f.attempts
    /\ IsLive(g) <=> IsLive(f)
    /\ IsLive(f) => KeyOf(g.live) = KeyOf(f.live) /\ g.live.epoch = f.live.epoch
Issued(f, g) ==
    /\ ~ IsLive(f) /\ IsLive(g)
    /\ KeyOf(g.live) \in Keys /\ f.attempts[KeyOf(g.live)] = 0
    /\ ~ AlreadyCompleted(f, g.live.task)
    /\ g.hwm = f.hwm + 1 /\ g.completed = f.completed
    /\ g.attempts = [f.attempts EXCEPT ![KeyOf(g.live)] = g.hwm]
Closed(f, g) ==
    /\ IsLive(f) /\ ~ IsLive(g)
    /\ g.hwm = f.hwm /\ g.attempts = f.attempts
    /\ \E v \in Verdicts :
          g.completed = f.completed \cup
             {[task |-> f.live.task, attempt |-> f.live.attempt, epoch |-> f.hwm, verdict |-> v]}
Follows(f, g) == SameLedger(f, g) \/ Issued(f, g) \/ Closed(f, g)

Step(f, g) == g \in FenceSnapshot /\ Sound(g) /\ Follows(f, g)
Noted(f, g) == g \in FenceSnapshot /\ Sound(g) /\ SameLedger(f, g)

LEMMA EmptySound == EmptyFence \in FenceSnapshot /\ Sound(EmptyFence)
  BY SupervisorConstants DEF EmptyFence, FenceSnapshot, Sound, IsLive, CompletedTask

\* A change of the ack, or of the live epoch's flags.
LEMMA FlagStep ==
  ASSUME NEW f \in FenceSnapshot, Sound(f), NEW g \in FenceSnapshot, SameLedger(f, g)
  PROVE  Noted(f, g)
  <1>1. IsLive(g) => g.live.task = f.live.task
    BY DEF SameLedger, KeyOf
  <1>2. Sound(g)
    BY <1>1 DEF Sound, SameLedger
  <1> QED BY <1>2 DEF Noted

\* allocate, when it admits the request.
LEMMA AllocateStep ==
  ASSUME NEW f \in FenceSnapshot, Sound(f), NEW k \in Keys, Admits(f, k, 0), f.hwm < MaxEpoch
  PROVE  /\ Step(f, Allocate(f, k)) /\ ~ IsLive(f)
  <1> DEFINE n == f.hwm + 1
             l == [task |-> k[1], attempt |-> k[2], epoch |-> n,
                   started |-> FALSE, abort |-> FALSE, timedout |-> FALSE]
             a == [f.attempts EXCEPT ![k] = n]
             g == Allocate(f, k)
  <1>1. n \in Nat \ {0} /\ f.hwm \in Nat /\ n <= MaxEpoch /\ n \in Epochs
        /\ f.attempts \in [Keys -> Nat] /\ f.completed \in SUBSET CompletedTask
    BY SupervisorConstants DEF FenceSnapshot, Epochs
  <1>2. l \in LiveEpoch /\ l.task = k[1] /\ KeyOf(l) = k /\ l.epoch = n /\ ~ l.started
    BY <1>1 DEF LiveEpoch, Keys, KeyOf
  <1>3. g = [f EXCEPT !.hwm = n, !.ack = NoAck, !.live = l, !.attempts[k] = n]
    BY DEF Allocate
  <1> HIDE DEF g, l, n
  <1>4. g = [hwm |-> n, ack |-> NoAck, live |-> l, completed |-> f.completed, attempts |-> a]
    BY <1>3 DEF FenceSnapshot
  <1>5. a \in [Keys -> Nat] /\ a[k] = n /\ \A j \in Keys \ {k} : a[j] = f.attempts[j]
    BY <1>1
  <1>6. g.attempts = [f.attempts EXCEPT ![k] = n]
    BY <1>4
  <1> HIDE DEF a
  <1>7. g \in FenceSnapshot /\ g.live = l /\ g.hwm = n /\ g.completed = f.completed
        /\ g.attempts = a
    BY <1>1, <1>2, <1>4, <1>5 DEF FenceSnapshot
  <1>8. IsLive(g) /\ KeyOf(g.live) = k /\ g.live.epoch = n /\ g.live.task = k[1]
        /\ ~ WindowOpen(g)
    BY <1>2, <1>7, SupervisorConstants DEF IsLive, WindowOpen
  <1>9. ~ IsLive(f) /\ f.attempts[k] = 0 /\ ~ AlreadyCompleted(f, k[1])
    BY DEF Admits, Replays
  <1>10. \A c \in f.completed : /\ KeyOf(c) \in Keys /\ c.task # k[1] /\ KeyOf(c) # k
                                /\ f.attempts[KeyOf(c)] = c.epoch /\ c.epoch <= f.hwm
    <2> SUFFICES ASSUME NEW c \in f.completed
                 PROVE  /\ KeyOf(c) \in Keys /\ c.task # k[1] /\ KeyOf(c) # k
                        /\ f.attempts[KeyOf(c)] = c.epoch /\ c.epoch <= f.hwm
      OBVIOUS
    <2>1. c.task # k[1]
      BY <1>9 DEF AlreadyCompleted
    <2>2. KeyOf(c) \in Keys /\ c.epoch \in Nat
      BY <1>1 DEF CompletedTask, KeyOf, Keys
    <2>3. KeyOf(c) # k
      BY <2>1 DEF KeyOf
    <2>4. f.attempts[KeyOf(c)] = c.epoch
      BY DEF Sound
    <2>5. f.attempts[KeyOf(c)] <= f.hwm
      BY <2>2 DEF Sound
    <2> QED BY <2>1, <2>2, <2>3, <2>4, <2>5
  <1>11. Sound(g)
    <2>1. \A j \in Keys : a[j] <= n
      BY <1>1, <1>5 DEF Sound, n
    <2>2. \A e \in 1 .. n : \E j \in Keys : a[j] = e
      <3> SUFFICES ASSUME NEW e \in 1 .. n PROVE \E j \in Keys : a[j] = e
        OBVIOUS
      <3>1. CASE e = n
        BY <1>5, <3>1
      <3>2. CASE e # n
        <4>1. e \in 1 .. f.hwm /\ e # 0
          BY <1>1, <3>2 DEF n
        <4>2. PICK j \in Keys : f.attempts[j] = e
          BY <4>1 DEF Sound
        <4> QED BY <1>5, <1>9, <4>1, <4>2
      <3> QED BY <3>1, <3>2
    <2>3. \A j \in Keys \ {k} : a[j] # n /\ a[j] = f.attempts[j]
      BY <1>1, <1>5 DEF Sound, n
    <2>4. \A i, j \in Keys : a[i] = a[j] /\ a[i] # 0 => i = j
      <3> SUFFICES ASSUME NEW i \in Keys, NEW j \in Keys, a[i] = a[j], a[i] # 0
                   PROVE  i = j
        OBVIOUS
      <3>1. CASE i = k \/ j = k
        BY <1>5, <2>3, <3>1
      <3>2. CASE i # k /\ j # k
        BY <2>3, <3>2 DEF Sound
      <3> QED BY <3>1, <3>2
    <2>5. \A c \in f.completed : a[KeyOf(c)] = c.epoch /\ c.epoch # n
      BY <1>1, <1>5, <1>10, <2>3
    <2> QED BY <1>1, <1>5, <1>7, <1>8, <1>10, <2>1, <2>2, <2>4, <2>5 DEF Sound
  <1>12. Issued(f, g)
    BY <1>6, <1>7, <1>8, <1>9 DEF Issued, n
  <1> QED BY <1>7, <1>9, <1>11, <1>12 DEF Step, Follows, g

\* settle, of a live fence.
LEMMA SettleStep ==
  ASSUME NEW f \in FenceSnapshot, Sound(f), IsLive(f), NEW v \in Verdicts
  PROVE  /\ Step(f, Settle(f, v)) /\ ~ IsLive(Settle(f, v))
         /\ f.live.epoch = f.hwm /\ f.hwm \in Epochs
         /\ \E c \in Settle(f, v).completed : c.epoch = f.hwm
         /\ \A c \in f.completed : c.epoch # f.hwm
  <1> DEFINE c == [task |-> f.live.task, attempt |-> f.live.attempt,
                   epoch |-> f.live.epoch, verdict |-> v]
             g == Settle(f, v)
  <1>1. f.live \in LiveEpoch /\ f.live.epoch = f.hwm /\ f.hwm \in Nat
    BY DEF FenceSnapshot, IsLive, Sound
  <1>2. c \in CompletedTask /\ c.task = f.live.task /\ c.epoch = f.hwm /\ KeyOf(c) = KeyOf(f.live)
    BY <1>1 DEF LiveEpoch, CompletedTask, KeyOf
  <1>3. g = [f EXCEPT !.completed = f.completed \cup {c}, !.live = NoLive, !.ack = NoAck]
    BY DEF Settle
  <1>4. c = [task |-> f.live.task, attempt |-> f.live.attempt, epoch |-> f.hwm, verdict |-> v]
    BY <1>1
  <1> HIDE DEF c, g
  <1>5. /\ g \in FenceSnapshot /\ g.hwm = f.hwm /\ g.live = NoLive
        /\ g.completed = f.completed \cup {c} /\ g.attempts = f.attempts
    BY <1>2, <1>3 DEF FenceSnapshot
  <1>6. ~ IsLive(g)
    BY <1>5 DEF IsLive
  <1>7. Sound(g)
    <2>1. \A d \in f.completed : d.task # c.task /\ d.epoch # c.epoch
      BY <1>2 DEF Sound
    <2> QED BY <1>2, <1>5, <1>6, <2>1 DEF Sound
  <1>8. Closed(f, g)
    BY <1>4, <1>5, <1>6 DEF Closed
  <1>9. f.hwm \in Epochs
    BY <1>1, SupervisorConstants DEF Sound, Epochs, LiveEpoch
  <1> QED BY <1>1, <1>2, <1>5, <1>6, <1>7, <1>8, <1>9 DEF Step, Follows, Sound, g

\* The notes: of an ack, a start, an abort, a deadline.
LEMMA NoteAckStep ==
  ASSUME NEW f \in FenceSnapshot, Sound(f)
  PROVE  Noted(f, NoteAck(f, 0)) /\ NoteAck(f, 0).live = f.live
  <1>1. NoteAck(f, 0) \in FenceSnapshot
    BY DEF NoteAck, FenceSnapshot
  <1>2. SameLedger(f, NoteAck(f, 0)) /\ NoteAck(f, 0).live = f.live
    BY DEF SameLedger, NoteAck, FenceSnapshot, IsLive
  <1> QED BY <1>1, <1>2, FlagStep

LEMMA LiveFlagStep ==
  ASSUME NEW f \in FenceSnapshot, Sound(f), IsLive(f), NEW l \in LiveEpoch,
         l.task = f.live.task, l.attempt = f.live.attempt, l.epoch = f.live.epoch,
         NEW g, g = [f EXCEPT !.live = l]
  PROVE  Noted(f, g) /\ g.live = l /\ l # NoLive
  <1>1. g \in FenceSnapshot /\ g.live = l /\ IsLive(g)
    BY SupervisorConstants DEF FenceSnapshot, IsLive
  <1>2. SameLedger(f, g)
    BY <1>1 DEF SameLedger, FenceSnapshot, KeyOf
  <1> QED BY <1>1, <1>2, FlagStep DEF IsLive

LEMMA BindStartStep ==
  ASSUME NEW f \in FenceSnapshot, Sound(f), IsLive(f)
  PROVE  /\ Noted(f, BindStart(f)) /\ WindowOpen(BindStart(f))
         /\ TimedOut(BindStart(f)) = TimedOut(f)
         /\ AbortRequested(BindStart(f)) = AbortRequested(f)
  <1> DEFINE l == [f.live EXCEPT !.started = TRUE]
  <1>1. f.live \in LiveEpoch
    BY DEF FenceSnapshot, IsLive
  <1>2. BindStart(f) = [f EXCEPT !.live = l]
    BY DEF BindStart
  <1>3. /\ l \in LiveEpoch /\ l.task = f.live.task /\ l.attempt = f.live.attempt
        /\ l.epoch = f.live.epoch /\ l.started /\ l.abort = f.live.abort
        /\ l.timedout = f.live.timedout
    BY <1>1 DEF LiveEpoch
  <1> HIDE DEF l
  <1>4. Noted(f, BindStart(f)) /\ BindStart(f).live = l /\ l # NoLive
    BY <1>2, <1>3, LiveFlagStep
  <1>5. WindowOpen(BindStart(f)) /\ IsLive(BindStart(f))
    BY <1>3, <1>4 DEF WindowOpen, IsLive
  <1> QED BY <1>3, <1>4, <1>5 DEF TimedOut, AbortRequested, IsLive

LEMMA NoteAbortStep ==
  ASSUME NEW f \in FenceSnapshot, Sound(f), IsLive(f)
  PROVE  /\ Noted(f, NoteAbort(f)) /\ AbortRequested(NoteAbort(f))
         /\ IsLive(NoteAbort(f))
         /\ WindowOpen(NoteAbort(f)) = WindowOpen(f)
         /\ TimedOut(NoteAbort(f)) = TimedOut(f)
  <1> DEFINE l == [f.live EXCEPT !.abort = TRUE]
  <1>1. f.live \in LiveEpoch
    BY DEF FenceSnapshot, IsLive
  <1>2. NoteAbort(f) = [f EXCEPT !.live = l]
    BY DEF NoteAbort
  <1>3. /\ l \in LiveEpoch /\ l.task = f.live.task /\ l.attempt = f.live.attempt
        /\ l.epoch = f.live.epoch /\ l.started = f.live.started /\ l.abort
        /\ l.timedout = f.live.timedout
    BY <1>1 DEF LiveEpoch
  <1> HIDE DEF l
  <1>4. Noted(f, NoteAbort(f)) /\ NoteAbort(f).live = l /\ l # NoLive
    BY <1>2, <1>3, LiveFlagStep
  <1> QED BY <1>3, <1>4 DEF WindowOpen, TimedOut, AbortRequested, IsLive

LEMMA NoteTimedOutStep ==
  ASSUME NEW f \in FenceSnapshot, Sound(f), IsLive(f)
  PROVE  /\ Noted(f, NoteTimedOut(f)) /\ TimedOut(NoteTimedOut(f))
         /\ IsLive(NoteTimedOut(f))
         /\ WindowOpen(NoteTimedOut(f)) = WindowOpen(f)
  <1> DEFINE l == [f.live EXCEPT !.timedout = TRUE]
  <1>1. f.live \in LiveEpoch
    BY DEF FenceSnapshot, IsLive
  <1>2. NoteTimedOut(f) = [f EXCEPT !.live = l]
    BY DEF NoteTimedOut
  <1>3. /\ l \in LiveEpoch /\ l.task = f.live.task /\ l.attempt = f.live.attempt
        /\ l.epoch = f.live.epoch /\ l.started = f.live.started /\ l.timedout
    BY <1>1 DEF LiveEpoch
  <1> HIDE DEF l
  <1>4. Noted(f, NoteTimedOut(f)) /\ NoteTimedOut(f).live = l /\ l # NoLive
    BY <1>2, <1>3, LiveFlagStep
  <1> QED BY <1>3, <1>4 DEF WindowOpen, TimedOut, IsLive

-----------------------------------------------------------------------------
(* The file, the writes queued behind it and the fence in memory.          *)

Write == [snap : FenceSnapshot, by : {"dispatch", "settle", "abort", "nobody"} \X Nat]
Settled(f) == {c.epoch : c \in f.completed}

\* The fence after the first i queued writes, from the file d on.
At(d, w, i) == IF i = 0 THEN d ELSE w[i].snap
Chain(d, w, f) ==
    /\ \A i \in 0 .. Len(w) : At(d, w, i) \in FenceSnapshot /\ Sound(At(d, w, i))
    /\ \A i \in 1 .. Len(w) : Follows(At(d, w, i - 1), At(d, w, i))
    /\ \A i, j \in 0 .. Len(w) : i <= j => At(d, w, i).completed \subseteq At(d, w, j).completed
    /\ Noted(At(d, w, Len(w)), f)

LEMMA SameThenFollows ==
  ASSUME NEW f, NEW g, NEW h, SameLedger(f, g), Follows(g, h)
  PROVE  Follows(f, h) /\ f.completed = g.completed /\ g.completed \subseteq h.completed
  <1>0. f.completed = g.completed
    BY DEF SameLedger
  <1>1. CASE SameLedger(g, h)
    BY <1>0, <1>1 DEF SameLedger, Follows
  <1>2. CASE Issued(g, h)
    BY <1>0, <1>2 DEF SameLedger, Follows, Issued, AlreadyCompleted
  <1>3. CASE Closed(g, h)
    <2>1. g.live.task = f.live.task /\ g.live.attempt = f.live.attempt
      BY <1>3 DEF SameLedger, Closed, KeyOf
    <2>2. Closed(f, h)
      BY <1>3, <2>1 DEF SameLedger, Closed
    <2>3. g.completed \subseteq h.completed
      BY <1>3 DEF Closed
    <2> QED BY <1>0, <2>2, <2>3 DEF Follows
  <1> QED BY <1>1, <1>2, <1>3 DEF Follows

LEMMA ChainEmpty ==
  ASSUME NEW d \in FenceSnapshot, Sound(d)
  PROVE  Chain(d, <<>>, d)
  BY DEF Chain, At, Noted, SameLedger

LEMMA ChainNoted ==
  ASSUME NEW d, NEW w \in Seq(Write), NEW f, NEW g, Chain(d, w, f), Noted(f, g)
  PROVE  Chain(d, w, g)
  <1>1. Noted(At(d, w, Len(w)), g)
    BY DEF Chain, Noted, SameLedger
  <1> QED BY <1>1 DEF Chain

LEMMA ChainAppend ==
  ASSUME NEW d, NEW w \in Seq(Write), NEW f, NEW g, Chain(d, w, f), Step(f, g),
         NEW x \in Write, x.snap = g
  PROVE  Chain(d, Append(w, x), g)
  <1> DEFINE n == Len(w)
             y == Append(w, x)
  <1>1. n \in Nat /\ y \in Seq(Write) /\ Len(y) = n + 1
        /\ y[n + 1] = x /\ \A i \in 1 .. n : y[i] = w[i]
    OBVIOUS
  <1> HIDE DEF n, y
  <1>2. At(d, y, n + 1) = g /\ \A i \in 0 .. n : At(d, y, i) = At(d, w, i)
    BY <1>1 DEF At
  <1>3. g \in FenceSnapshot /\ Sound(g)
    BY DEF Step
  <1>4. SameLedger(At(d, w, n), f) /\ Follows(f, g)
    BY DEF Chain, Noted, Step, n
  <1>5. /\ Follows(At(d, w, n), g)
        /\ At(d, w, n).completed \subseteq g.completed
    BY <1>4, SameThenFollows
  <1>6. \A i \in 0 .. n : At(d, w, i).completed \subseteq g.completed
    BY <1>1, <1>5 DEF Chain, n
  <1>7. \A i \in 0 .. Len(y) : At(d, y, i) \in FenceSnapshot /\ Sound(At(d, y, i))
    BY <1>1, <1>2, <1>3 DEF Chain, n
  <1>8. \A i \in 1 .. Len(y) : Follows(At(d, y, i - 1), At(d, y, i))
    <2> SUFFICES ASSUME NEW i \in 1 .. (n + 1) PROVE Follows(At(d, y, i - 1), At(d, y, i))
      BY <1>1
    <2>1. CASE i = n + 1
      BY <1>1, <1>2, <1>5, <2>1
    <2>2. CASE i # n + 1
      <3>1. i \in 1 .. n /\ i \in 0 .. n /\ i - 1 \in 0 .. n
        BY <1>1, <2>2
      <3>2. Follows(At(d, w, i - 1), At(d, w, i))
        BY <3>1 DEF Chain, n
      <3> QED BY <1>2, <3>1, <3>2
    <2> QED BY <2>1, <2>2
  <1>9. \A i, j \in 0 .. Len(y) :
           i <= j => At(d, y, i).completed \subseteq At(d, y, j).completed
    <2> SUFFICES ASSUME NEW i \in 0 .. (n + 1), NEW j \in 0 .. (n + 1), i <= j
                 PROVE  At(d, y, i).completed \subseteq At(d, y, j).completed
      BY <1>1
    <2>1. CASE j = n + 1 /\ i = n + 1
      BY <2>1
    <2>2. CASE j = n + 1 /\ i # n + 1
      BY <1>1, <1>2, <1>6, <2>2
    <2>3. CASE j # n + 1
      <3>1. i \in 0 .. n /\ j \in 0 .. n
        BY <1>1, <2>3
      <3>2. At(d, w, i).completed \subseteq At(d, w, j).completed
        BY <3>1 DEF Chain, n
      <3> QED BY <1>2, <3>1, <3>2
    <2> QED BY <2>1, <2>2, <2>3
  <1>10. Noted(At(d, y, Len(y)), g)
    BY <1>1, <1>2, <1>3 DEF Noted, SameLedger
  <1> QED BY <1>7, <1>8, <1>9, <1>10 DEF Chain, y

LEMMA ChainLand ==
  ASSUME NEW d, NEW w \in Seq(Write), w # <<>>, NEW f, Chain(d, w, f)
  PROVE  LET h == Head(w).snap IN
         /\ Chain(h, Tail(w), f) /\ Follows(d, h)
         /\ h \in FenceSnapshot /\ Sound(h) /\ d.completed \subseteq h.completed
  <1> DEFINE n == Len(w)
             y == Tail(w)
             h == Head(w).snap
  <1>1. n \in Nat /\ n > 0 /\ y \in Seq(Write) /\ Len(y) = n - 1 /\ w[1].snap = h
        /\ \A i \in 1 .. (n - 1) : y[i] = w[i + 1]
    OBVIOUS
  <1> HIDE DEF n, y, h
  <1>2. At(d, w, 0) = d /\ At(d, w, 1) = h
    BY <1>1 DEF At
  <1>3. \A i \in 0 .. (n - 1) : i + 1 \in 1 .. n /\ i + 1 \in 0 .. n
                               /\ At(h, y, i) = At(d, w, i + 1)
    <2> SUFFICES ASSUME NEW i \in 0 .. (n - 1) PROVE At(h, y, i) = At(d, w, i + 1)
      BY <1>1
    <2>1. CASE i = 0
      BY <1>2, <2>1 DEF At
    <2>2. CASE i # 0
      BY <1>1, <2>2 DEF At
    <2> QED BY <2>1, <2>2
  <1>4. \A i \in 0 .. (n - 1) : At(h, y, i) \in FenceSnapshot /\ Sound(At(h, y, i))
    BY <1>3 DEF Chain, n
  <1>5. \A i \in 1 .. (n - 1) : Follows(At(h, y, i - 1), At(h, y, i))
    <2> SUFFICES ASSUME NEW i \in 1 .. (n - 1) PROVE Follows(At(h, y, i - 1), At(h, y, i))
      OBVIOUS
    <2>1. i - 1 \in 0 .. (n - 1) /\ i \in 0 .. (n - 1) /\ i + 1 \in 1 .. n
          /\ (i - 1) + 1 = i /\ (i + 1) - 1 = i
      BY <1>1
    <2>2. Follows(At(d, w, (i + 1) - 1), At(d, w, i + 1))
      BY <2>1 DEF Chain, n
    <2> QED BY <1>3, <2>1, <2>2
  <1>6. \A i, j \in 0 .. (n - 1) :
           i <= j => At(h, y, i).completed \subseteq At(h, y, j).completed
    <2> SUFFICES ASSUME NEW i \in 0 .. (n - 1), NEW j \in 0 .. (n - 1), i <= j
                 PROVE  At(h, y, i).completed \subseteq At(h, y, j).completed
      OBVIOUS
    <2>1. i + 1 \in 0 .. n /\ j + 1 \in 0 .. n /\ i + 1 <= j + 1
      BY <1>1
    <2>2. At(d, w, i + 1).completed \subseteq At(d, w, j + 1).completed
      BY <2>1 DEF Chain, n
    <2> QED BY <1>3, <2>2
  <1>7. Noted(At(h, y, n - 1), f)
    <2>1. n - 1 \in 0 .. (n - 1) /\ (n - 1) + 1 = n
      BY <1>1
    <2>2. Noted(At(d, w, n), f)
      BY DEF Chain, n
    <2> QED BY <1>3, <2>1, <2>2
  <1>8. Chain(h, y, f)
    BY <1>1, <1>4, <1>5, <1>6, <1>7 DEF Chain
  <1>9. 0 \in 0 .. n /\ 1 \in 0 .. n /\ 1 \in 1 .. n /\ 1 - 1 = 0 /\ 0 <= 1
    BY <1>1
  <1>10. Follows(At(d, w, 1 - 1), At(d, w, 1))
    BY <1>9 DEF Chain, n
  <1>11. At(d, w, 0).completed \subseteq At(d, w, 1).completed
    BY <1>9 DEF Chain, n
  <1>12. h \in FenceSnapshot /\ Sound(h)
    BY <1>2, <1>9 DEF Chain, n
  <1> QED BY <1>2, <1>8, <1>9, <1>10, <1>11, <1>12 DEF h, y

\* What the file knows, memory knows.
LEMMA ChainKnows ==
  ASSUME NEW d, NEW w \in Seq(Write), NEW f, Chain(d, w, f)
  PROVE  /\ f \in FenceSnapshot /\ Sound(f) /\ d \in FenceSnapshot /\ Sound(d)
         /\ d.completed \subseteq f.completed
  <1>1. Len(w) \in Nat /\ 0 \in 0 .. Len(w) /\ Len(w) \in 0 .. Len(w) /\ 0 <= Len(w)
    OBVIOUS
  <1>2. At(d, w, 0) = d
    BY DEF At
  <1>3. /\ At(d, w, 0).completed \subseteq At(d, w, Len(w)).completed
        /\ Noted(At(d, w, Len(w)), f)
    BY <1>1 DEF Chain
  <1>4. At(d, w, Len(w)).completed = f.completed
    BY <1>3 DEF Noted, SameLedger
  <1> QED BY <1>1, <1>2, <1>3, <1>4 DEF Chain, Noted

-----------------------------------------------------------------------------
(* What the memory of a live supervisor satisfies, next to the file d, and *)
(* how its handlers' steps keep it.                                        *)

Settlement == [pc : {"no", "fence", "policy", "done"}, verdict : Verdicts,
               then : {"nothing", "kill", "exit", "close"}]

\* The fields the ledger and the ladder depend on.
Tracked == {"proc", "fence", "writes", "settling", "abortEsc", "proseEsc", "tripped"}
Shape(s) ==
    /\ Tracked \subseteq DOMAIN s
    /\ s.writes \in Seq(Write)
    /\ s.settling \in [Epochs -> Settlement]

\* An epoch under settlement is settled in memory; the write its settlement
\* waits for says so, and once nothing is waited for, the file does.
Awaits(s, d) ==
    /\ \A e \in Epochs : s.settling[e].pc # "no" => e \in Settled(s.fence)
    /\ \A i \in 1 .. Len(s.writes), e \in Epochs :
          s.writes[i].by = <<"settle", e>> => e \in Settled(s.writes[i].snap)
    /\ \A e \in Epochs : s.settling[e].pc = "fence" =>
          \/ e \in Settled(d)
          \/ \E i \in 1 .. Len(s.writes) : s.writes[i].by = <<"settle", e>>

Ladder(s) ==
    /\ s.abortEsc # "no" => TimedOut(s.fence) /\ AbortRequested(s.fence)
    /\ s.proseEsc => WindowOpen(s.fence) /\ s.tripped

Good(s, d) ==
    /\ Shape(s)
    /\ Chain(d, s.writes, s.fence)
    /\ Awaits(s, d)
    /\ Ladder(s)

\* A handler takes s to t: no epoch the file calls settled is settled again.
Handled(s, t, d) ==
    /\ Good(t, d)
    /\ t.proc = s.proc
    /\ \A e \in Epochs : t.settling[e].pc = "fence" =>
          s.settling[e].pc = "fence" \/ e \notin Settled(d)

\* The ledger's part of the memory stays.
Rests(s, t) == /\ Tracked \subseteq DOMAIN t
               /\ t.fence = s.fence /\ t.writes = s.writes /\ t.settling = s.settling
Kept(s, t) == /\ Rests(s, t)
              /\ t.proc = s.proc
              /\ t.abortEsc = s.abortEsc /\ t.proseEsc = s.proseEsc /\ t.tripped = s.tripped

LEMMA HandledTwice ==
  ASSUME NEW s, NEW t, NEW u, NEW d, Handled(s, t, d), Handled(t, u, d)
  PROVE  Handled(s, u, d)
  BY DEF Handled

LEMMA KeptTwice ==
  ASSUME NEW s, NEW t, NEW u, Kept(s, t), Kept(t, u)
  PROVE  Kept(s, u)
  BY DEF Kept, Rests

LEMMA RestingKeeps ==
  ASSUME NEW s, NEW t, NEW d, Good(s, d), Rests(s, t), Ladder(t)
  PROVE  Good(t, d) /\ (t.proc = s.proc => Handled(s, t, d))
  BY DEF Good, Rests, Shape, Awaits, Handled

LEMMA KeptKeeps ==
  ASSUME NEW s, NEW t, NEW d, Good(s, d), Kept(s, t)
  PROVE  Handled(s, t, d)
  <1>1. Ladder(t)
    BY DEF Good, Kept, Rests, Ladder
  <1> QED BY <1>1, RestingKeeps DEF Kept

LEMMA SendKeeps ==
  ASSUME NEW s, Tracked \subseteq DOMAIN s, NEW c
  PROVE  Kept(s, Send(s, c))
  BY DEF Kept, Rests, Tracked, Send

LEMMA CloseKeeps ==
  ASSUME NEW s, Tracked \subseteq DOMAIN s
  PROVE  Kept(s, CloseClient(s))
  BY DEF Kept, Rests, Tracked, CloseClient

LEMMA BumpKeeps ==
  ASSUME NEW s, Tracked \subseteq DOMAIN s
  PROVE  Kept(s, Bump(s))
  BY DEF Kept, Rests, Tracked, Bump

LEMMA ShutdownKeeps ==
  ASSUME NEW s, Tracked \subseteq DOMAIN s
  PROVE  Kept(s, ShutdownStart(s))
  <1>1. Kept(s, s) /\ Kept(s, [s EXCEPT !.shut = "closing"]) /\ Kept(s, [s EXCEPT !.shut = "grace"])
    BY DEF Kept, Rests, Tracked
  <1>2. Kept([s EXCEPT !.shut = "grace"], Send([s EXCEPT !.shut = "grace"], AbortCmd))
    BY <1>1, SendKeeps DEF Kept, Rests
  <1> QED BY <1>1, <1>2, KeptTwice DEF ShutdownStart

LEMMA ProbeKeeps ==
  ASSUME NEW s, Tracked \subseteq DOMAIN s
  PROVE  Kept(s, MaybeProbe(s))
  <1> SUFFICES ASSUME NEW q PROVE
        LET t == [s EXCEPT !.probing = TRUE,
                           !.probe[q] = [pc |-> "first", fresh |-> TRUE, first |-> None]]
        IN  Kept(s, Send(t, Cmd("get_state", q, 1)))
    BY DEF MaybeProbe, Kept, Rests, Tracked
  <1> DEFINE t == [s EXCEPT !.probing = TRUE,
                            !.probe[q] = [pc |-> "first", fresh |-> TRUE, first |-> None]]
  <1>1. Kept(s, t)
    BY DEF Kept, Rests, Tracked
  <1> HIDE DEF t
  <1>2. Kept(t, Send(t, Cmd("get_state", q, 1)))
    BY <1>1, SendKeeps DEF Kept, Rests
  <1>3. Kept(s, Send(t, Cmd("get_state", q, 1)))
    BY <1>1, <1>2, KeptTwice
  <1> QED BY <1>3 DEF t

\* A note on the live epoch that nobody writes down yet.
LEMMA NotingKeeps ==
  ASSUME NEW s, NEW t, NEW d, Good(s, d), Noted(s.fence, t.fence),
         Tracked \subseteq DOMAIN t, t.proc = s.proc,
         t.writes = s.writes, t.settling = s.settling, Ladder(t)
  PROVE  Handled(s, t, d)
  <1>1. Chain(d, t.writes, t.fence)
    BY ChainNoted DEF Good, Shape
  <1>2. Settled(t.fence) = Settled(s.fence)
    BY DEF Noted, SameLedger, Settled
  <1>3. Awaits(t, d)
    BY <1>2 DEF Good, Awaits
  <1> QED BY <1>1, <1>3 DEF Good, Handled, Shape

\* A step of the fence that is queued for the file.
LEMMA PersistKeeps ==
  ASSUME NEW s, NEW t, NEW d, Good(s, d), Step(s.fence, t.fence),
         Tracked \subseteq DOMAIN t, t.proc = s.proc,
         NEW b \in {"dispatch", "settle", "abort", "nobody"} \X Nat,
         t.writes = Append(s.writes, [snap |-> t.fence, by |-> b]),
         t.settling \in [Epochs -> Settlement],
         \A e \in Epochs : \/ t.settling[e].pc = s.settling[e].pc
                           \/ b = <<"settle", e>> /\ e \notin Settled(s.fence),
         \A e \in Epochs : b = <<"settle", e>> => e \in Settled(t.fence),
         Ladder(t)
  PROVE  Handled(s, t, d)
  <1> DEFINE w == s.writes
             x == [snap |-> t.fence, by |-> b]
             n == Len(w)
  <1>1. w \in Seq(Write) /\ x \in Write /\ x.snap = t.fence /\ x.by = b /\ t.writes = Append(w, x)
    BY DEF Good, Shape, Step, Write
  <1> HIDE DEF w, x
  <1>2. n \in Nat /\ Len(t.writes) = n + 1 /\ t.writes \in Seq(Write)
        /\ t.writes[n + 1] = x /\ \A i \in 1 .. n : t.writes[i] = w[i]
    <2> DEFINE y == Append(w, x)
    <2>1. n \in Nat /\ y \in Seq(Write) /\ Len(y) = n + 1
          /\ y[n + 1] = x /\ \A i \in 1 .. n : y[i] = w[i]
      BY <1>1
    <2>2. t.writes = y
      BY <1>1
    <2> HIDE DEF y, n
    <2> QED BY <2>1, <2>2
  <1> HIDE DEF n
  <1>3. Chain(d, w, s.fence)
    BY DEF Good, w
  <1>4. Chain(d, t.writes, t.fence)
    <2>1. Chain(d, Append(w, x), t.fence)
      BY <1>1, <1>3, ChainAppend
    <2> QED BY <1>1, <2>1
  <1>5. d.completed \subseteq s.fence.completed /\ s.fence.completed \subseteq t.fence.completed
    <2>1. SameLedger(s.fence, s.fence)
      BY DEF SameLedger
    <2> QED BY <1>1, <1>3, <2>1, ChainKnows, SameThenFollows DEF Step
  <1>6. \A e \in Epochs : e \in Settled(d) => e \in Settled(s.fence)
    BY <1>5 DEF Settled
  <1>7. \A e \in Epochs : e \in Settled(s.fence) => e \in Settled(t.fence)
    BY <1>5 DEF Settled
  <1>8. \A e \in Epochs : t.settling[e].pc # "no" => e \in Settled(t.fence)
    BY <1>7 DEF Good, Awaits
  <1>9. \A i \in 1 .. Len(t.writes), e \in Epochs :
           t.writes[i].by = <<"settle", e>> => e \in Settled(t.writes[i].snap)
    <2> SUFFICES ASSUME NEW i \in 1 .. (n + 1), NEW e \in Epochs, t.writes[i].by = <<"settle", e>>
                 PROVE  e \in Settled(t.writes[i].snap)
      BY <1>2
    <2>1. CASE i = n + 1
      BY <1>1, <1>2, <2>1
    <2>2. CASE i # n + 1
      <3>1. i \in 1 .. n
        BY <1>2, <2>2
      <3> QED BY <1>2, <3>1 DEF Good, Awaits, n, w
    <2> QED BY <2>1, <2>2
  <1>10. \A e \in Epochs : t.settling[e].pc = "fence" =>
            \/ e \in Settled(d)
            \/ \E i \in 1 .. Len(t.writes) : t.writes[i].by = <<"settle", e>>
    <2> SUFFICES ASSUME NEW e \in Epochs, t.settling[e].pc = "fence"
                 PROVE  \/ e \in Settled(d)
                        \/ \E i \in 1 .. Len(t.writes) : t.writes[i].by = <<"settle", e>>
      OBVIOUS
    <2>0. n + 1 \in 1 .. Len(t.writes) /\ \A i \in 1 .. n : i \in 1 .. Len(t.writes)
      BY <1>2
    <2>1. CASE b = <<"settle", e>>
      BY <1>1, <1>2, <2>0, <2>1
    <2>2. CASE b # <<"settle", e>> /\ e \notin Settled(d)
      <3>1. PICK i \in 1 .. n : w[i].by = <<"settle", e>>
        BY <2>2 DEF Good, Awaits, n, w
      <3> QED BY <1>2, <2>0, <3>1
    <2> QED BY <2>1, <2>2
  <1>11. Awaits(t, d)
    BY <1>8, <1>9, <1>10 DEF Awaits
  <1> QED BY <1>2, <1>4, <1>6, <1>11 DEF Good, Handled, Shape

LEMMA PersistFields ==
  ASSUME NEW s, Tracked \subseteq DOMAIN s, NEW b
  PROVE  LET t == Persist(s, b) IN
         /\ Tracked \subseteq DOMAIN t
         /\ t.writes = Append(s.writes, [snap |-> t.fence, by |-> b])
         /\ t.fence = s.fence /\ t.settling = s.settling /\ t.proc = s.proc
         /\ t.abortEsc = s.abortEsc /\ t.proseEsc = s.proseEsc /\ t.tripped = s.tripped
  BY DEF Persist, Tracked

LEMMA ResetFields ==
  ASSUME NEW s, Tracked \subseteq DOMAIN s
  PROVE  LET t == ResetEpoch(s) IN
         /\ Rests(s, t) /\ t.proc = s.proc
         /\ t.abortEsc = "no" /\ ~ t.proseEsc
  <1> DEFINE t == [s EXCEPT !.probing = FALSE, !.promptId = 0, !.deadline = FALSE,
                            !.abortEsc = "no", !.proseEsc = FALSE,
                            !.ended = FALSE, !.tripped = FALSE]
  <1>1. Rests(s, t) /\ t.proc = s.proc /\ t.abortEsc = "no" /\ t.proseEsc = FALSE
    BY DEF Rests, Tracked
  <1> HIDE DEF t
  <1>2. Kept(t, Bump(t))
    BY <1>1, BumpKeeps DEF Rests
  <1>3. ResetEpoch(s) = Bump(t)
    BY DEF ResetEpoch, t
  <1> QED BY <1>1, <1>2, <1>3 DEF Kept, Rests

\* A note on the live epoch that is written down.
LEMMA PersistNote ==
  ASSUME NEW s, NEW t, NEW d, Good(s, d), Noted(s.fence, t.fence),
         Tracked \subseteq DOMAIN t, t.proc = s.proc,
         t.writes = s.writes, t.settling = s.settling, Ladder(t),
         NEW b \in {<<"abort", 0>>, <<"nobody", 0>>}
  PROVE  Handled(s, Persist(t, b), d)
  <1> DEFINE u == Persist(t, b)
  <1>1. /\ Tracked \subseteq DOMAIN u
        /\ u.writes = Append(t.writes, [snap |-> u.fence, by |-> b])
        /\ u.fence = t.fence /\ u.settling = t.settling /\ u.proc = t.proc
        /\ u.abortEsc = t.abortEsc /\ u.proseEsc = t.proseEsc /\ u.tripped = t.tripped
    BY PersistFields
  <1> HIDE DEF u
  <1>2. Step(s.fence, u.fence)
    BY <1>1 DEF Noted, Step, Follows
  <1>3. b \in {"dispatch", "settle", "abort", "nobody"} \X Nat /\ \A e \in Epochs : b # <<"settle", e>>
    OBVIOUS
  <1>4. Ladder(u)
    BY <1>1 DEF Ladder
  <1>5. u.settling \in [Epochs -> Settlement]
    BY <1>1 DEF Good, Shape
  <1>6. Handled(s, u, d)
    BY <1>1, <1>2, <1>3, <1>4, <1>5, PersistKeeps
  <1> QED BY <1>6 DEF u

LEMMA SettleKeeps ==
  ASSUME NEW s, NEW d, Good(s, d), NEW v \in Verdicts,
         NEW then \in {"nothing", "kill", "exit", "close"}
  PROVE  Handled(s, SettleStart(s, v, then), d)
  <1>1. Tracked \subseteq DOMAIN s /\ s.settling \in [Epochs -> Settlement]
        /\ s.fence \in FenceSnapshot /\ Sound(s.fence)
    BY ChainKnows DEF Good, Shape
  <1>2. CASE ~ IsLive(s.fence)
    <2>1. Kept(s, s)
      BY <1>1 DEF Kept, Rests
    <2> QED BY <1>2, <2>1, KeptKeeps DEF SettleStart
  <1>3. CASE IsLive(s.fence)
    <2> DEFINE e == s.fence.live.epoch
               g == Settle(s.fence, v)
               a == [pc |-> "fence", verdict |-> v, then |-> then]
               r == ResetEpoch(s)
               t == [r EXCEPT !.fence = g, !.settling[e] = a]
               b == <<"settle", e>>
               u == Persist(t, b)
    <2>1. /\ Step(s.fence, g) /\ e \in Epochs
          /\ e \in Settled(g) /\ e \notin Settled(s.fence)
      BY <1>1, <1>3, SettleStep DEF Settled
    <2>2. a \in Settlement
      BY DEF Settlement
    <2>3. Rests(s, r) /\ r.proc = s.proc /\ r.abortEsc = "no" /\ ~ r.proseEsc
      BY <1>1, ResetFields
    <2> HIDE DEF e, g, a, r
    <2>4. /\ Tracked \subseteq DOMAIN t /\ t.fence = g /\ t.writes = s.writes /\ t.proc = s.proc
          /\ t.settling = [s.settling EXCEPT ![e] = a]
          /\ t.abortEsc = "no" /\ ~ t.proseEsc
      BY <2>3 DEF Rests, Tracked
    <2> HIDE DEF t
    <2>5. /\ Tracked \subseteq DOMAIN u
          /\ u.writes = Append(t.writes, [snap |-> u.fence, by |-> b])
          /\ u.fence = t.fence /\ u.settling = t.settling /\ u.proc = t.proc
          /\ u.abortEsc = t.abortEsc /\ u.proseEsc = t.proseEsc /\ u.tripped = t.tripped
      BY <2>4, PersistFields
    <2> HIDE DEF u
    <2>6. e \in Nat
      BY <2>1, SupervisorConstants DEF Epochs
    <2>7. b \in {"dispatch", "settle", "abort", "nobody"} \X Nat
      BY <2>6
    <2>8. \A f \in Epochs : b = <<"settle", f>> <=> f = e
      OBVIOUS
    <2> HIDE DEF b
    <2>9. u.settling \in [Epochs -> Settlement]
      BY <1>1, <2>1, <2>2, <2>4, <2>5
    <2>10. \A f \in Epochs : \/ u.settling[f].pc = s.settling[f].pc
                             \/ b = <<"settle", f>> /\ f \notin Settled(s.fence)
      BY <1>1, <2>1, <2>4, <2>5, <2>8
    <2>11. \A f \in Epochs : b = <<"settle", f>> => f \in Settled(u.fence)
      BY <2>1, <2>4, <2>5, <2>8
    <2>12. Ladder(u) /\ Step(s.fence, u.fence) /\ u.proc = s.proc
           /\ u.writes = Append(s.writes, [snap |-> u.fence, by |-> b])
      BY <2>1, <2>4, <2>5 DEF Ladder
    <2>13. Handled(s, u, d)
      BY <2>5, <2>7, <2>9, <2>10, <2>11, <2>12, PersistKeeps
    <2>14. SettleStart(s, v, then) = u
      BY <1>3 DEF SettleStart, u, t, r, a, g, e, b
    <2> QED BY <2>13, <2>14
  <1> QED BY <1>2, <1>3

LEMMA AllocateKeeps ==
  ASSUME NEW s, NEW d, Good(s, d), NEW k \in Keys, Admits(s.fence, k, 0), s.fence.hwm < MaxEpoch
  PROVE  LET f == Allocate(s.fence, k)
             t == [s EXCEPT !.fence = f, !.disp[f.hwm] = "fence"] IN
         Handled(s, Persist(t, <<"dispatch", f.hwm>>), d)
  <1> DEFINE f == Allocate(s.fence, k)
             t == [s EXCEPT !.fence = f, !.disp[f.hwm] = "fence"]
             b == <<"dispatch", f.hwm>>
             u == Persist(t, b)
  <1>1. Tracked \subseteq DOMAIN s /\ s.settling \in [Epochs -> Settlement]
        /\ s.fence \in FenceSnapshot /\ Sound(s.fence)
    BY ChainKnows DEF Good, Shape
  <1>2. Step(s.fence, f) /\ ~ IsLive(s.fence)
    BY <1>1, AllocateStep
  <1>3. f.hwm \in Nat
    BY <1>2 DEF Step, FenceSnapshot
  <1> HIDE DEF f
  <1>4. /\ Tracked \subseteq DOMAIN t /\ t.fence = f /\ t.writes = s.writes /\ t.proc = s.proc
        /\ t.settling = s.settling /\ t.abortEsc = s.abortEsc /\ t.proseEsc = s.proseEsc
    BY <1>1 DEF Tracked
  <1> HIDE DEF t
  <1>5. s.abortEsc = "no" /\ ~ s.proseEsc
    BY <1>2 DEF Good, Ladder, TimedOut, WindowOpen
  <1>6. /\ Tracked \subseteq DOMAIN u
        /\ u.writes = Append(t.writes, [snap |-> u.fence, by |-> b])
        /\ u.fence = t.fence /\ u.settling = t.settling /\ u.proc = t.proc
        /\ u.abortEsc = t.abortEsc /\ u.proseEsc = t.proseEsc /\ u.tripped = t.tripped
    BY <1>4, PersistFields
  <1> HIDE DEF u
  <1>7. b \in {"dispatch", "settle", "abort", "nobody"} \X Nat /\ \A e \in Epochs : b # <<"settle", e>>
    BY <1>3
  <1> HIDE DEF b
  <1>8. /\ Ladder(u) /\ Step(s.fence, u.fence) /\ u.proc = s.proc
        /\ u.writes = Append(s.writes, [snap |-> u.fence, by |-> b])
        /\ u.settling = s.settling
    BY <1>2, <1>4, <1>5, <1>6 DEF Ladder
  <1>9. Handled(s, u, d)
    BY <1>1, <1>6, <1>7, <1>8, PersistKeeps
  <1> QED BY <1>9 DEF u, t, b, f

-----------------------------------------------------------------------------
(* The inductive invariant.                                                *)

\* No record of an epoch whose settlement still waits for the fence.
Unrecorded ==
    \A t \in Tasks : records[t] # None => sup.settling[records[t].epoch].pc # "fence"

Recordings == [Tasks -> [epoch : Epochs, verdict : Verdicts] \cup {None}]
IInv ==
    /\ disk \in FenceSnapshot /\ Sound(disk)
    /\ records \in Recordings
    /\ RecordDurable
    /\ sup.proc # "down" => Good(sup, disk) /\ Unrecorded
    /\ sup.proc = "down" => Ladder(sup)

\* A handler's step keeps it.
LEMMA HandledStep ==
  ASSUME IInv, sup.proc # "down", Handled(sup, sup', disk), UNCHANGED <<disk, records>>
  PROVE  IInv'
  <1>1. RecordDurable'
    BY DEF IInv, RecordDurable
  <1>2. Unrecorded'
    <2> SUFFICES ASSUME NEW t \in Tasks, records[t] # None
                 PROVE  sup'.settling[records[t].epoch].pc # "fence"
      BY DEF Unrecorded
    <2>1. records[t].epoch \in Epochs
      BY DEF IInv, Recordings
    <2>2. records[t].epoch \in Settled(disk)
      BY DEF IInv, RecordDurable, Settled
    <2>3. sup.settling[records[t].epoch].pc # "fence"
      BY DEF IInv, Unrecorded
    <2> QED BY <2>1, <2>2, <2>3 DEF Handled
  <1> QED BY <1>1, <1>2 DEF IInv, Handled, Good

LEMMA KeptStep ==
  ASSUME IInv, sup.proc # "down", Kept(sup, sup'), UNCHANGED <<disk, records>>
  PROVE  IInv'
  <1>1. Handled(sup, sup', disk)
    BY KeptKeeps DEF IInv
  <1> QED BY <1>1, HandledStep

\* Steps that leave the ledger and the ladder as they are.
Resting ==
    \/ \E e \in Epochs : DispatchPolicy(e) \/ DispatchArm(e) \/ DispatchSend(e) \/ DispatchTimeout(e)
    \/ AbortSend \/ Shutdown
    \/ OnAgentEnd \/ OnState \/ OnGarbage \/ OnEof
    \/ \E p \in Probes : ProbeTimeout(p)
    \/ Reprobe \/ BootTimeout
LEMMA RestingStep ==
  ASSUME IInv, Resting
  PROVE  IInv'
  <1>1. sup.proc # "down" /\ UNCHANGED <<disk, records>>
    BY DEF Resting, DispatchPolicy, DispatchArm, DispatchSend, DispatchTimeout, AbortSend,
           Shutdown, OnAgentEnd, OnState, OnGarbage, OnEof, ProbeTimeout, Reprobe,
           BootTimeout, Line, Up
  <1>2. Tracked \subseteq DOMAIN sup
    BY <1>1 DEF IInv, Good, Shape
  <1> SUFFICES Kept(sup, sup')
    BY <1>1, KeptStep
  <1>3. ASSUME NEW e \in Epochs, DispatchPolicy(e) \/ DispatchArm(e) \/ DispatchTimeout(e)
        PROVE  Kept(sup, sup')
    BY <1>2, <1>3 DEF DispatchPolicy, DispatchArm, DispatchTimeout, Kept, Rests, Tracked
  <1>4. ASSUME NEW e \in Epochs, DispatchSend(e)
        PROVE  Kept(sup, sup')
    <2>1. CASE sup.closed
      BY <1>2, <1>4, <2>1 DEF DispatchSend, Kept, Rests, Tracked
    <2>2. CASE ~ sup.closed
      <3> DEFINE t == [sup EXCEPT !.disp[e] = "sent"]
      <3>1. Kept(sup, t)
        BY <1>2 DEF Kept, Rests, Tracked
      <3>2. sup' = Send(t, Cmd("prompt", e, 0))
        BY <1>4, <2>2 DEF DispatchSend
      <3> HIDE DEF t
      <3> QED BY <3>1, <3>2, SendKeeps, KeptTwice DEF Kept, Rests
    <2> QED BY <2>1, <2>2
  <1>5. CASE AbortSend
    <2> DEFINE t == [sup EXCEPT !.abort = FALSE]
    <2>1. Kept(sup, t)
      BY <1>2 DEF Kept, Rests, Tracked
    <2>2. sup' = Send(t, AbortCmd)
      BY <1>5 DEF AbortSend
    <2> HIDE DEF t
    <2> QED BY <2>1, <2>2, SendKeeps, KeptTwice DEF Kept, Rests
  <1>6. CASE Shutdown
    BY <1>2, <1>6, ShutdownKeeps DEF Shutdown
  <1>7. CASE OnAgentEnd
    <2> DEFINE t == [sup EXCEPT !.ended = Head(stdout).k = 0]
    <2>1. Kept(sup, t) /\ Kept(sup, sup)
      BY <1>2 DEF Kept, Rests, Tracked
    <2>2. sup' = MaybeProbe(Bump(t)) \/ sup' = sup
      BY <1>7 DEF OnAgentEnd
    <2> HIDE DEF t
    <2>3. Kept(t, Bump(t))
      BY <2>1, BumpKeeps DEF Kept, Rests
    <2>4. Kept(Bump(t), MaybeProbe(Bump(t)))
      BY <2>3, ProbeKeeps DEF Kept, Rests
    <2> QED BY <2>1, <2>2, <2>3, <2>4, KeptTwice
  <1>8. CASE OnState
    <2> DEFINE r == Head(stdout)
               p == r.e
               t == [sup EXCEPT !.probe[p].pc = "second", !.probe[p].first = r.quiet]
    <2>1. Kept(sup, t)
      BY <1>2 DEF Kept, Rests, Tracked
    <2>2. \/ sup' = [sup EXCEPT !.boot = FALSE, !.phase = "idle"]
          \/ sup' = sup
          \/ sup' = Send(t, Cmd("get_state", p, 2))
          \/ sup' = [sup EXCEPT !.probe[p] = NoProbe]
          \/ sup' = [sup EXCEPT !.probe[p].pc = "answered",
                                !.probe[p].first = IF @ = r.quiet THEN @ ELSE None]
      BY <1>8 DEF OnState
    <2>3. CASE sup' = Send(t, Cmd("get_state", p, 2))
      <3> HIDE DEF t
      <3> QED BY <2>1, <2>3, SendKeeps, KeptTwice DEF Kept, Rests
    <2> QED BY <1>2, <2>2, <2>3 DEF Kept, Rests, Tracked
  <1>9. CASE OnGarbage
    <2> DEFINE t == CloseClient(sup)
    <2>1. Kept(sup, t)
      BY <1>2, CloseKeeps
    <2> HIDE DEF t
    <2>2. sup' = [t EXCEPT !.killed = TRUE]
      BY <1>9 DEF OnGarbage, t
    <2> QED BY <2>1, <2>2 DEF Kept, Rests, Tracked
  <1>10. CASE OnEof
    BY <1>2, <1>10, CloseKeeps DEF OnEof
  <1>11. ASSUME NEW p \in Probes, ProbeTimeout(p)
         PROVE  Kept(sup, sup')
    BY <1>2, <1>11 DEF ProbeTimeout, Kept, Rests, Tracked
  <1>12. CASE Reprobe
    <2> DEFINE t == [sup EXCEPT !.reprobe = FALSE]
    <2>1. Kept(sup, t)
      BY <1>2 DEF Kept, Rests, Tracked
    <2>2. sup' = MaybeProbe(t)
      BY <1>12 DEF Reprobe
    <2> HIDE DEF t
    <2> QED BY <2>1, <2>2, ProbeKeeps, KeptTwice DEF Kept, Rests
  <1>13. CASE BootTimeout
    BY <1>2, <1>13 DEF BootTimeout, Kept, Rests, Tracked
  <1> QED BY <1>3, <1>4, <1>5, <1>6, <1>7, <1>8, <1>9, <1>10, <1>11, <1>12, <1>13 DEF Resting

LEMMA PiStep ==
  ASSUME IInv, Pi
  PROVE  IInv'
  <1>1. UNCHANGED <<disk, records>>
    BY DEF Pi, PiPrompt, PiStart, PiEnd, PiAbort, PiState, PiProse, PiDies, PiGarbage
  <1>2. CASE sup' = sup
    BY <1>1, <1>2 DEF IInv, RecordDurable, Unrecorded, Ladder
  <1>3. CASE PiReads("prompt") \/ PiReads("abort") \/ PiReads("get_state")
    <2>1. sup.proc # "down"
      BY <1>3 DEF PiReads
    <2>2. PiTakes \/ sup' = sup
      BY DEF Pi, PiPrompt, PiStart, PiEnd, PiAbort, PiState, PiProse, PiDies, PiGarbage
    <2>3. Kept(sup, sup')
      BY <2>1, <2>2 DEF IInv, Good, Shape, PiTakes, Kept, Rests, Tracked
    <2> QED BY <1>1, <2>1, <2>3, KeptStep
  <1> QED BY <1>2, <1>3 DEF Pi, PiPrompt, PiStart, PiEnd, PiAbort, PiState, PiProse, PiDies,
                            PiGarbage

LEMMA FenceKnown ==
  ASSUME NEW s, NEW d, Good(s, d)
  PROVE  /\ Tracked \subseteq DOMAIN s
         /\ s.fence \in FenceSnapshot /\ Sound(s.fence)
         /\ d.completed \subseteq s.fence.completed
  BY ChainKnows DEF Good, Shape

LEMMA DispatchStep ==
  ASSUME IInv, NEW k \in Keys, Dispatch(k)
  PROVE  IInv'
  <1>1. sup.proc # "down" /\ UNCHANGED <<disk, records>> /\ Good(sup, disk)
    BY DEF Dispatch, Up, IInv
  <1>2. Handled(sup, sup', disk)
    <2>1. Admits(sup.fence, k, 0) /\ sup.fence.hwm < MaxEpoch
      BY DEF Dispatch
    <2> DEFINE f == Allocate(sup.fence, k)
    <2>2. sup' = Persist([sup EXCEPT !.fence = f, !.disp[f.hwm] = "fence"], <<"dispatch", f.hwm>>)
      BY DEF Dispatch
    <2> HIDE DEF f
    <2>3. Handled(sup, Persist([sup EXCEPT !.fence = f, !.disp[f.hwm] = "fence"],
                               <<"dispatch", f.hwm>>), disk)
      BY <1>1, <2>1, AllocateKeeps DEF f
    <2> QED BY <2>2, <2>3
  <1> QED BY <1>1, <1>2, HandledStep

LEMMA DispatchResumeStep ==
  ASSUME IInv, NEW e \in Epochs, DispatchResume(e)
  PROVE  IInv'
  <1>1. sup.proc # "down" /\ UNCHANGED <<disk, records>> /\ Good(sup, disk)
    BY DEF DispatchResume, Up, IInv
  <1>2. Tracked \subseteq DOMAIN sup /\ sup.fence \in FenceSnapshot /\ Sound(sup.fence)
    BY <1>1, FenceKnown
  <1>3. CASE sup.disp[e] = "acked"
    <2> DEFINE f == NoteAck(sup.fence, 0)
               t == [sup EXCEPT !.disp[e] = "done", !.promptId = e, !.fence = f]
    <2>1. sup' = Persist(t, <<"nobody", 0>>)
      BY <1>3 DEF DispatchResume, Nobody
    <2>2. Noted(sup.fence, f) /\ f.live = sup.fence.live
      BY <1>2, NoteAckStep
    <2> HIDE DEF f
    <2>3. /\ Tracked \subseteq DOMAIN t /\ t.fence = f /\ t.proc = sup.proc
          /\ t.writes = sup.writes /\ t.settling = sup.settling
          /\ t.abortEsc = sup.abortEsc /\ t.proseEsc = sup.proseEsc /\ t.tripped = sup.tripped
      BY <1>2 DEF Tracked
    <2> HIDE DEF t
    <2>4. Ladder(t)
      BY <1>1, <2>2, <2>3 DEF Good, Ladder, TimedOut, AbortRequested, WindowOpen, IsLive
    <2>5. Handled(sup, Persist(t, <<"nobody", 0>>), disk)
      BY <1>1, <2>2, <2>3, <2>4, PersistNote
    <2> QED BY <1>1, <2>1, <2>5, HandledStep
  <1>4. CASE sup.disp[e] \in {"refused", "broken"}
    <2> DEFINE t == [sup EXCEPT !.disp[e] = "done"]
    <2>1. sup' = SettleStart(t, "failed", "nothing")
      BY <1>4 DEF DispatchResume
    <2>2. Kept(sup, t)
      BY <1>2 DEF Kept, Rests, Tracked
    <2> HIDE DEF t
    <2>3. Handled(sup, t, disk)
      BY <1>1, <2>2, KeptKeeps
    <2>4. Handled(t, sup', disk)
      BY <2>1, <2>3, SettleKeeps, SupervisorConstants DEF Handled
    <2> QED BY <1>1, <2>3, <2>4, HandledTwice, HandledStep
  <1> QED BY <1>3, <1>4 DEF DispatchResume

LEMMA AnswerStep ==
  ASSUME IInv, OnAnswer
  PROVE  IInv'
  <1>1. sup.proc # "down" /\ UNCHANGED <<disk, records>> /\ Good(sup, disk)
    BY DEF OnAnswer, Line, Up, IInv
  <1>2. Tracked \subseteq DOMAIN sup /\ sup.fence \in FenceSnapshot /\ Sound(sup.fence)
    BY <1>1, FenceKnown
  <1> DEFINE f == NoteAck(sup.fence, 0)
             a == IF Head(stdout).k = 1 THEN "acked" ELSE "refused"
             e == Head(stdout).e
             t == [sup EXCEPT !.fence = f, !.disp[e] = a]
  <1>3. \/ sup' = t
        \/ sup' = SettleStart(sup, "failed", "nothing")
        \/ sup' = sup
    BY DEF OnAnswer
  <1>4. Noted(sup.fence, f) /\ f.live = sup.fence.live
    BY <1>2, NoteAckStep
  <1> HIDE DEF f, a, e
  <1>5. CASE sup' = t
    <2>1. /\ Tracked \subseteq DOMAIN t /\ t.fence = f /\ t.proc = sup.proc
          /\ t.writes = sup.writes /\ t.settling = sup.settling
          /\ t.abortEsc = sup.abortEsc /\ t.proseEsc = sup.proseEsc /\ t.tripped = sup.tripped
      BY <1>2 DEF Tracked
    <2> HIDE DEF t
    <2>2. Ladder(t)
      BY <1>1, <1>4, <2>1 DEF Good, Ladder, TimedOut, AbortRequested, WindowOpen, IsLive
    <2>3. Handled(sup, t, disk)
      BY <1>1, <1>4, <2>1, <2>2, NotingKeeps
    <2> QED BY <1>1, <1>5, <2>3, HandledStep
  <1>6. CASE sup' = SettleStart(sup, "failed", "nothing")
    <2>1. Handled(sup, sup', disk)
      BY <1>1, <1>6, SettleKeeps, SupervisorConstants
    <2> QED BY <1>1, <2>1, HandledStep
  <1>7. CASE sup' = sup
    BY <1>1, <1>2, <1>7, KeptStep DEF Kept, Rests
  <1> QED BY <1>3, <1>5, <1>6, <1>7

LEMMA AgentStartStep ==
  ASSUME IInv, OnAgentStart
  PROVE  IInv'
  <1>1. sup.proc # "down" /\ UNCHANGED <<disk, records>> /\ Good(sup, disk)
    BY DEF OnAgentStart, Line, Up, IInv
  <1>2. Tracked \subseteq DOMAIN sup /\ sup.fence \in FenceSnapshot /\ Sound(sup.fence)
    BY <1>1, FenceKnown
  <1> DEFINE f == BindStart(sup.fence)
             t == [sup EXCEPT !.fence = f, !.ended = FALSE, !.tripped = FALSE]
             q == [sup EXCEPT !.ended = FALSE]
  <1>3. \/ IsLive(sup.fence) /\ ~ WindowOpen(sup.fence) /\ sup' = Persist(Bump(t), <<"nobody", 0>>)
        \/ sup' = MaybeProbe(Bump(q))
        \/ sup' = sup
    BY DEF OnAgentStart, Nobody
  <1>4. CASE IsLive(sup.fence) /\ ~ WindowOpen(sup.fence)
             /\ sup' = Persist(Bump(t), <<"nobody", 0>>)
    <2>1. Noted(sup.fence, f) /\ TimedOut(f) = TimedOut(sup.fence)
          /\ AbortRequested(f) = AbortRequested(sup.fence)
      BY <1>2, <1>4, BindStartStep
    <2> HIDE DEF f
    <2>2. /\ Tracked \subseteq DOMAIN t /\ t.fence = f /\ t.proc = sup.proc
          /\ t.writes = sup.writes /\ t.settling = sup.settling
          /\ t.abortEsc = sup.abortEsc /\ t.proseEsc = sup.proseEsc
      BY <1>2 DEF Tracked
    <2> HIDE DEF t
    <2> DEFINE u == Bump(t)
    <2>3. Kept(t, u)
      BY <2>2, BumpKeeps
    <2> HIDE DEF u
    <2>4. Ladder(u)
      BY <1>1, <1>4, <2>1, <2>2, <2>3 DEF Good, Ladder, Kept, Rests
    <2>5. /\ Tracked \subseteq DOMAIN u /\ Noted(sup.fence, u.fence) /\ u.proc = sup.proc
          /\ u.writes = sup.writes /\ u.settling = sup.settling
      BY <2>1, <2>2, <2>3 DEF Kept, Rests
    <2>6. Handled(sup, Persist(u, <<"nobody", 0>>), disk)
      BY <1>1, <2>4, <2>5, PersistNote
    <2> QED BY <1>1, <1>4, <2>6, HandledStep DEF u
  <1>5. CASE sup' = MaybeProbe(Bump(q))
    <2>1. Kept(sup, q)
      BY <1>2 DEF Kept, Rests, Tracked
    <2> HIDE DEF q
    <2>2. Kept(q, Bump(q))
      BY <2>1, BumpKeeps DEF Kept, Rests
    <2>3. Kept(Bump(q), MaybeProbe(Bump(q)))
      BY <2>2, ProbeKeeps DEF Kept, Rests
    <2> QED BY <1>1, <1>5, <2>1, <2>2, <2>3, KeptTwice, KeptStep
  <1>6. CASE sup' = sup
    BY <1>1, <1>2, <1>6, KeptStep DEF Kept, Rests
  <1> QED BY <1>3, <1>4, <1>5, <1>6

LEMMA TurnEndStep ==
  ASSUME IInv, OnTurnEnd
  PROVE  IInv'
  <1>1. sup.proc # "down" /\ UNCHANGED <<disk, records>> /\ Good(sup, disk)
    BY DEF OnTurnEnd, Line, Up, IInv
  <1>2. Tracked \subseteq DOMAIN sup
    BY <1>1, FenceKnown
  <1> DEFINE s == Bump(sup)
             t == [s EXCEPT !.tripped = TRUE, !.proseEsc = TRUE]
             u == Send(t, AbortCmd)
  <1>3. \/ WindowOpen(sup.fence) /\ (sup' = MaybeProbe(s) \/ sup' = MaybeProbe(u))
        \/ sup' = sup
    BY DEF OnTurnEnd
  <1>4. Kept(sup, s)
    BY <1>2, BumpKeeps
  <1> HIDE DEF s
  <1>5. CASE WindowOpen(sup.fence) /\ sup' = MaybeProbe(s)
    <2>1. Kept(s, sup')
      BY <1>4, <1>5, ProbeKeeps DEF Kept, Rests
    <2> QED BY <1>1, <1>4, <2>1, KeptTwice, KeptStep
  <1>6. CASE WindowOpen(sup.fence) /\ sup' = MaybeProbe(u)
    <2>1. /\ Rests(sup, t) /\ t.proc = sup.proc
          /\ t.abortEsc = sup.abortEsc /\ t.proseEsc = TRUE /\ t.tripped = TRUE
      BY <1>4 DEF Kept, Rests, Tracked
    <2> HIDE DEF t
    <2>2. Ladder(t)
      BY <1>1, <1>6, <2>1 DEF Good, Ladder, Rests
    <2>3. Handled(sup, t, disk)
      BY <1>1, <2>1, <2>2, RestingKeeps
    <2>4. Kept(t, u)
      BY <2>1, SendKeeps DEF Rests
    <2> HIDE DEF u
    <2>5. Kept(u, sup')
      BY <1>6, <2>4, ProbeKeeps DEF Kept, Rests
    <2>6. Handled(t, sup', disk)
      BY <2>3, <2>4, <2>5, KeptTwice, KeptKeeps DEF Handled
    <2> QED BY <1>1, <2>3, <2>6, HandledTwice, HandledStep
  <1>7. CASE sup' = sup
    BY <1>1, <1>2, <1>7, KeptStep DEF Kept, Rests
  <1> QED BY <1>3, <1>5, <1>6, <1>7

LEMMA ProbeDecidesStep ==
  ASSUME IInv, NEW p \in Probes, ProbeDecides(p)
  PROVE  IInv'
  <1>1. sup.proc # "down" /\ UNCHANGED <<disk, records>> /\ Good(sup, disk)
    BY DEF ProbeDecides, Up, IInv
  <1>2. Tracked \subseteq DOMAIN sup
    BY <1>1, FenceKnown
  <1> DEFINE v == CASE sup.tripped -> "failed"
                    [] ~ sup.tripped /\ TimedOut(sup.fence) -> "timed_out"
                    [] ~ sup.tripped /\ ~ TimedOut(sup.fence)
                          /\ AbortRequested(sup.fence) -> "aborted"
                    [] OTHER -> "success"
             s == [sup EXCEPT !.probe[p] = NoProbe]
  <1>3. v \in Verdicts
    <2>1. {"success", "failed", "timed_out", "aborted"} \subseteq Verdicts
      BY SupervisorConstants
    <2> QED BY <2>1, Zenon
  <1>4. sup' = IF Confirms(sup.probe[p]) THEN SettleStart(s, v, "nothing")
               ELSE [s EXCEPT !.probing = FALSE, !.reprobe = TRUE]
    BY DEF ProbeDecides
  <1> HIDE DEF v
  <1>5. Kept(sup, s)
    BY <1>2 DEF Kept, Rests, Tracked
  <1> HIDE DEF s
  <1>6. Handled(sup, s, disk)
    BY <1>1, <1>5, KeptKeeps
  <1>7. CASE Confirms(sup.probe[p])
    <2>1. Handled(s, sup', disk)
      BY <1>3, <1>4, <1>6, <1>7, SettleKeeps DEF Handled
    <2> QED BY <1>1, <1>6, <2>1, HandledTwice, HandledStep
  <1>8. CASE ~ Confirms(sup.probe[p])
    <2>1. Kept(s, sup')
      BY <1>4, <1>5, <1>8 DEF Kept, Rests, Tracked
    <2> QED BY <1>1, <1>5, <2>1, KeptTwice, KeptStep
  <1> QED BY <1>7, <1>8

LEMMA DeadlineStep ==
  ASSUME IInv, Deadline
  PROVE  IInv'
  <1>1. sup.proc # "down" /\ UNCHANGED <<disk, records>> /\ Good(sup, disk)
        /\ IsLive(sup.fence)
    BY DEF Deadline, Up, IInv
  <1>2. Tracked \subseteq DOMAIN sup /\ sup.fence \in FenceSnapshot /\ Sound(sup.fence)
    BY <1>1, FenceKnown
  <1> DEFINE g == NoteTimedOut(sup.fence)
             f == NoteAbort(g)
             early == sup.disp[sup.fence.live.epoch] \in {"state", "sampling"}
             a == IF early THEN "early" ELSE "late"
             t == [sup EXCEPT !.deadline = FALSE, !.abortEsc = a, !.fence = f]
             u == Persist(t, <<"nobody", 0>>)
  <1>3. sup' = Send(u, AbortCmd)
    BY DEF Deadline, Nobody
  <1>4. /\ Noted(sup.fence, g) /\ TimedOut(g) /\ IsLive(g)
        /\ WindowOpen(g) = WindowOpen(sup.fence)
    BY <1>1, <1>2, NoteTimedOutStep
  <1> HIDE DEF g
  <1>5. /\ Noted(g, f) /\ AbortRequested(f) /\ TimedOut(f) = TimedOut(g)
        /\ WindowOpen(f) = WindowOpen(g)
    BY <1>4, NoteAbortStep DEF Noted
  <1> HIDE DEF f, a
  <1>6. Noted(sup.fence, f)
    BY <1>4, <1>5 DEF Noted, SameLedger
  <1>7. /\ Tracked \subseteq DOMAIN t /\ t.fence = f /\ t.proc = sup.proc
        /\ t.writes = sup.writes /\ t.settling = sup.settling
        /\ t.proseEsc = sup.proseEsc /\ t.tripped = sup.tripped
    BY <1>2 DEF Tracked
  <1> HIDE DEF t
  <1>8. Ladder(t)
    BY <1>1, <1>4, <1>5, <1>7 DEF Good, Ladder
  <1>9. Handled(sup, u, disk)
    BY <1>1, <1>6, <1>7, <1>8, PersistNote
  <1> HIDE DEF u
  <1>10. Handled(u, sup', disk)
    <2>1. Tracked \subseteq DOMAIN u
      BY <1>9 DEF Handled, Good, Shape
    <2> QED BY <1>3, <1>9, <2>1, SendKeeps, KeptKeeps DEF Handled
  <1> QED BY <1>1, <1>9, <1>10, HandledTwice, HandledStep

LEMMA AbortRequestStep ==
  ASSUME IInv, AbortRequest
  PROVE  IInv'
  <1>1. sup.proc # "down" /\ UNCHANGED <<disk, records>> /\ Good(sup, disk)
        /\ IsLive(sup.fence)
    BY DEF AbortRequest, Up, IInv
  <1>2. Tracked \subseteq DOMAIN sup /\ sup.fence \in FenceSnapshot /\ Sound(sup.fence)
    BY <1>1, FenceKnown
  <1> DEFINE f == NoteAbort(sup.fence)
             t == [sup EXCEPT !.abort = TRUE, !.fence = f]
  <1>3. sup' = Persist(t, <<"abort", 0>>)
    BY DEF AbortRequest
  <1>4. /\ Noted(sup.fence, f) /\ AbortRequested(f) /\ TimedOut(f) = TimedOut(sup.fence)
        /\ WindowOpen(f) = WindowOpen(sup.fence)
    BY <1>1, <1>2, NoteAbortStep
  <1> HIDE DEF f
  <1>5. /\ Tracked \subseteq DOMAIN t /\ t.fence = f /\ t.proc = sup.proc
        /\ t.writes = sup.writes /\ t.settling = sup.settling
        /\ t.abortEsc = sup.abortEsc /\ t.proseEsc = sup.proseEsc /\ t.tripped = sup.tripped
    BY <1>2 DEF Tracked
  <1> HIDE DEF t
  <1>6. Ladder(t)
    BY <1>1, <1>4, <1>5 DEF Good, Ladder
  <1>7. Handled(sup, Persist(t, <<"abort", 0>>), disk)
    BY <1>1, <1>4, <1>5, <1>6, PersistNote
  <1> QED BY <1>1, <1>3, <1>7, HandledStep

\* The escalations, the end of the grace and the child's exit: they settle.
LEMMA EscalateStep ==
  ASSUME IInv, AbortEscalates \/ ProseEscalates \/ ShutdownGrace
  PROVE  IInv'
  <1>1. sup.proc # "down" /\ UNCHANGED <<disk, records>> /\ Good(sup, disk)
    BY DEF AbortEscalates, ProseEscalates, ShutdownGrace, Up, IInv
  <1>2. Tracked \subseteq DOMAIN sup /\ {"timed_out", "failed", "aborted"} \subseteq Verdicts
    BY <1>1, FenceKnown, SupervisorConstants
  <1> SUFFICES Handled(sup, sup', disk)
    BY <1>1, HandledStep
  <1>3. CASE AbortEscalates
    <2> DEFINE t == [sup EXCEPT !.abortEsc = "no"]
    <2>1. sup' = SettleStart(t, "timed_out", "kill")
      BY <1>3 DEF AbortEscalates
    <2>2. Rests(sup, t) /\ t.proc = sup.proc /\ t.abortEsc = "no"
          /\ t.proseEsc = sup.proseEsc /\ t.tripped = sup.tripped
      BY <1>2 DEF Rests, Tracked
    <2> HIDE DEF t
    <2>3. Ladder(t)
      BY <1>1, <2>2 DEF Good, Ladder, Rests
    <2>4. Handled(sup, t, disk)
      BY <1>1, <2>2, <2>3, RestingKeeps
    <2>5. Handled(t, sup', disk)
      BY <1>2, <2>1, <2>4, SettleKeeps DEF Handled
    <2> QED BY <2>4, <2>5, HandledTwice
  <1>4. CASE ProseEscalates
    <2> DEFINE t == [sup EXCEPT !.proseEsc = FALSE]
    <2>1. sup' = SettleStart(t, "failed", "kill")
      BY <1>4 DEF ProseEscalates
    <2>2. Rests(sup, t) /\ t.proc = sup.proc /\ t.abortEsc = sup.abortEsc
          /\ t.proseEsc = FALSE
      BY <1>2 DEF Rests, Tracked
    <2> HIDE DEF t
    <2>3. Ladder(t)
      BY <1>1, <2>2 DEF Good, Ladder, Rests
    <2>4. Handled(sup, t, disk)
      BY <1>1, <2>2, <2>3, RestingKeeps
    <2>5. Handled(t, sup', disk)
      BY <1>2, <2>1, <2>4, SettleKeeps DEF Handled
    <2> QED BY <2>4, <2>5, HandledTwice
  <1>5. CASE ShutdownGrace
    <2> DEFINE t == [sup EXCEPT !.shut = "settling"]
               u == [sup EXCEPT !.shut = "closing"]
    <2>1. sup' = SettleStart(t, "aborted", "close") \/ sup' = u
      BY <1>5 DEF ShutdownGrace
    <2>2. Kept(sup, t) /\ Kept(sup, u)
      BY <1>2 DEF Kept, Rests, Tracked
    <2> HIDE DEF t, u
    <2>3. Handled(sup, t, disk) /\ Handled(sup, u, disk)
      BY <1>1, <2>2, KeptKeeps
    <2>4. Handled(t, SettleStart(t, "aborted", "close"), disk)
      BY <1>2, <2>3, SettleKeeps DEF Handled
    <2> QED BY <2>1, <2>3, <2>4, HandledTwice
  <1> QED BY <1>3, <1>4, <1>5

LEMMA ChildExitStep ==
  ASSUME IInv, ChildExit
  PROVE  IInv'
  <1>1. sup.proc # "down" /\ UNCHANGED <<disk, records>> /\ Good(sup, disk)
    BY DEF ChildExit, Up, IInv
  <1>2. Tracked \subseteq DOMAIN sup /\ "failed" \in Verdicts
    BY <1>1, FenceKnown, SupervisorConstants
  <1> DEFINE q == CloseClient(sup)
             x == IF IsLive(sup.fence) THEN "settling" ELSE "flushing"
             t == [q EXCEPT !.phase = "dead", !.exit = x]
  <1>3. sup' = SettleStart(t, "failed", "exit")
    BY DEF ChildExit
  <1>4. Kept(sup, q)
    BY <1>2, CloseKeeps
  <1> HIDE DEF q, x
  <1>5. Kept(q, t)
    BY <1>4 DEF Kept, Rests, Tracked
  <1> HIDE DEF t
  <1>6. Handled(sup, t, disk)
    BY <1>1, <1>4, <1>5, KeptTwice, KeptKeeps
  <1>7. Handled(t, sup', disk)
    BY <1>2, <1>3, <1>6, SettleKeeps DEF Handled
  <1> QED BY <1>1, <1>6, <1>7, HandledTwice, HandledStep

LEMMA ExitFlushedStep ==
  ASSUME IInv, ExitFlushed
  PROVE  IInv'
  <1>1. sup.proc # "down" /\ UNCHANGED <<disk, records>> /\ Good(sup, disk)
    BY DEF ExitFlushed, Up, IInv
  <1> DEFINE c == IF sup.shut # "no" THEN "gone" ELSE sup.proc
  <1>2. sup' = [sup EXCEPT !.exit = "done", !.proc = c]
    BY DEF ExitFlushed
  <1> HIDE DEF c
  <1>3. Rests(sup, sup') /\ sup'.abortEsc = sup.abortEsc
        /\ sup'.proseEsc = sup.proseEsc /\ sup'.tripped = sup.tripped
    BY <1>1, <1>2, FenceKnown DEF Rests, Tracked
  <1>4. Ladder(sup')
    BY <1>1, <1>3 DEF Good, Ladder, Rests
  <1>5. Good(sup', disk)
    BY <1>1, <1>3, <1>4, RestingKeeps
  <1>6. Unrecorded'
    BY <1>1, <1>3 DEF IInv, Unrecorded, Rests
  <1> QED BY <1>1, <1>5, <1>6 DEF IInv, RecordDurable, Good

-----------------------------------------------------------------------------
(* A settlement after its fence is written, and the file itself.           *)

\* The settlement of epoch e moves on.
LEMMA Advances ==
  ASSUME NEW s, NEW t, NEW d, Good(s, d), NEW e \in Epochs, s.settling[e].pc # "no",
         Tracked \subseteq DOMAIN t, t.settling \in [Epochs -> Settlement],
         t.settling[e].pc \in {"policy", "done"},
         \A f \in Epochs \ {e} : t.settling[f] = s.settling[f],
         t.fence = s.fence, t.writes = s.writes,
         t.abortEsc = s.abortEsc, t.proseEsc = s.proseEsc, t.tripped = s.tripped
  PROVE  /\ Good(t, d)
         /\ \A f \in Epochs : t.settling[f].pc = "fence" => f # e /\ s.settling[f].pc = "fence"
  <1>1. \A f \in Epochs : t.settling[f].pc = "fence" => f # e /\ s.settling[f].pc = "fence"
    OBVIOUS
  <1>2. \A f \in Epochs : t.settling[f].pc # "no" => s.settling[f].pc # "no"
    OBVIOUS
  <1>3. Awaits(t, d)
    BY <1>1, <1>2 DEF Good, Awaits
  <1>4. Ladder(t)
    BY DEF Good, Ladder
  <1> QED BY <1>1, <1>3, <1>4 DEF Good, Shape

\* The record of epoch e appears: the file already calls the epoch settled,
\* and no record of its task was there.
Enters(e, v) ==
    LET c == CHOOSE d \in sup.fence.completed : d.epoch = e IN
    records' = [records EXCEPT ![c.task] = [epoch |-> e, verdict |-> v]]
LEMMA Recording ==
  ASSUME IInv, sup.proc # "down", NEW e \in Epochs, NEW v \in Verdicts, SettleReady(e),
         Enters(e, v), disk' = disk, Good(sup', disk),
         \A f \in Epochs : sup'.settling[f].pc = "fence" => f # e /\ sup.settling[f].pc = "fence"
  PROVE  /\ IInv'
         /\ \A t \in Tasks : records[t] # None => records'[t] = records[t]
  <1>1. Good(sup, disk) /\ Unrecorded
    BY DEF IInv
  <1>2. sup.settling[e].pc = "fence" /\ \A i \in DOMAIN sup.writes : sup.writes[i].by # <<"settle", e>>
    BY DEF SettleReady, Written
  <1>3. DOMAIN sup.writes = 1 .. Len(sup.writes)
    BY <1>1 DEF Good, Shape
  <1>4. e \in Settled(disk)
    BY <1>1, <1>2, <1>3 DEF Good, Awaits
  <1>5. PICK c \in disk.completed : c.epoch = e
    BY <1>4 DEF Settled
  <1>6. c \in sup.fence.completed /\ Sound(sup.fence)
    BY <1>1, <1>5, FenceKnown
  <1>7. \A d \in sup.fence.completed : d.epoch = e => d = c
    BY <1>5, <1>6 DEF Sound
  <1>8. c = CHOOSE d \in sup.fence.completed : d.epoch = e
    BY <1>5, <1>6, <1>7
  <1>9. c.task \in Tasks
    BY <1>5 DEF IInv, FenceSnapshot, CompletedTask
  <1> DEFINE r == [epoch |-> e, verdict |-> v]
  <1>10. records' = [records EXCEPT ![c.task] = r]
    BY <1>8 DEF Enters
  <1>11. r \in [epoch : Epochs, verdict : Verdicts] /\ r.epoch = e
    OBVIOUS
  <1> HIDE DEF r
  <1>12. records \in Recordings
    BY DEF IInv
  <1>13. /\ records'[c.task] = r
         /\ \A t \in Tasks : t # c.task => records'[t] = records[t]
         /\ records' \in Recordings
    <2>1. /\ records'[c.task] = r
          /\ \A t \in Tasks : t # c.task => records'[t] = records[t]
          /\ DOMAIN records' = Tasks /\ records' = [t \in Tasks |-> records'[t]]
      BY <1>9, <1>10, <1>12 DEF Recordings
    <2> HIDE <1>10
    <2>2. \A t \in Tasks : records'[t] \in [epoch : Epochs, verdict : Verdicts] \cup {None}
      BY <1>11, <1>12, <2>1 DEF Recordings
    <2> QED BY <2>1, <2>2 DEF Recordings
  <1>14. RecordDurable'
    <2> SUFFICES ASSUME NEW t \in Tasks, records'[t] # None
                 PROVE  \E d \in disk.completed : d.task = t /\ d.epoch = records'[t].epoch
      BY DEF RecordDurable
    <2>1. CASE t = c.task
      BY <1>5, <1>11, <1>13, <2>1
    <2>2. CASE t # c.task
      BY <1>13, <2>2 DEF IInv, RecordDurable
    <2> QED BY <2>1, <2>2
  <1>15. Unrecorded'
    <2> SUFFICES ASSUME NEW t \in Tasks, records'[t] # None
                 PROVE  sup'.settling[records'[t].epoch].pc # "fence"
      BY DEF Unrecorded
    <2>1. CASE t = c.task
      BY <1>11, <1>13, <2>1
    <2>2. CASE t # c.task
      <3>1. records[t].epoch \in Epochs
        BY <1>12, <1>13, <2>2 DEF Recordings
      <3> QED BY <1>1, <1>13, <2>2, <3>1 DEF Unrecorded
    <2> QED BY <2>1, <2>2
  <1>16. records[c.task] = None
    <2> SUFFICES ASSUME records[c.task] # None PROVE FALSE
      OBVIOUS
    <2>1. PICK d \in disk.completed : d.task = c.task /\ d.epoch = records[c.task].epoch
      BY <1>9 DEF IInv, RecordDurable
    <2>2. d = c
      BY <1>5, <2>1 DEF IInv, Sound
    <2> QED BY <1>1, <1>2, <1>5, <1>9, <2>1, <2>2 DEF Unrecorded
  <1>17. \A t \in Tasks : records[t] # None => records'[t] = records[t]
    BY <1>13, <1>16
  <1> QED BY <1>13, <1>14, <1>15, <1>17 DEF IInv, Good

LEMMA SettleRecordStep ==
  ASSUME IInv, NEW e \in Epochs, NEW v \in Verdicts, SettleRecord(e, v)
  PROVE  /\ IInv'
         /\ \A t \in Tasks : records[t] # None => records'[t] = records[t]
  <1>1. sup.proc # "down" /\ disk' = disk /\ Good(sup, disk)
        /\ SettleReady(e) /\ sup.settling[e].pc = "fence"
    BY DEF SettleRecord, SettleReady, Up, IInv
  <1>2. Tracked \subseteq DOMAIN sup
    BY <1>1, FenceKnown
  <1> DEFINE x == IF sup.shut # "no" THEN sup.phase ELSE "idle"
  <1>3. sup' = [sup EXCEPT !.settling[e].pc = "policy", !.phase = x]
    BY DEF SettleRecord
  <1> HIDE DEF x
  <1>4. /\ Tracked \subseteq DOMAIN sup'
        /\ sup'.settling = [sup.settling EXCEPT ![e].pc = "policy"]
        /\ sup'.fence = sup.fence /\ sup'.writes = sup.writes /\ sup'.abortEsc = sup.abortEsc
        /\ sup'.proseEsc = sup.proseEsc /\ sup'.tripped = sup.tripped
    BY <1>2, <1>3 DEF Tracked
  <1>4a. /\ sup'.settling \in [Epochs -> Settlement] /\ sup'.settling[e].pc = "policy"
         /\ \A f \in Epochs \ {e} : sup'.settling[f] = sup.settling[f]
    <2>1. sup.settling \in [Epochs -> Settlement]
      BY <1>1 DEF Good, Shape
    <2> DEFINE m == [sup.settling[e] EXCEPT !.pc = "policy"]
    <2>2. m \in Settlement /\ m.pc = "policy"
      BY <2>1 DEF Settlement
    <2>3. sup'.settling = [sup.settling EXCEPT ![e] = m]
      BY <1>4
    <2> HIDE DEF m
    <2> QED BY <2>1, <2>2, <2>3
  <1>5. /\ Good(sup', disk)
        /\ \A f \in Epochs : sup'.settling[f].pc = "fence" => f # e /\ sup.settling[f].pc = "fence"
    <2>1. Good(sup, disk) /\ sup.settling[e].pc # "no"
      BY <1>1
    <2> QED BY <2>1, <1>4, <1>4a, Advances
  <1>6. Enters(e, v)
    BY DEF SettleRecord, Enters
  <1> QED BY <1>1, <1>5, <1>6, Recording

LEMMA RecoverStep ==
  ASSUME IInv, NEW e \in Epochs, Recover(e)
  PROVE  /\ IInv'
         /\ \A t \in Tasks : records[t] # None => records'[t] = records[t]
  <1>1. sup.proc # "down" /\ disk' = disk /\ Good(sup, disk)
        /\ SettleReady(e) /\ sup.settling[e].pc = "fence" /\ "failed" \in Verdicts
    BY SupervisorConstants DEF Recover, SettleReady, IInv
  <1>2. Tracked \subseteq DOMAIN sup
    BY <1>1, FenceKnown
  <1>3. sup' = [sup EXCEPT !.proc = "up", !.settling[e].pc = "done"]
    BY DEF Recover
  <1>4. /\ Tracked \subseteq DOMAIN sup'
        /\ sup'.settling = [sup.settling EXCEPT ![e].pc = "done"]
        /\ sup'.fence = sup.fence /\ sup'.writes = sup.writes /\ sup'.abortEsc = sup.abortEsc
        /\ sup'.proseEsc = sup.proseEsc /\ sup'.tripped = sup.tripped
    BY <1>2, <1>3 DEF Tracked
  <1>4a. /\ sup'.settling \in [Epochs -> Settlement] /\ sup'.settling[e].pc = "done"
         /\ \A f \in Epochs \ {e} : sup'.settling[f] = sup.settling[f]
    <2>1. sup.settling \in [Epochs -> Settlement]
      BY <1>1 DEF Good, Shape
    <2> DEFINE m == [sup.settling[e] EXCEPT !.pc = "done"]
    <2>2. m \in Settlement /\ m.pc = "done"
      BY <2>1 DEF Settlement
    <2>3. sup'.settling = [sup.settling EXCEPT ![e] = m]
      BY <1>4
    <2> HIDE DEF m
    <2> QED BY <2>1, <2>2, <2>3
  <1>5. /\ Good(sup', disk)
        /\ \A f \in Epochs : sup'.settling[f].pc = "fence" => f # e /\ sup.settling[f].pc = "fence"
    <2>1. Good(sup, disk) /\ sup.settling[e].pc # "no"
      BY <1>1
    <2> QED BY <2>1, <1>4, <1>4a, Advances
  <1>6. Enters(e, "failed")
    BY DEF Recover, Enters
  <1> QED BY <1>1, <1>5, <1>6, Recording

LEMMA SettleFinishStep ==
  ASSUME IInv, NEW e \in Epochs, SettleFinish(e)
  PROVE  IInv'
  <1>1. sup.proc # "down" /\ UNCHANGED <<disk, records>> /\ Good(sup, disk)
        /\ sup.settling[e].pc = "policy"
    BY DEF SettleFinish, Up, IInv
  <1>2. Tracked \subseteq DOMAIN sup
        /\ sup.settling[e].then \in {"nothing", "kill", "exit", "close"}
    BY <1>1, FenceKnown DEF Good, Shape, Settlement
  <1> DEFINE s == [sup EXCEPT !.settling[e].pc = "done"]
  <1>3. \/ sup' = s
        \/ sup' = [s EXCEPT !.killed = TRUE]
        \/ sup' = [s EXCEPT !.phase = "dead", !.exit = "flushing"]
        \/ sup' = [s EXCEPT !.shut = "closing"]
    BY <1>2, Zenon DEF SettleFinish
  <1>4. /\ Tracked \subseteq DOMAIN s
        /\ s.settling = [sup.settling EXCEPT ![e].pc = "done"] /\ s.proc = sup.proc
        /\ s.fence = sup.fence /\ s.writes = sup.writes /\ s.abortEsc = sup.abortEsc
        /\ s.proseEsc = sup.proseEsc /\ s.tripped = sup.tripped
    BY <1>2 DEF Tracked
  <1> HIDE DEF s
  <1>5. /\ Tracked \subseteq DOMAIN sup'
        /\ sup'.settling = [sup.settling EXCEPT ![e].pc = "done"] /\ sup'.proc = sup.proc
        /\ sup'.fence = sup.fence /\ sup'.writes = sup.writes /\ sup'.abortEsc = sup.abortEsc
        /\ sup'.proseEsc = sup.proseEsc /\ sup'.tripped = sup.tripped
    BY <1>3, <1>4 DEF Tracked
  <1>5a. /\ sup'.settling \in [Epochs -> Settlement] /\ sup'.settling[e].pc = "done"
         /\ \A f \in Epochs \ {e} : sup'.settling[f] = sup.settling[f]
    <2>1. sup.settling \in [Epochs -> Settlement]
      BY <1>1 DEF Good, Shape
    <2> DEFINE m == [sup.settling[e] EXCEPT !.pc = "done"]
    <2>2. m \in Settlement /\ m.pc = "done"
      BY <2>1 DEF Settlement
    <2>3. sup'.settling = [sup.settling EXCEPT ![e] = m]
      BY <1>5
    <2> HIDE DEF m
    <2> QED BY <2>1, <2>2, <2>3
  <1>6. /\ Good(sup', disk)
        /\ \A f \in Epochs : sup'.settling[f].pc = "fence" => f # e /\ sup.settling[f].pc = "fence"
    BY <1>1, <1>5, <1>5a, Advances
  <1>7. Handled(sup, sup', disk)
    BY <1>5, <1>6 DEF Handled
  <1> QED BY <1>1, <1>7, HandledStep

LEMMA WriteLandsStep ==
  ASSUME IInv, WriteLands
  PROVE  IInv' /\ Follows(disk, disk')
  <1>1. /\ Good(sup, disk) /\ Unrecorded /\ sup.writes # <<>> /\ records' = records
        /\ disk' = Head(sup.writes).snap
    BY DEF WriteLands, IInv
  <1> DEFINE w == sup.writes
             y == Tail(w)
             n == Len(w)
  <1>2. w \in Seq(Write) /\ Tracked \subseteq DOMAIN sup
    BY <1>1, FenceKnown DEF Good, Shape
  <1>3. n \in Nat /\ n > 0 /\ y \in Seq(Write) /\ Len(y) = n - 1 /\ w[1].snap = disk'
        /\ \A i \in 1 .. (n - 1) : y[i] = w[i + 1]
    BY <1>1, <1>2
  <1>4. /\ Chain(disk', y, sup.fence) /\ Follows(disk, disk')
        /\ disk' \in FenceSnapshot /\ Sound(disk') /\ disk.completed \subseteq disk'.completed
    BY <1>1, <1>2, ChainLand DEF Good
  <1>5. sup' = [sup EXCEPT !.writes = y]
    BY DEF WriteLands
  <1> HIDE DEF y, n, w
  <1>6. /\ Tracked \subseteq DOMAIN sup' /\ sup'.writes = y
        /\ sup'.fence = sup.fence /\ sup'.settling = sup.settling
        /\ sup'.abortEsc = sup.abortEsc /\ sup'.proseEsc = sup.proseEsc
        /\ sup'.tripped = sup.tripped
    BY <1>2, <1>5 DEF Tracked
  <1>7. \A e \in Epochs : e \in Settled(disk) => e \in Settled(disk')
    BY <1>4 DEF Settled
  <1>8. \A i \in 1 .. (n - 1) : i + 1 \in 1 .. n
    BY <1>3
  <1>9. \A i \in 1 .. n, e \in Epochs : w[i].by = <<"settle", e>> => e \in Settled(w[i].snap)
    BY <1>1 DEF Good, Awaits, w, n
  <1>10. \A i \in 1 .. (n - 1), e \in Epochs : y[i].by = <<"settle", e>> => e \in Settled(y[i].snap)
    BY <1>3, <1>8, <1>9
  <1>11. ASSUME NEW e \in Epochs, sup.settling[e].pc = "fence"
         PROVE  e \in Settled(disk') \/ \E i \in 1 .. (n - 1) : y[i].by = <<"settle", e>>
    <2>1. CASE e \in Settled(disk)
      BY <1>7, <2>1
    <2>2. CASE e \notin Settled(disk)
      <3>1. PICK i \in 1 .. n : w[i].by = <<"settle", e>>
        BY <1>1, <1>11, <2>2 DEF Good, Awaits, w, n
      <3>2. CASE i = 1
        BY <1>3, <1>9, <3>1, <3>2
      <3>3. CASE i # 1
        <4>1. i - 1 \in 1 .. (n - 1) /\ (i - 1) + 1 = i
          BY <1>3, <3>3
        <4>2. y[i - 1] = w[i]
          BY <1>3, <4>1
        <4> QED BY <3>1, <4>1, <4>2
      <3> QED BY <3>2, <3>3
    <2> QED BY <2>1, <2>2
  <1>12. Awaits(sup', disk')
    BY <1>1, <1>3, <1>6, <1>10, <1>11 DEF Good, Awaits
  <1>13. Ladder(sup')
    BY <1>1, <1>6 DEF Good, Ladder
  <1>14. Good(sup', disk')
    BY <1>1, <1>3, <1>4, <1>6, <1>12, <1>13 DEF Good, Shape
  <1>15. RecordDurable'
    BY <1>1, <1>4 DEF IInv, RecordDurable
  <1>16. Unrecorded'
    BY <1>1, <1>6 DEF Unrecorded
  <1> QED BY <1>1, <1>4, <1>14, <1>15, <1>16 DEF IInv, Good

LEMMA CrashStep ==
  ASSUME IInv, Crash
  PROVE  IInv'
  <1>1. /\ sup'.proc = "down" /\ UNCHANGED <<disk, records>>
        /\ sup'.abortEsc = "no" /\ sup'.proseEsc = FALSE
    BY DEF Crash, Booted
  <1> QED BY <1>1 DEF IInv, RecordDurable, Ladder

\* A supervisor that has just read the fence file.
LEMMA BootedGood ==
  ASSUME NEW d \in FenceSnapshot, Sound(d)
  PROVE  Good(Booted(d), d) /\ \A e \in Epochs : Booted(d).settling[e].pc = "no"
  <1> DEFINE s == Booted(d)
  <1>1. /\ Tracked \subseteq DOMAIN s /\ s.fence = d /\ s.writes = <<>>
        /\ s.settling = [e \in Epochs |-> NoSettle]
        /\ s.abortEsc = "no" /\ s.proseEsc = FALSE
    BY DEF Booted, Tracked
  <1> HIDE DEF s
  <1>2. NoSettle \in Settlement /\ NoSettle.pc = "no"
    BY SupervisorConstants DEF NoSettle, Settlement
  <1>3. s.settling \in [Epochs -> Settlement] /\ \A e \in Epochs : s.settling[e].pc = "no"
    BY <1>1, <1>2
  <1>4. s.writes \in Seq(Write) /\ Len(s.writes) = 0
    BY <1>1
  <1>5. Chain(d, s.writes, s.fence)
    BY <1>1, ChainEmpty
  <1>6. Awaits(s, d)
    BY <1>3, <1>4 DEF Awaits
  <1>7. Ladder(s)
    BY <1>1 DEF Ladder
  <1> QED BY <1>1, <1>3, <1>4, <1>5, <1>6, <1>7 DEF Good, Shape, s

LEMMA RelaunchStep ==
  ASSUME IInv, Relaunch
  PROVE  IInv'
  <1>1. UNCHANGED <<disk, records>> /\ sup' = Recovered(disk)
        /\ disk \in FenceSnapshot /\ Sound(disk)
    BY DEF Relaunch, IInv
  <1> DEFINE s == Booted(disk)
             t == SettleStart(s, "failed", "nothing")
  <1>2. Good(s, disk) /\ \A e \in Epochs : s.settling[e].pc = "no"
    BY <1>1, BootedGood
  <1>3. sup' = s \/ sup' = [t EXCEPT !.proc = "recovering"]
    BY <1>1 DEF Recovered
  <1> HIDE DEF s
  <1>4. Handled(s, t, disk)
    BY <1>2, SettleKeeps, SupervisorConstants
  <1> HIDE DEF t
  <1>5. Good(sup', disk) /\ \A e \in Epochs : sup'.settling[e].pc = "fence" => e \notin Settled(disk)
    <2>1. CASE sup' = s
      BY <1>2, <2>1
    <2>2. CASE sup' = [t EXCEPT !.proc = "recovering"]
      <3>1. Tracked \subseteq DOMAIN t /\ Good(t, disk)
        BY <1>4 DEF Handled, Good, Shape
      <3>2. Rests(t, sup') /\ sup'.abortEsc = t.abortEsc
            /\ sup'.proseEsc = t.proseEsc /\ sup'.tripped = t.tripped
        BY <2>2, <3>1 DEF Rests, Tracked
      <3>3. Ladder(sup')
        BY <3>1, <3>2 DEF Good, Ladder, Rests
      <3>4. Good(sup', disk)
        BY <3>1, <3>2, <3>3, RestingKeeps
      <3> QED BY <1>2, <1>4, <3>2, <3>4 DEF Handled, Rests
    <2> QED BY <1>3, <2>1, <2>2
  <1>6. Unrecorded'
    <2> SUFFICES ASSUME NEW t0 \in Tasks, records[t0] # None
                 PROVE  sup'.settling[records[t0].epoch].pc # "fence"
      BY <1>1 DEF Unrecorded
    <2>1. records[t0].epoch \in Epochs
      BY DEF IInv, Recordings
    <2>2. records[t0].epoch \in Settled(disk)
      BY DEF IInv, RecordDurable, Settled
    <2> QED BY <1>5, <2>1, <2>2
  <1> QED BY <1>1, <1>5, <1>6 DEF IInv, RecordDurable, Good

-----------------------------------------------------------------------------
(* What a reader of the fence file sees of it.                             *)

Owner(f, e) == IF \E k \in Keys : f.attempts[k] = e
               THEN CHOOSE k \in Keys : f.attempts[k] = e ELSE None
Outcome(f, e) == IF \E c \in f.completed : c.epoch = e
                 THEN (CHOOSE c \in f.completed : c.epoch = e).verdict ELSE None
Open(f) == IF IsLive(f) THEN f.live.epoch ELSE 0

LEMMA OwnerIs ==
  ASSUME NEW f, Sound(f), NEW k \in Keys, f.attempts[k] # 0
  PROVE  Owner(f, f.attempts[k]) = k
  <1>1. \A j \in Keys : f.attempts[j] = f.attempts[k] => j = k
    BY DEF Sound
  <1> QED BY <1>1 DEF Owner

LEMMA OutcomeIs ==
  ASSUME NEW f, Sound(f), NEW c \in f.completed
  PROVE  Outcome(f, c.epoch) = c.verdict
  <1>1. \A d \in f.completed : d.epoch = c.epoch => d = c
    BY DEF Sound
  <1>2. (CHOOSE d \in f.completed : d.epoch = c.epoch) = c
    BY <1>1
  <1> QED BY <1>2 DEF Outcome

\* A step of the fence is a step of what its file shows.
LEMMA IssueShows ==
  ASSUME NEW f \in FenceSnapshot, Sound(f), NEW g \in FenceSnapshot, Sound(g), Issued(f, g)
  PROVE  LET n == f.hwm + 1
             k == KeyOf(g.live) IN
         /\ n \in Epochs /\ k \in Keys /\ Open(f) = 0 /\ Open(g) = n
         /\ \A e \in Epochs : e < n <=> Owner(f, e) # None
         /\ ~ \E e \in Epochs : Owner(f, e) # None /\ Owner(f, e)[1] = k[1]
                                /\ Outcome(f, e) \in Verdicts
         /\ \A e \in Epochs : Owner(g, e) = IF e = n THEN k ELSE Owner(f, e)
         /\ \A e \in Epochs : Outcome(g, e) = Outcome(f, e)
  <1> DEFINE n == f.hwm + 1
             k == KeyOf(g.live)
  <1>1. /\ k \in Keys /\ f.attempts[k] = 0 /\ g.hwm = n
        /\ ~ AlreadyCompleted(f, g.live.task) /\ g.completed = f.completed
        /\ f.attempts \in [Keys -> Nat] /\ g.attempts = [f.attempts EXCEPT ![k] = n]
        /\ f.hwm \in Nat /\ n \in Nat /\ n # 0
    BY DEF Issued, FenceSnapshot
  <1>2. n \in Epochs /\ \A e \in Epochs : e \in Nat /\ e # 0
    BY <1>1, SupervisorConstants DEF Sound, Epochs
  <1>3. Open(f) = 0 /\ Open(g) = n
    BY <1>1 DEF Issued, Open, Sound
  <1>4. g.attempts[k] = n /\ \A j \in Keys \ {k} : g.attempts[j] = f.attempts[j]
    BY <1>1
  <1>5. k[1] = g.live.task
    BY DEF KeyOf
  <1> HIDE DEF n, k
  <1>6. ASSUME NEW e \in Epochs, e < n PROVE Owner(f, e) \in Keys /\ Owner(g, e) = Owner(f, e)
    <2>1. e \in 1 .. f.hwm
      BY <1>1, <1>2, <1>6 DEF n
    <2>2. PICK j \in Keys : f.attempts[j] = e
      BY <2>1 DEF Sound
    <2>3. j # k /\ g.attempts[j] = e
      BY <1>1, <1>2, <1>4, <2>2
    <2> QED BY <1>2, <2>2, <2>3, OwnerIs
  <1>7. ASSUME NEW e \in Epochs, ~ (e < n) PROVE Owner(f, e) = None
    <2>1. \A j \in Keys : f.attempts[j] # e
      <3> SUFFICES ASSUME NEW j \in Keys PROVE f.attempts[j] # e
        OBVIOUS
      <3>1. f.attempts[j] <= f.hwm /\ f.attempts[j] \in Nat
        BY <1>1 DEF Sound
      <3> QED BY <1>1, <1>2, <1>7, <3>1 DEF n
    <2> QED BY <2>1 DEF Owner
  <1>8. ASSUME NEW e \in Epochs, ~ (e < n), e # n PROVE Owner(g, e) = None
    <2>1. \A j \in Keys : g.attempts[j] # e
      <3> SUFFICES ASSUME NEW j \in Keys PROVE g.attempts[j] # e
        OBVIOUS
      <3>1. g.attempts[j] <= n /\ g.attempts[j] \in Nat
        BY <1>1 DEF Sound, FenceSnapshot
      <3> QED BY <1>1, <1>2, <1>8, <3>1
    <2> QED BY <2>1 DEF Owner
  <1>9. Owner(g, n) = k
    BY <1>1, <1>4, OwnerIs
  <1>10. \A e \in Epochs : Owner(g, e) = IF e = n THEN k ELSE Owner(f, e)
    <2> SUFFICES ASSUME NEW e \in Epochs PROVE Owner(g, e) = IF e = n THEN k ELSE Owner(f, e)
      OBVIOUS
    <2>1. CASE e = n
      BY <1>9, <2>1
    <2>2. CASE e < n /\ e # n
      BY <1>6, <2>2
    <2>3. CASE ~ (e < n) /\ e # n
      BY <1>7, <1>8, <2>3
    <2> QED BY <2>1, <2>2, <2>3
  <1>11. \A e \in Epochs : e < n <=> Owner(f, e) # None
    BY <1>6, <1>7, SupervisorConstants
  <1>12. ASSUME NEW e \in Epochs, Owner(f, e)[1] = k[1], Outcome(f, e) \in Verdicts
         PROVE  FALSE
    <2>1. PICK c \in f.completed : c.epoch = e
      BY <1>12, SupervisorConstants DEF Outcome
    <2>2. KeyOf(c) \in Keys /\ f.attempts[KeyOf(c)] = e
      BY <2>1 DEF Sound, FenceSnapshot, CompletedTask, KeyOf, Keys
    <2>3. Owner(f, e) = KeyOf(c)
      BY <1>2, <2>2, OwnerIs
    <2>4. c.task = k[1]
      BY <1>12, <2>3 DEF KeyOf
    <2> QED BY <1>1, <1>5, <2>4 DEF AlreadyCompleted
  <1>13. \A e \in Epochs : Outcome(g, e) = Outcome(f, e)
    BY <1>1 DEF Outcome
  <1> QED BY <1>1, <1>2, <1>3, <1>10, <1>11, <1>12, <1>13 DEF n, k

LEMMA CloseShows ==
  ASSUME NEW f \in FenceSnapshot, Sound(f), NEW g \in FenceSnapshot, Sound(g), Closed(f, g)
  PROVE  /\ f.hwm \in Epochs /\ Open(f) = f.hwm /\ Open(g) = 0
         /\ \A e \in Epochs : Owner(g, e) = Owner(f, e)
         /\ \E v \in Verdicts :
               \A e \in Epochs : Outcome(g, e) = IF e = f.hwm THEN v ELSE Outcome(f, e)
  <1>1. PICK v \in Verdicts :
           g.completed = f.completed \cup
              {[task |-> f.live.task, attempt |-> f.live.attempt, epoch |-> f.hwm, verdict |-> v]}
    BY DEF Closed
  <1> DEFINE c == [task |-> f.live.task, attempt |-> f.live.attempt, epoch |-> f.hwm, verdict |-> v]
  <1>2. c.epoch = f.hwm /\ c.verdict = v /\ g.completed = f.completed \cup {c}
    BY <1>1
  <1> HIDE DEF c
  <1>3. f.hwm \in Epochs /\ Open(f) = f.hwm /\ Open(g) = 0
    BY SupervisorConstants DEF Closed, Open, Sound, IsLive, FenceSnapshot, LiveEpoch, Epochs
  <1>4. \A e \in Epochs : Owner(g, e) = Owner(f, e)
    BY DEF Closed, Owner
  <1>5. Outcome(g, f.hwm) = v
    BY <1>2, OutcomeIs
  <1>6. ASSUME NEW e \in Epochs, e # f.hwm PROVE Outcome(g, e) = Outcome(f, e)
    <2>1. CASE \E x \in f.completed : x.epoch = e
      <3>1. PICK x \in f.completed : x.epoch = e
        BY <2>1
      <3> QED BY <1>2, <3>1, OutcomeIs
    <2>2. CASE ~ \E x \in f.completed : x.epoch = e
      BY <1>2, <1>6, <2>2 DEF Outcome
    <2> QED BY <2>1, <2>2
  <1> QED BY <1>3, <1>4, <1>5, <1>6

LEMMA SameShows ==
  ASSUME NEW f, NEW g, SameLedger(f, g)
  PROVE  /\ Open(g) = Open(f)
         /\ \A e \in Epochs : Owner(g, e) = Owner(f, e) /\ Outcome(g, e) = Outcome(f, e)
  BY DEF SameLedger, Open, Owner, Outcome

LEMMA Shows ==
  /\ \A e \in Epochs : OwnerOf(e) = Owner(disk, e) /\ OutcomeOf(e) = Outcome(disk, e)
  /\ (IF IsLive(disk) THEN disk.live.epoch ELSE 0) = Open(disk)
  BY DEF OwnerOf, OutcomeOf, Owner, Outcome, Open

LEMMA ShowsThen ==
  /\ \A e \in Epochs : OwnerOf(e)' = Owner(disk', e) /\ OutcomeOf(e)' = Outcome(disk', e)
  /\ (IF IsLive(disk) THEN disk.live.epoch ELSE 0)' = Open(disk')
  BY DEF OwnerOf, OutcomeOf, Owner, Outcome, Open

\* A write that lands is at most one step of the ledger.
LEMMA LandImplementsLedger ==
  ASSUME IInv, WriteLands
  PROVE  Ledger!LedgerNext \/ UNCHANGED Ledger!ledgerVars
  <1>1. /\ disk \in FenceSnapshot /\ Sound(disk) /\ Follows(disk, disk')
        /\ disk' \in FenceSnapshot /\ Sound(disk')
    BY WriteLandsStep DEF IInv
  <1>2. CASE SameLedger(disk, disk')
    <2>1. /\ [e \in Epochs |-> OwnerOf(e)]' = [e \in Epochs |-> OwnerOf(e)]
          /\ [e \in Epochs |-> OutcomeOf(e)]' = [e \in Epochs |-> OutcomeOf(e)]
          /\ (IF IsLive(disk) THEN disk.live.epoch ELSE 0)'
                = IF IsLive(disk) THEN disk.live.epoch ELSE 0
      BY <1>2, SameShows, Shows, ShowsThen
    <2> QED BY <2>1 DEF Ledger!ledgerVars
  <1>3. CASE Issued(disk, disk')
    <2> DEFINE n == disk.hwm + 1
               k == KeyOf(disk'.live)
    <2>1. /\ n \in Epochs /\ k \in Tasks \X Attempts /\ Open(disk) = 0 /\ Open(disk') = n
          /\ \A e \in Epochs : e < n <=> Owner(disk, e) # None
          /\ ~ \E e \in Epochs : Owner(disk, e) # None /\ Owner(disk, e)[1] = k[1]
                                 /\ Outcome(disk, e) \in Verdicts
          /\ \A e \in Epochs : Owner(disk', e) = IF e = n THEN k ELSE Owner(disk, e)
          /\ \A e \in Epochs : Outcome(disk', e) = Outcome(disk, e)
      BY <1>1, <1>3, IssueShows DEF Keys
    <2> HIDE DEF n, k
    <2>2. /\ [e \in Epochs |-> OwnerOf(e)]' = [[e \in Epochs |-> OwnerOf(e)] EXCEPT ![n] = k]
          /\ [e \in Epochs |-> OutcomeOf(e)]' = [e \in Epochs |-> OutcomeOf(e)]
      BY <2>1, Shows, ShowsThen
    <2>3. Ledger!Issue(n, k)
      BY <2>1, <2>2, Shows, ShowsThen DEF Ledger!Issue, Ledger!HasVerdict, Ledger!Epochs, Epochs
    <2> QED BY <2>1, <2>3 DEF Ledger!LedgerNext, Ledger!Epochs, Epochs
  <1>4. CASE Closed(disk, disk')
    <2> DEFINE n == disk.hwm
    <2>1. /\ n \in Epochs /\ Open(disk) = n /\ Open(disk') = 0
          /\ \A e \in Epochs : Owner(disk', e) = Owner(disk, e)
      BY <1>1, <1>4, CloseShows
    <2>2. PICK v \in Verdicts :
             \A e \in Epochs : Outcome(disk', e) = IF e = n THEN v ELSE Outcome(disk, e)
      BY <1>1, <1>4, CloseShows
    <2> HIDE DEF n
    <2>3. /\ [e \in Epochs |-> OwnerOf(e)]' = [e \in Epochs |-> OwnerOf(e)]
          /\ [e \in Epochs |-> OutcomeOf(e)]' = [[e \in Epochs |-> OutcomeOf(e)] EXCEPT ![n] = v]
      BY <2>1, <2>2, Shows, ShowsThen
    <2>4. Ledger!Close(n, v)
      BY <2>1, <2>3, Shows, ShowsThen DEF Ledger!Close
    <2> QED BY <2>1, <2>4 DEF Ledger!LedgerNext, Ledger!Epochs, Epochs
  <1> QED BY <1>1, <1>2, <1>3, <1>4 DEF Follows

-----------------------------------------------------------------------------
(* The theorems.                                                           *)

LEMMA InitHolds == Init => IInv
  <1> SUFFICES ASSUME Init PROVE IInv
    OBVIOUS
  <1>1. sup = Booted(EmptyFence) /\ disk = EmptyFence /\ records = [t \in Tasks |-> None]
    BY DEF Init
  <1>2. disk \in FenceSnapshot /\ Sound(disk)
    BY <1>1, EmptySound
  <1>3. Good(sup, disk)
    BY <1>1, <1>2, BootedGood
  <1> QED BY <1>1, <1>2, <1>3 DEF IInv, Recordings, RecordDurable, Unrecorded, Good

\* Steps of the process keep the invariant, and only a write that lands
\* changes the file.
LEMMA NextStep ==
  ASSUME IInv, Next
  PROVE  IInv'
  <1>1. CASE Resting
    BY <1>1, RestingStep
  <1>2. CASE Pi
    BY <1>2, PiStep
  <1>3. CASE \E k \in Keys : Dispatch(k)
    BY <1>3, DispatchStep
  <1>4. CASE \E e \in Epochs : DispatchResume(e)
    BY <1>4, DispatchResumeStep
  <1>5. CASE \E e \in Epochs, v \in Verdicts : SettleRecord(e, v)
    BY <1>5, SettleRecordStep
  <1>6. CASE \E e \in Epochs : SettleFinish(e)
    BY <1>6, SettleFinishStep
  <1>7. CASE OnAnswer \/ OnAgentStart \/ OnTurnEnd
    BY <1>7, AnswerStep, AgentStartStep, TurnEndStep
  <1>8. CASE \E p \in Probes : ProbeDecides(p)
    BY <1>8, ProbeDecidesStep
  <1>9. CASE Deadline \/ AbortRequest
    BY <1>9, DeadlineStep, AbortRequestStep
  <1>10. CASE AbortEscalates \/ ProseEscalates \/ ShutdownGrace
    BY <1>10, EscalateStep
  <1>11. CASE ChildExit \/ ExitFlushed
    BY <1>11, ChildExitStep, ExitFlushedStep
  <1>12. CASE WriteLands \/ Crash \/ Relaunch
    BY <1>12, WriteLandsStep, CrashStep, RelaunchStep
  <1>13. CASE \E e \in Epochs : Recover(e)
    BY <1>13, RecoverStep
  <1> QED BY <1>1, <1>2, <1>3, <1>4, <1>5, <1>6, <1>7, <1>8, <1>9, <1>10, <1>11, <1>12, <1>13
          DEF Next, Handlers, Stream, Timers, Process, Resting

LEMMA StutterStep ==
  ASSUME IInv, UNCHANGED vars
  PROVE  IInv'
  BY DEF vars, IInv, RecordDurable, Unrecorded, Ladder

\* The inductive invariant: the queue of fence writes is a chain of single
\* ledger steps from the file to the fence in memory (persistFence), a
\* settlement under way is in the fence it waits for (settle), and a kill
\* ladder in flight is the live epoch's.
THEOREM Inductive == Spec => []IInv
  <1>1. IInv /\ [Next]_vars => IInv'
    BY NextStep, StutterStep
  <1> QED BY InitHolds, <1>1, PTL DEF Spec

\* No task record is seen before the fence file calls its epoch settled, for
\* any budget of crashes, relaunches, aborts, deadlines and late answers.
THEOREM RecordsAreDurable == Spec => []RecordDurable
  <1>1. IInv => RecordDurable
    BY DEF IInv
  <1> QED BY <1>1, Inductive, PTL

\* A task record is never rewritten: neither a second settle nor the recovery
\* of a relaunch contradicts what wait has answered with.
THEOREM RecordsAreFinal == Spec => RecordStable
  <1> DEFINE Same == \A t \in Tasks : records[t] # None => records'[t] = records[t]
  <1>1. IInv /\ [Next]_vars => Same
    <2> SUFFICES ASSUME IInv, [Next]_vars PROVE Same
      OBVIOUS
    <2>1. CASE records' = records
      BY <2>1
    <2>2. CASE \E e \in Epochs, v \in Verdicts : SettleRecord(e, v)
      BY <2>2, SettleRecordStep
    <2>3. CASE \E e \in Epochs : Recover(e)
      BY <2>3, RecoverStep
    <2>4. \/ records' = records
          \/ \E e \in Epochs, v \in Verdicts : SettleRecord(e, v)
          \/ \E e \in Epochs : Recover(e)
      BY DEF Next, vars, Handlers, Stream, Timers, Process, Pi, Dispatch, DispatchPolicy,
             DispatchArm, DispatchSend, DispatchResume, DispatchTimeout, SettleFinish,
             AbortRequest, AbortSend, Shutdown, ShutdownGrace, OnAnswer, OnAgentStart,
             OnTurnEnd, OnAgentEnd, OnState, OnGarbage, OnEof, ProbeDecides, ProbeTimeout,
             Reprobe, BootTimeout, Deadline, AbortEscalates, ProseEscalates, ChildExit,
             ExitFlushed, WriteLands, Crash, Relaunch, PiPrompt, PiStart, PiEnd, PiAbort,
             PiState, PiProse, PiDies, PiGarbage
    <2> QED BY <2>1, <2>2, <2>3, <2>4
  <1>2. IInv /\ [Next]_vars => [Same]_vars
    BY <1>1
  <1> HIDE DEF Same
  <1>3. Spec => [][Same]_vars
    BY <1>2, Inductive, PTL DEF Spec
  <1> QED BY <1>3 DEF RecordStable, Same

\* No timer of a settled epoch escalates the next one: settle disarms the abort
\* and the prose ladder, whatever the order of timers, answers and writes.
THEOREM LaddersAreOwn == Spec => []LadderOwn
  <1>1. IInv => LadderOwn
    BY DEF IInv, Good, Ladder, LadderOwn
  <1> QED BY <1>1, Inductive, PTL

\* The fence file under a supervisor is an EpochLedger: epochs are issued in
\* order, one at a time, to one attempt each, and closed once, for any faults.
THEOREM FileStaysALedger == Spec => ImplementsLedger
  <1>1. Init => Ledger!LedgerInit
    <2> SUFFICES ASSUME Init PROVE Ledger!LedgerInit
      OBVIOUS
    <2>1. disk = EmptyFence /\ disk.live = NoLive /\ disk.completed = {}
          /\ \A k \in Keys : disk.attempts[k] = 0
      BY DEF Init, EmptyFence
    <2>2. \A e \in Epochs : OwnerOf(e) = None /\ OutcomeOf(e) = None
      BY <2>1, SupervisorConstants DEF OwnerOf, OutcomeOf, Epochs
    <2> QED BY <2>1, <2>2 DEF Ledger!LedgerInit, Ledger!Epochs, Epochs, IsLive
  <1>2. IInv /\ [Next]_vars => [Ledger!LedgerNext]_(Ledger!ledgerVars)
    <2> SUFFICES ASSUME IInv, [Next]_vars
                 PROVE  Ledger!LedgerNext \/ UNCHANGED Ledger!ledgerVars
      OBVIOUS
    <2>1. CASE WriteLands
      BY <2>1, LandImplementsLedger
    <2>2. CASE disk' = disk
      BY <2>2 DEF Ledger!ledgerVars, OwnerOf, OutcomeOf
    <2>3. WriteLands \/ disk' = disk
      BY DEF Next, vars, Handlers, Stream, Timers, Process, Pi, Dispatch, DispatchPolicy,
             DispatchArm, DispatchSend, DispatchResume, DispatchTimeout, SettleRecord,
             SettleFinish, AbortRequest, AbortSend, Shutdown, ShutdownGrace, OnAnswer,
             OnAgentStart, OnTurnEnd, OnAgentEnd, OnState, OnGarbage, OnEof, ProbeDecides,
             ProbeTimeout, Reprobe, BootTimeout, Deadline, AbortEscalates, ProseEscalates,
             ChildExit, ExitFlushed, Crash, Relaunch, Recover, PiPrompt, PiStart, PiEnd,
             PiAbort, PiState, PiProse, PiDies, PiGarbage
    <2> QED BY <2>1, <2>2, <2>3
  <1> QED BY <1>1, <1>2, Inductive, PTL DEF Spec, ImplementsLedger, Ledger!LedgerSpec

-----------------------------------------------------------------------------
(* Where Pi's lines come from: each epoch's prompt is sent once, run once, *)
(* and nothing is heard of it after its last line.                         *)

RunLines == {"answer", "agent_start", "agent_end", "turn_end"}
Stages == {"no", "fence", "state", "sampling", "sent", "acked", "refused", "broken", "done"}
Early == {"no", "fence", "state", "sampling"}

Quiet == {None} \cup (BOOLEAN \X Nat)
Asked == [t : {"prompt", "abort", "get_state"}, e : Nat \cup Probes, k : Nat]
Told == [t : RunLines \cup {"state", "garbage"}, e : Nat \cup Probes, k : Nat, quiet : Quiet]
ProbeState == [pc : {"free", "first", "second", "late", "answered"}, fresh : BOOLEAN,
               first : Quiet]
Child == [alive : BOOLEAN, run : 0 .. MaxEpoch, cut : BOOLEAN, queue : Seq(Epochs), runs : Nat]

\* The fields of the memory this is about.
Traced == {"disp", "stdin", "closed", "ended", "settling", "fence", "probe", "shut"}

\* A prompt among the commands, an epoch in Pi's hands, a line about it.
Prompts(e, c) == c.t = "prompt" /\ c.e = e
Sent(e, s) == \E i \in 1 .. Len(s.stdin) : Prompts(e, s.stdin[i])
Held(e, p) == p.run = e \/ \E i \in 1 .. Len(p.queue) : p.queue[i] = e
About(e, l) == l.t \in RunLines /\ l.e = e
Heard(e, out) == \E i \in 1 .. Len(out) : About(e, out[i])
Final(l) == \/ l.t = "answer" /\ l.k # 1
            \/ l.t = "agent_end" /\ l.k = 0

Unheld(e, s, p) == ~ Sent(e, s) /\ ~ Held(e, p)
Gone(e, s, p, out) == Unheld(e, s, p) /\ ~ Heard(e, out)

Typed(s, p, out, rn) ==
    /\ Traced \subseteq DOMAIN s
    /\ s.disp \in [Epochs -> Stages]
    /\ s.settling \in [Epochs -> Settlement]
    /\ s.probe \in [Probes -> ProbeState]
    /\ s.stdin \in Seq(Asked)
    /\ \A i \in 1 .. Len(s.stdin) : s.stdin[i].t = "prompt" => s.stdin[i].e \in Epochs
    /\ out \in Seq(Told)
    /\ \A i \in 1 .. Len(out) : out[i].t \in RunLines => out[i].e \in Epochs
    /\ p \in Child
    /\ rn \in [Epochs -> {"no", "cut", "full"}]
Fenced(s) == s.fence \in FenceSnapshot /\ Sound(s.fence)

\* Before its prompt is sent nobody has it; while it is sent nobody else has;
\* after a line that ends it nobody has it any more.
Once(e, s, p, out, rn) ==
    /\ e > s.fence.hwm => s.disp[e] = "no"
    /\ s.disp[e] = "broken" => s.closed
    /\ s.disp[e] \in Early => Gone(e, s, p, out)
    /\ Sent(e, s) => ~ Held(e, p) /\ ~ Heard(e, out)
    /\ \A i \in 1 .. Len(out) : About(e, out[i]) /\ Final(out[i]) =>
          /\ Unheld(e, s, p)
          /\ \A j \in 1 .. Len(out) : j > i => ~ About(e, out[j])
          /\ out[i].t = "agent_end" => rn[e] # "no"
Single(s, p) ==
    /\ \A i, j \in 1 .. Len(s.stdin), e \in Epochs :
          Prompts(e, s.stdin[i]) /\ Prompts(e, s.stdin[j]) => i = j
    /\ \A i, j \in 1 .. Len(p.queue) : p.queue[i] = p.queue[j] => i = j
    /\ \A i \in 1 .. Len(p.queue) : p.queue[i] # p.run

\* No epoch was ended by an escalation, an exit or a shutdown; then whatever Pi
\* holds or says is the live epoch's.
Plain(s) == \A f \in Epochs : s.settling[f].pc # "no" => s.settling[f].then = "nothing"
Clean(s) == Plain(s) /\ ~ s.closed
LiveIs(s, e) == IsLive(s.fence) /\ s.fence.live.epoch = e
Behind(s, p, out) ==
    Clean(s) => \A f \in Epochs : f <= s.fence.hwm /\ ~ LiveIs(s, f) =>
        /\ Gone(f, s, p, out)
        /\ s.disp[f] \in {"no", "acked", "done"}
        /\ IsLive(s.fence) => s.disp[f] # "acked"
Ahead(s, p, out) ==
    Clean(s) => \A e \in Epochs : LiveIs(s, e) =>
        /\ s.disp[e] \in Early \cup {"sent"} =>
              s.fence.ack = NoAck /\ ~ s.fence.live.started
        /\ s.disp[e] = "refused" => Gone(e, s, p, out) /\ ~ s.fence.live.started

\* The run is over: the live epoch's agent_end was heard.
Over(e, s, p, rn) ==
    /\ rn[e] # "no" /\ Unheld(e, s, p)
    /\ s.disp[e] \in {"acked", "done"}
Ending(s, p, out, rn) ==
    s.ended =>
        /\ IsLive(s.fence)
        /\ \A e \in Epochs : LiveIs(s, e) =>
              /\ Plain(s) => Over(e, s, p, rn)
              /\ Clean(s) => ~ Heard(e, out)

\* A probe counts only where no epoch was ended by an exit or a shutdown.
Eligible(s) ==
    /\ \A f \in Epochs : s.settling[f].pc # "no" =>
          /\ f <= s.fence.hwm /\ ~ LiveIs(s, f)
          /\ s.settling[f].then = "close" => s.shut # "no"
          /\ s.settling[f].then = "exit" => s.closed
    /\ (\E p \in Probes : s.probe[p].fresh) =>
          \A f \in Epochs : s.settling[f].pc # "no" => s.settling[f].then \in {"nothing", "kill"}

\* What a success rests on stays true.
Proven(s, p, rn) ==
    \A e \in Epochs :
        /\ s.settling[e].pc # "no" /\ s.settling[e].verdict = "success"
        /\ \A f \in 1 .. (e - 1) : s.settling[f].then # "kill"
        => Over(e, s, p, rn)

Accounted(s, p, out, rn) ==
    /\ Typed(s, p, out, rn) /\ Fenced(s)
    /\ \A e \in Epochs : Once(e, s, p, out, rn)
    /\ Single(s, p)
    /\ Behind(s, p, out) /\ Ahead(s, p, out)
    /\ Ending(s, p, out, rn)
    /\ Eligible(s) /\ Proven(s, p, rn)

-----------------------------------------------------------------------------
(* Sequences, and a line that is taken.                                    *)

LEMMA TailOf ==
  ASSUME NEW S, NEW q \in Seq(S), q # <<>>
  PROVE  /\ Tail(q) \in Seq(S) /\ 1 \in 1 .. Len(q) /\ Head(q) = q[1] /\ Head(q) \in S
         /\ Len(q) \in Nat /\ Len(Tail(q)) = Len(q) - 1
         /\ \A i \in 1 .. Len(Tail(q)) : i + 1 \in 1 .. Len(q) /\ Tail(q)[i] = q[i + 1]
  <1>1. Len(q) \in Nat /\ Len(q) > 0
    OBVIOUS
  <1> QED BY <1>1

LEMMA AppendOf ==
  ASSUME NEW S, NEW q \in Seq(S), NEW x \in S
  PROVE  /\ Append(q, x) \in Seq(S) /\ Len(q) \in Nat
         /\ Len(Append(q, x)) = Len(q) + 1 /\ Append(q, x)[Len(q) + 1] = x
         /\ \A i \in 1 .. Len(q) : i \in 1 .. Len(Append(q, x)) /\ Append(q, x)[i] = q[i]
         /\ \A i \in 1 .. Len(Append(q, x)) : i # Len(q) + 1 => i \in 1 .. Len(q)
  <1>1. Len(q) \in Nat
    OBVIOUS
  <1> QED BY <1>1

\* A line is taken: nothing is heard of more epochs than before.
LEMMA TakeKeeps ==
  ASSUME NEW s, NEW p, NEW out, NEW rn, Accounted(s, p, out, rn), out # <<>>
  PROVE  Accounted(s, p, Tail(out), rn)
  <1> DEFINE q == Tail(out)
  <1>1. /\ q \in Seq(Told) /\ Len(out) \in Nat
        /\ \A i \in 1 .. Len(q) : i + 1 \in 1 .. Len(out) /\ q[i] = out[i + 1]
    BY TailOf DEF Accounted, Typed
  <1> HIDE DEF q
  <1>2. \A e : ~ Heard(e, out) => ~ Heard(e, q)
    BY <1>1 DEF Heard
  <1>3. Typed(s, p, q, rn)
    BY <1>1 DEF Accounted, Typed
  <1>4. \A e \in Epochs : Once(e, s, p, q, rn)
    <2> SUFFICES ASSUME NEW e \in Epochs PROVE Once(e, s, p, q, rn)
      OBVIOUS
    <2>1. Once(e, s, p, out, rn)
      BY DEF Accounted
    <2>2. ASSUME NEW i \in 1 .. Len(q), About(e, q[i]), Final(q[i])
          PROVE  /\ Unheld(e, s, p)
                 /\ \A j \in 1 .. Len(q) : j > i => ~ About(e, q[j])
                 /\ q[i].t = "agent_end" => rn[e] # "no"
      BY <1>1, <2>1, <2>2 DEF Once
    <2> QED BY <1>2, <2>1, <2>2 DEF Once, Gone
  <1>5. Behind(s, p, q) /\ Ahead(s, p, q) /\ Ending(s, p, q, rn)
    BY <1>2 DEF Accounted, Behind, Ahead, Ending, Gone
  <1> QED BY <1>3, <1>4, <1>5 DEF Accounted, q

-----------------------------------------------------------------------------
(* Steps of the memory that send no prompt and end nothing.                *)

Calm(s, t) ==
    /\ Traced \subseteq DOMAIN t
    /\ t.disp = s.disp /\ t.closed = s.closed
    /\ t.stdin \in Seq(Asked)
    /\ \A i \in 1 .. Len(t.stdin) : t.stdin[i].t = "prompt" =>
          i \in 1 .. Len(s.stdin) /\ t.stdin[i] = s.stdin[i]
    /\ t.ended => s.ended
    /\ t.settling \in [Epochs -> Settlement]
    /\ \A f \in Epochs : /\ t.settling[f].pc # "no" <=> s.settling[f].pc # "no"
                         /\ t.settling[f].verdict = s.settling[f].verdict
                         /\ t.settling[f].then = s.settling[f].then
    /\ Fenced(t)
    /\ t.fence.hwm = s.fence.hwm /\ t.fence.ack = s.fence.ack
    /\ IsLive(t.fence) <=> IsLive(s.fence)
    /\ IsLive(s.fence) => /\ t.fence.live.epoch = s.fence.live.epoch
                          /\ t.fence.live.started = s.fence.live.started
    /\ t.probe \in [Probes -> ProbeState]
    /\ \A p \in Probes : t.probe[p].fresh => s.probe[p].fresh \/ (s.shut = "no" /\ ~ s.closed)
    /\ s.shut # "no" => t.shut # "no"

LEMMA CalmTwice ==
  ASSUME NEW s, NEW t, NEW u, Calm(s, t), Calm(t, u)
  PROVE  Calm(s, u)
  <1>1. \A i \in 1 .. Len(u.stdin) : u.stdin[i].t = "prompt" =>
          i \in 1 .. Len(s.stdin) /\ u.stdin[i] = s.stdin[i]
    BY DEF Calm
  <1>2. \A p \in Probes : u.probe[p].fresh => s.probe[p].fresh \/ (s.shut = "no" /\ ~ s.closed)
    BY DEF Calm
  <1> QED BY <1>1, <1>2 DEF Calm

LEMMA CalmKeeps ==
  ASSUME NEW s, NEW t, NEW p, NEW out, NEW rn, Accounted(s, p, out, rn), Calm(s, t)
  PROVE  Accounted(t, p, out, rn)
  <1>1. \A e : Sent(e, t) => Sent(e, s)
    BY DEF Calm, Sent, Prompts
  <1>2. \A e : (Unheld(e, s, p) => Unheld(e, t, p)) /\ (Gone(e, s, p, out) => Gone(e, t, p, out))
    BY <1>1 DEF Unheld, Gone
  <1>3. \A e : LiveIs(t, e) <=> LiveIs(s, e)
    BY DEF Calm, LiveIs
  <1>4. (Plain(t) <=> Plain(s)) /\ (Clean(t) <=> Clean(s))
    BY DEF Calm, Plain, Clean
  <1>5. Typed(t, p, out, rn)
    BY DEF Accounted, Typed, Calm
  <1>6. \A e \in Epochs : Once(e, t, p, out, rn)
    BY <1>1, <1>2 DEF Accounted, Once, Calm
  <1>7. Single(t, p)
    BY DEF Accounted, Single, Calm, Prompts
  <1>8. Behind(t, p, out)
    BY <1>2, <1>3, <1>4 DEF Accounted, Behind, Calm
  <1>9. Ahead(t, p, out)
    BY <1>2, <1>3, <1>4 DEF Accounted, Ahead, Calm, LiveIs
  <1>10. \A e : Over(e, s, p, rn) => Over(e, t, p, rn)
    BY <1>2 DEF Over, Calm
  <1>11. Ending(t, p, out, rn)
    BY <1>3, <1>4, <1>10 DEF Accounted, Ending, Calm
  <1>12. Eligible(t)
    <2>1. \A f \in Epochs : t.settling[f].pc # "no" =>
            /\ f <= t.fence.hwm /\ ~ LiveIs(t, f)
            /\ t.settling[f].then = "close" => t.shut # "no"
            /\ t.settling[f].then = "exit" => t.closed
      BY <1>3 DEF Accounted, Eligible, Calm
    <2>2. ASSUME NEW q \in Probes, t.probe[q].fresh, NEW f \in Epochs, t.settling[f].pc # "no"
          PROVE  t.settling[f].then \in {"nothing", "kill"}
      <3>1. t.settling[f] \in Settlement
        BY DEF Calm
      <3>2. CASE s.probe[q].fresh
        BY <2>2, <3>2 DEF Accounted, Eligible, Calm
      <3>3. CASE s.shut = "no" /\ ~ s.closed
        BY <2>2, <3>1, <3>3 DEF Accounted, Eligible, Calm, Settlement
      <3> QED BY <2>2, <3>2, <3>3 DEF Calm
    <2> QED BY <2>1, <2>2 DEF Eligible
  <1>13. Proven(t, p, rn)
    <2> SUFFICES ASSUME NEW e \in Epochs, t.settling[e].pc # "no",
                        t.settling[e].verdict = "success",
                        \A f \in 1 .. (e - 1) : t.settling[f].then # "kill"
                 PROVE  Over(e, t, p, rn)
      BY DEF Proven
    <2>1. \A f \in 1 .. (e - 1) : f \in Epochs
      BY SupervisorConstants DEF Epochs
    <2>2. Over(e, s, p, rn)
      BY <2>1 DEF Accounted, Proven, Calm
    <2> QED BY <1>10, <2>2
  <1> QED BY <1>5, <1>6, <1>7, <1>8, <1>9, <1>11, <1>12, <1>13 DEF Accounted, Calm

-----------------------------------------------------------------------------
(* What Pi does: it takes a command, moves a prompt, and emits a line.     *)

Alike(s, t) ==
    /\ t.disp = s.disp /\ t.closed = s.closed /\ t.ended = s.ended /\ t.shut = s.shut
    /\ t.settling = s.settling /\ t.fence = s.fence /\ t.probe = s.probe

\* Nothing new is sent to, held by or heard from epoch f.
LEMMA OtherOnce ==
  ASSUME NEW f \in Epochs, NEW s, NEW p, NEW out \in Seq(Told), NEW rn, Once(f, s, p, out, rn),
         NEW t, NEW q, NEW rm, NEW l \in Told, Alike(s, t),
         Sent(f, t) => Sent(f, s), Held(f, q) => Held(f, p), ~ About(f, l),
         rn[f] # "no" => rm[f] # "no"
  PROVE  /\ Once(f, t, q, Append(out, l), rm)
         /\ Heard(f, Append(out, l)) => Heard(f, out)
  <1> DEFINE new == Append(out, l)
  <1>1. /\ Len(out) \in Nat /\ new[Len(out) + 1] = l
        /\ \A i \in 1 .. Len(new) : i # Len(out) + 1 => i \in 1 .. Len(out) /\ new[i] = out[i]
    BY AppendOf
  <1> HIDE DEF new
  <1>2. \A i \in 1 .. Len(new) : About(f, new[i]) => i \in 1 .. Len(out) /\ new[i] = out[i]
    BY <1>1
  <1>3. Heard(f, new) => Heard(f, out)
    BY <1>2 DEF Heard
  <1>4. Unheld(f, s, p) => Unheld(f, t, q)
    BY DEF Unheld
  <1>5. ASSUME NEW i \in 1 .. Len(new), About(f, new[i]), Final(new[i])
        PROVE  /\ Unheld(f, t, q)
               /\ \A j \in 1 .. Len(new) : j > i => ~ About(f, new[j])
               /\ new[i].t = "agent_end" => rm[f] # "no"
    BY <1>2, <1>4, <1>5 DEF Once
  <1> QED BY <1>3, <1>4, <1>5 DEF Once, Gone, Alike, new

\* A line about an epoch that Pi still has.
LEMMA OwnOnce ==
  ASSUME NEW e \in Epochs, NEW s, NEW p, NEW out \in Seq(Told), NEW rn, Once(e, s, p, out, rn),
         ~ Unheld(e, s, p),
         NEW t, NEW q, NEW rm, NEW l \in Told, Alike(s, t), ~ Sent(e, t),
         Final(l) => Unheld(e, t, q) /\ (l.t = "agent_end" => rm[e] # "no")
  PROVE  Once(e, t, q, Append(out, l), rm)
  <1> DEFINE new == Append(out, l)
  <1>1. /\ Len(out) \in Nat /\ new[Len(out) + 1] = l
        /\ \A i \in 1 .. Len(new) : i # Len(out) + 1 => i \in 1 .. Len(out) /\ new[i] = out[i]
        /\ \A i \in 1 .. Len(new) : i <= Len(out) + 1
    BY AppendOf
  <1> HIDE DEF new
  <1>2. s.disp[e] \notin Early
    BY DEF Once, Gone
  <1>3. ASSUME NEW i \in 1 .. Len(new), About(e, new[i]), Final(new[i])
        PROVE  i = Len(out) + 1
    BY <1>1, <1>3 DEF Once
  <1>4. ASSUME NEW i \in 1 .. Len(new), About(e, new[i]), Final(new[i])
        PROVE  /\ Unheld(e, t, q)
               /\ \A j \in 1 .. Len(new) : j > i => ~ About(e, new[j])
               /\ new[i].t = "agent_end" => rm[e] # "no"
    <2>1. i = Len(out) + 1 /\ new[i] = l
      BY <1>1, <1>3, <1>4
    <2>2. ASSUME NEW j \in 1 .. Len(new), j > i PROVE FALSE
      BY <1>1, <2>1, <2>2
    <2> QED BY <1>4, <2>1, <2>2
  <1> QED BY <1>2, <1>4 DEF Once, Alike, new

LEMMA PiEmits ==
  ASSUME NEW s, NEW p, NEW out, NEW rn, Accounted(s, p, out, rn),
         NEW e \in Epochs, ~ Unheld(e, s, p),
         NEW t, NEW q, NEW rm, NEW l \in Told, Alike(s, t), About(e, l), ~ Sent(e, t),
         Final(l) => Unheld(e, t, q) /\ (l.t = "agent_end" => rm[e] # "no"),
         \A f \in Epochs \ {e} : /\ Sent(f, t) => Sent(f, s)
                                 /\ Held(f, q) => Held(f, p)
                                 /\ rn[f] # "no" => rm[f] # "no",
         Typed(t, q, Append(out, l), rm), Single(t, q)
  PROVE  Accounted(t, q, Append(out, l), rm)
  <1> DEFINE new == Append(out, l)
  <1>0. out \in Seq(Told)
    BY DEF Accounted, Typed
  <1>1. \A f \in Epochs : Once(f, s, p, out, rn)
    BY DEF Accounted
  <1>2. \A f \in Epochs \ {e} : ~ About(f, l)
    BY DEF About
  <1>3. \A f \in Epochs \ {e} : Once(f, t, q, new, rm) /\ (Heard(f, new) => Heard(f, out))
    BY <1>0, <1>1, <1>2, OtherOnce
  <1>4. Once(e, t, q, new, rm)
    BY <1>0, <1>1, OwnOnce
  <1> HIDE DEF new
  <1>5. \A f \in Epochs \ {e} : /\ Unheld(f, s, p) => Unheld(f, t, q)
                                /\ Gone(f, s, p, out) => Gone(f, t, q, new)
                                /\ Over(f, s, p, rn) => Over(f, t, q, rm)
    BY <1>3 DEF Unheld, Gone, Over, Alike
  <1>6. ~ Gone(e, s, p, out) /\ ~ Over(e, s, p, rn)
    BY DEF Gone, Over
  <1>7. \A f : LiveIs(t, f) <=> LiveIs(s, f)
    BY DEF LiveIs, Alike
  <1>8. (Plain(t) <=> Plain(s)) /\ (Clean(t) <=> Clean(s))
    BY DEF Plain, Clean, Alike
  <1>9. Clean(s) => LiveIs(s, e)
    <2>1. e <= s.fence.hwm
      <3>1. s.disp[e] # "no"
        BY <1>1, <1>6 DEF Once, Early
      <3>2. ~ (e > s.fence.hwm)
        BY <1>1, <3>1 DEF Once
      <3>3. e \in Int /\ s.fence.hwm \in Int
        BY SupervisorConstants DEF Epochs, Accounted, Fenced, FenceSnapshot
      <3> QED BY <3>2, <3>3
    <2> QED BY <1>6, <2>1 DEF Accounted, Behind
  <1>10. Behind(t, q, new)
    BY <1>5, <1>7, <1>8, <1>9 DEF Accounted, Behind, Alike
  <1>11. Ahead(t, q, new)
    BY <1>5, <1>6, <1>7, <1>8 DEF Accounted, Ahead, Alike
  <1>12. Ending(t, q, new, rm)
    <2>1. s.ended => ~ Clean(s)
      BY <1>6, <1>9 DEF Accounted, Ending, Clean
    <2>2. s.ended => \A f \in Epochs : LiveIs(s, f) /\ Plain(s) => Over(f, t, q, rm)
      BY <1>5, <1>6 DEF Accounted, Ending
    <2> QED BY <1>7, <1>8, <2>1, <2>2 DEF Accounted, Ending, Alike
  <1>13. Eligible(t)
    BY <1>7 DEF Accounted, Eligible, Alike
  <1>14. Proven(t, q, rm)
    BY <1>5, <1>6 DEF Accounted, Proven, Alike
  <1>15. Typed(t, q, new, rm) /\ Fenced(t)
    BY DEF Accounted, Fenced, Alike, new
  <1> QED BY <1>3, <1>4, <1>10, <1>11, <1>12, <1>13, <1>14, <1>15 DEF Accounted, new

LEMMA PiQuiets ==
  ASSUME NEW s, NEW p, NEW out, NEW rn, Accounted(s, p, out, rn),
         NEW t, NEW q, NEW new, Alike(s, t),
         \A f \in Epochs : (Sent(f, t) => Sent(f, s)) /\ (Held(f, q) => Held(f, p)),
         \/ new \in {out, <<>>}
         \/ \E l \in Told : l.t \notin RunLines /\ new = Append(out, l),
         Typed(t, q, new, rn), Single(t, q)
  PROVE  Accounted(t, q, new, rn)
  <1>0. out \in Seq(Told)
    BY DEF Accounted, Typed
  <1>1. \A f \in Epochs : Unheld(f, s, p) => Unheld(f, t, q)
    BY DEF Unheld
  <1>2. \A f \in Epochs : Once(f, t, q, new, rn) /\ (Heard(f, new) => Heard(f, out))
    <2> SUFFICES ASSUME NEW f \in Epochs
                 PROVE  Once(f, t, q, new, rn) /\ (Heard(f, new) => Heard(f, out))
      OBVIOUS
    <2>1. Once(f, s, p, out, rn)
      BY DEF Accounted
    <2>2. CASE new = out
      BY <1>1, <2>1, <2>2 DEF Once, Gone, Alike
    <2>3. CASE new = <<>>
      BY <1>1, <2>1, <2>3 DEF Once, Gone, Alike, Heard
    <2>4. ASSUME NEW l \in Told, l.t \notin RunLines, new = Append(out, l)
          PROVE  Once(f, t, q, new, rn) /\ (Heard(f, new) => Heard(f, out))
      <3>1. ~ About(f, l)
        BY <2>4 DEF About
      <3> QED BY <1>0, <2>1, <2>4, <3>1, OtherOnce
    <2> QED BY <2>2, <2>3, <2>4
  <1>5. \A f \in Epochs : /\ Gone(f, s, p, out) => Gone(f, t, q, new)
                          /\ Over(f, s, p, rn) => Over(f, t, q, rn)
    BY <1>1, <1>2 DEF Gone, Over, Alike
  <1>7. \A f : LiveIs(t, f) <=> LiveIs(s, f)
    BY DEF LiveIs, Alike
  <1>8. (Plain(t) <=> Plain(s)) /\ (Clean(t) <=> Clean(s))
    BY DEF Plain, Clean, Alike
  <1>10. Behind(t, q, new)
    BY <1>5, <1>7, <1>8 DEF Accounted, Behind, Alike
  <1>11. Ahead(t, q, new)
    BY <1>5, <1>7, <1>8 DEF Accounted, Ahead, Alike
  <1>12. Ending(t, q, new, rn)
    BY <1>2, <1>5, <1>7, <1>8 DEF Accounted, Ending, Alike
  <1>13. Eligible(t)
    BY <1>7 DEF Accounted, Eligible, Alike
  <1>14. Proven(t, q, rn)
    BY <1>5 DEF Accounted, Proven, Alike
  <1> QED BY <1>2, <1>10, <1>11, <1>12, <1>13, <1>14 DEF Accounted, Fenced, Alike

\* In every state: what the process, Pi and the pipes between hold of an epoch.
Traces == Accounted(sup, pi, stdout, ran)

\* Pi takes the first command.
Reads(s, t) ==
    /\ Alike(s, t) /\ Traced \subseteq DOMAIN t
    /\ t.stdin \in Seq(Asked)
    /\ \A i \in 1 .. Len(t.stdin) : t.stdin[i].t = "prompt" => t.stdin[i].e \in Epochs
    /\ \A f \in Epochs : Sent(f, t) => Sent(f, s)
    /\ \A i, j \in 1 .. Len(t.stdin), f \in Epochs :
          Prompts(f, t.stdin[i]) /\ Prompts(f, t.stdin[j]) => i = j
    /\ Head(s.stdin) \in Asked
Takes(e, s, t) == e \in Epochs /\ Sent(e, s) /\ ~ Sent(e, t)
LEMMA ReadKeeps ==
  ASSUME NEW s, NEW p, NEW out, NEW rn, Accounted(s, p, out, rn), s.stdin # <<>>,
         NEW t, t = [s EXCEPT !.stdin = Tail(@)]
  PROVE  /\ Reads(s, t)
         /\ Head(s.stdin).t = "prompt" => Takes(Head(s.stdin).e, s, t)
  <1> DEFINE w == s.stdin
             u == t.stdin
  <1>1. w \in Seq(Asked) /\ Traced \subseteq DOMAIN s
    BY DEF Accounted, Typed
  <1>2. Alike(s, t) /\ Traced \subseteq DOMAIN t /\ u = Tail(w)
    BY <1>1 DEF Alike, Traced
  <1>3. /\ u \in Seq(Asked) /\ 1 \in 1 .. Len(w) /\ Head(w) = w[1] /\ Head(w) \in Asked
        /\ Len(w) \in Nat /\ Len(u) = Len(w) - 1
        /\ \A i \in 1 .. Len(u) : i + 1 \in 1 .. Len(w) /\ u[i] = w[i + 1]
    BY <1>1, <1>2, TailOf
  <1> HIDE DEF w, u
  <1>4. \A f : Sent(f, t) => Sent(f, s)
    BY <1>3 DEF Sent, w, u
  <1>5. \A i, j \in 1 .. Len(w), f \in Epochs : Prompts(f, w[i]) /\ Prompts(f, w[j]) => i = j
    BY DEF Accounted, Single, w
  <1>6. \A i \in 1 .. Len(w) : w[i].t = "prompt" => w[i].e \in Epochs
    BY DEF Accounted, Typed, w
  <1>7. \A i, j \in 1 .. Len(u), f \in Epochs : Prompts(f, u[i]) /\ Prompts(f, u[j]) => i = j
    <2> SUFFICES ASSUME NEW i \in 1 .. Len(u), NEW j \in 1 .. Len(u), NEW f \in Epochs,
                        Prompts(f, u[i]), Prompts(f, u[j])
                 PROVE  i = j
      OBVIOUS
    <2>1. i + 1 = j + 1
      BY <1>3, <1>5
    <2> QED BY <2>1
  <1>8. ASSUME w[1].t = "prompt"
        PROVE  w[1].e \in Epochs /\ Sent(w[1].e, s) /\ ~ Sent(w[1].e, t)
    <2>1. w[1].e \in Epochs /\ Prompts(w[1].e, w[1])
      BY <1>3, <1>6, <1>8 DEF Prompts
    <2>2. ASSUME NEW i \in 1 .. Len(u), Prompts(w[1].e, u[i]) PROVE FALSE
      <3>1. i + 1 = 1
        BY <1>3, <1>5, <2>1, <2>2
      <3> QED BY <3>1
    <2>3. Sent(w[1].e, s)
      BY <1>3, <2>1 DEF Sent, w
    <2> QED BY <2>1, <2>2, <2>3 DEF Sent, u
  <1>9. Reads(s, t)
    BY <1>2, <1>3, <1>4, <1>6, <1>7 DEF Reads, w, u
  <1> QED BY <1>3, <1>8, <1>9 DEF Takes, w

LEMMA TracesPiPrompt ==
  ASSUME Traces, PiPrompt
  PROVE  Traces'
  <1> DEFINE e == Head(sup.stdin).e
             w == pi.queue
             y == Lined("answer", e, 1)
             n == Lined("answer", e, 0)
  <1>1. /\ sup.stdin # <<>> /\ Head(sup.stdin).t = "prompt"
        /\ sup' = [sup EXCEPT !.stdin = Tail(@)] /\ ran' = ran
        /\ \/ pi' = [pi EXCEPT !.queue = Append(@, e)] /\ stdout' = Append(stdout, y)
           \/ pi' = pi /\ stdout' = Append(stdout, n)
    BY DEF PiPrompt, PiReads, PiTakes, Emit
  <1>2. Reads(sup, sup') /\ Takes(e, sup, sup')
    BY <1>1, ReadKeeps DEF Traces
  <1> HIDE DEF e
  <1>3. /\ stdout \in Seq(Told) /\ pi \in Child /\ w \in Seq(Epochs)
        /\ sup.disp \in [Epochs -> Stages] /\ sup.settling \in [Epochs -> Settlement]
        /\ sup.probe \in [Probes -> ProbeState] /\ ran \in [Epochs -> {"no", "cut", "full"}]
        /\ \A i \in 1 .. Len(stdout) : stdout[i].t \in RunLines => stdout[i].e \in Epochs
    BY DEF Traces, Accounted, Typed, Child
  <1>4. e \in Nat /\ y \in Told /\ n \in Told /\ About(e, y) /\ About(e, n) /\ ~ Final(y)
        /\ y.e = e /\ n.e = e /\ n.t = "answer"
    BY <1>2, SupervisorConstants DEF Takes, Epochs, Lined, Told, Quiet, RunLines, About, Final
  <1> HIDE DEF y, n, w
  <1>5. ~ Unheld(e, sup, pi) /\ ~ Held(e, pi)
    BY <1>2 DEF Takes, Unheld, Traces, Accounted, Once
  <1>6. /\ pi' \in Child /\ \A f \in Epochs \ {e} : Held(f, pi') => Held(f, pi)
        /\ \A i, j \in 1 .. Len(pi'.queue) : pi'.queue[i] = pi'.queue[j] => i = j
        /\ \A i \in 1 .. Len(pi'.queue) : pi'.queue[i] # pi'.run
    <2>0. /\ \A i, j \in 1 .. Len(w) : w[i] = w[j] => i = j
          /\ \A i \in 1 .. Len(w) : w[i] # pi.run
      BY DEF Traces, Accounted, Single, w
    <2>1. CASE pi' = pi
      BY <1>3, <2>0, <2>1 DEF w
    <2>2. CASE pi' = [pi EXCEPT !.queue = Append(@, e)]
      <3> DEFINE v == Append(w, e)
      <3>0. pi' = [pi EXCEPT !.queue = v]
        BY <2>2 DEF w
      <3>2. /\ v \in Seq(Epochs) /\ Len(w) \in Nat /\ v[Len(w) + 1] = e
            /\ \A i \in 1 .. Len(v) : i # Len(w) + 1 => i \in 1 .. Len(w) /\ v[i] = w[i]
        BY <1>2, <1>3, AppendOf DEF Takes
      <3> HIDE DEF v
      <3>1. pi'.queue = v /\ pi'.run = pi.run /\ pi' \in Child
        BY <1>3, <3>0, <3>2 DEF Child
      <3>3. e # pi.run /\ \A i \in 1 .. Len(w) : w[i] # e
        BY <1>5 DEF Held, w
      <3>4. \A f \in Epochs \ {e} : Held(f, pi') => Held(f, pi)
        BY <3>1, <3>2 DEF Held, w
      <3> QED BY <2>0, <3>1, <3>2, <3>3, <3>4
    <2> QED BY <1>1, <2>1, <2>2
  <1>7. Single(sup', pi')
    BY <1>2, <1>6 DEF Single, Reads
  <1>8. PICK l \in {y, n} : /\ stdout' = Append(stdout, l)
                            /\ l = y \/ pi' = pi
    BY <1>1
  <1>9. Typed(sup', pi', stdout', ran')
    <2>1. /\ stdout' \in Seq(Told) /\ Len(stdout) \in Nat /\ stdout'[Len(stdout) + 1] = l
          /\ \A i \in 1 .. Len(stdout') :
                i # Len(stdout) + 1 => i \in 1 .. Len(stdout) /\ stdout'[i] = stdout[i]
      BY <1>3, <1>4, <1>8, AppendOf
    <2>2. \A i \in 1 .. Len(stdout') : stdout'[i].t \in RunLines => stdout'[i].e \in Epochs
      BY <1>2, <1>3, <1>4, <1>8, <2>1 DEF Takes
    <2> QED BY <1>1, <1>2, <1>3, <1>6, <2>1, <2>2 DEF Typed, Alike, Reads
  <1>10. Final(l) => Unheld(e, sup', pi') /\ (l.t = "agent_end" => ran'[e] # "no")
    BY <1>2, <1>4, <1>5, <1>8 DEF Unheld, Takes
  <1>11. Accounted(sup', pi', Append(stdout, l), ran')
    <2>1. \A f \in Epochs \ {e} : /\ Sent(f, sup') => Sent(f, sup)
                                  /\ Held(f, pi') => Held(f, pi)
                                  /\ ran[f] # "no" => ran'[f] # "no"
      BY <1>1, <1>2, <1>6 DEF Reads
    <2>2. Typed(sup', pi', Append(stdout, l), ran') /\ l \in Told /\ About(e, l)
      BY <1>4, <1>8, <1>9
    <2> QED BY <1>2, <1>5, <1>7, <1>10, <2>1, <2>2, PiEmits DEF Traces, Reads, Takes
  <1> QED BY <1>8, <1>11 DEF Traces

\* Pi says something of an epoch it holds.
Apart(p) == /\ \A i, j \in 1 .. Len(p.queue) : p.queue[i] = p.queue[j] => i = j
            /\ \A i \in 1 .. Len(p.queue) : p.queue[i] # p.run

LEMMA TracesRun ==
  ASSUME Traces, sup' = sup, NEW e \in Epochs, Held(e, pi), NEW l \in Told, About(e, l),
         stdout' = Append(stdout, l), pi' \in Child, Apart(pi'),
         ran' \in [Epochs -> {"no", "cut", "full"}],
         Final(l) => ~ Held(e, pi') /\ (l.t = "agent_end" => ran'[e] # "no"),
         \A f \in Epochs \ {e} : /\ Held(f, pi') => Held(f, pi)
                                 /\ ran[f] # "no" => ran'[f] # "no"
  PROVE  Traces'
  <1>1. Alike(sup, sup')
    BY DEF Alike
  <1>2. ~ Unheld(e, sup, pi) /\ ~ Sent(e, sup')
    BY DEF Unheld, Traces, Accounted, Once
  <1>3. Single(sup', pi')
    BY DEF Traces, Accounted, Single, Apart
  <1>4. stdout \in Seq(Told) /\ \A i \in 1 .. Len(stdout) : stdout[i].t \in RunLines => stdout[i].e \in Epochs
    BY DEF Traces, Accounted, Typed
  <1>5. Typed(sup', pi', stdout', ran')
    <2>1. /\ stdout' \in Seq(Told) /\ Len(stdout) \in Nat /\ stdout'[Len(stdout) + 1] = l
          /\ \A i \in 1 .. Len(stdout') :
                i # Len(stdout) + 1 => i \in 1 .. Len(stdout) /\ stdout'[i] = stdout[i]
      BY <1>4, AppendOf
    <2>2. \A i \in 1 .. Len(stdout') : stdout'[i].t \in RunLines => stdout'[i].e \in Epochs
      BY <1>4, <2>1 DEF About
    <2> QED BY <2>1, <2>2 DEF Traces, Accounted, Typed
  <1>6. Typed(sup', pi', Append(stdout, l), ran')
    BY <1>5
  <1>7. Final(l) => Unheld(e, sup', pi') /\ (l.t = "agent_end" => ran'[e] # "no")
    BY <1>2 DEF Unheld
  <1>8. Accounted(sup', pi', Append(stdout, l), ran')
    BY <1>1, <1>2, <1>3, <1>6, <1>7, PiEmits DEF Traces
  <1> QED BY <1>8 DEF Traces

\* The head of the queue leaves it.
LEMMA QueueHead ==
  ASSUME NEW p \in Child, Apart(p), p.queue # <<>>
  PROVE  LET v == Tail(p.queue) IN
         /\ Head(p.queue) \in Epochs /\ Held(Head(p.queue), p) /\ v \in Seq(Epochs)
         /\ Head(p.queue) # p.run
         /\ \A i \in 1 .. Len(v) : v[i] # Head(p.queue) /\ v[i] # p.run
         /\ \A i, j \in 1 .. Len(v) : v[i] = v[j] => i = j
         /\ \A f, i : i \in 1 .. Len(v) /\ v[i] = f => Held(f, p)
  <1> DEFINE w == p.queue
             v == Tail(w)
  <1>1. w \in Seq(Epochs)
    BY DEF Child
  <1>2. /\ v \in Seq(Epochs) /\ 1 \in 1 .. Len(w) /\ Head(w) = w[1] /\ Head(w) \in Epochs
        /\ Len(w) \in Nat /\ Len(v) = Len(w) - 1
        /\ \A i \in 1 .. Len(v) : i + 1 \in 1 .. Len(w) /\ v[i] = w[i + 1]
    BY <1>1, TailOf
  <1>3. /\ \A i, j \in 1 .. Len(w) : w[i] = w[j] => i = j
        /\ \A i \in 1 .. Len(w) : w[i] # p.run
    BY DEF Apart
  <1>4. \A f, i : i \in 1 .. Len(w) /\ w[i] = f => Held(f, p)
    BY DEF Held
  <1> HIDE DEF w, v
  <1>5. \A i \in 1 .. Len(v) : v[i] # w[1] /\ v[i] # p.run
    <2> SUFFICES ASSUME NEW i \in 1 .. Len(v) PROVE v[i] # w[1] /\ v[i] # p.run
      OBVIOUS
    <2>1. i + 1 # 1
      BY <1>2
    <2> QED BY <1>2, <1>3, <2>1
  <1>6. \A i, j \in 1 .. Len(v) : v[i] = v[j] => i = j
    <2> SUFFICES ASSUME NEW i \in 1 .. Len(v), NEW j \in 1 .. Len(v), v[i] = v[j] PROVE i = j
      OBVIOUS
    <2>1. i + 1 = j + 1
      BY <1>2, <1>3
    <2> QED BY <2>1
  <1>7. \A f, i : i \in 1 .. Len(v) /\ v[i] = f => Held(f, p)
    BY <1>2, <1>4
  <1> QED BY <1>2, <1>3, <1>4, <1>5, <1>6, <1>7 DEF w, v

LEMMA ChildKnown ==
  ASSUME Traces
  PROVE  /\ pi \in Child /\ Apart(pi) /\ ran \in [Epochs -> {"no", "cut", "full"}]
         /\ stdout \in Seq(Told) /\ \A e \in Epochs : e \in Nat /\ e # 0
  BY SupervisorConstants DEF Traces, Accounted, Typed, Single, Apart, Epochs

LEMMA TracesPiStart ==
  ASSUME Traces, PiStart
  PROVE  Traces'
  <1> DEFINE e == Head(pi.queue)
             v == Tail(pi.queue)
             y == Lined("agent_start", e, 0)
             n == Lined("answer", e, 0)
  <1>1. /\ sup' = sup /\ ran' = ran /\ pi.run = 0 /\ pi.queue # <<>>
        /\ \/ /\ pi' = [pi EXCEPT !.run = e, !.cut = FALSE, !.runs = @ + 1, !.queue = v]
              /\ stdout' = Append(stdout, y)
           \/ pi' = [pi EXCEPT !.queue = v] /\ stdout' = Append(stdout, n)
    BY DEF PiStart, Emit
  <1>2. /\ pi \in Child /\ ran \in [Epochs -> {"no", "cut", "full"}]
        /\ e \in Epochs /\ Held(e, pi) /\ v \in Seq(Epochs) /\ e # 0
        /\ \A i \in 1 .. Len(v) : v[i] # e /\ v[i] # pi.run
        /\ \A i, j \in 1 .. Len(v) : v[i] = v[j] => i = j
        /\ \A f, i : i \in 1 .. Len(v) /\ v[i] = f => Held(f, pi)
    BY <1>1, ChildKnown, QueueHead
  <1> HIDE DEF e, v
  <1>3. y \in Told /\ n \in Told /\ About(e, y) /\ About(e, n) /\ ~ Final(y) /\ n.t = "answer"
    BY <1>2, ChildKnown DEF Lined, Told, Quiet, RunLines, About, Final
  <1> HIDE DEF y, n
  <1>4. CASE /\ pi' = [pi EXCEPT !.run = e, !.cut = FALSE, !.runs = @ + 1, !.queue = v]
             /\ stdout' = Append(stdout, y)
    <2>0. e \in 0 .. MaxEpoch
      BY <1>2, SupervisorConstants DEF Epochs
    <2>a. /\ pi' = [pi EXCEPT !.run = e, !.cut = FALSE, !.runs = @ + 1, !.queue = v]
          /\ pi \in Child /\ v \in Seq(Epochs)
      BY <1>2, <1>4
    <2>b. pi.runs + 1 \in Nat /\ FALSE \in BOOLEAN
      BY <2>a DEF Child
    <2>1. pi' \in Child /\ pi'.queue = v /\ pi'.run = e
      BY <2>0, <2>a, <2>b DEF Child
    <2>2. Apart(pi') /\ \A f \in Epochs \ {e} : Held(f, pi') => Held(f, pi)
      BY <1>2, <2>1 DEF Apart, Held
    <2> QED BY <1>1, <1>2, <1>3, <1>4, <2>1, <2>2, TracesRun
  <1>5. CASE pi' = [pi EXCEPT !.queue = v] /\ stdout' = Append(stdout, n)
    <2>1. pi' \in Child /\ pi'.queue = v /\ pi'.run = 0
      BY <1>1, <1>2, <1>5 DEF Child
    <2>2. Apart(pi') /\ \A f \in Epochs \ {e} : Held(f, pi') => Held(f, pi)
      BY <1>1, <1>2, <2>1, ChildKnown DEF Apart, Held
    <2>3. ~ Held(e, pi')
      BY <1>2, <2>1 DEF Held
    <2> QED BY <1>1, <1>2, <1>3, <1>5, <2>1, <2>2, <2>3, TracesRun
  <1> QED BY <1>1, <1>4, <1>5

LEMMA TracesPiEnd ==
  ASSUME Traces, PiEnd
  PROVE  Traces'
  <1> DEFINE e == pi.run
             w == pi.queue
             v == <<e>> \o w
             x == IF pi.cut THEN "cut" ELSE "full"
             y == Lined("agent_end", e, 0)
             n == Lined("agent_end", e, 1)
  <1>1. /\ sup' = sup /\ e # 0
        /\ \/ /\ pi' = [pi EXCEPT !.run = 0, !.cut = FALSE]
              /\ ran' = [ran EXCEPT ![e] = x] /\ stdout' = Append(stdout, y)
           \/ /\ pi' = [pi EXCEPT !.run = 0, !.queue = v]
              /\ ran' = ran /\ stdout' = Append(stdout, n)
    BY DEF PiEnd, Emit
  <1>2. pi \in Child /\ Apart(pi) /\ ran \in [Epochs -> {"no", "cut", "full"}]
    BY ChildKnown
  <1>3. e \in Epochs /\ Held(e, pi) /\ w \in Seq(Epochs) /\ x \in {"cut", "full"}
    BY <1>1, <1>2, SupervisorConstants DEF Child, Epochs, Held
  <1>4. /\ \A i, j \in 1 .. Len(w) : w[i] = w[j] => i = j
        /\ \A i \in 1 .. Len(w) : w[i] # e /\ w[i] # 0
        /\ \A f, i : i \in 1 .. Len(w) /\ w[i] = f => Held(f, pi)
    BY <1>2, <1>3, ChildKnown DEF Apart, Held
  <1> HIDE DEF e, w, x
  <1>5. y \in Told /\ n \in Told /\ About(e, y) /\ About(e, n) /\ ~ Final(n)
    BY <1>3, ChildKnown DEF Lined, Told, Quiet, RunLines, About, Final
  <1> HIDE DEF y, n
  <1>8. 0 \in 0 .. MaxEpoch
    BY SupervisorConstants
  <1>6. CASE /\ pi' = [pi EXCEPT !.run = 0, !.cut = FALSE]
             /\ ran' = [ran EXCEPT ![e] = x] /\ stdout' = Append(stdout, y)
    <2>1. pi' \in Child /\ pi'.queue = w /\ pi'.run = 0
      <3>1. pi' = [pi EXCEPT !.run = 0, !.cut = FALSE] /\ pi \in Child
        BY <1>2, <1>6
      <3> QED BY <1>8, <3>1 DEF Child, w
    <2>2. /\ Apart(pi') /\ ~ Held(e, pi')
          /\ \A f \in Epochs \ {e} : Held(f, pi') => Held(f, pi)
      BY <1>1, <1>4, <2>1, ChildKnown DEF Apart, Held
    <2>3. /\ ran' \in [Epochs -> {"no", "cut", "full"}] /\ ran'[e] # "no"
          /\ \A f \in Epochs \ {e} : ran[f] # "no" => ran'[f] # "no"
      BY <1>2, <1>3, <1>6
    <2> QED BY <1>1, <1>3, <1>5, <1>6, <2>1, <2>2, <2>3, TracesRun
  <1>7. CASE /\ pi' = [pi EXCEPT !.run = 0, !.queue = v]
             /\ ran' = ran /\ stdout' = Append(stdout, n)
    <2>1. /\ v \in Seq(Epochs) /\ Len(v) = Len(w) + 1 /\ Len(w) \in Nat /\ v[1] = e
          /\ \A i \in 1 .. Len(v) : i # 1 => i - 1 \in 1 .. Len(w) /\ v[i] = w[i - 1]
      BY <1>3
    <2> HIDE DEF v
    <2>2. pi' \in Child /\ pi'.queue = v /\ pi'.run = 0
      <3>1. pi' = [pi EXCEPT !.run = 0, !.queue = v] /\ pi \in Child /\ v \in Seq(Epochs)
        BY <1>2, <1>7, <2>1
      <3> QED BY <1>8, <3>1 DEF Child
    <2>3. \A i \in 1 .. Len(v) : v[i] # 0
      BY <1>1, <1>4, <2>1
    <2>4. \A i, j \in 1 .. Len(v) : v[i] = v[j] => i = j
      <3> SUFFICES ASSUME NEW i \in 1 .. Len(v), NEW j \in 1 .. Len(v), v[i] = v[j] PROVE i = j
        OBVIOUS
      <3>1. CASE i = 1 \/ j = 1
        BY <1>4, <2>1, <3>1
      <3>2. CASE i # 1 /\ j # 1
        <4>1. i - 1 = j - 1
          BY <1>4, <2>1, <3>2
        <4> QED BY <2>1, <4>1
      <3> QED BY <3>1, <3>2
    <2>5. \A f \in Epochs \ {e} : Held(f, pi') => Held(f, pi)
      <3> SUFFICES ASSUME NEW f \in Epochs \ {e}, Held(f, pi') PROVE Held(f, pi)
        OBVIOUS
      <3>1. f # 0
        BY ChildKnown
      <3>2. PICK i \in 1 .. Len(v) : v[i] = f
        BY <2>2, <3>1 DEF Held
      <3>3. i # 1
        BY <2>1, <3>2
      <3> QED BY <1>4, <2>1, <3>2, <3>3
    <2>6. Apart(pi')
      BY <2>2, <2>3, <2>4 DEF Apart
    <2> QED BY <1>1, <1>2, <1>3, <1>5, <1>7, <2>2, <2>5, <2>6, TracesRun
  <1> QED BY <1>1, <1>6, <1>7

LEMMA TracesPiProse ==
  ASSUME Traces, PiProse
  PROVE  Traces'
  <1> DEFINE e == pi.run
             l == Lined("turn_end", e, 0)
  <1>1. sup' = sup /\ ran' = ran /\ pi' = pi /\ e # 0 /\ stdout' = Append(stdout, l)
    BY DEF PiProse, Emit
  <1>2. pi \in Child /\ Apart(pi) /\ ran \in [Epochs -> {"no", "cut", "full"}]
    BY ChildKnown
  <1>3. e \in Epochs /\ Held(e, pi)
    BY <1>1, <1>2, SupervisorConstants DEF Child, Epochs, Held
  <1> HIDE DEF e
  <1>4. l \in Told /\ About(e, l) /\ ~ Final(l)
    BY <1>3, ChildKnown DEF Lined, Told, Quiet, RunLines, About, Final
  <1> QED BY <1>1, <1>2, <1>3, <1>4, TracesRun

\* Pi drops something, or says something of no run.
LEMMA TracesQuiet ==
  ASSUME Traces, ran' = ran, sup' = sup \/ Reads(sup, sup'),
         pi' \in Child, Apart(pi'), \A f \in Epochs : Held(f, pi') => Held(f, pi),
         \/ stdout' = stdout
         \/ \E l \in Told : l.t \notin RunLines /\ stdout' = Append(stdout, l)
  PROVE  Traces'
  <1>0. stdout \in Seq(Told) /\ \A i \in 1 .. Len(stdout) : stdout[i].t \in RunLines => stdout[i].e \in Epochs
    BY DEF Traces, Accounted, Typed
  <1>1. Alike(sup, sup') /\ \A f \in Epochs : Sent(f, sup') => Sent(f, sup)
    BY DEF Alike, Reads
  <1>2. Single(sup', pi')
    <2>1. CASE sup' = sup
      BY <2>1 DEF Traces, Accounted, Single, Apart
    <2>2. CASE Reads(sup, sup')
      BY <2>2 DEF Single, Apart, Reads
    <2> QED BY <2>1, <2>2
  <1>3. /\ stdout' \in Seq(Told)
        /\ \A i \in 1 .. Len(stdout') : stdout'[i].t \in RunLines => stdout'[i].e \in Epochs
    <2>1. CASE stdout' = stdout
      BY <1>0, <2>1
    <2>2. ASSUME NEW l \in Told, l.t \notin RunLines, stdout' = Append(stdout, l)
          PROVE  /\ stdout' \in Seq(Told)
                 /\ \A i \in 1 .. Len(stdout') :
                       stdout'[i].t \in RunLines => stdout'[i].e \in Epochs
      <3>1. /\ stdout' \in Seq(Told) /\ Len(stdout) \in Nat /\ stdout'[Len(stdout) + 1] = l
            /\ \A i \in 1 .. Len(stdout') :
                  i # Len(stdout) + 1 => i \in 1 .. Len(stdout) /\ stdout'[i] = stdout[i]
        BY <1>0, <2>2, AppendOf
      <3> QED BY <1>0, <2>2, <3>1
    <2> QED BY <2>1, <2>2
  <1>4. Typed(sup', pi', stdout', ran')
    <2>1. CASE sup' = sup
      BY <1>3, <2>1 DEF Traces, Accounted, Typed
    <2>2. CASE Reads(sup, sup')
      BY <1>3, <2>2 DEF Traces, Accounted, Typed, Reads, Alike
    <2> QED BY <2>1, <2>2
  <1>5. \/ stdout' \in {stdout, <<>>}
        \/ \E l \in Told : l.t \notin RunLines /\ stdout' = Append(stdout, l)
    OBVIOUS
  <1>6. Typed(sup', pi', stdout', ran)
    BY <1>4
  <1>7. Accounted(sup, pi, stdout, ran)
    BY DEF Traces
  <1>8. Accounted(sup', pi', stdout', ran)
    BY <1>1, <1>2, <1>5, <1>6, <1>7, PiQuiets
  <1> QED BY <1>8 DEF Traces

LEMMA TracesPiAside ==
  ASSUME Traces, PiAbort \/ PiState \/ PiDies \/ PiGarbage
  PROVE  Traces'
  <1>1. pi \in Child /\ Apart(pi) /\ stdout \in Seq(Told)
    BY ChildKnown
  <1>2. ASSUME PiAbort \/ PiState PROVE Reads(sup, sup')
    <2>1. sup.stdin # <<>> /\ sup' = [sup EXCEPT !.stdin = Tail(@)]
      BY <1>2 DEF PiAbort, PiState, PiReads, PiTakes
    <2> QED BY <2>1, ReadKeeps DEF Traces
  <1>3. CASE PiAbort
    <2> DEFINE x == pi.run # 0
    <2>1. /\ pi' = [pi EXCEPT !.cut = x]
          /\ UNCHANGED <<ran, stdout>>
      BY <1>3 DEF PiAbort
    <2>2. x \in BOOLEAN
      OBVIOUS
    <2> HIDE DEF x
    <2>3. pi' \in Child /\ pi'.run = pi.run /\ pi'.queue = pi.queue
      BY <1>1, <2>1, <2>2 DEF Child
    <2>4. Apart(pi') /\ \A f \in Epochs : Held(f, pi') => Held(f, pi)
      BY <1>1, <2>3 DEF Apart, Held
    <2> QED BY <1>2, <1>3, <2>1, <2>3, <2>4, TracesQuiet
  <1>4. CASE PiState
    <2> DEFINE c == Head(sup.stdin)
               b == pi.run = 0 /\ pi.queue = <<>>
               l == [t |-> "state", e |-> c.e, k |-> c.k, quiet |-> <<b, pi.runs>>]
    <2>1. UNCHANGED <<ran, pi>> /\ stdout' = Append(stdout, l)
      BY <1>4 DEF PiState, Emit
    <2>2. c \in Asked
      BY <1>2, <1>4 DEF Reads
    <2> HIDE DEF c
    <2>3. b \in BOOLEAN
      OBVIOUS
    <2> HIDE DEF b
    <2>4. pi.runs \in Nat
      BY <1>1 DEF Child
    <2>5. l \in Told /\ l.t \notin RunLines
      BY <2>2, <2>3, <2>4 DEF Asked, Told, Quiet, RunLines
    <2> HIDE DEF l
    <2>6. pi' \in Child /\ Apart(pi') /\ \A f \in Epochs : Held(f, pi') => Held(f, pi)
      BY <1>1, <2>1
    <2> QED BY <1>2, <1>4, <2>1, <2>5, <2>6, TracesQuiet
  <1>5. CASE PiDies
    <2>1. /\ pi' = [pi EXCEPT !.alive = FALSE, !.run = 0, !.cut = FALSE, !.queue = <<>>]
          /\ UNCHANGED <<sup, stdout, ran>>
      BY <1>5 DEF PiDies
    <2>2. 0 \in 0 .. MaxEpoch /\ <<>> \in Seq(Epochs)
      BY SupervisorConstants
    <2>3. pi' \in Child /\ pi'.run = 0 /\ pi'.queue = <<>>
      BY <1>1, <2>1, <2>2 DEF Child
    <2>4. Apart(pi') /\ \A f \in Epochs : Held(f, pi') => Held(f, pi)
      BY <2>3, ChildKnown DEF Apart, Held
    <2> QED BY <2>1, <2>3, <2>4, TracesQuiet
  <1>6. CASE PiGarbage
    <2> DEFINE l == Lined("garbage", 0, 0)
    <2>1. UNCHANGED <<sup, pi, ran>> /\ stdout' = Append(stdout, l)
      BY <1>6 DEF PiGarbage, Emit
    <2>2. l \in Told /\ l.t \notin RunLines
      BY DEF Lined, Told, Quiet, RunLines
    <2> HIDE DEF l
    <2>3. pi' \in Child /\ Apart(pi') /\ \A f \in Epochs : Held(f, pi') => Held(f, pi)
      BY <1>1, <2>1
    <2> QED BY <2>1, <2>2, <2>3, TracesQuiet
  <1> QED BY <1>3, <1>4, <1>5, <1>6

-----------------------------------------------------------------------------
(* The handlers' steps that are calm.                                      *)

Traceable(s) ==
    /\ Traced \subseteq DOMAIN s
    /\ s.stdin \in Seq(Asked) /\ s.settling \in [Epochs -> Settlement]
    /\ s.probe \in [Probes -> ProbeState] /\ Fenced(s)

LEMMA AccountedTraceable ==
  ASSUME NEW s, NEW p, NEW out, NEW rn, Accounted(s, p, out, rn)
  PROVE  Traceable(s)
  BY DEF Accounted, Typed, Traceable

LEMMA CalmTraceable ==
  ASSUME NEW s, NEW t, Calm(s, t)
  PROVE  Traceable(t)
  BY DEF Calm, Traceable

\* Nothing that is traced changes but what a handler may clear.
Level(s, t) ==
    /\ Traced \subseteq DOMAIN t
    /\ t.disp = s.disp /\ t.stdin = s.stdin /\ t.closed = s.closed
    /\ t.settling = s.settling /\ t.fence = s.fence
    /\ t.ended => s.ended
    /\ s.shut # "no" => t.shut # "no"
    /\ t.probe \in [Probes -> ProbeState]
    /\ \A q \in Probes : t.probe[q].fresh => s.probe[q].fresh

LEMMA LevelCalm ==
  ASSUME NEW s, NEW t, Traceable(s), Level(s, t)
  PROVE  Calm(s, t)
  BY DEF Traceable, Level, Calm, Fenced

LEMMA SendCalm ==
  ASSUME NEW s, Traceable(s), NEW c \in Asked, c.t # "prompt"
  PROVE  Calm(s, Send(s, c))
  <1>1. CASE s.closed
    <2>1. Level(s, s)
      BY DEF Traceable, Level
    <2> QED BY <1>1, <2>1, LevelCalm DEF Send
  <1>2. CASE ~ s.closed
    <2> DEFINE w == Append(s.stdin, c)
               t == [s EXCEPT !.stdin = w]
    <2>1. /\ w \in Seq(Asked) /\ Len(s.stdin) \in Nat /\ w[Len(s.stdin) + 1] = c
          /\ \A i \in 1 .. Len(w) : i # Len(s.stdin) + 1 =>
                i \in 1 .. Len(s.stdin) /\ w[i] = s.stdin[i]
      BY AppendOf DEF Traceable
    <2> HIDE DEF w
    <2>2. /\ t.stdin = w /\ Traced \subseteq DOMAIN t
          /\ t.disp = s.disp /\ t.closed = s.closed /\ t.ended = s.ended /\ t.shut = s.shut
          /\ t.settling = s.settling /\ t.fence = s.fence /\ t.probe = s.probe
      BY DEF Traceable, Traced
    <2>3. Send(s, c) = t
      BY <1>2 DEF Send, w
    <2> HIDE DEF t
    <2>4. Calm(s, t)
      BY <2>1, <2>2 DEF Traceable, Calm, Fenced
    <2> QED BY <2>3, <2>4
  <1> QED BY <1>1, <1>2

LEMMA CommandsAsked ==
  /\ AbortCmd \in Asked /\ AbortCmd.t # "prompt"
  /\ \A p \in Nat \cup Probes, k \in Nat :
        Cmd("get_state", p, k) \in Asked /\ Cmd("get_state", p, k).t # "prompt"
  BY DEF AbortCmd, Cmd, Asked

LEMMA BumpLevel ==
  ASSUME NEW s, Traceable(s)
  PROVE  /\ Level(s, Bump(s)) /\ Bump(s).ended = s.ended /\ Bump(s).shut = s.shut
         /\ \A q \in Probes : ~ Bump(s).probe[q].fresh
  <1> DEFINE b == [q \in Probes |-> [s.probe[q] EXCEPT !.fresh = FALSE]]
  <1>1. b \in [Probes -> ProbeState] /\ \A q \in Probes : ~ b[q].fresh
    <2> SUFFICES ASSUME NEW q \in Probes
                 PROVE  LET x == [s.probe[q] EXCEPT !.fresh = FALSE] IN x \in ProbeState /\ ~ x.fresh
      OBVIOUS
    <2>1. s.probe[q] \in ProbeState
      BY DEF Traceable
    <2> QED BY <2>1 DEF ProbeState
  <1>2. Bump(s) = [s EXCEPT !.probe = b]
    BY DEF Bump
  <1> HIDE DEF b
  <1> QED BY <1>1, <1>2 DEF Traceable, Traced, Level

LEMMA PersistCalm ==
  ASSUME NEW s, Traceable(s), NEW b
  PROVE  Calm(s, Persist(s, b)) /\ Level(s, Persist(s, b))
  <1>1. Level(s, Persist(s, b))
    BY DEF Persist, Level, Traceable, Traced
  <1> QED BY <1>1, LevelCalm

LEMMA MaybeProbeCalm ==
  ASSUME NEW s, Traceable(s)
  PROVE  Calm(s, MaybeProbe(s))
  <1> DEFINE free == {p \in Probes : s.probe[p].pc = "free"}
             q == CHOOSE x \in free : TRUE
             n == [pc |-> "first", fresh |-> TRUE, first |-> None]
             t == [s EXCEPT !.probing = TRUE, !.probe[q] = n]
  <1>1. \/ MaybeProbe(s) = s
        \/ MaybeProbe(s) = [s EXCEPT !.reprobe = TRUE]
        \/ /\ s.shut = "no" /\ ~ s.closed /\ q \in Probes
           /\ MaybeProbe(s) = Send(t, Cmd("get_state", q, 1))
    BY DEF MaybeProbe
  <1>2. CASE MaybeProbe(s) = s
    <2>1. Level(s, s)
      BY DEF Traceable, Level
    <2> QED BY <1>2, <2>1, LevelCalm
  <1>3. CASE MaybeProbe(s) = [s EXCEPT !.reprobe = TRUE]
    <2>1. Level(s, [s EXCEPT !.reprobe = TRUE])
      BY DEF Traceable, Level, Traced
    <2> QED BY <1>3, <2>1, LevelCalm
  <1>4. CASE /\ s.shut = "no" /\ ~ s.closed /\ q \in Probes
             /\ MaybeProbe(s) = Send(t, Cmd("get_state", q, 1))
    <2>1. n \in ProbeState
      BY DEF ProbeState, Quiet
    <2> HIDE DEF n, q
    <2>2. /\ Traced \subseteq DOMAIN t
          /\ t.disp = s.disp /\ t.stdin = s.stdin /\ t.closed = s.closed
          /\ t.ended = s.ended /\ t.shut = s.shut
          /\ t.settling = s.settling /\ t.fence = s.fence
          /\ t.probe = [s.probe EXCEPT ![q] = n]
      BY DEF Traceable, Traced
    <2>3. t.probe \in [Probes -> ProbeState]
      BY <1>4, <2>1, <2>2 DEF Traceable
    <2> HIDE DEF t
    <2>4. Calm(s, t)
      BY <1>4, <2>2, <2>3 DEF Traceable, Calm, Fenced
    <2>5. Calm(t, Send(t, Cmd("get_state", q, 1)))
      BY <1>4, <2>4, CalmTraceable, SendCalm, CommandsAsked
    <2> QED BY <1>4, <2>4, <2>5, CalmTwice
  <1> QED BY <1>1, <1>2, <1>3, <1>4

LEMMA ShutdownCalm ==
  ASSUME NEW s, Traceable(s)
  PROVE  Calm(s, ShutdownStart(s))
  <1> DEFINE g == [s EXCEPT !.shut = "grace"]
  <1>1. Level(s, s) /\ Level(s, g) /\ Level(s, [s EXCEPT !.shut = "closing"])
    BY DEF Traceable, Level, Traced
  <1>2. Calm(s, s) /\ Calm(s, g) /\ Calm(s, [s EXCEPT !.shut = "closing"])
    BY <1>1, LevelCalm
  <1>3. Calm(g, Send(g, AbortCmd))
    BY <1>2, CalmTraceable, SendCalm, CommandsAsked
  <1> QED BY <1>2, <1>3, CalmTwice DEF ShutdownStart

-----------------------------------------------------------------------------
(* An epoch is settled, the client closes, a dispatch moves on.            *)

LEMMA SettleTraced ==
  ASSUME NEW s, Traceable(s), NEW v, NEW then
  PROVE  LET e == s.fence.live.epoch
             a == [pc |-> "fence", verdict |-> v, then |-> then]
             t == SettleStart(s, v, then) IN
         IsLive(s.fence) =>
            /\ Traced \subseteq DOMAIN t
            /\ t.fence = Settle(s.fence, v) /\ t.settling = [s.settling EXCEPT ![e] = a]
            /\ t.disp = s.disp /\ t.stdin = s.stdin /\ t.closed = s.closed /\ t.shut = s.shut
            /\ ~ t.ended /\ t.probe \in [Probes -> ProbeState]
            /\ \A q \in Probes : ~ t.probe[q].fresh
  <1> DEFINE e == s.fence.live.epoch
             a == [pc |-> "fence", verdict |-> v, then |-> then]
             g == Settle(s.fence, v)
             x == [s EXCEPT !.probing = FALSE, !.promptId = 0, !.deadline = FALSE,
                            !.abortEsc = "no", !.proseEsc = FALSE,
                            !.ended = FALSE, !.tripped = FALSE]
             r == Bump(x)
             u == [r EXCEPT !.fence = g, !.settling[e] = a]
             t == Persist(u, <<"settle", e>>)
  <1> SUFFICES ASSUME IsLive(s.fence)
               PROVE  /\ Traced \subseteq DOMAIN t
                      /\ t.fence = g /\ t.settling = [s.settling EXCEPT ![e] = a]
                      /\ t.disp = s.disp /\ t.stdin = s.stdin /\ t.closed = s.closed
                      /\ t.shut = s.shut
                      /\ ~ t.ended /\ t.probe \in [Probes -> ProbeState]
                      /\ \A q \in Probes : ~ t.probe[q].fresh
    BY DEF SettleStart, ResetEpoch
  <1>1. /\ Level(s, x) /\ x.ended = FALSE /\ x.shut = s.shut
    BY DEF Traceable, Level, Traced
  <1>2. Traceable(x)
    BY <1>1, LevelCalm, CalmTraceable
  <1> HIDE DEF x
  <1>3. /\ Level(x, r) /\ r.ended = x.ended /\ r.shut = x.shut
        /\ \A q \in Probes : ~ r.probe[q].fresh
    BY <1>2, BumpLevel
  <1> HIDE DEF r, a, g
  <1>4. /\ Traced \subseteq DOMAIN u /\ u.fence = g
        /\ u.settling = [r.settling EXCEPT ![e] = a]
        /\ u.disp = r.disp /\ u.stdin = r.stdin /\ u.closed = r.closed /\ u.shut = r.shut
        /\ u.ended = r.ended /\ u.probe = r.probe
    BY <1>3 DEF Level, Traced
  <1> HIDE DEF u
  <1>5. /\ Traced \subseteq DOMAIN t /\ t.fence = u.fence
        /\ t.settling = u.settling
        /\ t.disp = u.disp /\ t.stdin = u.stdin /\ t.closed = u.closed /\ t.shut = u.shut
        /\ t.ended = u.ended /\ t.probe = u.probe
    BY <1>4 DEF Persist, Traced
  <1> HIDE DEF t
  <1> QED BY <1>1, <1>3, <1>4, <1>5 DEF Level

\* An epoch is settled: quietly only when nothing of it is left.
LEMMA SettleTraces ==
  ASSUME NEW s, NEW p, NEW out, NEW rn, Accounted(s, p, out, rn),
         NEW v \in Verdicts, NEW then \in {"nothing", "kill", "exit", "close"},
         then = "close" => s.shut # "no", then = "exit" => s.closed,
         \A e \in Epochs : LiveIs(s, e) =>
            /\ then = "nothing" /\ Clean(s) => Gone(e, s, p, out) /\ s.disp[e] \in {"acked", "done"}
            /\ v = "success" /\ (\A f \in 1 .. (e - 1) : s.settling[f].then # "kill") =>
                  Over(e, s, p, rn)
  PROVE  Accounted(SettleStart(s, v, then), p, out, rn)
  <1>1. CASE ~ IsLive(s.fence)
    BY <1>1 DEF SettleStart
  <1>2. CASE IsLive(s.fence)
    <2> DEFINE e == s.fence.live.epoch
               a == [pc |-> "fence", verdict |-> v, then |-> then]
               t == SettleStart(s, v, then)
    <2>1. Traceable(s)
      BY AccountedTraceable
    <2>2. /\ Traced \subseteq DOMAIN t
          /\ t.fence = Settle(s.fence, v) /\ t.settling = [s.settling EXCEPT ![e] = a]
          /\ t.disp = s.disp /\ t.stdin = s.stdin /\ t.closed = s.closed /\ t.shut = s.shut
          /\ ~ t.ended /\ t.probe \in [Probes -> ProbeState]
          /\ \A q \in Probes : ~ t.probe[q].fresh
      BY <1>2, <2>1, SettleTraced
    <2> HIDE DEF t
    <2>3. s.fence \in FenceSnapshot /\ Sound(s.fence)
      BY <2>1 DEF Traceable, Fenced
    <2>4. /\ t.fence \in FenceSnapshot /\ Sound(t.fence) /\ ~ IsLive(t.fence)
          /\ e = s.fence.hwm /\ e \in Epochs /\ t.fence.hwm = s.fence.hwm
      <3>1. /\ Step(s.fence, t.fence) /\ ~ IsLive(t.fence)
            /\ e = s.fence.hwm /\ s.fence.hwm \in Epochs
        BY <1>2, <2>2, <2>3, SettleStep
      <3> QED BY <1>2, <3>1 DEF Step, Follows, SameLedger, Issued, Closed
    <2>5. LiveIs(s, e) /\ \A f : LiveIs(s, f) => f = e
      BY <1>2 DEF LiveIs
    <2>6. a \in Settlement /\ a.pc # "no" /\ a.then = then /\ a.verdict = v
      BY DEF Settlement
    <2> HIDE DEF e, a
    <2>7. s.settling \in [Epochs -> Settlement]
      BY <2>1 DEF Traceable
    <2>8. /\ t.settling \in [Epochs -> Settlement] /\ t.settling[e] = a
          /\ \A f \in Epochs \ {e} : t.settling[f] = s.settling[f]
      BY <2>2, <2>4, <2>6, <2>7
    <2>9. s.settling[e].pc = "no"
      BY <2>4, <2>5 DEF Accounted, Eligible
    <2>10. \A f : ~ LiveIs(t, f)
      BY <2>4 DEF LiveIs
    <2>11. Clean(t) => Clean(s) /\ then = "nothing"
      <3>1. Plain(t) => Plain(s) /\ then = "nothing"
        BY <2>4, <2>6, <2>8, <2>9 DEF Plain
      <3> QED BY <2>2, <3>1 DEF Clean
    <2>12. \A f \in Epochs : /\ Unheld(f, t, p) <=> Unheld(f, s, p)
                             /\ Sent(f, t) <=> Sent(f, s)
                             /\ Gone(f, t, p, out) <=> Gone(f, s, p, out)
                             /\ Over(f, t, p, rn) <=> Over(f, s, p, rn)
      BY <2>2 DEF Unheld, Sent, Gone, Over
    <2>13. Typed(t, p, out, rn)
      BY <2>2, <2>8 DEF Accounted, Typed
    <2>14. \A f \in Epochs : Once(f, t, p, out, rn)
      BY <2>2, <2>4, <2>12 DEF Accounted, Once
    <2>15. Single(t, p)
      BY <2>2 DEF Accounted, Single
    <2>16. Behind(t, p, out)
      <3> SUFFICES ASSUME Clean(t), NEW f \in Epochs, f <= t.fence.hwm
                   PROVE  Gone(f, t, p, out) /\ t.disp[f] \in {"no", "acked", "done"}
        BY <2>4 DEF Behind
      <3>1. CASE f = e
        BY <2>2, <2>5, <2>11, <2>12, <3>1
      <3>2. CASE f # e
        BY <2>2, <2>4, <2>5, <2>11, <2>12, <3>2 DEF Accounted, Behind
      <3> QED BY <3>1, <3>2
    <2>17. Ahead(t, p, out) /\ Ending(t, p, out, rn)
      BY <2>2, <2>10 DEF Ahead, Ending
    <2>18. Eligible(t)
      <3> SUFFICES ASSUME NEW f \in Epochs, t.settling[f].pc # "no"
                   PROVE  /\ f <= t.fence.hwm
                          /\ t.settling[f].then = "close" => t.shut # "no"
                          /\ t.settling[f].then = "exit" => t.closed
        BY <2>2, <2>10 DEF Eligible
      <3>1. CASE f = e
        <4>1. e <= e
          BY <2>4, SupervisorConstants DEF Epochs
        <4> QED BY <2>2, <2>4, <2>6, <2>8, <3>1, <4>1
      <3>2. CASE f # e
        BY <2>2, <2>4, <2>8, <3>2 DEF Accounted, Eligible
      <3> QED BY <3>1, <3>2
    <2>19. Proven(t, p, rn)
      <3> SUFFICES ASSUME NEW g \in Epochs, t.settling[g].pc # "no",
                          t.settling[g].verdict = "success",
                          \A f \in 1 .. (g - 1) : t.settling[f].then # "kill"
                   PROVE  Over(g, s, p, rn)
        BY <2>12 DEF Proven
      <3>1. CASE g = e
        <4>1. \A f \in 1 .. (e - 1) : f \in Epochs \ {e}
          BY <2>4, SupervisorConstants DEF Epochs
        <4> QED BY <2>5, <2>6, <2>8, <3>1, <4>1
      <3>2. CASE g # e
        <4>1. \A f \in 1 .. (g - 1) : f \in Epochs /\ f # e
          <5>1. g <= e
            BY <2>4, <2>8, <3>2 DEF Accounted, Eligible
          <5> QED BY <2>4, <3>2, <5>1, SupervisorConstants DEF Epochs
        <4> QED BY <2>8, <3>2, <4>1 DEF Accounted, Proven
      <3> QED BY <3>1, <3>2
    <2>20. Accounted(t, p, out, rn)
      BY <2>4, <2>13, <2>14, <2>15, <2>16, <2>17, <2>18, <2>19 DEF Accounted, Fenced
    <2> QED BY <2>20 DEF t
  <1> QED BY <1>1, <1>2

LEMMA CloseTraces ==
  ASSUME NEW s, NEW p, NEW out, NEW rn, Accounted(s, p, out, rn)
  PROVE  Accounted(CloseClient(s), p, out, rn) /\ CloseClient(s).closed
         /\ CloseClient(s).fence = s.fence /\ CloseClient(s).shut = s.shut
  <1> DEFINE d == [e \in Epochs |-> IF s.disp[e] = "sent" THEN "broken" ELSE s.disp[e]]
             b == [q \in Probes |-> IF Waits(s.probe[q]) THEN NoProbe ELSE s.probe[q]]
             t == CloseClient(s)
  <1>1. Traceable(s) /\ s.disp \in [Epochs -> Stages]
    BY AccountedTraceable DEF Accounted, Typed
  <1>2. /\ Traced \subseteq DOMAIN t /\ t.closed /\ t.stdin = <<>> /\ t.disp = d /\ t.probe = b
        /\ t.settling = s.settling /\ t.fence = s.fence /\ t.shut = s.shut /\ t.ended = s.ended
    BY <1>1 DEF CloseClient, Traceable, Traced
  <1> HIDE DEF t
  <1>3. /\ d \in [Epochs -> Stages]
        /\ \A e \in Epochs : /\ d[e] \in Early <=> s.disp[e] \in Early
                             /\ d[e] \in {"acked", "done"} <=> s.disp[e] \in {"acked", "done"}
                             /\ d[e] = "no" <=> s.disp[e] = "no"
    BY <1>1 DEF Stages, Early
  <1>4. b \in [Probes -> ProbeState] /\ \A q \in Probes : b[q].fresh => s.probe[q].fresh
    <2> SUFFICES ASSUME NEW q \in Probes
                 PROVE  b[q] \in ProbeState /\ (b[q].fresh => s.probe[q].fresh)
      OBVIOUS
    <2>1. s.probe[q] \in ProbeState
      BY <1>1 DEF Traceable
    <2>2. NoProbe \in ProbeState /\ ~ NoProbe.fresh
      BY DEF NoProbe, ProbeState, Quiet
    <2> QED BY <2>1, <2>2
  <1> HIDE DEF d, b
  <1>5. ~ Clean(t) /\ (Plain(t) <=> Plain(s)) /\ \A f : LiveIs(t, f) <=> LiveIs(s, f)
    BY <1>2 DEF Clean, Plain, LiveIs
  <1>6. \A e \in Epochs : /\ ~ Sent(e, t)
                          /\ Unheld(e, s, p) => Unheld(e, t, p)
                          /\ Gone(e, s, p, out) => Gone(e, t, p, out)
                          /\ Over(e, s, p, rn) => Over(e, t, p, rn)
    BY <1>2, <1>3 DEF Sent, Unheld, Gone, Over
  <1>7. Typed(t, p, out, rn)
    BY <1>2, <1>3, <1>4 DEF Accounted, Typed
  <1>8. \A e \in Epochs : Once(e, t, p, out, rn)
    BY <1>2, <1>3, <1>6 DEF Accounted, Once
  <1>9. Single(t, p)
    BY <1>2 DEF Accounted, Single
  <1>10. Behind(t, p, out) /\ Ahead(t, p, out)
    BY <1>5 DEF Behind, Ahead
  <1>11. Ending(t, p, out, rn)
    BY <1>2, <1>5, <1>6 DEF Accounted, Ending
  <1>12. Eligible(t)
    BY <1>2, <1>4, <1>5 DEF Accounted, Eligible
  <1>13. Proven(t, p, rn)
    BY <1>2, <1>6 DEF Accounted, Proven
  <1>14. Accounted(t, p, out, rn)
    BY <1>2, <1>7, <1>8, <1>9, <1>10, <1>11, <1>12, <1>13 DEF Accounted, Fenced
  <1> QED BY <1>2, <1>14 DEF t

\* The handler of a dispatch moves on, without a prompt.
DispMoves(s, t, e, b) ==
    /\ Traced \subseteq DOMAIN t
    /\ t.disp = [s.disp EXCEPT ![e] = b] /\ b \in Stages
    /\ t.stdin = s.stdin /\ t.closed = s.closed /\ t.ended = s.ended /\ t.shut = s.shut
    /\ t.settling = s.settling /\ t.probe = s.probe

LEMMA DispTraces ==
  ASSUME NEW s, NEW p, NEW out, NEW rn, Accounted(s, p, out, rn),
         NEW t, NEW e \in Epochs, NEW b, DispMoves(s, t, e, b),
         \/ t.fence = s.fence
         \/ t.fence = NoteAck(s.fence, 0) /\ s.disp[e] \in {"sent", "acked"}
               /\ b \in {"acked", "refused", "done"},
         s.disp[e] \notin {"no", "done"},
         s.disp[e] = "acked" => b = "done",
         b \in Early => s.disp[e] \in Early,
         b = "broken" => s.closed,
         b = "refused" => Gone(e, s, p, out) /\ s.disp[e] = "sent",
         b \notin {"sent", "no"}
  PROVE  Accounted(t, p, out, rn)
  <1>0. s.disp \in [Epochs -> Stages] /\ s.fence \in FenceSnapshot /\ Sound(s.fence)
    BY DEF Accounted, Typed, Fenced
  <1>1. t.disp \in [Epochs -> Stages] /\ t.disp[e] = b /\ \A f \in Epochs \ {e} : t.disp[f] = s.disp[f]
    BY <1>0 DEF DispMoves
  <1>2. /\ t.fence \in FenceSnapshot /\ Sound(t.fence) /\ t.fence.live = s.fence.live
        /\ t.fence.hwm = s.fence.hwm
    BY <1>0, NoteAckStep DEF Noted, SameLedger
  <1>3. /\ \A f : LiveIs(t, f) <=> LiveIs(s, f)
        /\ (Plain(t) <=> Plain(s)) /\ (Clean(t) <=> Clean(s))
        /\ IsLive(t.fence) <=> IsLive(s.fence)
    BY <1>2 DEF DispMoves, LiveIs, Plain, Clean, IsLive
  <1>4. \A f \in Epochs : /\ Unheld(f, t, p) <=> Unheld(f, s, p)
                          /\ Sent(f, t) <=> Sent(f, s)
                          /\ Gone(f, t, p, out) <=> Gone(f, s, p, out)
                          /\ Over(f, s, p, rn) => Over(f, t, p, rn)
    BY <1>1 DEF DispMoves, Unheld, Sent, Gone, Over
  <1>5. Clean(s) => LiveIs(s, e) \/ s.disp[e] = "acked"
    <2>1. ~ (e > s.fence.hwm)
      BY DEF Accounted, Once
    <2>2. e <= s.fence.hwm
      BY <1>0, <2>1, SupervisorConstants DEF Epochs, FenceSnapshot
    <2> QED BY <2>2 DEF Accounted, Behind
  <1>6. Typed(t, p, out, rn)
    BY <1>1 DEF Accounted, Typed, DispMoves
  <1>7. \A f \in Epochs : Once(f, t, p, out, rn)
    BY <1>1, <1>2, <1>4 DEF Accounted, Once, DispMoves
  <1>8. Single(t, p)
    BY DEF Accounted, Single, DispMoves
  <1>9. Behind(t, p, out)
    <2> SUFFICES ASSUME Clean(s), NEW f \in Epochs, f <= s.fence.hwm, ~ LiveIs(s, f)
                 PROVE  /\ Gone(f, s, p, out)
                        /\ t.disp[f] \in {"no", "acked", "done"}
                        /\ IsLive(s.fence) => t.disp[f] # "acked"
      BY <1>2, <1>3, <1>4 DEF Behind
    <2>1. /\ Gone(f, s, p, out)
          /\ s.disp[f] \in {"no", "acked", "done"}
          /\ IsLive(s.fence) => s.disp[f] # "acked"
      BY DEF Accounted, Behind
    <2> QED BY <1>1, <1>5, <2>1
  <1>10. Ahead(t, p, out)
    <2> SUFFICES ASSUME Clean(s), NEW f \in Epochs, LiveIs(s, f)
                 PROVE  /\ t.disp[f] \in Early \cup {"sent"} =>
                              t.fence.ack = NoAck /\ ~ t.fence.live.started
                        /\ t.disp[f] = "refused" => Gone(f, s, p, out) /\ ~ t.fence.live.started
      BY <1>3, <1>4 DEF Ahead
    <2>1. /\ s.disp[f] \in Early \cup {"sent"} =>
                s.fence.ack = NoAck /\ ~ s.fence.live.started
          /\ s.disp[f] = "refused" => Gone(f, s, p, out) /\ ~ s.fence.live.started
      BY DEF Accounted, Ahead
    <2>2. CASE f = e
      BY <1>1, <1>2, <2>1, <2>2 DEF Early
    <2>3. CASE f # e
      <3>1. s.disp[e] = "acked" /\ ~ LiveIs(s, e)
        BY <1>5, <2>3 DEF LiveIs
      <3>2. e <= s.fence.hwm
        <4>1. ~ (e > s.fence.hwm)
          BY DEF Accounted, Once
        <4> QED BY <1>0, <4>1, SupervisorConstants DEF Epochs, FenceSnapshot
      <3>3. FALSE
        BY <3>1, <3>2 DEF Accounted, Behind, LiveIs
      <3> QED BY <3>3
    <2> QED BY <2>2, <2>3
  <1>11. Ending(t, p, out, rn)
    BY <1>3, <1>4 DEF Accounted, Ending, DispMoves
  <1>12. Eligible(t)
    BY <1>2, <1>3 DEF Accounted, Eligible, DispMoves
  <1>13. Proven(t, p, rn)
    BY <1>4 DEF Accounted, Proven, DispMoves
  <1> QED BY <1>2, <1>6, <1>7, <1>8, <1>9, <1>10, <1>11, <1>12, <1>13 DEF Accounted, Fenced

-----------------------------------------------------------------------------
(* The handlers and the process.                                           *)

LEMMA TracesCalm ==
  ASSUME Traces, Calm(sup, sup'), UNCHANGED <<pi, ran>>,
         stdout' = stdout \/ (stdout # <<>> /\ stdout' = Tail(stdout))
  PROVE  Traces'
  <1>1. Accounted(sup, pi, stdout', ran)
    BY TakeKeeps DEF Traces
  <1>2. Accounted(sup', pi, stdout', ran)
    BY <1>1, CalmKeeps
  <1> QED BY <1>2 DEF Traces

LEMMA TracesKnown ==
  ASSUME Traces
  PROVE  /\ Traceable(sup) /\ Traced \subseteq DOMAIN sup
         /\ sup.fence \in FenceSnapshot /\ Sound(sup.fence)
         /\ sup.settling \in [Epochs -> Settlement] /\ sup.probe \in [Probes -> ProbeState]
         /\ sup.disp \in [Epochs -> Stages]
         /\ stdout # <<>> => Head(stdout) \in Told
  <1>1. stdout # <<>> => Head(stdout) \in Told
    BY TailOf DEF Traces, Accounted, Typed
  <1> QED BY <1>1, AccountedTraceable DEF Traces, Traceable, Fenced, Accounted, Typed

\* A note on the live epoch.
LEMMA NotedCalm ==
  ASSUME NEW s, Traceable(s), IsLive(s.fence), NEW g, g \in {NoteAbort(s.fence), NoteTimedOut(s.fence)},
         NEW t, Traced \subseteq DOMAIN t, t.fence = g,
         t.disp = s.disp, t.stdin = s.stdin, t.closed = s.closed, t.settling = s.settling,
         t.probe = s.probe, t.ended = s.ended, t.shut = s.shut
  PROVE  Calm(s, t) /\ IsLive(t.fence)
  <1>1. s.fence \in FenceSnapshot /\ Sound(s.fence)
    BY DEF Traceable, Fenced
  <1>2. Noted(s.fence, g) /\ IsLive(g) /\ WindowOpen(g) = WindowOpen(s.fence)
    BY <1>1, NoteAbortStep, NoteTimedOutStep
  <1>3. g.ack = s.fence.ack
    BY <1>1 DEF NoteAbort, NoteTimedOut, FenceSnapshot
  <1>4. g.live.started = s.fence.live.started
    BY <1>1, <1>2 DEF Noted, FenceSnapshot, IsLive, LiveEpoch, WindowOpen
  <1>5. Fenced(t) /\ g.hwm = s.fence.hwm /\ g.live.epoch = s.fence.live.epoch
    BY <1>2 DEF Noted, SameLedger, Fenced
  <1> QED BY <1>2, <1>3, <1>4, <1>5 DEF Calm, Traceable

LEMMA TracesAborts ==
  ASSUME Traces, AbortRequest \/ AbortSend \/ Shutdown \/ Deadline
  PROVE  Traces'
  <1>1. Traceable(sup) /\ Traced \subseteq DOMAIN sup
    BY TracesKnown
  <1>2. UNCHANGED <<pi, ran, stdout>>
    BY DEF AbortRequest, AbortSend, Shutdown, Deadline
  <1> SUFFICES Calm(sup, sup')
    BY <1>2, TracesCalm
  <1>3. CASE AbortRequest
    <2> DEFINE t == [sup EXCEPT !.abort = TRUE, !.fence = NoteAbort(sup.fence)]
    <2>1. sup' = Persist(t, <<"abort", 0>>) /\ IsLive(sup.fence)
      BY <1>3 DEF AbortRequest
    <2>2. /\ Traced \subseteq DOMAIN t /\ t.fence = NoteAbort(sup.fence)
          /\ t.disp = sup.disp /\ t.stdin = sup.stdin /\ t.closed = sup.closed
          /\ t.settling = sup.settling
          /\ t.probe = sup.probe /\ t.ended = sup.ended /\ t.shut = sup.shut
      BY <1>1 DEF Traced
    <2> HIDE DEF t
    <2>3. Calm(sup, t)
      BY <1>1, <2>1, <2>2, NotedCalm
    <2>4. Calm(t, sup')
      BY <2>1, <2>3, CalmTraceable, PersistCalm
    <2> QED BY <2>3, <2>4, CalmTwice
  <1>4. CASE AbortSend
    <2> DEFINE t == [sup EXCEPT !.abort = FALSE]
    <2>1. sup' = Send(t, AbortCmd)
      BY <1>4 DEF AbortSend
    <2>2. Level(sup, t)
      BY <1>1 DEF Level, Traceable, Traced
    <2> HIDE DEF t
    <2>3. Calm(sup, t)
      BY <1>1, <2>2, LevelCalm
    <2>4. Calm(t, sup')
      BY <2>1, <2>3, CalmTraceable, SendCalm, CommandsAsked
    <2> QED BY <2>3, <2>4, CalmTwice
  <1>5. CASE Shutdown
    BY <1>1, <1>5, ShutdownCalm DEF Shutdown
  <1>6. CASE Deadline
    <2> DEFINE g == NoteTimedOut(sup.fence)
               a == IF sup.disp[sup.fence.live.epoch] \in {"state", "sampling"} THEN "early" ELSE "late"
               t == [sup EXCEPT !.fence = g]
               u == [sup EXCEPT !.deadline = FALSE, !.abortEsc = a, !.fence = NoteAbort(g)]
               w == Persist(u, <<"nobody", 0>>)
    <2>1. sup' = Send(w, AbortCmd) /\ IsLive(sup.fence)
      BY <1>6 DEF Deadline, Nobody
    <2> HIDE DEF g, a
    <2>2. /\ Traced \subseteq DOMAIN t /\ t.fence = g
          /\ t.disp = sup.disp /\ t.stdin = sup.stdin /\ t.closed = sup.closed
          /\ t.settling = sup.settling
          /\ t.probe = sup.probe /\ t.ended = sup.ended /\ t.shut = sup.shut
      BY <1>1 DEF Traced
    <2>3. /\ Traced \subseteq DOMAIN u /\ u.fence = NoteAbort(t.fence)
          /\ u.disp = t.disp /\ u.stdin = t.stdin /\ u.closed = t.closed
          /\ u.settling = t.settling
          /\ u.probe = t.probe /\ u.ended = t.ended /\ u.shut = t.shut
      BY <1>1, <2>2 DEF Traced
    <2> HIDE DEF t, u
    <2>4. Calm(sup, t) /\ IsLive(t.fence)
      BY <1>1, <2>1, <2>2, NotedCalm DEF g
    <2>5. Calm(t, u)
      BY <2>3, <2>4, CalmTraceable, NotedCalm
    <2>6. Calm(u, w)
      BY <2>5, CalmTraceable, PersistCalm
    <2> HIDE DEF w
    <2>7. Calm(w, sup')
      BY <2>1, <2>6, CalmTraceable, SendCalm, CommandsAsked
    <2> QED BY <2>4, <2>5, <2>6, <2>7, CalmTwice
  <1> QED BY <1>3, <1>4, <1>5, <1>6

LEMMA TracesProbes ==
  ASSUME Traces, (\E p \in Probes : ProbeTimeout(p)) \/ Reprobe \/ BootTimeout \/ ExitFlushed \/ WriteLands
  PROVE  Traces'
  <1>1. Traceable(sup) /\ Traced \subseteq DOMAIN sup
    BY TracesKnown
  <1>2. UNCHANGED <<pi, ran, stdout>>
    BY DEF ProbeTimeout, Reprobe, BootTimeout, ExitFlushed, WriteLands
  <1> SUFFICES Calm(sup, sup')
    BY <1>2, TracesCalm
  <1>3. ASSUME NEW p \in Probes, ProbeTimeout(p)
        PROVE  Calm(sup, sup')
    <2> DEFINE n == [sup.probe[p] EXCEPT !.pc = "late"]
    <2>1. sup' = [sup EXCEPT !.probe[p] = n, !.probing = FALSE, !.reprobe = TRUE]
      BY <1>1, <1>3 DEF ProbeTimeout, Traceable
    <2>2. n \in ProbeState /\ n.fresh = sup.probe[p].fresh
      BY <1>1 DEF Traceable, ProbeState
    <2> HIDE DEF n
    <2>3. Level(sup, sup')
      BY <1>1, <2>1, <2>2 DEF Level, Traceable, Traced
    <2> QED BY <1>1, <2>3, LevelCalm
  <1>4. CASE Reprobe
    <2> DEFINE t == [sup EXCEPT !.reprobe = FALSE]
    <2>1. sup' = MaybeProbe(t)
      BY <1>4 DEF Reprobe
    <2>2. Level(sup, t)
      BY <1>1 DEF Level, Traceable, Traced
    <2> HIDE DEF t
    <2> QED BY <1>1, <2>1, <2>2, LevelCalm, CalmTraceable, MaybeProbeCalm, CalmTwice
  <1>5. CASE BootTimeout \/ ExitFlushed \/ WriteLands
    <2>1. Level(sup, sup')
      BY <1>1, <1>5 DEF BootTimeout, ExitFlushed, WriteLands, Level, Traceable, Traced
    <2> QED BY <1>1, <2>1, LevelCalm
  <1> QED BY <1>3, <1>4, <1>5

\* A settlement moves on.
LEMMA SettlingCalm ==
  ASSUME NEW s, Traceable(s), NEW e \in Epochs, s.settling[e].pc # "no",
         NEW b \in {"policy", "done"}, NEW t, Traced \subseteq DOMAIN t,
         t.settling = [s.settling EXCEPT ![e].pc = b],
         t.fence = s.fence, t.disp = s.disp, t.stdin = s.stdin, t.closed = s.closed,
         t.probe = s.probe, t.ended = s.ended, s.shut # "no" => t.shut # "no"
  PROVE  Calm(s, t)
  <1>1. /\ t.settling \in [Epochs -> Settlement]
        /\ \A f \in Epochs : /\ t.settling[f].pc # "no" <=> s.settling[f].pc # "no"
                             /\ t.settling[f].verdict = s.settling[f].verdict
                             /\ t.settling[f].then = s.settling[f].then
    <2> DEFINE x == [s.settling[e] EXCEPT !.pc = b]
    <2>1. s.settling \in [Epochs -> Settlement] /\ s.settling[e] \in Settlement
      BY DEF Traceable
    <2>2. /\ x \in Settlement /\ x.pc # "no"
          /\ x.verdict = s.settling[e].verdict /\ x.then = s.settling[e].then
      BY <2>1 DEF Settlement
    <2>3. t.settling = [s.settling EXCEPT ![e] = x]
      BY <2>1
    <2> HIDE DEF x
    <2> QED BY <2>1, <2>2, <2>3
  <1> QED BY <1>1 DEF Calm, Traceable, Fenced

LEMMA TracesSettling ==
  ASSUME Traces, NEW e \in Epochs,
         (\E v \in Verdicts : SettleRecord(e, v)) \/ SettleFinish(e) \/ Recover(e)
  PROVE  Traces'
  <1>1. Traceable(sup) /\ Traced \subseteq DOMAIN sup
    BY TracesKnown
  <1>2. UNCHANGED <<pi, ran, stdout>>
    BY DEF SettleRecord, SettleFinish, Recover
  <1> SUFFICES Calm(sup, sup')
    BY <1>2, TracesCalm
  <1>3. ASSUME NEW v \in Verdicts, SettleRecord(e, v)
        PROVE  Calm(sup, sup')
    <2> DEFINE x == IF sup.shut # "no" THEN sup.phase ELSE "idle"
    <2>1. sup' = [sup EXCEPT !.settling[e].pc = "policy", !.phase = x] /\ sup.settling[e].pc = "fence"
      BY <1>3 DEF SettleRecord, SettleReady
    <2> HIDE DEF x
    <2>2. /\ Traced \subseteq DOMAIN sup' /\ sup'.settling = [sup.settling EXCEPT ![e].pc = "policy"]
          /\ sup'.fence = sup.fence /\ sup'.disp = sup.disp /\ sup'.stdin = sup.stdin
          /\ sup'.closed = sup.closed /\ sup'.probe = sup.probe /\ sup'.ended = sup.ended
          /\ sup'.shut = sup.shut
      BY <1>1, <2>1 DEF Traced
    <2>3. sup.settling[e].pc # "no"
      BY <2>1
    <2> QED BY <1>1, <2>2, <2>3, SettlingCalm
  <1>4. CASE SettleFinish(e)
    <2> DEFINE s == [sup EXCEPT !.settling[e].pc = "done"]
    <2>1. /\ \/ sup' = s
             \/ sup' = [s EXCEPT !.killed = TRUE]
             \/ sup' = [s EXCEPT !.phase = "dead", !.exit = "flushing"]
             \/ sup' = [s EXCEPT !.shut = "closing"]
          /\ sup.settling[e].pc = "policy"
      <3>1. sup.settling[e].then \in {"nothing", "kill", "exit", "close"}
        BY <1>1 DEF Traceable, Settlement
      <3> QED BY <1>4, <3>1 DEF SettleFinish
    <2>2. /\ Traced \subseteq DOMAIN s /\ s.settling = [sup.settling EXCEPT ![e].pc = "done"]
          /\ s.fence = sup.fence /\ s.disp = sup.disp /\ s.stdin = sup.stdin
          /\ s.closed = sup.closed /\ s.probe = sup.probe /\ s.ended = sup.ended
          /\ s.shut = sup.shut
      BY <1>1 DEF Traced
    <2> HIDE DEF s
    <2>3. Calm(sup, s)
      <3>1. sup.settling[e].pc # "no"
        BY <2>1
      <3> QED BY <1>1, <2>2, <3>1, SettlingCalm
    <2>4. Traceable(s)
      BY <2>3, CalmTraceable
    <2>5. Level(s, sup')
      BY <2>1, <2>4 DEF Level, Traceable, Traced
    <2> QED BY <2>3, <2>4, <2>5, LevelCalm, CalmTwice
  <1>5. CASE Recover(e)
    <2>1. sup' = [sup EXCEPT !.proc = "up", !.settling[e].pc = "done"] /\ sup.settling[e].pc = "fence"
      BY <1>5 DEF Recover, SettleReady
    <2>2. /\ Traced \subseteq DOMAIN sup' /\ sup'.settling = [sup.settling EXCEPT ![e].pc = "done"]
          /\ sup'.fence = sup.fence /\ sup'.disp = sup.disp /\ sup'.stdin = sup.stdin
          /\ sup'.closed = sup.closed /\ sup'.probe = sup.probe /\ sup'.ended = sup.ended
          /\ sup'.shut = sup.shut
      BY <1>1, <2>1 DEF Traced
    <2>3. sup.settling[e].pc # "no"
      BY <2>1
    <2> QED BY <1>1, <2>2, <2>3, SettlingCalm
  <1> QED BY <1>3, <1>4, <1>5

\* A fresh acceptance.  No answer of an earlier prompt waits for its handler.
LEMMA TracesDispatch ==
  ASSUME Traces, NEW k \in Keys, Dispatch(k)
  PROVE  Traces'
  <1> DEFINE f == Allocate(sup.fence, k)
             n == f.hwm
             t == [sup EXCEPT !.fence = f, !.disp[n] = "fence"]
  <1>1. /\ Admits(sup.fence, k, 0) /\ sup.fence.hwm < MaxEpoch /\ ~ Microtask
        /\ sup' = Persist(t, <<"dispatch", n>>) /\ UNCHANGED <<pi, stdout, ran>>
    BY DEF Dispatch
  <1>2. /\ Traceable(sup) /\ Traced \subseteq DOMAIN sup
        /\ sup.fence \in FenceSnapshot /\ Sound(sup.fence)
        /\ sup.disp \in [Epochs -> Stages] /\ sup.settling \in [Epochs -> Settlement]
    BY TracesKnown
  <1>3. Step(sup.fence, f) /\ ~ IsLive(sup.fence)
    BY <1>1, <1>2, AllocateStep
  <1>4. /\ n = sup.fence.hwm + 1 /\ f.ack = NoAck /\ ~ f.live.started /\ f.live.epoch = n
    <2> DEFINE m == sup.fence.hwm + 1
               l == [task |-> k[1], attempt |-> k[2], epoch |-> m,
                     started |-> FALSE, abort |-> FALSE, timedout |-> FALSE]
    <2>1. f = [sup.fence EXCEPT !.hwm = m, !.ack = NoAck, !.live = l, !.attempts[k] = m]
      BY DEF Allocate
    <2>2. l.epoch = m /\ l.started = FALSE
      OBVIOUS
    <2> HIDE DEF l, f, m
    <2>3. f.hwm = m /\ f.ack = NoAck /\ f.live = l
      BY <1>2, <2>1 DEF FenceSnapshot
    <2> QED BY <2>2, <2>3 DEF m
  <1>5. /\ f \in FenceSnapshot /\ Sound(f) /\ IsLive(f)
        /\ sup.fence.hwm \in Nat /\ n \in Epochs
    BY <1>1, <1>2, <1>3, <1>4, SupervisorConstants
       DEF Step, Follows, SameLedger, Issued, Closed, FenceSnapshot, Epochs, IsLive, Admits,
           LiveEpoch
  <1> HIDE DEF f
  <1>6. /\ Traced \subseteq DOMAIN t /\ t.fence = f /\ t.disp = [sup.disp EXCEPT ![n] = "fence"]
        /\ t.stdin = sup.stdin /\ t.closed = sup.closed /\ t.shut = sup.shut /\ t.ended = sup.ended
        /\ t.settling = sup.settling /\ t.probe = sup.probe
    BY <1>2 DEF Traced
  <1> HIDE DEF t
  <1>7. /\ t.disp \in [Epochs -> Stages] /\ t.disp[n] = "fence"
        /\ \A e \in Epochs \ {n} : t.disp[e] = sup.disp[e]
    BY <1>2, <1>5, <1>6 DEF Stages
  <1>8. sup.disp[n] = "no" /\ Gone(n, sup, pi, stdout)
    BY <1>4, <1>5 DEF Traces, Accounted, Once, Early
  <1>9. /\ \A e : LiveIs(t, e) <=> e = n
        /\ \A e : ~ LiveIs(sup, e)
        /\ (Plain(t) <=> Plain(sup)) /\ (Clean(t) <=> Clean(sup))
    BY <1>3, <1>4, <1>5, <1>6 DEF LiveIs, Plain, Clean
  <1>10. \A e \in Epochs : /\ Unheld(e, t, pi) <=> Unheld(e, sup, pi)
                           /\ Sent(e, t) <=> Sent(e, sup)
                           /\ Gone(e, t, pi, stdout) <=> Gone(e, sup, pi, stdout)
                           /\ Over(e, sup, pi, ran) => Over(e, t, pi, ran)
    BY <1>6, <1>7, <1>8 DEF Unheld, Sent, Gone, Over
  <1>11. \A e \in Epochs : e <= n <=> e = n \/ e <= sup.fence.hwm
    BY <1>4, <1>5, SupervisorConstants DEF Epochs
  <1>12. Typed(t, pi, stdout, ran)
    BY <1>6, <1>7 DEF Traces, Accounted, Typed
  <1>13. \A e \in Epochs : Once(e, t, pi, stdout, ran)
    <2> SUFFICES ASSUME NEW e \in Epochs PROVE Once(e, t, pi, stdout, ran)
      OBVIOUS
    <2>1. Once(e, sup, pi, stdout, ran)
      BY DEF Traces, Accounted
    <2>2. e > n => e # n /\ e > sup.fence.hwm
      BY <1>4, <1>5, SupervisorConstants DEF Epochs
    <2>3. CASE e = n
      BY <1>6, <1>7, <1>8, <1>10, <2>1, <2>2, <2>3 DEF Once
    <2>4. CASE e # n
      BY <1>6, <1>7, <1>10, <2>1, <2>2, <2>4 DEF Once
    <2> QED BY <2>3, <2>4
  <1>14. Single(t, pi)
    BY <1>6 DEF Traces, Accounted, Single
  <1>15. Behind(t, pi, stdout)
    <2> SUFFICES ASSUME Clean(sup), NEW e \in Epochs, e <= sup.fence.hwm, e # n
                 PROVE  /\ Gone(e, sup, pi, stdout)
                        /\ t.disp[e] \in {"no", "done"}
      BY <1>6, <1>9, <1>10, <1>11 DEF Behind
    <2>1. sup.disp[e] # "acked"
      BY <1>1 DEF Microtask
    <2> QED BY <1>7, <1>9, <2>1 DEF Traces, Accounted, Behind
  <1>16. Ahead(t, pi, stdout)
    BY <1>4, <1>6, <1>7, <1>9 DEF Ahead
  <1>17. Ending(t, pi, stdout, ran)
    BY <1>3, <1>6 DEF Traces, Accounted, Ending
  <1>18. Eligible(t)
    <2>1. \A e \in Epochs : sup.settling[e].pc # "no" => e <= n /\ e # n
      BY <1>4, <1>5, <1>11, SupervisorConstants DEF Traces, Accounted, Eligible, Epochs
    <2> QED BY <1>6, <1>9, <2>1 DEF Traces, Accounted, Eligible
  <1>19. Proven(t, pi, ran)
    BY <1>6, <1>10 DEF Traces, Accounted, Proven
  <1>20. Accounted(t, pi, stdout, ran)
    BY <1>5, <1>6, <1>12, <1>13, <1>14, <1>15, <1>16, <1>17, <1>18, <1>19 DEF Accounted, Fenced
  <1>21. Calm(t, sup')
    BY <1>1, <1>20, AccountedTraceable, PersistCalm
  <1> QED BY <1>1, <1>20, <1>21, CalmKeeps DEF Traces

LEMMA TracesMoves ==
  ASSUME Traces, NEW e \in Epochs,
         \/ DispatchPolicy(e) \/ DispatchArm(e) \/ DispatchTimeout(e)
         \/ DispatchSend(e) /\ sup.closed
  PROVE  Traces'
  <1>1. UNCHANGED <<pi, stdout, ran>> /\ Traced \subseteq DOMAIN sup
    BY TracesKnown DEF DispatchPolicy, DispatchArm, DispatchTimeout, DispatchSend
  <1>2. \E b \in {"state", "sampling", "done", "broken"} :
           /\ DispMoves(sup, sup', e, b) /\ sup'.fence = sup.fence
           /\ \/ b = "done" /\ sup.disp[e] = "sent"
              \/ b = "broken" /\ sup.disp[e] = "sampling" /\ sup.closed
              \/ b \in {"state", "sampling"} /\ sup.disp[e] \in {"fence", "state"}
    <2>1. CASE DispatchPolicy(e)
      <3>1. DispMoves(sup, sup', e, "state")
        BY <1>1, <2>1 DEF DispatchPolicy, DispMoves, Traced, Stages
      <3>2. sup'.fence = sup.fence /\ sup.disp[e] = "fence"
        BY <1>1, <2>1 DEF DispatchPolicy, Traced
      <3> QED BY <3>1, <3>2
    <2>2. CASE DispatchArm(e)
      <3>1. DispMoves(sup, sup', e, "sampling")
        BY <1>1, <2>2 DEF DispatchArm, DispMoves, Traced, Stages
      <3>2. sup'.fence = sup.fence /\ sup.disp[e] = "state"
        BY <1>1, <2>2 DEF DispatchArm, Traced
      <3> QED BY <3>1, <3>2
    <2>3. CASE DispatchTimeout(e)
      <3>1. DispMoves(sup, sup', e, "done")
        BY <1>1, <2>3 DEF DispatchTimeout, DispMoves, Traced, Stages
      <3>2. sup'.fence = sup.fence /\ sup.disp[e] = "sent"
        BY <1>1, <2>3 DEF DispatchTimeout, Traced
      <3> QED BY <3>1, <3>2
    <2>4. CASE DispatchSend(e) /\ sup.closed
      <3>1. DispMoves(sup, sup', e, "broken")
        BY <1>1, <2>4 DEF DispatchSend, DispMoves, Traced, Stages
      <3>2. sup'.fence = sup.fence /\ sup.disp[e] = "sampling"
        BY <1>1, <2>4 DEF DispatchSend, Traced
      <3> QED BY <2>4, <3>1, <3>2
    <2> QED BY <2>1, <2>2, <2>3, <2>4
  <1>3. PICK b \in {"state", "sampling", "done", "broken"} :
           /\ DispMoves(sup, sup', e, b) /\ sup'.fence = sup.fence
           /\ \/ b = "done" /\ sup.disp[e] = "sent"
              \/ b = "broken" /\ sup.disp[e] = "sampling" /\ sup.closed
              \/ b \in {"state", "sampling"} /\ sup.disp[e] \in {"fence", "state"}
    BY <1>2
  <1>4. /\ sup.disp[e] \notin {"no", "done", "acked"}
        /\ b \in Early => sup.disp[e] \in Early
        /\ b = "broken" => sup.closed
        /\ b \notin {"sent", "no", "refused"}
    BY <1>3 DEF Early
  <1>5. Accounted(sup', pi, stdout, ran)
    BY <1>3, <1>4, DispTraces DEF Traces
  <1> QED BY <1>1, <1>5 DEF Traces

\* The prompt is sent: it is the only one of its epoch.
LEMMA TracesSend ==
  ASSUME Traces, NEW e \in Epochs, DispatchSend(e), ~ sup.closed
  PROVE  Traces'
  <1> DEFINE c == Cmd("prompt", e, 0)
             w == sup.stdin
             v == Append(w, c)
  <1>1. /\ Traceable(sup) /\ Traced \subseteq DOMAIN sup /\ sup.disp \in [Epochs -> Stages]
        /\ sup.fence \in FenceSnapshot /\ w \in Seq(Asked) /\ e \in Nat
    BY TracesKnown, SupervisorConstants DEF Traceable, Epochs
  <1>2. /\ sup.disp[e] = "sampling" /\ UNCHANGED <<pi, stdout, ran>>
        /\ sup' = [sup EXCEPT !.disp[e] = "sent", !.stdin = v]
    BY DEF DispatchSend, Send
  <1>3. c \in Asked /\ c.t = "prompt" /\ c.e = e
    BY <1>1 DEF Cmd, Asked
  <1> HIDE DEF c
  <1>4. /\ v \in Seq(Asked) /\ Len(w) \in Nat /\ Len(v) = Len(w) + 1 /\ v[Len(w) + 1] = c
        /\ \A i \in 1 .. Len(v) : i # Len(w) + 1 => i \in 1 .. Len(w) /\ v[i] = w[i]
        /\ \A i \in 1 .. Len(w) : i \in 1 .. Len(v) /\ v[i] = w[i]
    BY <1>1, <1>3, AppendOf
  <1> HIDE DEF v, w
  <1>5. /\ Traced \subseteq DOMAIN sup' /\ sup'.stdin = v
        /\ sup'.disp = [sup.disp EXCEPT ![e] = "sent"]
        /\ sup'.closed = sup.closed /\ sup'.shut = sup.shut /\ sup'.ended = sup.ended
        /\ sup'.settling = sup.settling /\ sup'.probe = sup.probe /\ sup'.fence = sup.fence
    BY <1>1, <1>2 DEF Traced
  <1>6. /\ sup'.disp \in [Epochs -> Stages] /\ sup'.disp[e] = "sent"
        /\ \A f \in Epochs \ {e} : sup'.disp[f] = sup.disp[f]
    BY <1>1, <1>5 DEF Stages
  <1>7. Gone(e, sup, pi, stdout) /\ e <= sup.fence.hwm
    <2>1. ~ (e > sup.fence.hwm)
      BY <1>2 DEF Traces, Accounted, Once
    <2> QED BY <1>1, <1>2, <2>1 DEF Traces, Accounted, Once, Early, FenceSnapshot
  <1>8. \A i \in 1 .. Len(w) : ~ Prompts(e, w[i])
    BY <1>7 DEF Gone, Unheld, Sent, w
  <1>9. \A f \in Epochs \ {e} : Sent(f, sup') => Sent(f, sup)
    BY <1>3, <1>4, <1>5 DEF Sent, Prompts, w
  <1>10. \A f \in Epochs \ {e} : /\ Unheld(f, sup, pi) => Unheld(f, sup', pi)
                                 /\ Gone(f, sup, pi, stdout) => Gone(f, sup', pi, stdout)
                                 /\ Over(f, sup, pi, ran) => Over(f, sup', pi, ran)
    BY <1>6, <1>9 DEF Unheld, Gone, Over
  <1>11. ~ Over(e, sup, pi, ran)
    BY <1>2 DEF Over
  <1>12. /\ \A f : LiveIs(sup', f) <=> LiveIs(sup, f)
         /\ (Plain(sup') <=> Plain(sup)) /\ (Clean(sup') <=> Clean(sup))
    BY <1>5 DEF LiveIs, Plain, Clean
  <1>13. Clean(sup) => LiveIs(sup, e)
    BY <1>2, <1>7 DEF Traces, Accounted, Behind
  <1>14. \A i \in 1 .. Len(v) : v[i].t = "prompt" => v[i].e \in Epochs
    <2>1. \A i \in 1 .. Len(w) : w[i].t = "prompt" => w[i].e \in Epochs
      BY DEF Traces, Accounted, Typed, w
    <2> QED BY <1>3, <1>4, <2>1
  <1>15. Typed(sup', pi, stdout, ran)
    BY <1>4, <1>5, <1>6, <1>14 DEF Traces, Accounted, Typed
  <1>16. \A f \in Epochs : Once(f, sup', pi, stdout, ran)
    <2> SUFFICES ASSUME NEW f \in Epochs PROVE Once(f, sup', pi, stdout, ran)
      OBVIOUS
    <2>1. Once(f, sup, pi, stdout, ran)
      BY DEF Traces, Accounted
    <2>2. CASE f = e
      <3>1. ~ Held(e, pi) /\ ~ Heard(e, stdout) /\ \A i \in 1 .. Len(stdout) : ~ About(e, stdout[i])
        BY <1>7 DEF Gone, Unheld, Heard
      <3>2. ~ (e > sup'.fence.hwm)
        BY <1>5, <1>2, <2>1, <2>2 DEF Once
      <3> QED BY <1>6, <2>2, <3>1, <3>2 DEF Once, Early
    <2>3. CASE f # e
      BY <1>5, <1>6, <1>9, <1>10, <2>1, <2>3 DEF Once
    <2> QED BY <2>2, <2>3
  <1>17. Single(sup', pi)
    <2>1. \A i, j \in 1 .. Len(v), f \in Epochs : Prompts(f, v[i]) /\ Prompts(f, v[j]) => i = j
      <3> SUFFICES ASSUME NEW i \in 1 .. Len(v), NEW j \in 1 .. Len(v), NEW f \in Epochs,
                          Prompts(f, v[i]), Prompts(f, v[j])
                   PROVE  i = j
        OBVIOUS
      <3>1. \A m, h \in 1 .. Len(w) : Prompts(f, w[m]) /\ Prompts(f, w[h]) => m = h
        BY DEF Traces, Accounted, Single, w
      <3>2. CASE f = e
        <4>1. i = Len(w) + 1 /\ j = Len(w) + 1
          BY <1>4, <1>8, <3>2
        <4> QED BY <4>1
      <3>3. CASE f # e
        <4>1. i # Len(w) + 1 /\ j # Len(w) + 1
          BY <1>3, <1>4, <3>3 DEF Prompts
        <4> QED BY <1>4, <3>1, <4>1
      <3> QED BY <3>2, <3>3
    <2> QED BY <1>5, <2>1 DEF Traces, Accounted, Single
  <1>18. Behind(sup', pi, stdout)
    <2> SUFFICES ASSUME Clean(sup), NEW f \in Epochs, f <= sup.fence.hwm, ~ LiveIs(sup, f)
                 PROVE  /\ Gone(f, sup', pi, stdout)
                        /\ sup'.disp[f] \in {"no", "acked", "done"}
                        /\ IsLive(sup.fence) => sup'.disp[f] # "acked"
      BY <1>5, <1>12 DEF Behind
    <2>1. f # e
      BY <1>13
    <2> QED BY <1>6, <1>10, <2>1 DEF Traces, Accounted, Behind
  <1>19. Ahead(sup', pi, stdout)
    <2> SUFFICES ASSUME Clean(sup), NEW f \in Epochs, LiveIs(sup, f)
                 PROVE  /\ sup'.disp[f] \in Early \cup {"sent"} =>
                              sup.fence.ack = NoAck /\ ~ sup.fence.live.started
                        /\ sup'.disp[f] = "refused" =>
                              Gone(f, sup', pi, stdout) /\ ~ sup.fence.live.started
      BY <1>5, <1>12 DEF Ahead
    <2>1. f = e
      BY <1>13 DEF LiveIs
    <2> QED BY <1>2, <1>6, <2>1 DEF Traces, Accounted, Ahead, Early
  <1>20. Ending(sup', pi, stdout, ran)
    BY <1>5, <1>10, <1>11, <1>12 DEF Traces, Accounted, Ending
  <1>21. Eligible(sup')
    BY <1>5, <1>12 DEF Traces, Accounted, Eligible
  <1>22. Proven(sup', pi, ran)
    BY <1>5, <1>10, <1>11 DEF Traces, Accounted, Proven
  <1>23. Accounted(sup', pi, stdout, ran)
    BY <1>5, <1>15, <1>16, <1>17, <1>18, <1>19, <1>20, <1>21, <1>22
       DEF Traces, Accounted, Fenced
  <1> QED BY <1>2, <1>23 DEF Traces

\* The handler resumes with the answer.
LEMMA TracesResume ==
  ASSUME Traces, NEW e \in Epochs, DispatchResume(e)
  PROVE  Traces'
  <1>1. /\ UNCHANGED <<pi, stdout, ran>> /\ Traceable(sup) /\ Traced \subseteq DOMAIN sup
        /\ "failed" \in Verdicts /\ "failed" # "success"
    BY TracesKnown, SupervisorConstants DEF DispatchResume
  <1>2. CASE sup.disp[e] = "acked"
    <2> DEFINE f == NoteAck(sup.fence, 0)
               t == [sup EXCEPT !.disp[e] = "done", !.promptId = e, !.fence = f]
    <2>1. sup' = Persist(t, <<"nobody", 0>>)
      BY <1>2 DEF DispatchResume, Nobody
    <2> HIDE DEF f
    <2>2. DispMoves(sup, t, e, "done") /\ t.fence = f
      BY <1>1 DEF DispMoves, Traced, Stages
    <2> HIDE DEF t
    <2>3. Accounted(t, pi, stdout, ran)
      BY <1>2, <2>2, DispTraces DEF Traces, Early, f
    <2>4. Calm(t, sup')
      BY <2>1, <2>3, AccountedTraceable, PersistCalm
    <2> QED BY <1>1, <2>3, <2>4, CalmKeeps DEF Traces
  <1>3. CASE sup.disp[e] \in {"refused", "broken"}
    <2> DEFINE t == [sup EXCEPT !.disp[e] = "done"]
    <2>1. sup' = SettleStart(t, "failed", "nothing")
      BY <1>3 DEF DispatchResume
    <2>2. DispMoves(sup, t, e, "done") /\ t.fence = sup.fence
      BY <1>1 DEF DispMoves, Traced, Stages
    <2> HIDE DEF t
    <2>3. Accounted(t, pi, stdout, ran)
      BY <1>3, <2>2, DispTraces DEF Traces, Early
    <2>4. ASSUME NEW f \in Epochs, LiveIs(t, f), Clean(t)
          PROVE  Gone(f, t, pi, stdout) /\ t.disp[f] \in {"acked", "done"}
      <3>1. Clean(sup) /\ LiveIs(sup, f) /\ t.disp[e] = "done"
        BY <2>2, <2>4, TracesKnown DEF DispMoves, Clean, Plain, LiveIs
      <3>2. e <= sup.fence.hwm
        <4>1. ~ (e > sup.fence.hwm)
          BY <1>3 DEF Traces, Accounted, Once
        <4> QED BY <4>1, TracesKnown, SupervisorConstants DEF Epochs, FenceSnapshot
      <3>3. f = e
        BY <1>3, <3>1, <3>2 DEF Traces, Accounted, Behind, LiveIs
      <3>4. sup.disp[e] = "refused"
        BY <1>3, <3>1 DEF Traces, Accounted, Once, Clean
      <3>5. Gone(e, sup, pi, stdout)
        BY <3>1, <3>3, <3>4 DEF Traces, Accounted, Ahead
      <3>6. Gone(e, t, pi, stdout)
        BY <2>2, <3>5 DEF DispMoves, Gone, Unheld, Sent
      <3> QED BY <3>1, <3>3, <3>6
    <2>5. Accounted(sup', pi, stdout, ran)
      BY <1>1, <2>1, <2>3, <2>4, SettleTraces
    <2> QED BY <1>1, <2>5 DEF Traces
  <1> QED BY <1>2, <1>3 DEF DispatchResume

\* The line at the head of stdout, and what is left once it is taken.
LEMMA HeadLine ==
  ASSUME Traces, stdout # <<>>, NEW l, l = Head(stdout), l.t \in RunLines
  PROVE  /\ l.e \in Epochs /\ sup.disp[l.e] \notin Early
         /\ Clean(sup) => LiveIs(sup, l.e) /\ sup.disp[l.e] # "refused"
         /\ Final(l) => /\ Gone(l.e, sup, pi, Tail(stdout))
                        /\ l.t = "agent_end" => ran[l.e] # "no"
         /\ Accounted(sup, pi, Tail(stdout), ran)
  <1> DEFINE e == l.e
             q == Tail(stdout)
  <1>1. /\ q \in Seq(Told) /\ 1 \in 1 .. Len(stdout) /\ l = stdout[1] /\ Len(stdout) \in Nat
        /\ \A i \in 1 .. Len(q) : i + 1 \in 1 .. Len(stdout) /\ q[i] = stdout[i + 1] /\ i + 1 > 1
    BY TailOf DEF Traces, Accounted, Typed
  <1>2. e \in Epochs /\ About(e, l)
    BY <1>1 DEF Traces, Accounted, Typed, About
  <1> HIDE DEF q, e
  <1>3. Once(e, sup, pi, stdout, ran)
    BY <1>2 DEF Traces, Accounted
  <1>4. Heard(e, stdout) /\ ~ Gone(e, sup, pi, stdout)
    BY <1>1, <1>2 DEF Heard, Gone
  <1>5. sup.disp[e] \notin Early
    BY <1>3, <1>4 DEF Once
  <1>6. e <= sup.fence.hwm
    <2>1. ~ (e > sup.fence.hwm)
      BY <1>3, <1>5 DEF Once, Early
    <2> QED BY <1>2, <2>1, TracesKnown, SupervisorConstants DEF Epochs, FenceSnapshot
  <1>7. Clean(sup) => LiveIs(sup, e)
    BY <1>2, <1>4, <1>6 DEF Traces, Accounted, Behind
  <1>8. Clean(sup) => sup.disp[e] # "refused"
    BY <1>2, <1>4, <1>7 DEF Traces, Accounted, Ahead
  <1>9. Final(l) => /\ Gone(e, sup, pi, q)
                    /\ l.t = "agent_end" => ran[e] # "no"
    <2> SUFFICES ASSUME Final(l)
                 PROVE  Gone(e, sup, pi, q) /\ (l.t = "agent_end" => ran[e] # "no")
      OBVIOUS
    <2>1. /\ Unheld(e, sup, pi)
          /\ \A j \in 1 .. Len(stdout) : j > 1 => ~ About(e, stdout[j])
          /\ l.t = "agent_end" => ran[e] # "no"
      BY <1>1, <1>2, <1>3 DEF Once
    <2>2. ~ Heard(e, q)
      BY <1>1, <2>1 DEF Heard
    <2> QED BY <2>1, <2>2 DEF Gone
  <1>10. Accounted(sup, pi, q, ran)
    BY TakeKeeps DEF Traces, q
  <1> QED BY <1>2, <1>5, <1>7, <1>8, <1>9, <1>10 DEF q, e

\* The answer of a prompt.
LEMMA TracesAnswer ==
  ASSUME Traces, OnAnswer
  PROVE  Traces'
  <1> DEFINE l == Head(stdout)
             e == l.e
             f == NoteAck(sup.fence, 0)
             b == IF l.k = 1 THEN "acked" ELSE "refused"
             t == [sup EXCEPT !.fence = f, !.disp[e] = b]
             q == Tail(stdout)
  <1>1. /\ stdout # <<>> /\ l.t = "answer" /\ stdout' = q /\ UNCHANGED <<pi, ran>> /\ ~ sup.closed
        /\ \/ sup.disp[e] = "sent" /\ sup' = t
           \/ sup.disp[e] # "sent" /\ l.k # 1 /\ sup' = SettleStart(sup, "failed", "nothing")
           \/ sup' = sup
    BY DEF OnAnswer, Line, Take
  <1>2. l \in Told /\ Traced \subseteq DOMAIN sup /\ "failed" \in Verdicts /\ "failed" # "success"
        /\ sup.disp \in [Epochs -> Stages]
    BY <1>1, TracesKnown, SupervisorConstants
  <1>3. /\ e \in Epochs /\ sup.disp[e] \notin Early
        /\ Clean(sup) => LiveIs(sup, e) /\ sup.disp[e] # "refused"
        /\ Final(l) => Gone(e, sup, pi, q)
        /\ Accounted(sup, pi, q, ran)
    BY <1>1, HeadLine DEF RunLines
  <1> HIDE DEF l, e, f, q
  <1>4. CASE sup.disp[e] = "sent" /\ sup' = t
    <2>1. CASE l.k = 1
      <3>1. DispMoves(sup, sup', e, "acked") /\ sup'.fence = f
        BY <1>2, <1>4, <2>1 DEF DispMoves, Traced, Stages
      <3>2. sup.disp[e] = "sent" /\ "acked" \notin Early
        BY <1>4 DEF Early
      <3>3. Accounted(sup', pi, q, ran)
        <4> HIDE DEF t, b
        <4> QED BY <1>3, <3>1, <3>2, DispTraces DEF f
      <3> QED BY <1>1, <3>3 DEF Traces
    <2>2. CASE l.k # 1
      <3>1. DispMoves(sup, sup', e, "refused") /\ sup'.fence = f
        BY <1>2, <1>4, <2>2 DEF DispMoves, Traced, Stages
      <3>2. Gone(e, sup, pi, q)
        BY <1>1, <1>3, <2>2 DEF Final
      <3>3. sup.disp[e] = "sent" /\ "refused" \notin Early
        BY <1>4 DEF Early
      <3>4. Accounted(sup', pi, q, ran)
        <4> HIDE DEF t, b
        <4> QED BY <1>3, <3>1, <3>2, <3>3, DispTraces DEF f
      <3> QED BY <1>1, <3>4 DEF Traces
    <2> QED BY <2>1, <2>2
  <1>5. CASE sup.disp[e] # "sent" /\ l.k # 1 /\ sup' = SettleStart(sup, "failed", "nothing")
    <2>1. Final(l)
      BY <1>1, <1>5 DEF Final
    <2>2. ASSUME NEW g \in Epochs, LiveIs(sup, g), Clean(sup)
          PROVE  Gone(g, sup, pi, q) /\ sup.disp[g] \in {"acked", "done"}
      <3>1. g = e
        BY <1>3, <2>2 DEF LiveIs
      <3>2. sup.disp[e] # "broken"
        BY <1>1, <1>3 DEF Traces, Accounted, Once
      <3> QED BY <1>2, <1>3, <1>5, <2>1, <2>2, <3>1, <3>2 DEF Stages, Early
    <2>3. Accounted(sup', pi, q, ran)
      BY <1>2, <1>3, <1>5, <2>2, SettleTraces
    <2> QED BY <1>1, <2>3 DEF Traces
  <1>6. CASE sup' = sup
    BY <1>1, <1>3, <1>6 DEF Traces
  <1> QED BY <1>1, <1>4, <1>5, <1>6

\* agent_start: the window of the live epoch opens, once its answer is in.
LEMMA TracesOpens ==
  ASSUME NEW s, NEW p, NEW out, NEW rn, Accounted(s, p, out, rn),
         IsLive(s.fence), s.fence.ack # NoAck,
         Clean(s) => \A e \in Epochs : LiveIs(s, e) => s.disp[e] # "refused",
         NEW t, Traced \subseteq DOMAIN t, t.fence = BindStart(s.fence),
         t.disp = s.disp, t.stdin = s.stdin, t.closed = s.closed, t.shut = s.shut,
         t.settling = s.settling, t.probe = s.probe, ~ t.ended
  PROVE  Accounted(t, p, out, rn)
  <1>1. s.fence \in FenceSnapshot /\ Sound(s.fence)
    BY DEF Accounted, Fenced
  <1>2. Noted(s.fence, t.fence)
    BY <1>1, BindStartStep
  <1>3. /\ t.fence \in FenceSnapshot /\ Sound(t.fence) /\ t.fence.hwm = s.fence.hwm
        /\ \A f : LiveIs(t, f) <=> LiveIs(s, f)
        /\ IsLive(t.fence)
    BY <1>2 DEF Noted, SameLedger, LiveIs
  <1>4. (Plain(t) <=> Plain(s)) /\ (Clean(t) <=> Clean(s))
    BY DEF Plain, Clean
  <1>5. \A f : /\ Unheld(f, t, p) <=> Unheld(f, s, p)
               /\ Sent(f, t) <=> Sent(f, s)
               /\ Gone(f, t, p, out) <=> Gone(f, s, p, out)
               /\ Over(f, t, p, rn) <=> Over(f, s, p, rn)
    BY DEF Unheld, Sent, Gone, Over
  <1>6. Typed(t, p, out, rn)
    BY DEF Accounted, Typed
  <1>7. \A f \in Epochs : Once(f, t, p, out, rn)
    BY <1>3, <1>5 DEF Accounted, Once
  <1>8. Single(t, p)
    BY DEF Accounted, Single
  <1>9. Behind(t, p, out)
    BY <1>3, <1>4, <1>5 DEF Accounted, Behind
  <1>10. Ahead(t, p, out)
    <2> SUFFICES ASSUME Clean(s), NEW f \in Epochs, LiveIs(s, f)
                 PROVE  s.disp[f] \notin Early \cup {"sent", "refused"}
      BY <1>3, <1>4 DEF Ahead
    <2> QED BY DEF Accounted, Ahead
  <1>11. Ending(t, p, out, rn)
    BY DEF Ending
  <1>12. Eligible(t)
    BY <1>3 DEF Accounted, Eligible
  <1>13. Proven(t, p, rn)
    BY <1>5 DEF Accounted, Proven
  <1> QED BY <1>3, <1>6, <1>7, <1>8, <1>9, <1>10, <1>11, <1>12, <1>13 DEF Accounted, Fenced

\* A run starts.
LEMMA TracesAgentStart ==
  ASSUME Traces, OnAgentStart
  PROVE  Traces'
  <1> DEFINE l == Head(stdout)
             q == Tail(stdout)
             t == [sup EXCEPT !.fence = BindStart(sup.fence), !.ended = FALSE, !.tripped = FALSE]
             u == [sup EXCEPT !.ended = FALSE]
  <1>1. /\ stdout # <<>> /\ l.t = "agent_start" /\ stdout' = q /\ UNCHANGED <<pi, ran>>
        /\ \/ /\ IsLive(sup.fence) /\ BindsStart(sup.fence, 1)
              /\ sup' = Persist(Bump(t), Nobody)
           \/ sup' = MaybeProbe(Bump(u))
           \/ sup' = sup
    BY DEF OnAgentStart, Line, Take
  <1>2. Traceable(sup) /\ Traced \subseteq DOMAIN sup
    BY TracesKnown
  <1>3. /\ Clean(sup) => LiveIs(sup, l.e) /\ sup.disp[l.e] # "refused"
        /\ Accounted(sup, pi, q, ran)
    BY <1>1, HeadLine DEF RunLines
  <1> HIDE DEF l, q
  <1>4. CASE IsLive(sup.fence) /\ BindsStart(sup.fence, 1) /\ sup' = Persist(Bump(t), Nobody)
    <2>1. /\ Traced \subseteq DOMAIN t /\ t.fence = BindStart(sup.fence) /\ t.disp = sup.disp
          /\ t.stdin = sup.stdin /\ t.closed = sup.closed /\ t.shut = sup.shut
          /\ t.settling = sup.settling /\ t.probe = sup.probe /\ ~ t.ended
      BY <1>2 DEF Traced
    <2>2. sup.fence.ack # NoAck
      BY <1>4 DEF BindsStart, AttributedLive
    <2>3. Clean(sup) => \A e \in Epochs : LiveIs(sup, e) => sup.disp[e] # "refused"
      BY <1>3 DEF LiveIs
    <2> HIDE DEF t
    <2>4. Accounted(t, pi, q, ran)
      BY <1>3, <1>4, <2>1, <2>2, <2>3, TracesOpens
    <2>5. Traceable(t) /\ Calm(t, Bump(t))
      BY <2>4, AccountedTraceable, BumpLevel, LevelCalm
    <2>6. Calm(Bump(t), sup')
      BY <1>4, <2>5, CalmTraceable, PersistCalm
    <2>7. Accounted(sup', pi, q, ran)
      BY <2>4, <2>5, <2>6, CalmKeeps
    <2> QED BY <1>1, <2>7 DEF Traces
  <1>5. CASE sup' = MaybeProbe(Bump(u))
    <2>1. Level(sup, u)
      BY <1>2 DEF Level, Traceable, Traced
    <2> HIDE DEF u
    <2>2. Calm(sup, u) /\ Traceable(u)
      BY <1>2, <2>1, LevelCalm, CalmTraceable
    <2>3. Calm(u, Bump(u)) /\ Traceable(Bump(u))
      BY <2>2, BumpLevel, LevelCalm, CalmTraceable
    <2>4. Calm(Bump(u), sup')
      BY <1>5, <2>3, MaybeProbeCalm
    <2>5. Accounted(sup', pi, q, ran)
      BY <1>3, <2>2, <2>3, <2>4, CalmKeeps
    <2> QED BY <1>1, <2>5 DEF Traces
  <1>6. CASE sup' = sup
    BY <1>1, <1>3, <1>6 DEF Traces
  <1> QED BY <1>1, <1>4, <1>5, <1>6

\* A turn ends: the run is active, and its prose may trip the detector.
LEMMA TracesTurnEnd ==
  ASSUME Traces, OnTurnEnd
  PROVE  Traces'
  <1> DEFINE s == Bump(sup)
             t == [s EXCEPT !.tripped = TRUE, !.proseEsc = TRUE]
             u == Send(t, AbortCmd)
  <1>1. /\ stdout # <<>> /\ stdout' = Tail(stdout) /\ UNCHANGED <<pi, ran>>
        /\ sup' = MaybeProbe(s) \/ sup' = MaybeProbe(u) \/ sup' = sup
    BY DEF OnTurnEnd, Line, Take
  <1>2. Traceable(sup) /\ Traced \subseteq DOMAIN sup
    BY TracesKnown
  <1>3. Calm(sup, s) /\ Traceable(s)
    BY <1>2, BumpLevel, LevelCalm, CalmTraceable
  <1> HIDE DEF s
  <1>4. Level(s, t)
    BY <1>3 DEF Level, Traceable, Traced
  <1> HIDE DEF t
  <1>5. Calm(s, t) /\ Traceable(t)
    BY <1>3, <1>4, LevelCalm, CalmTraceable
  <1>6. Calm(t, u) /\ Traceable(u)
    BY <1>5, SendCalm, CommandsAsked, CalmTraceable
  <1> HIDE DEF u
  <1>7. Calm(sup, u)
    BY <1>3, <1>5, <1>6, CalmTwice
  <1>8. Calm(sup, MaybeProbe(s)) /\ Calm(sup, MaybeProbe(u))
    BY <1>3, <1>6, <1>7, MaybeProbeCalm, CalmTwice
  <1>9. Calm(sup, sup)
    <2>1. Level(sup, sup)
      BY <1>2 DEF Level, Traceable
    <2> QED BY <1>2, <2>1, LevelCalm
  <1>10. Calm(sup, sup')
    BY <1>1, <1>8, <1>9
  <1> QED BY <1>1, <1>10, TracesCalm

\* agent_end: the live epoch's run is over.
LEMMA TracesEnds ==
  ASSUME NEW s, NEW p, NEW out, NEW rn, Accounted(s, p, out, rn),
         NEW t, Traced \subseteq DOMAIN t, t.fence = s.fence,
         t.disp = s.disp, t.stdin = s.stdin, t.closed = s.closed, t.shut = s.shut,
         t.settling = s.settling, t.probe = s.probe,
         t.ended => /\ IsLive(s.fence)
                    /\ \A e \in Epochs : LiveIs(s, e) /\ Plain(s) =>
                          Over(e, s, p, rn) /\ ~ Heard(e, out)
  PROVE  Accounted(t, p, out, rn)
  <1>1. /\ \A f : LiveIs(t, f) <=> LiveIs(s, f)
        /\ (Plain(t) <=> Plain(s)) /\ (Clean(t) <=> Clean(s))
    BY DEF Plain, Clean, LiveIs
  <1>2. \A f : /\ Unheld(f, t, p) <=> Unheld(f, s, p)
               /\ Sent(f, t) <=> Sent(f, s)
               /\ Gone(f, t, p, out) <=> Gone(f, s, p, out)
               /\ Over(f, t, p, rn) <=> Over(f, s, p, rn)
    BY DEF Unheld, Sent, Gone, Over
  <1>3. Typed(t, p, out, rn)
    BY DEF Accounted, Typed
  <1>4. \A f \in Epochs : Once(f, t, p, out, rn)
    BY <1>2 DEF Accounted, Once
  <1>5. Single(t, p)
    BY DEF Accounted, Single
  <1>6. Behind(t, p, out) /\ Ahead(t, p, out)
    BY <1>1, <1>2 DEF Accounted, Behind, Ahead
  <1>7. Ending(t, p, out, rn)
    BY <1>1, <1>2 DEF Ending, Clean
  <1>8. Eligible(t)
    BY <1>1 DEF Accounted, Eligible
  <1>9. Proven(t, p, rn)
    BY <1>2 DEF Accounted, Proven
  <1> QED BY <1>3, <1>4, <1>5, <1>6, <1>7, <1>8, <1>9 DEF Accounted, Fenced

LEMMA TracesAgentEnd ==
  ASSUME Traces, OnAgentEnd
  PROVE  Traces'
  <1> DEFINE l == Head(stdout)
             q == Tail(stdout)
             t == [sup EXCEPT !.ended = (l.k = 0)]
  <1>1. /\ stdout # <<>> /\ l.t = "agent_end" /\ stdout' = q /\ UNCHANGED <<pi, ran>>
        /\ ~ sup.closed
        /\ \/ WindowOpen(sup.fence) /\ sup' = MaybeProbe(Bump(t))
           \/ sup' = sup
    BY DEF OnAgentEnd, Line, Take
  <1>2. /\ Traceable(sup) /\ Traced \subseteq DOMAIN sup /\ sup.disp \in [Epochs -> Stages]
    BY <1>1, TracesKnown
  <1>3. /\ l.e \in Epochs /\ sup.disp[l.e] \notin Early
        /\ Clean(sup) => LiveIs(sup, l.e) /\ sup.disp[l.e] # "refused"
        /\ Final(l) => Gone(l.e, sup, pi, q) /\ ran[l.e] # "no"
        /\ Accounted(sup, pi, q, ran)
    BY <1>1, HeadLine DEF RunLines
  <1>4. /\ Traced \subseteq DOMAIN t /\ t.fence = sup.fence /\ t.disp = sup.disp
        /\ t.stdin = sup.stdin /\ t.closed = sup.closed /\ t.shut = sup.shut
        /\ t.settling = sup.settling /\ t.probe = sup.probe
        /\ t.ended => l.k = 0
    BY <1>2 DEF Traced
  <1> HIDE DEF l, q, t
  <1>5. CASE WindowOpen(sup.fence) /\ sup' = MaybeProbe(Bump(t))
    <2>1. ASSUME t.ended, NEW e \in Epochs, LiveIs(sup, e), Plain(sup)
          PROVE  Over(e, sup, pi, ran) /\ ~ Heard(e, q)
      <3>1. Final(l) /\ Clean(sup)
        BY <1>1, <1>4, <2>1 DEF Final, Clean
      <3>2. e = l.e /\ sup.fence.live.started
        BY <1>3, <1>5, <2>1, <3>1 DEF LiveIs, WindowOpen
      <3>3. sup.disp[e] # "sent"
        BY <2>1, <3>1, <3>2 DEF Traces, Accounted, Ahead
      <3>4. sup.disp[e] # "broken"
        BY <1>1 DEF Traces, Accounted, Once
      <3>5. sup.disp[e] \in {"acked", "done"}
        BY <1>2, <1>3, <3>1, <3>2, <3>3, <3>4 DEF Stages, Early
      <3> QED BY <1>3, <3>1, <3>2, <3>5 DEF Over, Gone
    <2>2. Accounted(t, pi, q, ran)
      BY <1>3, <1>4, <1>5, <2>1, TracesEnds DEF WindowOpen
    <2>3. Calm(t, Bump(t)) /\ Traceable(Bump(t))
      BY <2>2, AccountedTraceable, BumpLevel, LevelCalm, CalmTraceable
    <2>4. Calm(Bump(t), sup')
      BY <1>5, <2>3, MaybeProbeCalm
    <2>5. Accounted(sup', pi, q, ran)
      BY <2>2, <2>3, <2>4, CalmKeeps
    <2> QED BY <1>1, <2>5 DEF Traces
  <1>6. CASE sup' = sup
    BY <1>1, <1>3, <1>6 DEF Traces
  <1> QED BY <1>1, <1>5, <1>6

\* Only the probes change, and none becomes fresh.
LEMMA ProbeLevel ==
  ASSUME NEW s, Traceable(s), NEW w \in [Probes -> ProbeState],
         \A q \in Probes : w[q].fresh => s.probe[q].fresh
  PROVE  LET t == [s EXCEPT !.probe = w] IN Level(s, t) /\ Calm(s, t)
  <1>1. Level(s, [s EXCEPT !.probe = w])
    BY DEF Level, Traceable, Traced
  <1> QED BY <1>1, LevelCalm

\* get_state answers: a probe goes on.
LEMMA TracesState ==
  ASSUME Traces, OnState
  PROVE  Traces'
  <1> DEFINE r == Head(stdout)
             p == r.e
             z == IF sup.probe[p].first = r.quiet THEN sup.probe[p].first ELSE None
             a == [sup.probe EXCEPT ![p].pc = "second", ![p].first = r.quiet]
             b == [sup.probe EXCEPT ![p].pc = "answered", ![p].first = z]
             d == [sup.probe EXCEPT ![p] = NoProbe]
             t == [sup EXCEPT !.boot = FALSE, !.phase = "idle"]
             c == Cmd("get_state", p, 2)
  <1>1. /\ stdout # <<>> /\ stdout' = Tail(stdout) /\ UNCHANGED <<pi, ran>>
        /\ \/ sup' = sup
           \/ sup' = t
           \/ sup' = Send([sup EXCEPT !.probe = a], c)
           \/ sup' = [sup EXCEPT !.probe = d]
           \/ sup' = [sup EXCEPT !.probe = b]
    <2> DEFINE A == [sup EXCEPT !.probe[p].pc = "second", !.probe[p].first = r.quiet]
               B == [sup EXCEPT !.probe[p].pc = "answered",
                                !.probe[p].first = IF @ = r.quiet THEN @ ELSE None]
    <2>1. stdout # <<>> /\ stdout' = Tail(stdout) /\ UNCHANGED <<pi, ran>>
      BY DEF OnState, Line, Take
    <2>2. \/ sup' = sup \/ sup' = t \/ sup' = Send(A, c)
          \/ sup' = [sup EXCEPT !.probe[p] = NoProbe] \/ sup' = B
      BY DEF OnState
    <2>3. A = [sup EXCEPT !.probe = a]
      BY TracesKnown DEF Traced
    <2>4. B = [sup EXCEPT !.probe = b]
      BY TracesKnown DEF Traced
    <2>5. [sup EXCEPT !.probe[p] = NoProbe] = [sup EXCEPT !.probe = d]
      OBVIOUS
    <2> HIDE DEF A, B, a, b, d, t, c, r, p
    <2> QED BY <2>1, <2>2, <2>3, <2>4, <2>5
  <1>2. Traceable(sup) /\ Traced \subseteq DOMAIN sup /\ sup.probe \in [Probes -> ProbeState]
        /\ r \in Told
    BY <1>1, TracesKnown
  <1>3. r.quiet \in Quiet /\ None \in Quiet /\ c \in Asked /\ c.t # "prompt"
    BY <1>2, CommandsAsked DEF Told, Quiet
  <1> HIDE DEF r, p, c
  <1>4. /\ a \in [Probes -> ProbeState] /\ \A q \in Probes : a[q].fresh => sup.probe[q].fresh
    BY <1>2, <1>3 DEF ProbeState
  <1>5. /\ b \in [Probes -> ProbeState] /\ \A q \in Probes : b[q].fresh => sup.probe[q].fresh
    <2>1. p \in Probes => z \in Quiet
      BY <1>2, <1>3 DEF ProbeState
    <2> HIDE DEF z
    <2>2. p \in Probes => LET x == [sup.probe[p] EXCEPT !.pc = "answered", !.first = z] IN
                              x \in ProbeState /\ x.fresh = sup.probe[p].fresh
      BY <1>2, <2>1 DEF ProbeState
    <2>3. b = [sup.probe EXCEPT ![p] = [sup.probe[p] EXCEPT !.pc = "answered", !.first = z]]
      BY <1>2
    <2> QED BY <1>2, <2>2, <2>3
  <1>6. /\ d \in [Probes -> ProbeState] /\ \A q \in Probes : d[q].fresh => sup.probe[q].fresh
    BY <1>2, <1>3 DEF ProbeState, NoProbe
  <1>7. Level(sup, sup) /\ Level(sup, t)
    BY <1>2 DEF Level, Traceable, Traced
  <1> HIDE DEF a, b, d, t
  <1>8. /\ Calm(sup, [sup EXCEPT !.probe = a]) /\ Calm(sup, [sup EXCEPT !.probe = b])
        /\ Calm(sup, [sup EXCEPT !.probe = d]) /\ Calm(sup, sup) /\ Calm(sup, t)
    BY <1>2, <1>4, <1>5, <1>6, <1>7, ProbeLevel, LevelCalm
  <1>9. Calm(sup, Send([sup EXCEPT !.probe = a], c))
    BY <1>3, <1>8, CalmTraceable, SendCalm, CalmTwice
  <1>10. Calm(sup, sup')
    BY <1>1, <1>8, <1>9
  <1> QED BY <1>1, <1>10, TracesCalm

\* The client closes, on a line that is no JSON or at the end of the stream.
LEMMA TracesCloses ==
  ASSUME Traces, OnGarbage \/ OnEof
  PROVE  Traces'
  <1> DEFINE t == CloseClient(sup)
             u == [t EXCEPT !.killed = TRUE]
  <1>1. /\ UNCHANGED <<pi, ran>>
        /\ stdout' = stdout \/ (stdout # <<>> /\ stdout' = Tail(stdout))
        /\ sup' = t \/ sup' = u
    BY DEF OnGarbage, OnEof, Line, Take
  <1>2. Accounted(sup, pi, stdout', ran)
    BY <1>1, TakeKeeps DEF Traces
  <1>3. Accounted(t, pi, stdout', ran) /\ Traceable(t)
    BY <1>2, CloseTraces, AccountedTraceable
  <1> HIDE DEF t
  <1>4. Level(t, u)
    BY <1>3 DEF Level, Traceable, Traced
  <1> HIDE DEF u
  <1>5. Accounted(u, pi, stdout', ran)
    BY <1>3, <1>4, LevelCalm, CalmKeeps
  <1> QED BY <1>1, <1>3, <1>5 DEF Traces

\* An epoch that is escalated is settled before its run is over.
LEMMA TracesEscalates ==
  ASSUME Traces, AbortEscalates \/ ProseEscalates
  PROVE  Traces'
  <1> DEFINE a == [sup EXCEPT !.abortEsc = "no"]
             b == [sup EXCEPT !.proseEsc = FALSE]
  <1>1. /\ UNCHANGED <<pi, ran, stdout>>
        /\ \/ sup' = SettleStart(a, "timed_out", "kill")
           \/ sup' = SettleStart(b, "failed", "kill")
    BY DEF AbortEscalates, ProseEscalates
  <1>2. /\ Traceable(sup) /\ Traced \subseteq DOMAIN sup
        /\ {"timed_out", "failed"} \subseteq Verdicts
    BY TracesKnown, SupervisorConstants
  <1>3. Level(sup, a) /\ Level(sup, b)
    BY <1>2 DEF Level, Traceable, Traced
  <1> HIDE DEF a, b
  <1>4. Accounted(a, pi, stdout, ran) /\ Accounted(b, pi, stdout, ran)
    BY <1>2, <1>3, LevelCalm, CalmKeeps DEF Traces
  <1>5. /\ Accounted(SettleStart(a, "timed_out", "kill"), pi, stdout, ran)
        /\ Accounted(SettleStart(b, "failed", "kill"), pi, stdout, ran)
    BY <1>2, <1>4, SettleTraces
  <1> QED BY <1>1, <1>5 DEF Traces

\* The grace of a shutdown is over.
LEMMA TracesGrace ==
  ASSUME Traces, ShutdownGrace
  PROVE  Traces'
  <1> DEFINE a == [sup EXCEPT !.shut = "settling"]
             b == [sup EXCEPT !.shut = "closing"]
  <1>1. /\ UNCHANGED <<pi, ran, stdout>>
        /\ sup' = SettleStart(a, "aborted", "close") \/ sup' = b
    BY DEF ShutdownGrace
  <1>2. /\ Traceable(sup) /\ Traced \subseteq DOMAIN sup /\ "aborted" \in Verdicts
    BY TracesKnown, SupervisorConstants
  <1>3. Level(sup, a) /\ Level(sup, b) /\ a.shut # "no"
    BY <1>2 DEF Level, Traceable, Traced
  <1> HIDE DEF a, b
  <1>4. Accounted(a, pi, stdout, ran) /\ Accounted(b, pi, stdout, ran)
    BY <1>2, <1>3, LevelCalm, CalmKeeps DEF Traces
  <1>5. Accounted(SettleStart(a, "aborted", "close"), pi, stdout, ran)
    BY <1>2, <1>3, <1>4, SettleTraces
  <1> QED BY <1>1, <1>4, <1>5 DEF Traces

\* The child exits: what it said and was not read is lost.
LEMMA TracesExit ==
  ASSUME Traces, ChildExit
  PROVE  Traces'
  <1> DEFINE c == CloseClient(sup)
             s == [c EXCEPT !.phase = "dead",
                            !.exit = IF IsLive(sup.fence) THEN "settling" ELSE "flushing"]
             t == SettleStart(s, "failed", "exit")
  <1>1. UNCHANGED <<pi, ran>> /\ stdout' = <<>> /\ sup' = t /\ "failed" \in Verdicts
    BY SupervisorConstants DEF ChildExit
  <1>2. Accounted(c, pi, stdout, ran) /\ Traceable(c) /\ c.closed
    BY CloseTraces, AccountedTraceable DEF Traces
  <1> HIDE DEF c
  <1>3. Level(c, s) /\ s.closed
    BY <1>2 DEF Level, Traceable, Traced
  <1> HIDE DEF s
  <1>4. Accounted(s, pi, stdout, ran)
    BY <1>2, <1>3, LevelCalm, CalmKeeps
  <1>5. Accounted(t, pi, stdout, ran)
    BY <1>1, <1>3, <1>4, SettleTraces
  <1> HIDE DEF t
  <1>6. Typed(t, pi, <<>>, ran) /\ Single(t, pi) /\ Alike(t, t)
    BY <1>5 DEF Accounted, Typed, Alike
  <1>7. Accounted(t, pi, <<>>, ran)
    BY <1>5, <1>6, PiQuiets
  <1> QED BY <1>1, <1>7 DEF Traces

\* Both answers of a probe are in.
LEMMA TracesDecides ==
  ASSUME Traces, NEW p \in Probes, ProbeDecides(p)
  PROVE  Traces'
  <1> DEFINE w == [sup.probe EXCEPT ![p] = NoProbe]
             s == [sup EXCEPT !.probe = w]
             u == [s EXCEPT !.probing = FALSE, !.reprobe = TRUE]
  <1>1. /\ UNCHANGED <<pi, ran, stdout>>
        /\ \/ /\ sup.probe[p].fresh /\ sup.ended
              /\ \E v \in {"success", "failed", "timed_out", "aborted"} :
                    sup' = SettleStart(s, v, "nothing")
           \/ sup' = u
    <2>1. [sup EXCEPT !.probe[p] = NoProbe] = s
      OBVIOUS
    <2> HIDE DEF s
    <2> QED BY <2>1 DEF ProbeDecides, Confirms
  <1>2. /\ Traceable(sup) /\ Traced \subseteq DOMAIN sup
        /\ sup.probe \in [Probes -> ProbeState]
        /\ sup.fence \in FenceSnapshot /\ Sound(sup.fence)
    BY TracesKnown
  <1>3. w \in [Probes -> ProbeState] /\ \A q \in Probes : w[q].fresh => sup.probe[q].fresh
    BY <1>2 DEF NoProbe, ProbeState, Quiet
  <1> HIDE DEF w
  <1>4. /\ Calm(sup, s)
        /\ s.fence = sup.fence /\ s.settling = sup.settling /\ s.closed = sup.closed
        /\ s.disp = sup.disp /\ s.stdin = sup.stdin
    BY <1>2, <1>3, ProbeLevel DEF Traced
  <1> HIDE DEF s
  <1>5. Accounted(s, pi, stdout, ran) /\ Traceable(s)
    BY <1>4, CalmKeeps, AccountedTraceable DEF Traces
  <1>6. Level(s, u)
    BY <1>5 DEF Level, Traceable, Traced
  <1> HIDE DEF u
  <1>7. Accounted(u, pi, stdout, ran)
    BY <1>5, <1>6, LevelCalm, CalmKeeps
  <1>8. ASSUME sup.probe[p].fresh, sup.ended, NEW e \in Epochs, LiveIs(s, e)
        PROVE  /\ Clean(s) => Gone(e, s, pi, stdout) /\ s.disp[e] \in {"acked", "done"}
               /\ (\A f \in 1 .. (e - 1) : s.settling[f].then # "kill") => Over(e, s, pi, ran)
    <2>1. LiveIs(sup, e)
      BY <1>4, <1>8 DEF LiveIs
    <2>2. /\ Plain(sup) => Over(e, sup, pi, ran)
          /\ Clean(sup) => ~ Heard(e, stdout)
      BY <1>8, <2>1 DEF Traces, Accounted, Ending
    <2>3. Over(e, sup, pi, ran) => Over(e, s, pi, ran)
      BY <1>4 DEF Over, Unheld, Sent
    <2>4. (Plain(sup) <=> Plain(s)) /\ (Clean(sup) <=> Clean(s))
      BY <1>4 DEF Plain, Clean
    <2>5. ASSUME \A f \in 1 .. (e - 1) : s.settling[f].then # "kill"
          PROVE  Plain(sup)
      <3> SUFFICES ASSUME NEW f \in Epochs, sup.settling[f].pc # "no"
                   PROVE  sup.settling[f].then = "nothing"
        BY DEF Plain
      <3>1. f <= sup.fence.hwm /\ ~ LiveIs(sup, f)
            /\ sup.settling[f].then \in {"nothing", "kill"}
        BY <1>8 DEF Traces, Accounted, Eligible
      <3>2. e = sup.fence.hwm /\ f # e
        BY <1>2, <2>1, <3>1 DEF LiveIs, Sound
      <3>3. f \in 1 .. (e - 1)
        BY <3>1, <3>2, SupervisorConstants DEF Epochs
      <3> QED BY <1>4, <2>5, <3>1, <3>3
    <2> QED BY <2>2, <2>3, <2>4, <2>5 DEF Clean, Over, Gone
  <1>9. ASSUME sup.probe[p].fresh, sup.ended,
               NEW v \in {"success", "failed", "timed_out", "aborted"}
        PROVE  Accounted(SettleStart(s, v, "nothing"), pi, stdout, ran)
    <2>1. v \in Verdicts
      BY SupervisorConstants
    <2> QED BY <1>5, <1>8, <1>9, <2>1, SettleTraces
  <1> QED BY <1>1, <1>7, <1>9 DEF Traces

-----------------------------------------------------------------------------
(* A process that starts knows of no prompt, and its Pi holds none.        *)

Restarted(s) ==
    /\ Traced \subseteq DOMAIN s /\ Fenced(s) /\ ~ IsLive(s.fence)
    /\ s.disp = [e \in Epochs |-> "no"] /\ ~ s.closed /\ ~ s.ended
    /\ s.stdin \in Seq(Asked) /\ \A i \in 1 .. Len(s.stdin) : s.stdin[i].t # "prompt"
    /\ s.settling \in [Epochs -> Settlement]
    /\ \A f \in Epochs : s.settling[f].pc # "no" =>
          /\ f <= s.fence.hwm /\ s.settling[f].then = "nothing"
          /\ s.settling[f].verdict # "success"
    /\ s.probe \in [Probes -> ProbeState] /\ \A q \in Probes : ~ s.probe[q].fresh

LEMMA FreshChild ==
  ASSUME NEW p \in {FreshPi, [FreshPi EXCEPT !.alive = FALSE]}
  PROVE  p \in Child /\ p.run = 0 /\ p.queue = <<>>
  <1> DEFINE q == <<>>
  <1>1. q \in Seq(Epochs)
    OBVIOUS
  <1>2. 0 \in 0 .. MaxEpoch /\ 0 \in Nat
    BY SupervisorConstants
  <1> HIDE DEF q
  <1>3. FreshPi = [alive |-> TRUE, run |-> 0, cut |-> FALSE, queue |-> q, runs |-> 0]
    BY DEF FreshPi, q
  <1>4. \E b \in BOOLEAN : p = [alive |-> b, run |-> 0, cut |-> FALSE, queue |-> q, runs |-> 0]
    BY <1>3
  <1>5. PICK b \in BOOLEAN : p = [alive |-> b, run |-> 0, cut |-> FALSE, queue |-> q, runs |-> 0]
    BY <1>4
  <1>6. p \in Child
    BY <1>1, <1>2, <1>5 DEF Child
  <1>7. p.run = 0 /\ p.queue = q
    BY <1>5
  <1> QED BY <1>6, <1>7 DEF q

LEMMA RestartTraces ==
  ASSUME NEW s, Restarted(s), NEW rn \in [Epochs -> {"no", "cut", "full"}],
         NEW p \in Child, p.run = 0, p.queue = <<>>
  PROVE  Accounted(s, p, <<>>, rn)
  <1>1. Len(p.queue) = 0
    OBVIOUS
  <1>2. \A e \in Epochs : e # 0
    BY SupervisorConstants DEF Epochs
  <1>3. s.disp \in [Epochs -> Stages] /\ \A e \in Epochs : s.disp[e] = "no"
    BY DEF Restarted, Stages
  <1>4. \A e \in Epochs : Unheld(e, s, p) /\ Gone(e, s, p, <<>>)
    BY <1>1, <1>2 DEF Restarted, Unheld, Gone, Sent, Prompts, Held, Heard
  <1>5. Typed(s, p, <<>>, rn)
    BY <1>1, <1>3 DEF Restarted, Typed
  <1>6. \A e \in Epochs : Once(e, s, p, <<>>, rn)
    BY <1>3, <1>4 DEF Once, Unheld
  <1>7. Single(s, p)
    BY <1>1 DEF Restarted, Single, Prompts
  <1>8. Behind(s, p, <<>>) /\ Ahead(s, p, <<>>) /\ Ending(s, p, <<>>, rn)
    BY <1>3, <1>4 DEF Restarted, Behind, Ahead, Ending, LiveIs
  <1>9. Eligible(s) /\ Proven(s, p, rn)
    BY DEF Restarted, Eligible, Proven, LiveIs
  <1> QED BY <1>5, <1>6, <1>7, <1>8, <1>9 DEF Accounted, Restarted

LEMMA BootedTraceable ==
  ASSUME NEW d \in FenceSnapshot, Sound(d)
  PROVE  LET s == Booted(d) IN
         /\ Traceable(s) /\ s.fence = d /\ s.shut = "no"
         /\ s.disp = [e \in Epochs |-> "no"] /\ s.closed = FALSE /\ s.ended = FALSE
         /\ \A i \in 1 .. Len(s.stdin) : s.stdin[i].t # "prompt"
         /\ \A f \in Epochs : s.settling[f].pc = "no"
         /\ \A q \in Probes : ~ s.probe[q].fresh
  <1> DEFINE s == Booted(d)
             c == [t |-> "get_state", e |-> BootProbe, k |-> 1]
  <1>1. /\ Traced \subseteq DOMAIN s /\ s.fence = d /\ s.shut = "no"
        /\ s.disp = [e \in Epochs |-> "no"] /\ s.closed = FALSE /\ s.ended = FALSE
        /\ s.settling = [e \in Epochs |-> NoSettle] /\ s.probe = [q \in Probes |-> NoProbe]
        /\ s.stdin = <<c>>
    BY DEF Booted, Traced
  <1> HIDE DEF s
  <1>2. NoSettle \in Settlement /\ NoSettle.pc = "no"
    BY SupervisorConstants DEF NoSettle, Settlement
  <1>3. NoProbe \in ProbeState /\ ~ NoProbe.fresh
    BY DEF NoProbe, ProbeState, Quiet
  <1>4. c \in Asked /\ c.t # "prompt"
    BY DEF BootProbe, Asked
  <1> HIDE DEF c
  <1>5. s.settling \in [Epochs -> Settlement] /\ \A f \in Epochs : s.settling[f].pc = "no"
    BY <1>1, <1>2
  <1>6. s.probe \in [Probes -> ProbeState] /\ \A q \in Probes : ~ s.probe[q].fresh
    BY <1>1, <1>3
  <1>7. s.stdin \in Seq(Asked) /\ \A i \in 1 .. Len(s.stdin) : s.stdin[i].t # "prompt"
    BY <1>1, <1>4
  <1> QED BY <1>1, <1>5, <1>6, <1>7 DEF Traceable, Fenced, s

\* A crash loses the memory and the child.
LEMMA TracesCrash ==
  ASSUME Traces, Crash
  PROVE  Traces'
  <1> DEFINE s == Booted(EmptyFence)
             t == [s EXCEPT !.proc = "down", !.stdin = <<>>]
  <1>1. /\ sup' = t /\ pi' = [FreshPi EXCEPT !.alive = FALSE] /\ stdout' = <<>> /\ ran' = ran
    BY DEF Crash
  <1>2. /\ Traceable(s) /\ s.fence = EmptyFence
        /\ s.disp = [e \in Epochs |-> "no"] /\ s.closed = FALSE /\ s.ended = FALSE
        /\ \A f \in Epochs : s.settling[f].pc = "no"
        /\ \A q \in Probes : ~ s.probe[q].fresh
    BY EmptySound, BootedTraceable
  <1> HIDE DEF s
  <1>3. /\ Traced \subseteq DOMAIN t /\ t.fence = s.fence /\ t.disp = s.disp
        /\ t.closed = s.closed /\ t.ended = s.ended /\ t.settling = s.settling
        /\ t.probe = s.probe /\ t.stdin = <<>>
    BY <1>2 DEF Traceable, Traced
  <1> HIDE DEF t
  <1>4. ~ IsLive(EmptyFence)
    BY DEF EmptyFence, IsLive
  <1>5. Restarted(t)
    BY <1>2, <1>3, <1>4 DEF Restarted, Traceable, Fenced
  <1> QED BY <1>1, <1>5, FreshChild, RestartTraces DEF Traces, Accounted, Typed

\* A relaunch settles what it finds live before it serves anybody.
LEMMA TracesRelaunch ==
  ASSUME Traces, Relaunch, disk \in FenceSnapshot, Sound(disk)
  PROVE  Traces'
  <1> DEFINE s == Booted(disk)
             g == SettleStart(s, "failed", "nothing")
             t == [g EXCEPT !.proc = "recovering"]
  <1>1. /\ pi' = FreshPi /\ stdout' = <<>> /\ ran' = ran /\ "failed" \in Verdicts
        /\ \/ ~ IsLive(disk) /\ sup' = s
           \/ IsLive(disk) /\ sup' = t
    BY SupervisorConstants DEF Relaunch, Recovered
  <1>2. /\ Traceable(s) /\ s.fence = disk
        /\ s.disp = [e \in Epochs |-> "no"] /\ s.closed = FALSE /\ s.ended = FALSE
        /\ \A i \in 1 .. Len(s.stdin) : s.stdin[i].t # "prompt"
        /\ \A f \in Epochs : s.settling[f].pc = "no"
        /\ \A q \in Probes : ~ s.probe[q].fresh
    BY BootedTraceable
  <1> HIDE DEF s
  <1>3. ASSUME ~ IsLive(disk), sup' = s
        PROVE  Restarted(sup')
    BY <1>2, <1>3 DEF Restarted, Traceable
  <1>4. ASSUME IsLive(disk), sup' = t
        PROVE  Restarted(sup')
    <2> DEFINE e == disk.live.epoch
               a == [pc |-> "fence", verdict |-> "failed", then |-> "nothing"]
    <2>1. /\ Traced \subseteq DOMAIN g
          /\ g.fence = Settle(disk, "failed") /\ g.settling = [s.settling EXCEPT ![e] = a]
          /\ g.disp = s.disp /\ g.stdin = s.stdin /\ g.closed = s.closed
          /\ ~ g.ended /\ g.probe \in [Probes -> ProbeState]
          /\ \A q \in Probes : ~ g.probe[q].fresh
      BY <1>2, <1>4, SettleTraced
    <2> HIDE DEF g
    <2>2. /\ Step(disk, g.fence) /\ ~ IsLive(g.fence)
          /\ e = disk.hwm /\ disk.hwm \in Epochs
      BY <1>1, <1>4, <2>1, SettleStep
    <2>3. g.fence.hwm = e /\ g.fence \in FenceSnapshot /\ Sound(g.fence) /\ e <= e
      BY <1>4, <2>2, SupervisorConstants DEF Step, Follows, SameLedger, Issued, Closed, Epochs
    <2>4. a \in Settlement /\ a.then = "nothing" /\ a.verdict # "success"
      BY <1>1 DEF Settlement
    <2> HIDE DEF e, a
    <2>5. /\ g.settling \in [Epochs -> Settlement]
          /\ \A f \in Epochs : g.settling[f].pc # "no" =>
                f <= e /\ g.settling[f].then = "nothing" /\ g.settling[f].verdict # "success"
      BY <1>2, <2>1, <2>2, <2>3, <2>4 DEF Traceable
    <2>6. /\ Traced \subseteq DOMAIN t /\ t.fence = g.fence /\ t.disp = g.disp
          /\ t.closed = g.closed /\ t.ended = g.ended /\ t.settling = g.settling
          /\ t.probe = g.probe /\ t.stdin = g.stdin
      BY <2>1 DEF Traced
    <2> HIDE DEF t
    <2>7. Restarted(t)
      BY <1>2, <2>1, <2>2, <2>3, <2>5, <2>6 DEF Restarted, Traceable, Fenced
    <2> QED BY <1>4, <2>7
  <1>5. Restarted(sup')
    BY <1>1, <1>3, <1>4
  <1>6. Accounted(sup', FreshPi, <<>>, ran)
    BY <1>5, FreshChild, RestartTraces DEF Traces, Accounted, Typed
  <1> QED BY <1>1, <1>6 DEF Traces

LEMMA InitTraces == Init => Traces
  <1> SUFFICES ASSUME Init PROVE Traces
    OBVIOUS
  <1> DEFINE s == Booted(EmptyFence)
  <1>1. sup = s /\ pi = FreshPi /\ stdout = <<>> /\ ran = [e \in Epochs |-> "no"]
    BY DEF Init
  <1>2. /\ Traceable(s) /\ s.fence = EmptyFence
        /\ s.disp = [e \in Epochs |-> "no"] /\ s.closed = FALSE /\ s.ended = FALSE
        /\ \A i \in 1 .. Len(s.stdin) : s.stdin[i].t # "prompt"
        /\ \A f \in Epochs : s.settling[f].pc = "no"
        /\ \A q \in Probes : ~ s.probe[q].fresh
    BY EmptySound, BootedTraceable
  <1> HIDE DEF s
  <1>3. ~ IsLive(EmptyFence)
    BY DEF EmptyFence, IsLive
  <1>4. Restarted(s)
    BY <1>2, <1>3 DEF Restarted, Traceable
  <1>5. Accounted(s, FreshPi, <<>>, [e \in Epochs |-> "no"])
    BY <1>4, FreshChild, RestartTraces
  <1> QED BY <1>1, <1>5 DEF Traces

LEMMA NextTraces ==
  ASSUME Traces, IInv, Next
  PROVE  Traces'
  <1>1. CASE \E k \in Keys : Dispatch(k)
    BY <1>1, TracesDispatch
  <1>2. CASE \E e \in Epochs : \/ DispatchPolicy(e) \/ DispatchArm(e) \/ DispatchSend(e)
                               \/ DispatchResume(e) \/ DispatchTimeout(e)
    BY <1>2, TracesMoves, TracesSend, TracesResume
  <1>3. CASE \E e \in Epochs : \/ \E v \in Verdicts : SettleRecord(e, v)
                               \/ SettleFinish(e) \/ Recover(e)
    BY <1>3, TracesSettling
  <1>4. CASE AbortRequest \/ AbortSend \/ Shutdown \/ Deadline
    BY <1>4, TracesAborts
  <1>5. CASE ShutdownGrace \/ AbortEscalates \/ ProseEscalates
    BY <1>5, TracesGrace, TracesEscalates
  <1>6. CASE OnAnswer \/ OnAgentStart \/ OnTurnEnd \/ OnAgentEnd \/ OnState
    BY <1>6, TracesAnswer, TracesAgentStart, TracesTurnEnd, TracesAgentEnd, TracesState
  <1>7. CASE OnGarbage \/ OnEof \/ ChildExit
    BY <1>7, TracesCloses, TracesExit
  <1>8. CASE \E p \in Probes : ProbeDecides(p)
    BY <1>8, TracesDecides
  <1>9. CASE (\E p \in Probes : ProbeTimeout(p)) \/ Reprobe \/ BootTimeout \/ ExitFlushed \/ WriteLands
    BY <1>9, TracesProbes
  <1>10. CASE Crash
    BY <1>10, TracesCrash
  <1>11. CASE Relaunch
    BY <1>11, TracesRelaunch DEF IInv
  <1>12. CASE PiPrompt \/ PiStart \/ PiEnd \/ PiProse
    BY <1>12, TracesPiPrompt, TracesPiStart, TracesPiEnd, TracesPiProse
  <1>13. CASE PiAbort \/ PiState \/ PiDies \/ PiGarbage
    BY <1>13, TracesPiAside
  <1> QED BY <1>1, <1>2, <1>3, <1>4, <1>5, <1>6, <1>7, <1>8, <1>9, <1>10, <1>11, <1>12, <1>13
          DEF Next, Handlers, Stream, Timers, Process, Pi

\* Where Pi's lines come from: each epoch's prompt is sent once and run once,
\* nothing is heard of it after its last line, and while no epoch was ended by
\* an escalation, an exit or a shutdown what Pi holds is the live epoch's.
THEOREM LinesAreTraced == Spec => []Traces
  <1>1. Traces /\ IInv /\ [Next]_vars => Traces'
    <2>1. ASSUME Traces, UNCHANGED vars PROVE Traces'
      BY <2>1 DEF vars, Traces
    <2> QED BY <2>1, NextTraces
  <1> QED BY InitTraces, <1>1, Inductive, PTL DEF Spec

\* A task is settled "success" only after Pi's run of its own epoch ended and
\* while Pi neither runs nor holds its prompt, unless an earlier epoch was
\* escalated: maybeProbe's double get_state, for any budget of late answers,
\* retries, prose, aborts, deadlines, deaths, crashes and relaunches.
THEOREM SuccessIsQuiesced == Spec => []SuccessQuiesced
  <1>1. Traces => SuccessQuiesced
    <2> SUFFICES ASSUME Traces, NEW e \in Epochs, Succeeded(e),
                        \A f \in 1 .. (e - 1) : sup.settling[f].then # "kill"
                 PROVE  RanToItsEnd(e)
      BY DEF SuccessQuiesced
    <2>1. Over(e, sup, pi, ran)
      BY DEF Traces, Accounted, Proven, Succeeded
    <2>2. DOMAIN pi.queue = 1 .. Len(pi.queue)
      BY DEF Traces, Accounted, Typed, Child
    <2> QED BY <2>1, <2>2 DEF RanToItsEnd, Over, Unheld, Held, Range
  <1> QED BY <1>1, LinesAreTraced, PTL

\* While no epoch was ended by an escalation, an exit or a shutdown, whatever
\* Pi holds or says about a run is the live epoch's: what EpochManager's
\* attribution by the sequence number of the ack stands for.
Attributed ==
    Clean(sup) => \A e \in Epochs :
        Sent(e, sup) \/ Held(e, pi) \/ Heard(e, stdout) => LiveIs(sup, e)
THEOREM LinesAreTheLiveEpochs == Spec => []Attributed
  <1>1. Traces => Attributed
    <2> SUFFICES ASSUME Traces, Clean(sup), NEW e \in Epochs,
                        Sent(e, sup) \/ Held(e, pi) \/ Heard(e, stdout)
                 PROVE  LiveIs(sup, e)
      BY DEF Attributed
    <2>1. ~ Gone(e, sup, pi, stdout)
      BY DEF Gone, Unheld
    <2>2. sup.disp[e] # "no"
      BY <2>1 DEF Traces, Accounted, Once, Early
    <2>3. ~ (e > sup.fence.hwm)
      BY <2>2 DEF Traces, Accounted, Once
    <2>4. e <= sup.fence.hwm
      BY <2>3, TracesKnown, SupervisorConstants DEF Epochs, FenceSnapshot
    <2> QED BY <2>1, <2>4 DEF Traces, Accounted, Behind
  <1> QED BY <1>1, LinesAreTraced, PTL

\* While no epoch was ended by an escalation, an exit or a shutdown, a late
\* rejection ends the epoch of its own prompt: RejectionOwn of EndsOwn, which
\* onStray's comparison with livePromptId is for.  After an epoch was killed it
\* may not hold.
CleanRejectionOwn ==
    [][ (/\ Clean(sup)
         /\ stdout # <<>> /\ stdout' = Tail(stdout)
         /\ Head(stdout).t = "answer" /\ ~ sup'.closed /\ sup'.proc = "up"
         /\ IsLive(sup.fence) /\ ~ IsLive(sup'.fence))
            => Head(stdout).e = sup.fence.live.epoch ]_vars
THEOREM CleanRejectionsAreOwn == Spec => CleanRejectionOwn
  <1>1. ASSUME Traces, Attributed, Clean(sup), stdout # <<>>, Head(stdout).t = "answer"
        PROVE  Head(stdout).e = sup.fence.live.epoch
    <2>1. stdout \in Seq(Told) /\ Len(stdout) \in Nat
      BY <1>1 DEF Traces, Accounted, Typed
    <2>2. 1 \in 1 .. Len(stdout) /\ Head(stdout) = stdout[1]
      BY <1>1, <2>1
    <2>3. Head(stdout).e \in Epochs
      BY <1>1, <2>2 DEF Traces, Accounted, Typed, RunLines
    <2>4. Heard(Head(stdout).e, stdout)
      BY <1>1, <2>2 DEF Heard, About, RunLines
    <2> QED BY <1>1, <2>3, <2>4 DEF Attributed, LiveIs
  <1> QED BY <1>1, LinesAreTraced, LinesAreTheLiveEpochs, PTL DEF CleanRejectionOwn
=============================================================================

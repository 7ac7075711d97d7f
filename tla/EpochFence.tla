----------------------------- MODULE EpochFence -----------------------------
(***************************************************************************)
(* The epoch allocator of one worker with its durable snapshot: the fence  *)
(* EpochManager keeps in memory, the chain of fence writes the supervisor  *)
(* queues (persistFence), the fence file, and crashes of the supervisor    *)
(* between any two of them.  Its callers (the control socket, the child's  *)
(* stdout, timers) are left open: they may call any method in any order    *)
(* the method's own guards allow.  Supervisor.tla models those callers,    *)
(* and a fence write that fails; here every queued write lands or is lost  *)
(* with the process.                                                       *)
(***************************************************************************)
EXTENDS Fence, Sequences

CONSTANTS Nobody,            \* "no attempt", for epochs never handed out
          MaxEpoch,          \* bound: epochs handed out
          MaxSeq,            \* bound: stdout records per life of the child
          MaxLives           \* bound: lives of the supervisor process

ASSUME BoundAssumption ==
    MaxEpoch \in Nat /\ MaxSeq \in Nat /\ MaxLives \in Nat
ASSUME VerdictAssumption ==
    /\ "failed" \in Verdicts
    /\ {"unsettled", "released"} \cap Verdicts = {}
ASSUME NobodyAssumption == Nobody \notin Keys /\ NoLive \notin LiveEpoch

Epochs == 1 .. MaxEpoch

VARIABLES
    fence,     \* EpochManager's record, in memory
    writes,    \* fenceChain: queued snapshots, each [snap, epoch]
    disk,      \* the fence file
    process,   \* "down", "recovering" or "up"
    life,      \* how often the supervisor was started
    seq,       \* stdout records seen in this life
    waiting,   \* epochs whose dispatch handler awaits its fence write
    prompts,   \* history: every prompt sent, [epoch, key, life]
    owner      \* history: whom the fence file issued each epoch to

vars == <<fence, writes, disk, process, life, seq, waiting, prompts, owner>>

Prompt == [epoch : Epochs, key : Keys, life : Nat]

TypeOK ==
    /\ fence \in FenceSnapshot
    /\ writes \in Seq([snap : FenceSnapshot, epoch : 0 .. MaxEpoch])
    /\ disk \in FenceSnapshot
    /\ process \in {"down", "recovering", "up"}
    /\ life \in Nat
    /\ seq \in Nat
    /\ waiting \in SUBSET [epoch : Epochs, key : Keys]
    /\ prompts \in SUBSET Prompt
    /\ owner \in [Epochs -> Keys \cup {Nobody}]

Init ==
    /\ fence = EmptyFence
    /\ writes = <<>>
    /\ disk = EmptyFence
    /\ process = "up"
    /\ life = 1
    /\ seq = 0
    /\ waiting = {}
    /\ prompts = {}
    /\ owner = [e \in Epochs |-> Nobody]

-----------------------------------------------------------------------------
(* persistFence: the snapshot is taken at the call and queued behind the   *)
(* writes already pending.  e is the epoch whose handler awaits it, 0 when *)
(* nobody does (or when what follows is not this module's concern).        *)

Persist(f, e) == writes' = Append(writes, [snap |-> f, epoch |-> e])

Written(e) == \A i \in DOMAIN writes : writes[i].epoch # e

\* A dispatch or stage request is accepted under a fresh epoch.
Accept(k, r) ==
    /\ process = "up"
    /\ fence.hwm < MaxEpoch
    /\ Admits(fence, k, r)
    /\ fence' = Allocate(fence, k)
    /\ Persist(fence', fence'.hwm)
    /\ waiting' = waiting \cup {[epoch |-> fence'.hwm, key |-> k]}
    /\ UNCHANGED <<disk, process, life, seq, prompts, owner>>

\* Mutant: the prompt does not wait for the fence write.
SendPromptUnfenced(w) ==
    /\ process = "up"
    /\ waiting' = waiting \ {w}
    /\ prompts' = prompts \cup {[epoch |-> w.epoch, key |-> w.key,
                                 life |-> life]}
    /\ UNCHANGED <<fence, writes, disk, process, life, seq, owner>>

\* The handler resumes after its fence write and sends the prompt.  It does
\* not ask again whether the epoch is still live.
SendPrompt(w) ==
    /\ process = "up"
    /\ w \in waiting
    /\ Written(w.epoch)
    /\ waiting' = waiting \ {w}
    /\ prompts' = prompts \cup {[epoch |-> w.epoch, key |-> w.key,
                                 life |-> life]}
    /\ UNCHANGED <<fence, writes, disk, process, life, seq, owner>>

\* The child's answer to a prompt arrives.
Ack ==
    /\ process = "up"
    /\ seq < MaxSeq
    /\ seq' = seq + 1
    /\ fence' = NoteAck(fence, seq')
    /\ Persist(fence', 0)
    /\ UNCHANGED <<disk, process, life, waiting, prompts, owner>>

\* An agent_start arrives and binds the live epoch, or is a prior epoch's.
Start ==
    /\ process = "up"
    /\ seq < MaxSeq
    /\ seq' = seq + 1
    /\ IF BindsStart(fence, seq')
       THEN fence' = BindStart(fence) /\ Persist(fence', 0)
       ELSE UNCHANGED <<fence, writes>>
    /\ UNCHANGED <<disk, process, life, waiting, prompts, owner>>

\* An operator's abort, or a passed deadline, is noted on the live epoch.
\* A repeated note changes nothing and is left out.
NoteInterrupt(deadline) ==
    /\ process = "up"
    /\ IsLive(fence)
    /\ fence' = NoteAbort(IF deadline THEN NoteTimedOut(fence) ELSE fence)
    /\ fence' # fence
    /\ Persist(fence', 0)
    /\ UNCHANGED <<disk, process, life, seq, waiting, prompts, owner>>

SettleEpoch(v) ==
    /\ process = "up"
    /\ IsLive(fence)
    /\ fence' = Settle(fence, v)
    /\ Persist(fence', 0)
    /\ UNCHANGED <<disk, process, life, seq, waiting, prompts, owner>>

CancelEpoch(k) ==
    /\ process = "up"
    /\ Cancels(fence, k)
    /\ fence' = Cancel(fence, k)
    /\ Persist(fence', 0)
    /\ UNCHANGED <<disk, process, life, seq, waiting, prompts, owner>>

-----------------------------------------------------------------------------
(* The queue of writes and the process.                                    *)

\* The oldest queued snapshot reaches the disk (an atomic rename).
WriteLands ==
    /\ process # "down"
    /\ writes # <<>>
    /\ disk' = Head(writes).snap
    /\ writes' = Tail(writes)
    /\ owner' = IF IsLive(disk') /\ disk'.live.epoch \in Epochs
                THEN [owner EXCEPT ![disk'.live.epoch] = KeyOf(disk'.live)]
                ELSE owner
    /\ UNCHANGED <<fence, process, life, seq, waiting, prompts>>

\* The process dies: memory and the queue are gone, the file stays.
Crash ==
    /\ process # "down"
    /\ process' = "down"
    /\ fence' = EmptyFence
    /\ writes' = <<>>
    /\ waiting' = {}
    /\ UNCHANGED <<disk, life, seq, prompts, owner>>

\* Mutant: a relaunch starts from an empty fence.
RestartEmpty ==
    /\ process = "down"
    /\ life < MaxLives
    /\ life' = life + 1
    /\ seq' = 0
    /\ fence' = EmptyFence
    /\ process' = "up"
    /\ UNCHANGED <<writes, disk, waiting, prompts, owner>>

\* A relaunch reads the file; an epoch found live is settled "failed".
Restart ==
    /\ process = "down"
    /\ life < MaxLives
    /\ life' = life + 1
    /\ seq' = 0
    /\ IF IsLive(disk)
       THEN /\ fence' = Settle(disk, "failed")
            /\ Persist(fence', 0)
            /\ process' = "recovering"
       ELSE /\ fence' = disk
            /\ process' = "up"
            /\ UNCHANGED writes
    /\ UNCHANGED <<disk, waiting, prompts, owner>>

\* Recovery awaits its fence write before it starts the control socket.
Recovered ==
    /\ process = "recovering"
    /\ writes = <<>>
    /\ process' = "up"
    /\ UNCHANGED <<fence, writes, disk, life, seq, waiting, prompts, owner>>

Next ==
    \/ \E k \in Keys, r \in 0 .. MaxEpoch : Accept(k, r)
    \/ \E w \in waiting : SendPrompt(w)
    \/ Ack
    \/ Start
    \/ \E deadline \in BOOLEAN : NoteInterrupt(deadline)
    \/ \E v \in Verdicts : SettleEpoch(v)
    \/ \E k \in Keys : CancelEpoch(k)
    \/ WriteLands
    \/ Crash
    \/ Restart
    \/ Recovered

Spec == Init /\ [][Next]_vars

-----------------------------------------------------------------------------
(* Properties.                                                             *)

\* A prompt is sent only under an epoch the fence file already gives to that
\* very attempt: "the high-water-mark is persisted BEFORE the prompt is sent".
PromptDurable ==
    \A p \in prompts : /\ p.epoch <= disk.hwm
                       /\ owner[p.epoch] = p.key

\* No epoch number is ever prompted twice, whatever crashed in between:
\* "allocate-then-crash-then-restart must not re-issue an epoch".
PromptOnce ==
    \A p, q \in prompts : p.epoch = q.epoch => p = q

\* A caller that lost the answer to a dispatch that was prompted gets the
\* same epoch again on a retry, in this life or a later one, unless the epoch
\* was released: the dedup table never forgets an attempt that ran.
RetryAnswered ==
    process = "up" =>
        \A p \in prompts :
            \/ fence.attempts[p.key] = p.epoch
            \/ /\ \A c \in fence.completed : c.epoch # p.epoch
               /\ IsLive(fence) => fence.live.epoch # p.epoch

\* A retry is never answered with an epoch that was released: an attempt the
\* dedup table knows is the live one or one with a verdict.
NoPhantomReplay ==
    process = "up" =>
        \A k \in Keys :
            fence.attempts[k] # 0 =>
                \/ IsLive(fence) /\ KeyOf(fence.live) = k
                \/ \E c \in fence.completed :
                      KeyOf(c) = k /\ c.epoch = fence.attempts[k]

\* The epochs that read from disk behave like an EpochLedger.
DiskOutcome(e) ==
    IF e > disk.hwm \/ (IsLive(disk) /\ disk.live.epoch = e)
    THEN "unsettled"
    ELSE IF \E c \in disk.completed : c.epoch = e
         THEN (CHOOSE c \in disk.completed : c.epoch = e).verdict
         ELSE "released"

Ledger == INSTANCE EpochLedger
            WITH open <- IF IsLive(disk) THEN disk.live.epoch ELSE 0,
                 outcome <- [e \in Epochs |-> DiskOutcome(e)],
                 Unsettled <- "unsettled",
                 Released <- "released"

\* The fence file implements EpochLedger: epochs are issued without gaps, one
\* at a time, to one attempt each, and closed once.
ImplementsLedger == Ledger!LedgerSpec

-----------------------------------------------------------------------------
(* The inductive strengthening.                                            *)

\* What every fence record the allocator builds satisfies.
FenceOK(f) ==
    /\ IsLive(f) =>
          /\ f.live.epoch = f.hwm
          /\ f.attempts[KeyOf(f.live)] = f.hwm
          /\ ~ AlreadyCompleted(f, f.live.task)
          /\ \A c \in f.completed : c.epoch # f.hwm
    /\ f.hwm <= MaxEpoch
    /\ \A c \in f.completed : /\ c.epoch <= f.hwm
                              /\ f.attempts[KeyOf(c)] = c.epoch
    /\ \A c, d \in f.completed :
          c.task = d.task \/ c.epoch = d.epoch => c = d

\* g is at most one step of the ledger after f.
SameLedger(f, g) ==
    /\ g.hwm = f.hwm
    /\ g.completed = f.completed
    /\ g.attempts = f.attempts
    /\ IsLive(g) <=> IsLive(f)
    /\ IsLive(f) => KeyOf(g.live) = KeyOf(f.live)

Follows(f, g) ==
    \/ SameLedger(f, g)
    \/ /\ ~ IsLive(f)
       /\ IsLive(g)
       /\ Admits(f, KeyOf(g.live), 0)
       /\ g.hwm = f.hwm + 1
       /\ g.completed = f.completed
       /\ g.attempts = [f.attempts EXCEPT ![KeyOf(g.live)] = g.hwm]
    \/ /\ IsLive(f)
       /\ \E v \in Verdicts : SameLedger(Settle(f, v), g)
    \/ /\ IsLive(f)
       /\ SameLedger(Cancel(f, KeyOf(f.live)), g)

Before(i) == IF i = 1 THEN disk ELSE writes[i - 1].snap

\* Disk, queued snapshots and memory form one run of the ledger.
ChainOK ==
    /\ FenceOK(disk)
    /\ \A i \in DOMAIN writes : /\ FenceOK(writes[i].snap)
                                /\ Follows(Before(i), writes[i].snap)
    /\ \A i, j \in DOMAIN writes :
          i <= j => writes[i].snap.hwm <= writes[j].snap.hwm
    /\ \A i \in DOMAIN writes : disk.hwm <= writes[i].snap.hwm
    /\ process # "down" => fence = Before(Len(writes) + 1)

\* The issue history agrees with the file.
OwnerOK ==
    /\ \A e \in Epochs : e <= disk.hwm <=> owner[e] # Nobody
    /\ IsLive(disk) => owner[disk.live.epoch] = KeyOf(disk.live)
    /\ \A c \in disk.completed : owner[c.epoch] = KeyOf(c)

\* A handler that awaits its fence write will find its own epoch on disk.
WaitingOK ==
    /\ process # "up" => waiting = {}
    /\ process = "down" => writes = <<>>
    /\ \A i \in DOMAIN writes :
          writes[i].epoch # 0 =>
              /\ IsLive(writes[i].snap)
              /\ writes[i].snap.live.epoch = writes[i].epoch
    /\ \A w \in waiting :
          /\ w.epoch <= fence.hwm
          /\ \A i \in DOMAIN writes :
                writes[i].epoch = w.epoch => KeyOf(writes[i].snap.live) = w.key
          /\ Written(w.epoch) => owner[w.epoch] = w.key
          /\ \A v \in waiting : v.epoch = w.epoch => v = w
          /\ \A p \in prompts : p.epoch # w.epoch

IInv ==
    /\ TypeOK
    /\ ChainOK
    /\ OwnerOK
    /\ WaitingOK
    /\ PromptDurable
    /\ PromptOnce
=============================================================================

------------------------------- MODULE Fence -------------------------------
(***************************************************************************)
(* The epoch fence of one worker (src/src/rpc/epoch.ts), as operators on a *)
(* fence record.  EpochManager holds exactly one such record in memory and *)
(* FenceSnapshot is the same record on disk; every mutating method of the  *)
(* class is an operator from a fence to a fence here, and its refusals are *)
(* the guards of that operator.                                            *)
(*                                                                         *)
(* A fence is  [hwm, ack, live, completed, attempts]:                      *)
(*   hwm        last_accepted_epoch, the high-water-mark                   *)
(*   ack        ack_seq of the live epoch, or NoAck (null)                 *)
(*   live       the one unsettled epoch, or NoLive (null)                  *)
(*   completed  the settled attempts                                       *)
(*   attempts   the (task, attempt) dedup table; 0 stands for "no entry"   *)
(* last_seq is a diagnostic that no decision reads and is left out.        *)
(***************************************************************************)
EXTENDS Integers

CONSTANTS Tasks,      \* task ids
          Attempts,   \* attempt ids
          Verdicts,   \* verdicts a settle may record
          NoLive,     \* "live: null"
          NoAck       \* "ack_seq: null"

ASSUME NullAssumption == NoAck \notin Nat

Keys == Tasks \X Attempts

LiveEpoch == [task: Tasks, attempt: Attempts, epoch: Nat \ {0},
              started: BOOLEAN, abort: BOOLEAN, timedout: BOOLEAN]

CompletedTask == [task: Tasks, attempt: Attempts, epoch: Nat \ {0},
                  verdict: Verdicts]

FenceSnapshot == [hwm: Nat, ack: Nat \cup {NoAck},
                  live: LiveEpoch \cup {NoLive},
                  completed: SUBSET CompletedTask,
                  attempts: [Keys -> Nat]]

\* emptyFence
EmptyFence == [hwm |-> 0, ack |-> NoAck, live |-> NoLive,
               completed |-> {}, attempts |-> [k \in Keys |-> 0]]

IsLive(f) == f.live # NoLive

KeyOf(r) == <<r.task, r.attempt>>

-----------------------------------------------------------------------------
(* allocate: the answers, in the order the method gives them.  r is the    *)
(* requested epoch, 0 for "allocate one for me".                           *)

Replays(f, k) == f.attempts[k] # 0

AlreadyCompleted(f, t) == \E c \in f.completed : c.task = t

\* Mutant: a completed task is admitted again under a new attempt id.
AdmitsCompleted(f, k, r) ==
    /\ ~ Replays(f, k)
    /\ ~ IsLive(f)
    /\ r \in {0, f.hwm + 1}

\* A fresh acceptance: no replay, not completed, nothing live, and a
\* requested number that is exactly the next one.
Admits(f, k, r) ==
    /\ ~ Replays(f, k)
    /\ ~ AlreadyCompleted(f, k[1])
    /\ ~ IsLive(f)
    /\ r \in {0, f.hwm + 1}

\* Mutant: the high-water-mark is not advanced.
AllocateStuck(f, k) ==
    [f EXCEPT !.ack = NoAck,
              !.live = [task |-> k[1], attempt |-> k[2], epoch |-> f.hwm + 1,
                        started |-> FALSE, abort |-> FALSE,
                        timedout |-> FALSE],
              !.attempts[k] = f.hwm + 1]

Allocate(f, k) ==
    LET e == f.hwm + 1 IN
    [f EXCEPT !.hwm = e,
              !.ack = NoAck,
              !.live = [task |-> k[1], attempt |-> k[2], epoch |-> e,
                        started |-> FALSE, abort |-> FALSE,
                        timedout |-> FALSE],
              !.attempts[k] = e]

-----------------------------------------------------------------------------
(* Attribution of the child's stdout, whose records are numbered from 1.   *)

\* noteAck: first write wins, and nothing is noted when nothing is live.
NoteAck(f, seq) ==
    IF IsLive(f) /\ f.ack = NoAck THEN [f EXCEPT !.ack = seq] ELSE f

\* attribute: the record belongs to the live epoch.
AttributedLive(f, seq) ==
    /\ IsLive(f)
    /\ f.ack # NoAck
    /\ seq > f.ack

\* windowOpen
WindowOpen(f) == IsLive(f) /\ f.live.started

\* bindStart, when it answers true.
BindsStart(f, seq) == ~ WindowOpen(f) /\ AttributedLive(f, seq)
BindStart(f) == [f EXCEPT !.live.started = TRUE]

\* noteAbortRequested, noteTimedOut and the getters that read them back.
NoteAbort(f) == IF IsLive(f) THEN [f EXCEPT !.live.abort = TRUE] ELSE f
NoteTimedOut(f) == IF IsLive(f) THEN [f EXCEPT !.live.timedout = TRUE] ELSE f
AbortRequested(f) == IsLive(f) /\ f.live.abort
TimedOut(f) == IsLive(f) /\ f.live.timedout

-----------------------------------------------------------------------------
(* The two exits of a live epoch.                                          *)

\* Mutant: settling also drops the dedup entry.
SettleForgetful(f, v) ==
    [f EXCEPT !.completed = @ \cup {[task |-> f.live.task,
                                     attempt |-> f.live.attempt,
                                     epoch |-> f.live.epoch,
                                     verdict |-> v]},
              !.live = NoLive,
              !.ack = NoAck,
              !.attempts[KeyOf(f.live)] = 0]

\* settle, for a live fence (a settle of nothing answers null).
Settle(f, v) ==
    [f EXCEPT !.completed = @ \cup {[task |-> f.live.task,
                                     attempt |-> f.live.attempt,
                                     epoch |-> f.live.epoch,
                                     verdict |-> v]},
              !.live = NoLive,
              !.ack = NoAck]

\* cancel, when it answers ok: the named attempt is live and not started.
Cancels(f, k) == IsLive(f) /\ KeyOf(f.live) = k /\ ~ f.live.started

Cancel(f, k) ==
    [f EXCEPT !.live = NoLive, !.ack = NoAck, !.attempts[k] = 0]
=============================================================================

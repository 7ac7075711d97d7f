---------------------------- MODULE EpochLedger ----------------------------
(***************************************************************************)
(* What the epoch fence promises to everything that reads its epochs       *)
(* (task records, ledgers, the worker-side check on stale epochs): epochs  *)
(* are handed out without gaps, one at a time, each to one          *)
(* (task, attempt) for good; an epoch is closed once, by a verdict or by a *)
(* release, and a task that was given a verdict is never handed out again. *)
(* This is the abstract specification EpochFence implements on disk.       *)
(***************************************************************************)
EXTENDS Integers

CONSTANTS Tasks, Attempts, Verdicts,
          Nobody,      \* owner of an epoch not handed out yet
          Unsettled,   \* outcome of an epoch that is open or unborn
          Released,    \* outcome of an epoch released without running
          MaxEpoch     \* bound: the last epoch the model hands out

Epochs == 1 .. MaxEpoch

VARIABLES owner,    \* owner[e]: the (task, attempt) epoch e was issued to
          outcome,  \* outcome[e]: how epoch e was closed
          open      \* the open epoch, 0 when there is none

ledgerVars == <<owner, outcome, open>>

LedgerInit ==
    /\ owner = [e \in Epochs |-> Nobody]
    /\ outcome = [e \in Epochs |-> Unsettled]
    /\ open = 0

HasVerdict(t) ==
    \E e \in Epochs : /\ owner[e] # Nobody
                      /\ owner[e][1] = t
                      /\ outcome[e] \in Verdicts

Issue(e, k) ==
    /\ open = 0
    /\ \A f \in Epochs : f < e <=> owner[f] # Nobody
    /\ ~ HasVerdict(k[1])
    /\ owner' = [owner EXCEPT ![e] = k]
    /\ open' = e
    /\ UNCHANGED outcome

Close(e, o) ==
    /\ open = e
    /\ outcome' = [outcome EXCEPT ![e] = o]
    /\ open' = 0
    /\ UNCHANGED owner

LedgerNext ==
    \/ \E e \in Epochs, k \in Tasks \X Attempts : Issue(e, k)
    \/ \E e \in Epochs, o \in Verdicts \cup {Released} : Close(e, o)

LedgerSpec == LedgerInit /\ [][LedgerNext]_ledgerVars
=============================================================================

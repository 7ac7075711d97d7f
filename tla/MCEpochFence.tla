---------------------------- MODULE MCEpochFence ----------------------------
(* Model values and symmetry for checking EpochFence with TLC.             *)
EXTENDS EpochFence, TLC

CONSTANTS t1, t2, a1, a2

MCTasks == {t1, t2}
MCAttempts == {a1, a2}
MCVerdicts == {"success", "failed"}

Symmetry == Permutations(MCTasks) \cup Permutations(MCAttempts)
=============================================================================

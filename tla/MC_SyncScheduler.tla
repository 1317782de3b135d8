-------------------------- MODULE MC_SyncScheduler --------------------------
(* SyncScheduler with interchangeable windows. *)
EXTENDS SyncScheduler, TLC

CONSTANTS w1, w2

TwoWindows == {w1, w2}
Symmetric == Permutations(TwoWindows)
=============================================================================

-------------------------- MODULE MC_NoteSync --------------------------
(* Small instances of NoteSync for TLC. *)
EXTENDS NoteSync, TLC

CONSTANTS n1, n2, s1

NoteSymmetry == Permutations(Note)
========================================================================

----------------------------- MODULE MCSlotFile -----------------------------
(***************************************************************************)
(* The model-checking instance of SlotFile. Writers, readers, records and  *)
(* inodes are interchangeable.                                             *)
(***************************************************************************)
EXTENDS SlotFile, TLC

Symmetry == Permutations(Readers) \cup Permutations(Inodes) \cup Permutations(Records)
=============================================================================

---------------------------- MODULE SlotRegister ----------------------------
(***************************************************************************)
(* What a slot file promises the processes that share it: a register that  *)
(* is replaced whole. A reader gets the record that was in place when it   *)
(* opened the file, or none; never a part of a record or a mix of two.     *)
(***************************************************************************)
CONSTANTS
  Readers,   \* processes that read the slot file
  Records,   \* slot records a writer may store
  None       \* no slot file, or a reader that got none

VARIABLES
  reg,       \* the record in place
  view       \* view[r]: what r's last read_slot_file saw

vars == <<reg, view>>

Init == reg = None /\ view = [r \in Readers |-> None]

Store ==
  /\ \E v \in Records : reg' = v
  /\ UNCHANGED view

Look(r) ==
  /\ view' = [view EXCEPT ![r] = reg]
  /\ UNCHANGED reg

Miss(r) ==
  /\ view' = [view EXCEPT ![r] = None]
  /\ UNCHANGED reg

Next == Store \/ \E r \in Readers : Look(r) \/ Miss(r)

Spec == Init /\ [][Next]_vars
=============================================================================

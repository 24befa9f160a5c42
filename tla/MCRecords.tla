------------------------------ MODULE MCRecords ------------------------------
(***************************************************************************)
(* Model-checking instance of the two records of what was decided: the     *)
(* action log on disk and the trace of the playground in memory. They      *)
(* share no state, so that a behaviour moves only one of them.             *)
(***************************************************************************)
EXTENDS ActionLog, TraceRing

vars == <<logVars, traceVars>>

TypeOK == LogTypeOK /\ TraceTypeOK

Init == LogInit /\ TraceInit

LogMoves   == TraceInit /\ LogNext /\ UNCHANGED traceVars
TraceMoves == LogInit /\ TraceNext /\ UNCHANGED logVars

Spec == Init /\ [][LogMoves \/ TraceMoves]_vars
=============================================================================

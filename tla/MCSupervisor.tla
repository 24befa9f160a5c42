---------------------------- MODULE MCSupervisor ----------------------------
(***************************************************************************)
(* Model-checking instances of Supervisor. The constants get their values  *)
(* in the configurations.                                                  *)
(***************************************************************************)
EXTENDS Supervisor

\* Process 3 starts a group of its own, or joins the group of process 2, which
\* another agent may own and whose last member may be a zombie.
NoMoves     == {}
IntoOther   == {<<3, 2>>}
AwayAndBack == {<<3, 2>>, <<3, 3>>}

\* dirty and lost record history and guard no action: a run whose properties
\* do not mention them need not tell states apart by them.
WithoutHistory == <<mem, disk, proc, op>>
=============================================================================

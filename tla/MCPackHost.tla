----------------------------- MODULE MCPackHost -----------------------------
(***************************************************************************)
(* Model-checking instances of PackHost.                                   *)
(***************************************************************************)
EXTENDS PackHost

Law(s, a) == [shell |-> s, audio |-> a]

\* A file, the directory, both, one file too many, and a file that is not to be
\* loaded, alone and after one that is.
MCRequests == {<<1>>, <<Dir>>, <<1, Dir>>, <<1, Dir, 1>>, <<2>>, <<1, 2>>}

\* A law that allows, one that prompts, one that denies, one that fails, and a
\* file without entries.
MCLaws == {Law("allow", "none"), Law("prompt", "allow"), Law("deny", "bad"),
           Law("error", "none"), Law("none", "none")}

\* Two packs that are told apart only by a decision outside the schema.
OddLaws == {Law("allow", "none"), Law("unknown", "none")}

\* touched is history that only LoadReadsDisk mentions, and before matters
\* until the specification of a reload is accepted.
WithoutHistory ==
  <<tree, root, rootfd, InForce, op, answer, read, closed,
    IF op.step = "parse" \/ answer.code = "PACK_PATH_INVALID" THEN before ELSE <<>> >>
=============================================================================

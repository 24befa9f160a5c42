----------------------------- MODULE MCPolicyd ------------------------------
(***************************************************************************)
(* The model-checking instance of Policyd: one agent, two workspaces of    *)
(* which one is a prefix of the other's name, and one pack file.           *)
(***************************************************************************)
EXTENDS Policyd

MCWorkspaces == {<<>>, <<"/", "a">>, <<"/", "a", "a", "/">>}

\* None, the workspaces, files in them, a credential file, a path that is not
\* canonical, and a path that does not fit.
MCPaths ==
  { <<>>, <<"/", "a">>, <<"/", "a", "a">>, <<"/", "a", "/", "a">>,
    <<"/", "a", "/", "k">>,
    <<"/", "a", "/", ".", ".">>, <<"/", "a", "/", "a", "/", "a", "a">> }

MCSensitive == { <<"/", "a", "/", "k">> }

MCLaws ==
  { [shell |-> "allow", audio |-> "prompt"], [shell |-> "deny", audio |-> "none"] }

MCRequests == { <<1>> }

\* touched, read, closed and before are history that no property here looks at.
WithoutHistory ==
  <<tree, root, rootfd, InForce, op, answer, hostvars>>
=============================================================================

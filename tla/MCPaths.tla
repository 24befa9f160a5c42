----------------------------- MODULE MCPaths --------------------------------
(***************************************************************************)
(* The path rules on every workspace and every path up to a length (both   *)
(* are typed character by character, so that each pair of strings is a     *)
(* state), opening beneath the pack root, and creating the directories of  *)
(* a handle. The three share no state, so that a behaviour moves only one  *)
(* of them.                                                                *)
(***************************************************************************)
EXTENDS PathLex, Beneath, StateDirs

CONSTANTS
  Chars,    \* characters of a path
  MaxWs,    \* longest workspace
  MaxPath   \* longest path

\* A string ends at its first NUL.
ASSUME CharsAssumption == Nul \notin Chars

VARIABLES ws, path

typedVars == <<ws, path>>
vars == <<typedVars, walkVars, dirVars>>

TypedInit == ws = <<>> /\ path = <<>>

TypeWs   == Len(ws) < MaxWs /\ path = <<>> /\ (\E c \in Chars : ws' = Append(ws, c)) /\ UNCHANGED path
TypePath == Len(path) < MaxPath /\ (\E c \in Chars : path' = Append(path, c)) /\ UNCHANGED ws
ClearAll == Len(path) = MaxPath /\ ws' = <<>> /\ path' = <<>>

Init == TypedInit /\ WalkInit /\ DirInit

TypingMoves == WalkInit /\ DirInit /\ (TypeWs \/ TypePath \/ ClearAll) /\ UNCHANGED <<walkVars, dirVars>>
WalkMoves   == TypedInit /\ DirInit /\ WalkStep /\ UNCHANGED <<typedVars, dirVars>>
DirsMove    == TypedInit /\ WalkInit /\ DirNext /\ UNCHANGED <<typedVars, walkVars>>

Spec == Init /\ [][TypingMoves \/ WalkMoves \/ DirsMove]_vars

\* A pack directory with a directory of helpers and a link in it.
MCTree ==
  [d \in {"root", "lib"} |->
     IF d = "root" THEN [n \in Names |-> IF n = "a" THEN "lib" ELSE "law"]
                   ELSE [n \in Names |-> IF n = "a" THEN "helper" ELSE Link]]

-----------------------------------------------------------------------------
\* The character tests of is_clean_abs_path accept exactly the paths that are
\* written the way the directory they name is written: no accepted path names
\* another directory than it seems to, and no canonical path is refused.
CleanIsCanonical == IsCleanAbsPath(path) <=> Canonical(path)

\* The prefix comparison of path_under_workspace decides containment of
\* directories, also for names that are prefixes of each other and for
\* workspaces with a trailing slash. A workspace "/" contains only itself.
UnderIsInside ==
  PathUnderWorkspace(ws, path) <=>
    /\ Canonical(ws) /\ Canonical(path)
    /\ Inside(ws, path)
    /\ Resolved(ws) = <<>> => Resolved(path) = <<>>

\* The files whose heads the host reads for the packs. The words of a command
\* never pass the path plane, only the directory it runs in does (every split
\* of path makes a directory below ws and a word). What is read lies inside
\* the workspace unless the word itself has a component "..", which the second
\* copy of path_under_workspace does not look for; and that copy refuses no
\* canonical name inside the workspace.
ProbeInside ==
  ws # <<>> =>
    \A k \in 0 .. Len(path) :
      LET cwd == Trimmed(ws) \o SubSeq(path, 1, k)
          tok == SubSeq(path, k + 1, Len(path))
          abs == ResolveScript(cwd, tok)
      IN  PathUnderWorkspace(ws, cwd) =>
            /\ ProbePath(ws, cwd, tok) = Failure \/ HasDotdot(tok) \/ Inside(ws, abs)
            /\ (/\ abs # Failure /\ Canonical(abs) /\ Inside(ws, abs)
                /\ Resolved(ws) = <<>> => Resolved(abs) = <<>>) => PackPathUnder(ws, abs)

\* phronesis_resolve_script names what the word means to a command that runs
\* in the directory (here ws), and the name fits its buffer with the
\* terminating NUL.
ScriptResolves ==
  LET abs == ResolveScript(ws, path)
  IN  abs # Failure =>
        /\ Len(abs) < PathMax
        /\ abs[1] = "/"
        /\ Resolved(abs) = (IF path[1] = "/" THEN Resolved(path) ELSE Walk(Resolved(ws), path))

\* phronesis_beneath_rel (with ws for the root) cuts an absolute path to what
\* it is below the root: the name it gives leads from the root to what the
\* path names, never upwards, fits its buffer, and is never relative to the
\* root of the file system. It refuses no canonical path below a proper root
\* that fits.
RelIsBeneath ==
  LET r == BeneathRel(ws, path)
      abs == Char(path, 1) = "/"
  IN  /\ r # Failure =>
           /\ Len(r) < PathMax
           /\ \A i \in DOMAIN r : Along(<<>>, r)[i].name = <<".", ".">> => ~EndsAt(r, i + 1)
           /\ Walk(Resolved(ws), r) = Walk(IF abs THEN <<>> ELSE Resolved(ws), path)
           /\ abs => Char(ws, 1) = "/" /\ Resolved(ws) # <<>>
      /\ (/\ Canonical(ws) /\ Canonical(path) /\ Inside(ws, path)
          /\ Resolved(ws) # <<>> /\ Len(path) < PathMax) => r # Failure
=============================================================================

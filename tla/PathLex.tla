------------------------------ MODULE PathLex -------------------------------
(***************************************************************************)
(* The lexical path rules of src/src/policy.c, their second copy in        *)
(* src/src/policy_janet.c, and those of src/src/beneath.c, and what they   *)
(* are to mean. A path is a sequence of characters; "/" and "." are the    *)
(* only ones the rules tell apart from the others. No rule looks at the    *)
(* file system.                                                            *)
(***************************************************************************)
EXTENDS Naturals, Sequences, SequencesExt

CONSTANT PathMax   \* PHRONESIS_PATH_MAX, the size of a path buffer

ASSUME PathMaxAssumption == PathMax \in Nat \ {0}

Nul     == "nul"     \* the end of a string
Failure == <<Nul>>   \* what a failed ResolveScript leaves; no path

-----------------------------------------------------------------------------
(* The rules. *)

Char(s, i)   == IF i \in DOMAIN s THEN s[i] ELSE Nul
EndsAt(s, i) == Char(s, i) \in {"/", Nul}

\* Mutant of IsCleanAbsPath: a component ".." is not looked for.
IsCleanAbsPathUp(s) ==
  /\ Char(s, 1) = "/"
  /\ \A i \in DOMAIN s :
       s[i] = "/" => Char(s, i + 1) # "/" /\ ~(Char(s, i + 1) = "." /\ EndsAt(s, i + 2))

\* Absolute, without empty components and components "." and "..".
IsCleanAbsPath(s) ==
  /\ Char(s, 1) = "/"
  /\ \A i \in DOMAIN s :
       s[i] = "/" =>
         /\ Char(s, i + 1) # "/"
         /\ ~(Char(s, i + 1) = "." /\ EndsAt(s, i + 2))
         /\ ~(Char(s, i + 1) = "." /\ Char(s, i + 2) = "." /\ EndsAt(s, i + 3))

\* s without its trailing slashes; the first character stays.
Trimmed(s) ==
  SubSeq(s, 1, CHOOSE n \in DOMAIN s :
                 /\ n = 1 \/ s[n] # "/"
                 /\ \A i \in DOMAIN s : i > n => s[i] = "/")

\* Mutant of StartsWith: a longer name that begins with the same characters.
StartsWithAnyEnd(w, p) == IsPrefix(Trimmed(w), p)

\* strncmp over the trimmed workspace, up to the end of a component of p.
StartsWith(w, p) == IsPrefix(Trimmed(w), p) /\ EndsAt(p, Len(Trimmed(w)) + 1)

\* path_under_workspace of policy.c.
PathUnderWorkspace(w, p) ==
  /\ w # <<>> /\ p # <<>>
  /\ IsCleanAbsPath(w) /\ IsCleanAbsPath(p)
  /\ StartsWith(w, p)

\* Mutant of PackPathUnder: a workspace with a trailing slash is not trimmed.
PackPathUnderUntrimmed(w, p) ==
  /\ w # <<>> /\ p # <<>>
  /\ Char(p, 1) = "/"
  /\ IsPrefix(w, p) /\ EndsAt(p, Len(w) + 1)

\* path_under_workspace of policy_janet.c, which does not look for "." or "..":
\* the words of a command reach it as they were written.
PackPathUnder(w, p) ==
  /\ w # <<>> /\ p # <<>>
  /\ Char(p, 1) = "/"
  /\ StartsWith(w, p)

\* Mutant of ResolveScript: no room is kept for the terminator.
ResolveScriptOffByOne(cwd, script) ==
  IF script = <<>> THEN Failure
  ELSE IF script[1] = "/"
    THEN IF Len(script) > PathMax THEN Failure ELSE script
  ELSE IF Char(cwd, 1) # "/" \/ Len(Trimmed(cwd)) + 1 + Len(script) > PathMax
    THEN Failure
  ELSE Trimmed(cwd) \o <<"/">> \o script

\* phronesis_resolve_script: a word of a command as an absolute path.
ResolveScript(cwd, script) ==
  IF script = <<>> THEN Failure
  ELSE IF script[1] = "/"
    THEN IF Len(script) + 1 > PathMax THEN Failure ELSE script
  ELSE IF Char(cwd, 1) # "/" \/ Len(Trimmed(cwd)) + 1 + Len(script) + 1 > PathMax
    THEN Failure
  ELSE Trimmed(cwd) \o <<"/">> \o script

\* The path that a word of a command is to the packs: the host reads the head
\* of that file for them. Options, and words with neither "/" nor ".", are no
\* paths; a name outside the workspace is left out.
ProbePath(w, cwd, tok) ==
  LET abs == ResolveScript(cwd, tok)
  IN  IF /\ tok # <<>> /\ Char(tok, 1) # "-"
         /\ \E i \in DOMAIN tok : tok[i] \in {"/", "."}
         /\ Len(tok) < PathMax
         /\ abs # Failure
         /\ PackPathUnder(w, abs)
        THEN abs
      ELSE Failure

-----------------------------------------------------------------------------
(* The names that src/src/beneath.c makes relative to the pack root. *)

\* Mutant of HasDotdot: ".." is found only before a slash.
HasDotdotInside(s) ==
  \E i \in DOMAIN s :
    /\ s[i] = "." /\ Char(s, i + 1) = "." /\ Char(s, i + 2) = "/"
    /\ i = 1 \/ s[i - 1] = "/"

HasDotdot(s) ==
  \E i \in DOMAIN s :
    /\ s[i] = "." /\ Char(s, i + 1) = "." /\ EndsAt(s, i + 2)
    /\ i = 1 \/ s[i - 1] = "/"

IsFsRoot(s) ==
  /\ Char(s, 1) = "/"
  /\ \A i \in DOMAIN s : s[i] = "/" \/ (s[i] = "." /\ EndsAt(s, i + 1))

BadRoot(s) == Char(s, 1) # "/" \/ IsFsRoot(s) \/ HasDotdot(s)

\* phronesis_beneath_rel with a buffer of PathMax: a relative path stays what
\* it is, an absolute one loses the root, which is compared as text.
BeneathRel(root, p) ==
  LET n    == Len(Trimmed(root))
      rest == IF Char(p, 1) # "/" THEN p ELSE SubSeq(p, n + 2, Len(p))
  IN  IF p = <<>> \/ (Char(p, 1) = "/" /\ (BadRoot(root) \/ ~StartsWith(root, p)))
        THEN Failure
      ELSE IF Char(p, 1) = "/" /\ Len(p) = n THEN (IF PathMax < 2 THEN Failure ELSE <<".">>)
      ELSE IF HasDotdot(rest) \/ Len(rest) >= PathMax THEN Failure
      ELSE rest

-----------------------------------------------------------------------------
(* What a path means: the directory that a walk along its components ends   *)
(* at, as the sequence of the names on the way from the root.               *)

Step(dir, name) ==
  IF name \in {<<>>, <<".">>} THEN dir
  ELSE IF name = <<".", ".">> THEN (IF dir = <<>> THEN dir ELSE Front(dir))
  ELSE Append(dir, name)

\* One character more: a slash ends the name of a component.
Read(at, c) ==
  IF c = "/" THEN [dir |-> Step(at.dir, at.name), name |-> <<>>]
  ELSE [dir |-> at.dir, name |-> Append(at.name, c)]

\* The directory that is reached, and the name that has been begun, after
\* every character of s.
Along(dir, s) ==
  LET at[i \in 0 .. Len(s)] ==
        IF i = 0 THEN [dir |-> dir, name |-> <<>>] ELSE Read(at[i - 1], s[i])
  IN  at

Walk(dir, s) == LET end == Along(dir, s)[Len(s)] IN Step(end.dir, end.name)
Resolved(s)  == Walk(<<>>, s)

\* The text of the first names of a directory, each after a slash.
Spelled(dir) ==
  LET text[i \in 0 .. Len(dir)] ==
        IF i = 0 THEN <<>> ELSE text[i - 1] \o <<"/">> \o dir[i]
  IN  text

Written(dir) == IF dir = <<>> THEN <<"/">> ELSE Spelled(dir)[Len(dir)]

\* s is how the directory it resolves to is written, with or without a slash
\* at the end.
Canonical(s) ==
  LET w == Written(Resolved(s))
  IN  s = w \/ (s = w \o <<"/">> /\ w # <<"/">>)

\* p is at or below w.
Inside(w, p) == IsPrefix(Resolved(w), Resolved(p))
=============================================================================

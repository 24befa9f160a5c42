------------------------------ MODULE Beneath -------------------------------
(***************************************************************************)
(* Opening a name beneath the pack root, phronesis_beneath_open of         *)
(* src/src/beneath.c: one openat2() where the kernel has it, otherwise a   *)
(* walk with one openat() for each component, between which somebody may   *)
(* remove an entry, put a symbolic link in its place, or put it back.      *)
(*                                                                         *)
(* A name is the sequence of the components strtok_r finds, with a flag    *)
(* for a slash at its end, which strtok_r drops and the kernel does not,   *)
(* and one for a name that the walk has no room for: callers pass names up *)
(* to PACK_PATH_MAX, and repeated slashes make any of them long.           *)
(* phronesis_beneath_rel (PathLex) has refused names with "..", and names  *)
(* that begin with a slash are refused before anything is opened.          *)
(***************************************************************************)
EXTENDS Naturals, Sequences

CONSTANTS
  Root,       \* the directory that pack_rootfd is open on
  Tree,       \* Tree[d][n]: what directory d holds under name n at first
  Out,        \* what symbolic links lead to, outside the root
  Names,      \* the names in Tree
  MaxOpens,   \* bound on the opens of a behaviour
  MaxComps    \* bound on the components of a name

Dot    == "."
Link   == "link"     \* a symbolic link to Out
Empty  == "empty"    \* no entry of that name
Denied == "denied"   \* the open failed

Dirs  == DOMAIN Tree
Files == (UNION {{Tree[d][n] : n \in Names} : d \in Dirs}) \ (Dirs \cup {Link, Empty})

Rels == [comps : UNION {[1 .. k -> Names \cup {Dot}] : k \in 1 .. MaxComps},
         slash : BOOLEAN, long : BOOLEAN]

ASSUME TreeAssumption ==
  /\ Tree \in [Dirs -> [Names -> Dirs \cup Files \cup {Link, Empty}]]
  /\ Root \in Dirs
  /\ Out \notin Dirs \cup Files \cup {Denied} /\ Denied \notin Dirs \cup Files

VARIABLES
  tree,    \* what the directories hold now
  fd,      \* what the open descriptor refers to: the walk's, then the result
  rest,    \* the components the walk has still to open
  rel,     \* the name that is being opened
  kernel,  \* what openat2 gives for rel if nothing changes meanwhile
  quiet,   \* nothing has changed since the open began
  starved, \* a system call of this open failed for want of a descriptor
  opens    \* opens so far

walkVars == <<tree, fd, rest, rel, kernel, quiet, starved, opens>>

-----------------------------------------------------------------------------
\* Mutant of OpenAt: the last component may be a link.
OpenAtFollows(t, d, name, dir) ==
  LET e == t[d][name]
  IN  IF e = Link /\ ~dir THEN Out
      ELSE IF e \in {Link, Empty} \/ (dir /\ e \in Files) THEN Denied ELSE e

\* openat with O_NOFOLLOW, and with O_DIRECTORY unless it is the last one.
OpenAt(t, d, name, dir) ==
  LET e == t[d][name]
  IN  IF e \in {Link, Empty} \/ (dir /\ e \in Files) THEN Denied ELSE e

\* openat2 with RESOLVE_BENEATH and RESOLVE_NO_SYMLINKS: every component but
\* the last, and with a slash at the end that one too, must be a directory.
Enter(t, d, name) ==
  IF d \notin Dirs THEN Denied
  ELSE IF name = Dot THEN d
  ELSE IF t[d][name] \in {Link, Empty} THEN Denied ELSE t[d][name]

Reached(t, comps) ==
  LET at[i \in 0 .. Len(comps)] == IF i = 0 THEN Root ELSE Enter(t, at[i - 1], comps[i])
  IN  at

Openat2(t, r) ==
  LET last == Reached(t, r.comps)[Len(r.comps)]
  IN  IF r.slash /\ last \notin Dirs THEN Denied ELSE last

\* The call, up to the answer of openat2.
BeneathOpen(r) ==
  /\ rest = <<>>
  /\ opens < MaxOpens
  /\ opens' = opens + 1
  /\ rel' = r
  /\ kernel' = Openat2(tree, r)
  /\ quiet' = TRUE
  /\ \/ fd' = kernel' /\ rest' = <<>> /\ starved' = FALSE              \* openat2 answers
     \/ ~r.long /\ fd' = Root /\ rest' = r.comps /\ starved' = FALSE   \* ENOSYS, or not Linux: walk_open
     \/ r.long /\ fd' = Denied /\ rest' = <<>> /\ starved' = FALSE     \* no room in its buffer
     \/ fd' = Denied /\ rest' = <<>> /\ starved' = TRUE                \* openat2 or F_DUPFD_CLOEXEC fails
  /\ UNCHANGED tree

\* Mutant of WalkNext: the walk stops at a component ".".
WalkNextStopsAtDot ==
  /\ rest # <<>>
  /\ fd' = IF Head(rest) = Dot THEN fd ELSE OpenAt(tree, fd, Head(rest), Len(rest) > 1)
  /\ rest' = IF fd' = Denied \/ Head(rest) = Dot THEN <<>> ELSE Tail(rest)
  /\ UNCHANGED <<tree, rel, kernel, quiet, starved, opens>>

\* One turn of the loop of walk_open: "." is skipped, any other component is
\* opened in the directory of the descriptor, which is then closed.
WalkNext ==
  /\ rest # <<>>
  /\ fd' = IF Head(rest) = Dot THEN fd ELSE OpenAt(tree, fd, Head(rest), Len(rest) > 1)
  /\ rest' = IF fd' = Denied THEN <<>> ELSE Tail(rest)
  /\ UNCHANGED <<tree, rel, kernel, quiet, starved, opens>>

\* The openat() of a turn fails for want of a descriptor.
WalkStarves ==
  /\ rest # <<>> /\ Head(rest) # Dot
  /\ fd' = Denied /\ rest' = <<>>
  /\ starved' = TRUE
  /\ UNCHANGED <<tree, rel, kernel, quiet, opens>>

\* Somebody else changes an entry. A directory that the walk has open stays
\* where it is.
EditEntry(d, n, e) ==
  /\ tree[d][n] # e
  /\ tree' = [tree EXCEPT ![d][n] = e]
  /\ quiet' = FALSE
  /\ UNCHANGED <<fd, rest, rel, kernel, starved, opens>>

-----------------------------------------------------------------------------
WalkInit ==
  /\ tree = Tree
  /\ fd = Root
  /\ rest = <<>>
  /\ rel = [comps |-> <<Dot>>, slash |-> FALSE, long |-> FALSE]
  /\ kernel = Root
  /\ quiet = TRUE
  /\ starved = FALSE
  /\ opens = 0

WalkStep ==
  \/ \E r \in Rels : BeneathOpen(r)
  \/ WalkNext
  \/ WalkStarves
  \/ \E d \in Dirs, n \in Names : \E e \in {Tree[d][n], Link, Empty} : EditEntry(d, n, e)

-----------------------------------------------------------------------------
\* However the entries change between the openat() calls of walk_open, its
\* descriptor never refers to anything but what is in the tree beneath the
\* root: it follows no link that has taken the place of a component. (Moving
\* a directory that is already open out of the root is not among the changes.)
WalkConfined == fd \in Dirs \cup Files \cup {Denied}

\* On a tree that nobody changes meanwhile the walk opens what openat2 opens
\* and refuses what openat2 refuses, so that a pack is found or not found
\* whatever the kernel, with these exceptions: a file named with a slash at
\* its end is opened by the walk and refused by the kernel, and the walk
\* refuses a name that its buffer has no room for, and one for which it gets
\* no descriptor.
WalkAgrees ==
  (rest = <<>> /\ quiet) =>
    \/ fd = kernel
    \/ rel.slash /\ kernel = Denied /\ fd \in Files
    \/ (rel.long \/ starved) /\ fd = Denied
=============================================================================

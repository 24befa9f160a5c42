----------------------------- MODULE StateDirs ------------------------------
(***************************************************************************)
(* The directories a handle needs: phronesis_paths_resolve and             *)
(* phronesis_paths_ensure_dir of src/src/paths.c, as                       *)
(* phronesis_supervisor_open uses them. Several processes may open handles *)
(* on the same directories at once; each creates what is missing, level by *)
(* level, with a stat() and a mkdir() between which another may have been. *)
(* Nothing in the program removes a directory.                             *)
(***************************************************************************)
EXTENDS Naturals, Sequences, SequencesExt

CONSTANTS
  Openers,   \* processes that open a handle
  Tmp        \* a runtime directory spelled "/tmp" or "/tmp/"

\* Directories, by the names of their levels; the first level is there.
State    == <<"top", "state">>
Runtimes == {<<"top", "state", "run">>, <<"top", "run">>, Tmp}
NoDir    == <<>>

\* The levels that ensure_dir visits for path: every parent, then path itself.
Levels(path) == [i \in DOMAIN path |-> SubSeq(path, 1, i)]

\* ensure_state_tree, the runtime directory, and supervisor_open's agents/.
Needed(state, runtime) ==
  Levels(state) \o Levels(state \o <<"log">>) \o Levels(state \o <<"phronesis">>)
    \o Levels(runtime) \o Levels(runtime \o <<"agents">>)

AllDirs == UNION {ToSet(Needed(State, r)) : r \in Runtimes \ {Tmp}}
Parent(path) == Front(path)

VARIABLES
  fs,      \* fs[d]: "none", "dir" or "file"
  todo,    \* todo[h]: levels that h has still to ensure
  at,      \* at[h]: where h is
  wants,   \* wants[h]: the levels of the open that h is in or has done
  faulted  \* openers for whom a stat() or mkdir() of this open failed

dirVars == <<fs, todo, at, wants, faulted>>

-----------------------------------------------------------------------------
\* phronesis_paths_resolve, up to the first directory: without a state
\* directory, or with a runtime directory that is /tmp, nothing is created.
Resolve(h, state, runtime) ==
  /\ at[h] = "closed"
  /\ IF state = NoDir \/ runtime = Tmp
       THEN at' = [at EXCEPT ![h] = "refused"] /\ UNCHANGED <<todo, wants>>
       ELSE /\ at' = [at EXCEPT ![h] = "stat"]
            /\ todo' = [todo EXCEPT ![h] = Needed(state, runtime)]
            /\ wants' = [wants EXCEPT ![h] = ToSet(Needed(state, runtime))]
  /\ UNCHANGED <<fs, faulted>>

\* The level at the head of todo is a directory.
Ensured(h) ==
  /\ todo' = [todo EXCEPT ![h] = Tail(@)]
  /\ at' = [at EXCEPT ![h] = IF Tail(todo[h]) = <<>> THEN "open" ELSE "stat"]
  /\ UNCHANGED faulted

GivesUp(h) == at' = [at EXCEPT ![h] = "failed"] /\ UNCHANGED <<todo, faulted>>

\* The system call fails for a reason of its own: no permission, no space, a
\* read-only or a broken file system.
Faults(h) ==
  /\ at' = [at EXCEPT ![h] = "failed"]
  /\ faulted' = faulted \cup {h}
  /\ UNCHANGED todo

\* The stat() of mkdir_one, before mkdir() and again after EEXIST.
Stat(h) ==
  LET d == fs[Head(todo[h])]
  IN  /\ at[h] \in {"stat", "again"}
      /\ \/ d = "dir" /\ Ensured(h)
         \/ d = "file" /\ GivesUp(h)
         \/ d = "none" /\ at[h] = "again" /\ GivesUp(h)
         \/ d = "none" /\ at[h] = "stat" /\ at' = [at EXCEPT ![h] = "mkdir"] /\ UNCHANGED <<todo, faulted>>
         \/ Faults(h)   \* neither found nor ENOENT
      /\ UNCHANGED <<fs, wants>>

\* Mutant of Mkdir: EEXIST is an error like any other.
MkdirOnce(h) ==
  LET d == Head(todo[h])
  IN  /\ at[h] = "mkdir"
      /\ \/ /\ fs[d] = "none" /\ fs[Parent(d)] = "dir"
            /\ fs' = [fs EXCEPT ![d] = "dir"]
            /\ Ensured(h)
         \/ fs[d] # "none" /\ GivesUp(h) /\ UNCHANGED fs
         \/ Faults(h) /\ UNCHANGED fs
         \/ fs[d] = "none" /\ fs[Parent(d)] # "dir" /\ GivesUp(h) /\ UNCHANGED fs
      /\ UNCHANGED wants

\* The mkdir() of mkdir_one; the umask around it belongs to the process.
Mkdir(h) ==
  LET d == Head(todo[h])
  IN  /\ at[h] = "mkdir"
      /\ \/ /\ fs[d] = "none" /\ fs[Parent(d)] = "dir"
            /\ fs' = [fs EXCEPT ![d] = "dir"]
            /\ Ensured(h)
         \/ fs[d] # "none" /\ at' = [at EXCEPT ![h] = "again"] /\ UNCHANGED <<fs, todo, faulted>>
         \/ fs[d] = "none" /\ fs[Parent(d)] # "dir" /\ GivesUp(h) /\ UNCHANGED fs
         \/ Faults(h) /\ UNCHANGED fs   \* EACCES, ENOSPC, EROFS...
      /\ UNCHANGED wants

\* The handle is closed, or the caller tries again.
Reopen(h) ==
  /\ at[h] \in {"open", "failed", "refused"}
  /\ at' = [at EXCEPT ![h] = "closed"]
  /\ todo' = [todo EXCEPT ![h] = <<>>]
  /\ wants' = [wants EXCEPT ![h] = {}]
  /\ faulted' = faulted \ {h}
  /\ UNCHANGED fs

\* Somebody leaves a file where a directory is to be.
Obstruct(d) ==
  /\ fs[d] = "none" /\ fs[Parent(d)] = "dir"
  /\ fs' = [fs EXCEPT ![d] = "file"]
  /\ UNCHANGED <<todo, at, wants, faulted>>

-----------------------------------------------------------------------------
DirInit ==
  /\ fs = [d \in AllDirs |-> IF Len(d) = 1 THEN "dir" ELSE "none"]
  /\ todo = [h \in Openers |-> <<>>]
  /\ at = [h \in Openers |-> "closed"]
  /\ wants = [h \in Openers |-> {}]
  /\ faulted = {}

DirNext ==
  \/ \E h \in Openers : \/ \E s \in {State, NoDir}, r \in Runtimes : Resolve(h, s, r)
                        \/ Stat(h) \/ Mkdir(h) \/ Reopen(h)
  \/ \E d \in AllDirs : Len(d) > 1 /\ Obstruct(d)

-----------------------------------------------------------------------------
\* A handle that opens has all its directories, and an open fails only over
\* something that is in the way and no directory, or because a system call of
\* its own failed: processes that create the same tree at the same time never
\* make each other fail, whoever comes first at each level (the EEXIST path of
\* mkdir_one), and the errors of one leave the others alone.
DirsReady ==
  \A h \in Openers :
    /\ at[h] = "open" => \A d \in wants[h] : fs[d] = "dir"
    /\ at[h] = "failed" => h \in faulted \/ \E d \in wants[h] : fs[d] = "file"
=============================================================================

---------------------------- MODULE InstallPack -----------------------------
(***************************************************************************)
(* A pack directory on disk, of one of two kinds. The directory of an      *)
(* author is edited while images are written beside the sources and hosts  *)
(* load them (PackImage). The cache directory of the Rust binding is       *)
(* filled with the pack embedded in the crate by the processes that want   *)
(* to load it: install_pack_in of src/crates/phronesis-sys/src/lib.rs. A   *)
(* process that finds the mark .complete there takes the pack as it is:    *)
(*                                                                         *)
(*    idle --> open --> fill --> rename --> open ... --> mark --> ok       *)
(*      +--(.complete)------------------------------------------> ok       *)
(*                                                                         *)
(* Every process writes to a temporary file that carries its process id    *)
(* and moves it into place. It may fail or die at any step; another one,   *)
(* or the same one again, then starts over.                                *)
(***************************************************************************)
EXTENDS PackImage

CONSTANTS
  Installers,   \* processes that call install_pack_in
  Pack,         \* Pack[f]: the bytes of the f-th file of PACK
  Cut           \* the bytes of a file that is not written to the end

ASSUME InstallersAssumption == Hosts \subseteq Installers
ASSUME PackAssumption ==
  /\ Pack \in [Sources -> Texts \ {Broken}]
  /\ Cut \notin Texts \cup {Absent}

VARIABLES
  cache,    \* the directory is the cache of the Rust binding
  done,     \* .complete exists
  inst      \* inst[i]: the step of installer i, its file, its temporary file

vars == <<imageVars, cache, done, inst>>

InstallSteps == {"idle", "open", "fill", "rename", "mark", "ok"}

Doing(step, f, tmp) == [step |-> step, file |-> f, tmp |-> tmp]
Begun    == Doing("open", 1, Absent)
Returned == Doing("idle", 1, Absent)
Accepted == Doing("ok", 1, Absent)

InstallTypeOK ==
  /\ cache \in BOOLEAN /\ done \in BOOLEAN
  /\ inst \in [Installers -> [step : InstallSteps, file : Sources,
                              tmp : Texts \cup {Absent, Cut}]]

TypeOK == ImageTypeOK /\ InstallTypeOK

-----------------------------------------------------------------------------
(* install_pack_in. *)

Becomes(i, d) == inst' = [inst EXCEPT ![i] = d]

\* done.is_file(), then the directories, and into the loop over PACK.
BeginInstall(i) ==
  /\ inst[i].step = "idle"
  /\ Becomes(i, IF done THEN Accepted ELSE Begun)
  /\ UNCHANGED <<src, done>>

\* fs::write creates or truncates the temporary file, ...
OpenTmp(i) ==
  /\ inst[i].step = "open"
  /\ Becomes(i, Doing("fill", inst[i].file, Cut))
  /\ UNCHANGED <<src, done>>

\* Mutant of FillTmp: the file is moved into place before it is filled.
FillTmpLater(i) ==
  /\ inst[i].step = "fill"
  /\ Becomes(i, Doing("rename", inst[i].file, Cut))
  /\ UNCHANGED <<src, done>>

\* ... and writes all of the bytes.
FillTmp(i) ==
  /\ inst[i].step = "fill"
  /\ Becomes(i, Doing("rename", inst[i].file, Pack[inst[i].file]))
  /\ UNCHANGED <<src, done>>

\* Mutant of NextFile: one file too many.
NextFileLate(f) == IF f > NFiles THEN Doing("mark", f, Absent) ELSE Doing("open", f + 1, Absent)

\* The step after file f is in place.
NextFile(f) == IF f = NFiles THEN Doing("mark", f, Absent) ELSE Doing("open", f + 1, Absent)

\* Mutant of RenameTmp: the mark is written with the first file.
RenameTmpMarks(i) ==
  /\ inst[i].step = "rename"
  /\ src' = [src EXCEPT ![inst[i].file] = inst[i].tmp]
  /\ done' = TRUE
  /\ Becomes(i, NextFile(inst[i].file))

RenameTmp(i) ==
  /\ inst[i].step = "rename"
  /\ src' = [src EXCEPT ![inst[i].file] = inst[i].tmp]
  /\ Becomes(i, NextFile(inst[i].file))
  /\ UNCHANGED done

WriteMark(i) ==
  /\ inst[i].step = "mark"
  /\ done' = TRUE
  /\ Becomes(i, Accepted)
  /\ UNCHANGED src

\* An error is returned, or the process dies: what it has done stays, and a
\* temporary file left behind is truncated by the next one of that name.
AbandonInstall(i) ==
  /\ inst[i].step \in InstallSteps \ {"idle", "ok"}
  /\ Becomes(i, Returned)
  /\ UNCHANGED <<src, done>>

InstallStep(i) ==
  \/ BeginInstall(i) \/ OpenTmp(i) \/ FillTmp(i) \/ RenameTmp(i) \/ WriteMark(i)
  \/ AbandonInstall(i)

-----------------------------------------------------------------------------
(* The two kinds of directory. The name of a cache is the hash of the       *)
(* embedded pack, so nobody but its installers writes there.                *)

Init ==
  /\ ImageInit
  /\ done = FALSE /\ inst = [i \in Installers |-> Returned]
  /\ \/ cache = TRUE /\ src = [f \in Sources |-> Absent]
     \/ cache = FALSE /\ src \in [Sources -> Texts \cup {Absent}]

AuthorStep ==
  /\ ~cache
  /\ AuthorNext
  /\ UNCHANGED <<cache, done, inst>>

InstallerStep(i) ==
  /\ cache
  /\ InstallStep(i)
  /\ UNCHANGED <<cache, edits, image, op, law, touched, raced>>

\* name_embedded_pack returns the prefix only after a successful install; the
\* host then loads from it.
InstalledLoad(h) ==
  /\ cache
  /\ inst[h].step = "ok"
  /\ LoadStep(h)
  /\ UNCHANGED <<cache, done, inst>>

Next ==
  \/ AuthorStep
  \/ \E i \in Installers : InstallerStep(i)
  \/ \E h \in Hosts : InstalledLoad(h)

Spec == Init /\ [][Next]_vars

-----------------------------------------------------------------------------
(* Properties. *)

\* "A prefix already holding the pack is left as it is": whoever sees the mark
\* .complete sees every file of the pack whole, and goes on seeing it, however
\* many installers are under way, stopped halfway or run behind the one that
\* has written the mark.
CompleteIsWhole ==
  (cache /\ done) => \A f \in Sources : src[f] = Pack[f]

\* A process whose install has returned loads the embedded pack, all of it,
\* and its load does not fail, also while other processes are still at it.
LoadsEmbedded ==
  \A h \in Hosts :
    (cache /\ law[h] # NoLaw) =>
      law[h] = Compiled(h, [i \in Sources |->
                 LET f == IF i = NFiles THEN Entry ELSE IF i < Entry THEN i ELSE i + 1
                 IN  [file |-> f, text |-> Pack[f]]])
=============================================================================

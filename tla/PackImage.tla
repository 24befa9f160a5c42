----------------------------- MODULE PackImage ------------------------------
(***************************************************************************)
(* The pack image of src/src/policy_janet.c: a compiled copy of a pack,    *)
(* stamped with a hash of the sources, that a host loads in place of the   *)
(* sources.                                                                *)
(*                                                                         *)
(* A pack is an entry file and the helpers in lib/ beside it. It is gone   *)
(* through in passes, file by file: one to compile it, one to hash it. An  *)
(* image writer (phronesis-pack-image) compiles, hashes and then writes    *)
(* the image in place; a host hashes, reads the image, and compiles the    *)
(* sources when the image is not to be used:                               *)
(*                                                                         *)
(*    writer  idle --> compile --> hash --> open --> blocks --> rest       *)
(*    host    idle --> hash --> image --> compile --> idle                 *)
(*                                                                         *)
(* Sources and image change under both. What a pack computes is abstracted *)
(* to the contents it was compiled from, and the hash to the contents it   *)
(* was taken of: two different packs never have the same hash.             *)
(***************************************************************************)
EXTENDS Naturals, Sequences, SequencesExt

CONSTANTS
  Hosts,        \* processes that load the pack
  Writers,      \* processes that write its image
  NFiles,       \* the source files, which are numbered in the order of their names
  Entry,        \* the entry file, which is read last
  Texts,        \* what a source file may hold
  Broken,       \* the text that does not compile
  Absent,       \* no such file
  JanetVersion, \* JanetVersion[x]: JANET_VERSION of the build of process x
  MaxEdits      \* bound on the changes of the sources

Procs   == Hosts \cup Writers
Sources == 1 .. NFiles

ASSUME SourcesAssumption == NFiles \in Nat /\ Entry \in Sources
ASSUME TextsAssumption == Broken \in Texts /\ Absent \notin Texts
ASSUME EditsAssumption == MaxEdits \in Nat
ASSUME ProcsAssumption == Hosts \cap Writers = {}

VARIABLES
  src,       \* src[f]: what source file f holds
  image,     \* the image file
  op,        \* op[x]: the step process x is at
  edits,     \* how often a source has changed
  law,       \* law[h]: what host h has loaded
  touched,   \* hosts that have not begun a load since a source last changed
  raced      \* a source has changed, or another build of Janet has begun to
             \* write, while an image was being written

imageVars == <<src, edits, image, op, law, touched, raced>>

-----------------------------------------------------------------------------
\* Compiled(x, acc): the Functions that process x has compiled from the texts
\* acc; an image starts with a header and holds them in marshalled form, of
\* which the first blocks and the rest are written separately.
Compiled(x, acc) == [by |-> JanetVersion[x], from |-> acc]
Header(x, acc)   == [by |-> JanetVersion[x], of |-> acc]

Nothing == [by |-> "none", from |-> <<>>]
NoLaw   == Nothing
Failed  == [by |-> "failed", from |-> <<>>]
Garbage == [by |-> "garbage", from |-> <<>>]

NoHeader == [by |-> "none", of |-> <<>>]
Emptied  == [there |-> TRUE, header |-> NoHeader, blocks |-> Nothing, rest |-> Nothing]
NoImage  == [Emptied EXCEPT !.there = FALSE]

Idle == [step |-> "idle", todo |-> <<>>, acc |-> <<>>, compiled |-> Nothing]

ReadText == [file : Sources, text : Texts]
Vers     == {JanetVersion[x] : x \in Procs}
Law      == [by : Vers \cup {"none", "failed", "garbage"}, from : Seq(ReadText)]

ImageTypeOK ==
  /\ src \in [Sources -> Texts \cup {Absent}] /\ edits \in 0 .. MaxEdits
  /\ image \in [there : BOOLEAN, header : [by : Vers \cup {"none"}, of : Seq(ReadText)],
                blocks : Law, rest : Law]
  /\ op \in [Procs -> [step : {"idle", "compile", "hash", "image", "open", "blocks", "rest"},
                       todo : Seq(Sources), acc : Seq(ReadText), compiled : Law]]
  /\ law \in [Hosts -> Law]
  /\ touched \subseteq Hosts /\ raced \in BOOLEAN

-----------------------------------------------------------------------------
(* A pass over the sources: pack_lib_names, then read_pack_file for every   *)
(* name; dobytes_file compiles what was read, pack_source_hash feeds it.    *)

\* The helpers that are there in the order of their names, then the entry.
SourceList ==
  LET helper(f) == f # Entry /\ src[f] # Absent
      list[f \in 0 .. NFiles] ==
        IF f = 0 THEN <<>> ELSE IF helper(f) THEN Append(list[f - 1], f) ELSE list[f - 1]
  IN  Append(list[NFiles], Entry)

Pass(step, compiled) ==
  [step |-> step, todo |-> SourceList, acc |-> <<>>, compiled |-> compiled]

Goto(x, o) == op' = [op EXCEPT ![x] = o]

\* load_pack_image gives up: the host compiles. A writer, and a host that
\* cannot compile, give up altogether.
PassFails(x) ==
  \/ /\ x \in Hosts /\ op[x].step = "hash"
     /\ Goto(x, Pass("compile", Nothing))
     /\ UNCHANGED law
  \/ /\ x \in Hosts /\ op[x].step = "compile"
     /\ Goto(x, Idle)
     /\ law' = [law EXCEPT ![x] = Failed]
  \/ /\ x \in Writers
     /\ Goto(x, Idle)
     /\ UNCHANGED law

\* The pass is through: a host that has hashed reads the image, one that has
\* compiled has loaded the pack; a writer hashes what it has compiled, and
\* then writes.
PassEnds(x, acc) ==
  \/ /\ x \in Hosts /\ op[x].step = "hash"
     /\ Goto(x, [Idle EXCEPT !.step = "image", !.acc = acc])
     /\ UNCHANGED law
  \/ /\ x \in Hosts /\ op[x].step = "compile"
     /\ Goto(x, Idle)
     /\ law' = [law EXCEPT ![x] = Compiled(x, acc)]
  \/ /\ x \in Writers /\ op[x].step = "compile"
     /\ Goto(x, Pass("hash", Compiled(x, acc)))
     /\ UNCHANGED law
  \/ /\ x \in Writers /\ op[x].step = "hash"
     /\ Goto(x, [op[x] EXCEPT !.step = "open", !.todo = <<>>, !.acc = acc])
     /\ UNCHANGED law

ReadSource(x) ==
  /\ op[x].step \in {"compile", "hash"}
  /\ LET f == Head(op[x].todo)
         acc == Append(op[x].acc, [file |-> f, text |-> src[f]])
         unusable == src[f] = Absent \/ (op[x].step = "compile" /\ src[f] = Broken)
     IN  \/ unusable /\ PassFails(x)
         \/ ~unusable /\ f = Entry /\ PassEnds(x, acc)
         \/ /\ ~unusable /\ f # Entry
            /\ Goto(x, [op[x] EXCEPT !.todo = Tail(@), !.acc = acc])
            /\ UNCHANGED law
  /\ UNCHANGED <<src, edits, image, touched, raced>>

-----------------------------------------------------------------------------
(* load_one_pack. *)

BeginLoad(h) ==
  /\ op[h].step = "idle"
  /\ Goto(h, Pass(IF image.there THEN "hash" ELSE "compile", Nothing))
  /\ law' = [law EXCEPT ![h] = NoLaw]
  /\ touched' = touched \ {h}
  /\ UNCHANGED <<src, edits, image, raced>>

\* Mutant of Matches: the header is not compared.
MatchesAny(h) == image.there /\ image.header # NoHeader

\* The image begins with the header that the host's pass asks for.
Matches(h) == image.there /\ image.header = Header(h, op[h].acc)

\* What janet_unmarshal makes of the marshalled pair: it fails when the file
\* ends early, and two writers that write into each other's file may leave
\* anything, or nothing, that decodes.
Unmarshalled ==
  IF image.blocks = Nothing \/ image.rest = Nothing THEN {Nothing}
  ELSE IF image.blocks = image.rest THEN {image.blocks}
  ELSE {Nothing, Garbage}

\* Mutant of ReadImage: an image that does not decode fails the load.
ReadImageOrFail(h) ==
  /\ op[h].step = "image"
  /\ \/ /\ Matches(h)
        /\ \E l \in Unmarshalled :
             law' = [law EXCEPT ![h] = IF l = Nothing THEN Failed ELSE l]
        /\ Goto(h, Idle)
     \/ /\ ~Matches(h)
        /\ Goto(h, Pass("compile", Nothing))
        /\ UNCHANGED law
  /\ UNCHANGED <<src, edits, image, touched, raced>>

ReadImage(h) ==
  /\ op[h].step = "image"
  /\ \/ /\ Matches(h)
        /\ \E l \in Unmarshalled \ {Nothing} : law' = [law EXCEPT ![h] = l]
        /\ Goto(h, Idle)
     \/ /\ Matches(h) => Nothing \in Unmarshalled
        /\ Goto(h, Pass("compile", Nothing))
        /\ UNCHANGED law
  /\ UNCHANGED <<src, edits, image, touched, raced>>

LoadStep(h) == BeginLoad(h) \/ ReadSource(h) \/ ReadImage(h)

-----------------------------------------------------------------------------
(* phronesis_pack_image_write. *)

BeginWrite(w) ==
  /\ op[w].step = "idle"
  /\ Goto(w, Pass("compile", Nothing))
  /\ raced' = (raced \/ \E v \in Writers : /\ op[v].step # "idle"
                                          /\ JanetVersion[v] # JanetVersion[w])
  /\ UNCHANGED <<src, edits, image, law, touched>>

\* fopen(out_path, "wb") truncates the image that is in use.
OpenImage(w) ==
  /\ op[w].step = "open"
  /\ image' = Emptied
  /\ Goto(w, [op[w] EXCEPT !.step = "blocks"])
  /\ UNCHANGED <<src, edits, law, touched, raced>>

\* fwrite hands on the whole blocks, fclose the rest.
WriteBlocks(w) ==
  /\ op[w].step = "blocks"
  /\ image' = [image EXCEPT !.header = Header(w, op[w].acc), !.blocks = op[w].compiled]
  /\ Goto(w, [op[w] EXCEPT !.step = "rest"])
  /\ UNCHANGED <<src, edits, law, touched, raced>>

WriteRest(w) ==
  /\ op[w].step = "rest"
  /\ image' = [image EXCEPT !.rest = op[w].compiled]
  /\ Goto(w, Idle)
  /\ UNCHANGED <<src, edits, law, touched, raced>>

\* An open or a write fails, or the writer dies.
AbandonWrite(w) ==
  /\ op[w].step # "idle"
  /\ Goto(w, Idle)
  /\ UNCHANGED <<src, edits, image, law, touched, raced>>

WriteStep(w) ==
  \/ BeginWrite(w) \/ ReadSource(w) \/ OpenImage(w)
  \/ WriteBlocks(w) \/ WriteRest(w) \/ AbandonWrite(w)

-----------------------------------------------------------------------------
(* The authors of the pack. *)

Edit(f, t) ==
  /\ src[f] # t /\ edits < MaxEdits
  /\ edits' = edits + 1
  /\ src' = [src EXCEPT ![f] = t]
  /\ touched' = Hosts
  /\ raced' = (raced \/ \E w \in Writers : op[w].step # "idle")
  /\ UNCHANGED <<image, op, law>>

RemoveImage ==
  /\ image.there
  /\ image' = NoImage
  /\ UNCHANGED <<src, edits, op, law, touched, raced>>

-----------------------------------------------------------------------------
ImageInit ==
  /\ image = NoImage
  /\ op = [x \in Procs |-> Idle]
  /\ law = [h \in Hosts |-> NoLaw]
  /\ edits = 0 /\ touched = {} /\ raced = FALSE

AuthorNext ==
  \/ \E h \in Hosts : LoadStep(h)
  \/ \E w \in Writers : WriteStep(w)
  \/ \E f \in Sources, t \in Texts \cup {Absent} : Edit(f, t)
  \/ RemoveImage

-----------------------------------------------------------------------------
(* Properties. *)

\* The texts a pass over the sources as they are would read, and whether they
\* compile.
Current    == [i \in DOMAIN SourceList |-> [file |-> SourceList[i], text |-> src[SourceList[i]]]]
Compilable == \A i \in DOMAIN Current : Current[i].text \in Texts \ {Broken}

\* "from its image when one matches the sources, else by compiling it": the
\* law a host loads is what its own build compiles from the sources on disk,
\* whatever image lies beside them: left by an older source or another build
\* of Janet, cut short by a writer that failed, or being written by one or
\* several writers right now. Excepted are loads during which a source
\* changes, and images that were written while a source changed or by two
\* builds of Janet at once: those may carry the new hash with the old law, or
\* parts of both.
LawIsSources ==
  \A h \in Hosts :
    (law[h] \notin {NoLaw, Failed} /\ h \notin touched /\ ~raced) =>
      law[h] = Compiled(h, Current)

\* "A missing image, a version or hash mismatch, or a failed unmarshal falls
\* back to compiling the sources": no state of the image makes a load fail,
\* even one that was written while a source changed.
ImageNeverFails ==
  \A h \in Hosts : (law[h] = Failed /\ h \notin touched) => ~Compilable
=============================================================================

-------------------------- MODULE InstallPackProofs --------------------------
(***************************************************************************)
(* Proofs about a pack directory on disk: the mark .complete in a cache    *)
(* stands for the whole pack, and what a host loads, from an image or by   *)
(* compiling, is what the sources say. Two invariants: InstallInv of the   *)
(* installers, and ImageInv of the passes over the sources, the image and  *)
(* the laws.                                                               *)
(***************************************************************************)
EXTENDS InstallPack, NatRecursion, SequenceTheorems

\* What the mark rests on: an installer has all files before the one it is at
\* in place, and what it moves into place is whole. Files are only ever
\* replaced by the same bytes, so one installer never undoes another's work.
Whole(f) == src[f] = Pack[f]

SourceFiles == [Sources -> Texts \cup {Absent}]

InstallerInv(i) ==
  /\ inst[i].step = "rename" => inst[i].tmp = Pack[inst[i].file]
  /\ inst[i].step \in {"open", "fill", "rename"} =>
       \A f \in Sources : f < inst[i].file => Whole(f)
  /\ inst[i].step \in {"mark", "ok"} => \A f \in Sources : Whole(f)

InstallInv ==
  /\ InstallTypeOK
  /\ src \in SourceFiles
  /\ cache => \A i \in Installers : InstallerInv(i)
  /\ CompleteIsWhole

USE DEF InstallSteps, Doing, Begun, Returned, Accepted, InstallTypeOK

\* There is a first file.
LEMMA SourcesAreNumbers == /\ Sources = 1 .. NFiles /\ NFiles \in Nat \ {0}
                           /\ 1 \in Sources
BY SourcesAssumption DEF Sources

\* A file that is whole stays whole when an installer moves a file into place.
LEMMA RenameKeepsWhole ==
  ASSUME InstallInv, cache, NEW i \in Installers, RenameTmp(i)
  PROVE  /\ \A f \in Sources : Whole(f) => Whole(f)'
         /\ src'[inst[i].file] = Pack[inst[i].file]
         /\ src' \in SourceFiles
<1>1. inst[i].file \in Sources /\ inst[i].tmp = Pack[inst[i].file] /\ src \in SourceFiles
  BY DEF InstallInv, InstallerInv, RenameTmp
<1>2. Pack[inst[i].file] \in Texts
  BY <1>1, PackAssumption
<1>. QED  BY <1>1, <1>2 DEF RenameTmp, Whole, SourceFiles

\* At the start nobody installs.
LEMMA InitInv == Init => InstallInv
<1> SUFFICES ASSUME Init PROVE InstallInv
  OBVIOUS
<1>1. src \in SourceFiles /\ cache \in BOOLEAN
  BY DEF Init, SourceFiles
<1>2. \A i \in Installers : InstallerInv(i)
  BY SourcesAreNumbers DEF Init, InstallerInv
<1>3. inst \in [Installers -> [step : InstallSteps, file : Sources, tmp : Texts \cup {Absent, Cut}]]
      /\ done = FALSE
  BY SourcesAreNumbers DEF Init
<1> QED
  BY <1>1, <1>2, <1>3 DEF InstallInv, CompleteIsWhole

\* Steps that change neither the sources, nor the mark, nor an installer.
LEMMA QuietKeepsInv ==
  ASSUME InstallInv, UNCHANGED <<src, cache, done, inst>>
  PROVE  InstallInv'
BY DEF InstallInv, InstallerInv, CompleteIsWhole, Whole

\* A step of one installer, action by action.
LEMMA InstallerStepKeepsInv ==
  ASSUME InstallInv, NEW i \in Installers, InstallerStep(i)
  PROVE  InstallInv'
<1>1. cache /\ cache' = cache /\ InstallStep(i)
  BY DEF InstallerStep
<1>2. InstallerInv(i) /\ \A j \in Installers : InstallerInv(j)
  BY <1>1 DEF InstallInv
<1>3. CASE BeginInstall(i)
  <2>1. InstallerInv(i)'
    BY <1>1, <1>2, <1>3, SourcesAreNumbers
       DEF InstallInv, InstallerInv, BeginInstall, Becomes, CompleteIsWhole, Whole
  <2>2. InstallTypeOK'
    BY <1>1, <1>3, SourcesAreNumbers DEF InstallInv, BeginInstall, Becomes
  <2> QED
    BY <1>1, <1>2, <1>3, <2>1, <2>2 DEF InstallInv, InstallerInv, BeginInstall, Becomes, CompleteIsWhole, Whole
<1>4. CASE OpenTmp(i)
  BY <1>1, <1>2, <1>4 DEF InstallInv, InstallerInv, OpenTmp, Becomes, CompleteIsWhole, Whole
<1>5. CASE FillTmp(i)
  <2>1. Pack[inst[i].file] \in Texts
    BY PackAssumption DEF InstallInv
  <2> QED
    BY <1>1, <1>2, <1>5, <2>1 DEF InstallInv, InstallerInv, FillTmp, Becomes, CompleteIsWhole, Whole
<1>6. CASE RenameTmp(i)
  <2>1. /\ \A f \in Sources : Whole(f) => Whole(f)'
        /\ src'[inst[i].file] = Pack[inst[i].file]
        /\ src' \in SourceFiles
    BY <1>1, <1>6, RenameKeepsWhole
  <2>2. /\ inst[i].step = "rename" /\ inst[i].file \in Sources
        /\ \A f \in Sources : f < inst[i].file => Whole(f)
    BY <1>2, <1>6 DEF InstallInv, InstallerInv, RenameTmp
  <2>3. inst' = [inst EXCEPT ![i] = NextFile(inst[i].file)] /\ done' = done
    BY <1>6 DEF RenameTmp, Becomes
  <2>4. inst'[i] = NextFile(inst[i].file)
    BY <2>3 DEF InstallInv
  <2>5. InstallerInv(i)'
    <3>1. CASE inst[i].file = NFiles
      <4>1. \A f \in Sources : f < inst[i].file \/ f = inst[i].file
        BY <3>1, SourcesAreNumbers
      <4>2. \A f \in Sources : Whole(f)'
        BY <4>1, <2>1, <2>2 DEF Whole
      <4> QED
        BY <3>1, <4>2, <2>2, <2>4 DEF InstallerInv, NextFile
    <3>2. CASE inst[i].file # NFiles
      <4>1. inst[i].file + 1 \in Sources
        BY <3>2, <2>2, SourcesAreNumbers
      <4>2. \A f \in Sources : f < inst[i].file + 1 => f < inst[i].file \/ f = inst[i].file
        BY <2>2, SourcesAreNumbers
      <4>3. \A f \in Sources : f < inst[i].file + 1 => Whole(f)'
        BY <4>2, <2>1, <2>2 DEF Whole
      <4> QED
        BY <3>2, <4>1, <4>3, <2>4 DEF InstallerInv, NextFile
    <3> QED
      BY <3>1, <3>2
  <2>6. \A j \in Installers \ {i} : InstallerInv(j)'
    <3> TAKE j \in Installers \ {i}
    <3>1. inst'[j] = inst[j] /\ InstallerInv(j)
      BY <1>2, <2>3 DEF InstallInv
    <3> QED
      BY <3>1, <2>1 DEF InstallerInv
  <2>7. CompleteIsWhole'
    BY <1>1, <2>1, <2>3 DEF InstallInv, CompleteIsWhole, Whole
  <2>8. NextFile(inst[i].file) \in [step : InstallSteps, file : Sources, tmp : Texts \cup {Absent, Cut}]
    BY <2>2, SourcesAreNumbers DEF NextFile
  <2> QED
    BY <1>1, <2>1, <2>3, <2>5, <2>6, <2>7, <2>8 DEF InstallInv
<1>7. CASE WriteMark(i)
  BY <1>1, <1>2, <1>7, SourcesAreNumbers
     DEF InstallInv, InstallerInv, WriteMark, Becomes, CompleteIsWhole, Whole
<1>8. CASE AbandonInstall(i)
  BY <1>1, <1>2, <1>8, SourcesAreNumbers
     DEF InstallInv, InstallerInv, AbandonInstall, Becomes, CompleteIsWhole, Whole
<1> QED
  BY <1>1, <1>3, <1>4, <1>5, <1>6, <1>7, <1>8 DEF InstallStep

\* In a directory that is no cache nothing is claimed; the sources keep their
\* names.
LEMMA AuthorStepKeepsInv ==
  ASSUME InstallInv, AuthorStep
  PROVE  InstallInv'
<1>1. ~cache /\ cache' = cache /\ UNCHANGED <<done, inst>>
  BY DEF AuthorStep
<1>2. src' \in SourceFiles
  BY DEF InstallInv, SourceFiles, AuthorStep, AuthorNext, LoadStep, WriteStep, BeginLoad, ReadSource, ReadImage,
         BeginWrite, OpenImage, WriteBlocks, WriteRest, AbandonWrite, Edit, RemoveImage
<1> QED
  BY <1>1, <1>2 DEF InstallInv, CompleteIsWhole

\* A host that loads does not write.
LEMMA InstalledLoadKeepsInv ==
  ASSUME InstallInv, NEW h \in Hosts, InstalledLoad(h)
  PROVE  InstallInv'
<1>1. UNCHANGED <<src, cache, done, inst>>
  BY DEF InstalledLoad, LoadStep, BeginLoad, ReadSource, ReadImage
<1> QED
  BY <1>1, QuietKeepsInv

\* Whoever finds the mark .complete in the cache finds every file of the
\* embedded pack whole, for any number of installers and files and whatever
\* installers fail, die or lag behind.
THEOREM CacheIsWhole == Spec => []CompleteIsWhole
<1>1. Init => InstallInv
  BY InitInv
<1>2. InstallInv /\ [Next]_vars => InstallInv'
  <2> SUFFICES ASSUME InstallInv, [Next]_vars PROVE InstallInv'
    OBVIOUS
  <2>1. CASE UNCHANGED vars
    BY <2>1, QuietKeepsInv DEF vars, imageVars
  <2> QED
    BY <2>1, AuthorStepKeepsInv, InstallerStepKeepsInv, InstalledLoadKeepsInv DEF Next
<1>3. InstallInv => CompleteIsWhole
  BY DEF InstallInv
<1> QED
  BY <1>1, <1>2, <1>3, PTL DEF Spec

-----------------------------------------------------------------------------
(* The passes over the sources. *)

Helper(f) == f # Entry /\ src[f] # Absent

\* The loop of pack_lib_names: the helpers among the first f files.
Listed(list) ==
  /\ list \in [0 .. NFiles -> Seq(Sources \ {Entry})]
  /\ list[0] = <<>>
  /\ \A f \in 1 .. NFiles :
       list[f] = IF Helper(f) THEN Append(list[f - 1], f) ELSE list[f - 1]

\* A pass goes through the list of the helpers and then the entry.
LEMMA SourceListIs == \E list : Listed(list) /\ SourceList = Append(list[NFiles], Entry)
<1> DEFINE V == Seq(Sources \ {Entry})
           b == << >>
           Q(d) == d = [f \in 0 .. NFiles |-> IF f = 0 THEN <<>>
                          ELSE IF f # Entry /\ src[f] # Absent THEN Append(d[f - 1], f) ELSE d[f - 1]]
           D == CHOOSE d : Q(d)
           G == [f \in 1 .. NFiles |-> [s \in V |-> IF Helper(f) THEN Append(s, f) ELSE s]]
<1>0. NFiles \in Nat /\ b \in V /\ 1 .. NFiles = Sources
  BY SourcesAreNumbers
<1>1. G \in [1 .. NFiles -> [V -> V]]
  <2>1. ASSUME NEW f \in 1 .. NFiles, NEW s \in V
        PROVE  (IF Helper(f) THEN Append(s, f) ELSE s) \in V
    BY <1>0 DEF Helper
  <2>. HIDE DEF V
  <2>. QED  BY <2>1
<1>2. PICK d : Recurs(d, NFiles, V, b, G)
  <2>. HIDE DEF G, V, b
  <2>. QED  BY <1>0, <1>1, Recursion
<1>3. ASSUME NEW f \in 1 .. NFiles
      PROVE  d[f] = IF Helper(f) THEN Append(d[f - 1], f) ELSE d[f - 1]
  <2>1. f - 1 \in 0 .. NFiles
    BY <1>0
  <2>2. d[f - 1] \in V
    BY <1>2, <2>1 DEF Recurs
  <2>. HIDE DEF V
  <2>. QED  BY <1>2, <2>2 DEF Recurs
<1>4. d \in [0 .. NFiles -> V] /\ d[0] = <<>>
  BY <1>2 DEF Recurs
<1>5. Q(d)
  <2>. HIDE DEF G, V
  <2>1. \A f \in 0 .. NFiles : d[f] = IF f = 0 THEN <<>>
          ELSE IF f # Entry /\ src[f] # Absent THEN Append(d[f - 1], f) ELSE d[f - 1]
    <3>. TAKE f \in 0 .. NFiles
    <3>1. f # 0 => f \in 1 .. NFiles
      BY <1>0
    <3>. QED  BY <1>3, <1>4, <3>1 DEF Helper
  <2>. QED  BY <1>4, <2>1
<1>6. Q(D)
  <2>. HIDE DEF Q
  <2>. QED  BY <1>5
<1>7. SourceList = Append(D[NFiles], Entry)
  BY DEF SourceList
<1>. HIDE DEF D
<1>8. ASSUME NEW f \in 1 .. NFiles
      PROVE  D[f] = IF Helper(f) THEN Append(D[f - 1], f) ELSE D[f - 1]
  <2>1. f \in 0 .. NFiles /\ f # 0
    BY <1>0
  <2>. QED  BY <1>6, <2>1 DEF Helper
<1>9. D[0] = <<>>
  BY <1>0, <1>6
<1> DEFINE S == {f \in 0 .. NFiles : D[f] \in V}
<1>10. 0 \in S
  <2>1. 0 \in 0 .. NFiles /\ D[0] \in V
    BY <1>0, <1>9
  <2>. HIDE DEF V
  <2>. QED  BY <2>1
<1>11. ASSUME NEW f \in 0 .. NFiles, f < NFiles, f \in S
       PROVE  f + 1 \in S
  <2>1. f + 1 \in 0 .. NFiles /\ f + 1 \in 1 .. NFiles /\ (f + 1) - 1 = f
    BY <1>0, <1>11
  <2>2. D[f + 1] = IF Helper(f + 1) THEN Append(D[f], f + 1) ELSE D[f]
    BY <1>8, <2>1
  <2>3. PICK s \in V : s = D[f]
    BY <1>11
  <2>4. Helper(f + 1) => Append(s, f + 1) \in V
    BY <1>0, <2>1 DEF Helper
  <2>. HIDE DEF V
  <2>. QED  BY <2>1, <2>2, <2>3, <2>4
<1>12. \A f \in 0 .. NFiles : f \in S
  <2>. HIDE DEF S
  <2>. QED  BY <1>0, <1>10, <1>11, InductionTo
<1>13. D \in [0 .. NFiles -> V]
  <2>1. D = [f \in 0 .. NFiles |-> D[f]]
    BY <1>6
  <2>. QED  BY <1>12, <2>1
<1>. QED  BY <1>7, <1>8, <1>9, <1>13 DEF Listed

\* The entry is read, and it is read last.
LEMMA EntryIsLast ==
  /\ SourceList \in Seq(Sources) /\ Len(SourceList) \in Nat \ {0}
  /\ \A i \in 1 .. Len(SourceList) : SourceList[i] = Entry <=> i = Len(SourceList)
<1>1. PICK list : Listed(list) /\ SourceList = Append(list[NFiles], Entry)
  BY SourceListIs
<1>2. list[NFiles] \in Seq(Sources \ {Entry})
  BY <1>1, SourcesAreNumbers DEF Listed
<1>3. PICK l \in Seq(Sources \ {Entry}) : l = list[NFiles]
  BY <1>2
<1>4. l \in Seq(Sources) /\ Entry \in Sources
  BY SourcesAssumption, SeqMonotonic
<1>5. \A i \in 1 .. Len(l) : l[i] # Entry
  OBVIOUS
<1>6. SourceList = Append(l, Entry)
  BY <1>1, <1>3
<1>. QED  BY <1>4, <1>5, <1>6

\* The i-th file of a pass over a pack of which no file is missing.
InOrder(i) == IF i = NFiles THEN Entry ELSE IF i < Entry THEN i ELSE i + 1

\* Without a missing file the pass goes through all of them.
LEMMA WholeList ==
  ASSUME \A f \in Sources : src[f] # Absent
  PROVE  SourceList = [i \in Sources |-> InOrder(i)]
<1>0. NFiles \in Nat /\ Sources = 1 .. NFiles /\ Entry \in 1 .. NFiles
  BY SourcesAreNumbers, SourcesAssumption
<1>1. PICK list : Listed(list) /\ SourceList = Append(list[NFiles], Entry)
  BY SourceListIs
<1> DEFINE n(f) == IF Entry <= f THEN f - 1 ELSE f
           Ok(f) == /\ Len(list[f]) = n(f)
                    /\ \A i \in 1 .. n(f) : list[f][i] = IF i < Entry THEN i ELSE i + 1
           S == {f \in 0 .. NFiles : Ok(f)}
<1>2. 0 \in S
  BY <1>0, <1>1 DEF Listed
<1>3. ASSUME NEW f \in 0 .. NFiles, f < NFiles, f \in S
      PROVE  f + 1 \in S
  <2>1. f + 1 \in 1 .. NFiles /\ f + 1 \in 0 .. NFiles /\ (f + 1) - 1 = f
    BY <1>0, <1>3
  <2>2. PICK l \in Seq(Sources \ {Entry}) : l = list[f]
    BY <1>1 DEF Listed
  <2>3. PICK m \in Nat : m = Len(l) /\ m = n(f)
    BY <1>0, <1>3, <2>2
  <2>4. \A i \in 1 .. m : l[i] = IF i < Entry THEN i ELSE i + 1
    BY <1>3, <2>2, <2>3
  <2>5. list[f + 1] = IF f + 1 # Entry THEN Append(l, f + 1) ELSE l
    BY <1>0, <1>1, <2>1, <2>2 DEF Listed, Helper
  <2>6. CASE f + 1 = Entry
    <3>1. n(f + 1) = f /\ m = f
      BY <1>0, <2>3, <2>6
    <3>2. list[f + 1] = l
      BY <2>5, <2>6
    <3>. QED  BY <2>1, <2>3, <2>4, <3>1, <3>2
  <2>7. CASE f + 1 # Entry
    <3>1. n(f + 1) = m + 1 /\ f + 1 = IF m + 1 < Entry THEN m + 1 ELSE (m + 1) + 1
      BY <1>0, <2>3, <2>7
    <3>2. PICK g \in Sources \ {Entry} : g = f + 1
      BY <1>0, <2>1, <2>7
    <3>3. list[f + 1] = Append(l, g)
      BY <2>5, <2>7, <3>2
    <3>4. PICK e : e = Append(l, g)
      OBVIOUS
    <3>5. Len(e) = m + 1 /\ \A i \in 1 .. m + 1 : e[i] = IF i = m + 1 THEN g ELSE l[i]
      <4>1. Len(l) = m
        BY <2>3
      <4>. QED  BY <3>4, <4>1
    <3>6. \A i \in 1 .. m + 1 : e[i] = IF i < Entry THEN i ELSE i + 1
      BY <2>3, <2>4, <3>1, <3>2, <3>5
    <3>7. list[f + 1] = e
      BY <3>3, <3>4
    <3>. QED  BY <2>1, <3>1, <3>5, <3>6, <3>7
  <2>. QED  BY <2>6, <2>7
<1>4. NFiles \in S
  <2>. HIDE DEF S
  <2>1. \A f \in 0 .. NFiles : f \in S
    BY <1>0, <1>2, <1>3, InductionTo
  <2>. QED  BY <1>0, <2>1
<1>5. PICK l \in Seq(Sources \ {Entry}) : l = list[NFiles]
  BY <1>0, <1>1 DEF Listed
<1>6. Len(l) = NFiles - 1 /\ \A i \in 1 .. NFiles - 1 : l[i] = IF i < Entry THEN i ELSE i + 1
  BY <1>0, <1>4, <1>5
<1>7. SourceList = Append(l, Entry)
  BY <1>1, <1>5
<1>8. SourceList = [i \in 1 .. NFiles |-> IF i = NFiles THEN Entry ELSE l[i]]
  BY <1>0, <1>5, <1>6, <1>7
<1>. QED  BY <1>0, <1>6, <1>8 DEF InOrder

-----------------------------------------------------------------------------
(* What the processes, the image and the laws have to do with the sources. *)

\* A pass always ends with the entry.
Ahead(x) ==
  op[x].step \in {"compile", "hash"} =>
    op[x].todo # <<>> /\ op[x].todo[Len(op[x].todo)] = Entry

\* What process x has read is how the sources are now, and what it is still to
\* read is the rest of them.
Sees(x) ==
  /\ op[x].step \in {"compile", "hash"} =>
       /\ Len(op[x].acc) + Len(op[x].todo) = Len(SourceList)
       /\ \A i \in 1 .. Len(op[x].acc) : op[x].acc[i] = Current[i]
       /\ \A i \in 1 .. Len(op[x].todo) : op[x].todo[i] = SourceList[Len(op[x].acc) + i]
  /\ op[x].step \in {"image", "open", "blocks", "rest"} => op[x].acc = Current

Written == {"hash", "open", "blocks", "rest"}

\* A host that no change of the sources has overtaken.
HostsSee == \A h \in Hosts \ touched : Sees(h)

\* Writers compile something, which as long as nothing has raced is what
\* there is, and the same for all of them.
Substantial(l) == l = Nothing \/ l.from # <<>>
WritersHold == \A w \in Writers : op[w].step \in Written => op[w].compiled.from # <<>>
WritersSee ==
  \A w \in Writers :
    /\ Sees(w)
    /\ op[w].step \in Written => op[w].compiled = Compiled(w, Current)
OneBuild ==
  \A v, w \in Writers :
    (op[v].step # "idle" /\ op[w].step # "idle") => JanetVersion[v] = JanetVersion[w]

\* Every part of the image that has been written is what the header says, and
\* what each writer that has opened the image is to write.
ImageSound ==
  /\ image.header = NoHeader => image.blocks = Nothing
  /\ image.header # NoHeader =>
       /\ image.blocks = [by |-> image.header.by, from |-> image.header.of]
       /\ image.rest \in {Nothing, image.blocks}
  /\ \A w \in Writers :
       op[w].step \in {"blocks", "rest"} =>
         image.blocks \in {Nothing, op[w].compiled} /\ image.rest \in {Nothing, op[w].compiled}

\* A cache has no image and no author, and its hosts load after an install.
CacheQuiet ==
  /\ image = NoImage /\ touched = {} /\ ~raced
  /\ \A w \in Writers : op[w] = Idle
  /\ \A h \in Hosts :
       /\ op[h].step \in {"idle", "compile"}
       /\ (op[h].step # "idle" \/ law[h] # NoLaw) => inst[h].step = "ok"

ImageInv ==
  /\ ImageTypeOK
  /\ \A x \in Procs : Ahead(x)
  /\ HostsSee
  /\ WritersHold /\ Substantial(image.blocks) /\ Substantial(image.rest)
  /\ ~raced => WritersSee /\ OneBuild /\ ImageSound
  /\ cache => CacheQuiet
  /\ LawIsSources /\ ImageNeverFails

OpRecord == [step : {"idle", "compile", "hash", "image", "open", "blocks", "rest"},
             todo : Seq(Sources), acc : Seq(ReadText), compiled : Law]

\* The list of the sources and what they hold depend on nothing else.
LEMMA SameSources ==
  ASSUME src' = src
  PROVE  SourceList' = SourceList /\ Current' = Current /\ (Compilable' <=> Compilable)
<1>1. SourceList' = SourceList
  BY DEF SourceList
<1>2. Current' = Current
  BY <1>1 DEF Current
<1>. QED  BY <1>1, <1>2 DEF Compilable

\* What a pass over the sources as they are would read.
LEMMA CurrentIs ==
  /\ DOMAIN Current = 1 .. Len(SourceList)
  /\ \A i \in 1 .. Len(SourceList) :
       Current[i] = [file |-> SourceList[i], text |-> src[SourceList[i]]]
BY EntryIsLast DEF Current

\* Who does not move sees what it saw.
LEMMA SeesSame ==
  ASSUME src' = src, NEW x, op'[x] = op[x], Sees(x)
  PROVE  Sees(x)'
<1>1. SourceList' = SourceList /\ Current' = Current
  BY SameSources
<1>2. PICK o : o = op[x]
  OBVIOUS
<1>3. op'[x] = o /\ op[x] = o
  BY <1>2
<1>. QED  BY <1>1, <1>3 DEF Sees

\* A pass that begins has everything ahead.
LEMMA PassBegins ==
  ASSUME NEW x \in Procs, NEW step \in {"compile", "hash"}, NEW c \in Law,
         src' = src, op'[x] = Pass(step, c)
  PROVE  /\ Pass(step, c) \in OpRecord
         /\ Ahead(x)' /\ Sees(x)'
<1>1. Pass(step, c) = [step |-> step, todo |-> SourceList, acc |-> <<>>, compiled |-> c]
  BY DEF Pass
<1>2. SourceList \in Seq(Sources) /\ Len(SourceList) \in Nat \ {0} /\ SourceList[Len(SourceList)] = Entry
  BY EntryIsLast
<1>3. Pass(step, c) \in OpRecord
  BY <1>1, <1>2 DEF OpRecord
<1>4. /\ op'[x].step = step /\ op'[x].todo = SourceList /\ op'[x].acc = <<>>
      /\ SourceList' = SourceList /\ Current' = Current
  BY <1>1, SameSources
<1>5. Ahead(x)'
  BY <1>2, <1>4 DEF Ahead
<1>6. Sees(x)'
  <2>1. Len(<<>>) = 0 /\ 1 .. 0 = {}
    OBVIOUS
  <2>2. PICK L : L = SourceList
    OBVIOUS
  <2>3. L \in Seq(Sources) /\ Len(L) \in Nat
    BY <1>2, <2>2
  <2>4. 0 + Len(L) = Len(L) /\ \A i \in 1 .. Len(L) : 0 + i = i
    BY <2>3
  <2>. QED  BY <1>4, <2>1, <2>2, <2>4 DEF Sees
<1>. QED  BY <1>3, <1>5, <1>6

\* What a pass reads of file f, and what it has read then.
ReadAlso(x, f) == Append(op[x].acc, [file |-> f, text |-> src[f]])

\* What is known after file f of the pass of x.
ReadsOn(x, f, acc, todo) ==
  /\ src[f] # Absent => acc \in Seq(ReadText) /\ acc # <<>>
  /\ f # Entry => todo \in Seq(Sources) /\ todo # <<>> /\ todo[Len(todo)] = Entry
  /\ Sees(x) =>
       /\ \E i \in DOMAIN Current : Current[i].text = src[f]
       /\ f = Entry => acc = Current
       /\ f # Entry =>
            /\ Len(acc) + Len(todo) = Len(SourceList)
            /\ \A i \in 1 .. Len(acc) : acc[i] = Current[i]
            /\ \A i \in 1 .. Len(todo) : todo[i] = SourceList[Len(acc) + i]

\* One file further in a pass.
LEMMA OneFile ==
  ASSUME ImageTypeOK, NEW x \in Procs, Ahead(x), op[x].step \in {"compile", "hash"}
  PROVE  ReadsOn(x, Head(op[x].todo), ReadAlso(x, Head(op[x].todo)), Tail(op[x].todo))
<1>0. PICK f, acc : f = Head(op[x].todo) /\ acc = ReadAlso(x, f)
  OBVIOUS
<1>1. PICK t \in Seq(Sources), a \in Seq(ReadText) : t = op[x].todo /\ a = op[x].acc
  BY DEF ImageTypeOK
<1>2. t # <<>> /\ t[Len(t)] = Entry
  BY <1>1 DEF Ahead
<1>3. f = t[1] /\ f \in Sources /\ Len(t) \in Nat \ {0}
  BY <1>0, <1>1, <1>2
<1>4. PICK e : e = [file |-> f, text |-> src[f]]
  OBVIOUS
<1>5. PICK n \in Nat, m \in Nat : n = Len(a) /\ m = Len(t)
  OBVIOUS
<1>6. /\ acc = Append(a, e) /\ Len(acc) = n + 1
      /\ \A i \in 1 .. n + 1 : acc[i] = IF i = n + 1 THEN e ELSE a[i]
      /\ DOMAIN acc = 1 .. n + 1 /\ acc = [i \in 1 .. n + 1 |-> acc[i]]
  <2>1. acc = Append(a, e)
    BY <1>0, <1>1, <1>4 DEF ReadAlso
  <2>2. PICK T : T = ReadText \cup {e}
    OBVIOUS
  <2>3. a \in Seq(T) /\ e \in T
    BY <2>2, SeqMonotonic
  <2>4. acc \in Seq(T) /\ Len(acc) = n + 1 /\ acc[n + 1] = e /\ \A i \in 1 .. n : acc[i] = a[i]
    BY <1>5, <2>1, <2>3, AppendProperties
  <2>5. DOMAIN acc = 1 .. n + 1 /\ acc = [i \in 1 .. n + 1 |-> acc[i]]
    <3>1. acc \in [1 .. Len(acc) -> T]
      BY <2>4
    <3>2. acc \in [1 .. n + 1 -> T]
      BY <2>4, <3>1
    <3>. QED  BY <3>2
  <2>6. \A i \in 1 .. n + 1 : acc[i] = IF i = n + 1 THEN e ELSE a[i]
    BY <2>4
  <2>. QED  BY <2>1, <2>4, <2>5, <2>6
<1>7. /\ Tail(t) \in Seq(Sources) /\ Len(Tail(t)) = m - 1
      /\ \A i \in 1 .. m - 1 : Tail(t)[i] = t[i + 1]
  BY <1>2, <1>3, <1>5
<1>8. src[f] # Absent => acc \in Seq(ReadText) /\ acc # <<>>
  <2>1. src[f] # Absent => e \in ReadText
    BY <1>3, <1>4 DEF ReadText, ImageTypeOK
  <2>2. acc = Append(a, e) /\ acc # <<>>
    <3>1. 1 \in DOMAIN acc /\ DOMAIN <<>> = {}
      BY <1>5, <1>6
    <3>. QED  BY <1>6, <3>1
  <2>3. e \in ReadText => Append(a, e) \in Seq(ReadText)
    OBVIOUS
  <2>. QED  BY <2>1, <2>2, <2>3
<1>9. f # Entry => /\ Tail(t) \in Seq(Sources) \ {<<>>}
                   /\ Tail(t)[Len(Tail(t))] = Entry
  <2>. SUFFICES ASSUME f # Entry
                PROVE  Tail(t) # <<>> /\ Tail(t)[Len(Tail(t))] = Entry
    BY <1>7
  <2>1. m > 1
    BY <1>2, <1>3, <1>5
  <2>2. m - 1 \in 1 .. m - 1 /\ (m - 1) + 1 = m
    BY <2>1
  <2>3. Tail(t)[m - 1] = Entry
    BY <1>2, <1>5, <1>7, <2>2
  <2>4. Tail(t) # <<>>
    <3>1. PICK u \in Seq(Sources) : u = Tail(t)
      BY <1>7
    <3>2. Len(u) # 0
      <4>1. m - 1 # 0
        BY <2>1
      <4>2. Len(u) = m - 1
        BY <1>7, <3>1
      <4>. QED  BY <4>1, <4>2
    <3>. QED  BY <3>1, <3>2
  <2>. QED  BY <1>7, <2>3, <2>4
<1>10. ASSUME Sees(x)
       PROVE  /\ \E i \in DOMAIN Current : Current[i].text = src[f]
              /\ f = Entry => acc = Current
              /\ f # Entry =>
                   /\ Len(acc) + Len(Tail(t)) = Len(SourceList)
                   /\ \A i \in 1 .. Len(acc) : acc[i] = Current[i]
                   /\ \A i \in 1 .. Len(Tail(t)) : Tail(t)[i] = SourceList[Len(acc) + i]
  <2>1. PICK k \in Nat : k = Len(SourceList)
    BY EntryIsLast
  <2>2. /\ n + m = k
        /\ \A i \in 1 .. n : a[i] = Current[i]
        /\ \A i \in 1 .. m : t[i] = SourceList[n + i]
    BY <1>1, <1>5, <1>10, <2>1 DEF Sees
  <2>3. n + 1 \in 1 .. k /\ f = SourceList[n + 1]
    BY <1>3, <1>5, <2>2
  <2>4. Current[n + 1] = e /\ n + 1 \in DOMAIN Current /\ DOMAIN Current = 1 .. k
    BY <1>4, <2>1, <2>3, CurrentIs
  <2>5. \A i \in 1 .. n + 1 : acc[i] = Current[i]
    BY <1>5, <1>6, <2>2, <2>4
  <2>6. f = Entry <=> n + 1 = k
    BY <2>1, <2>3, EntryIsLast
  <2>7. f = Entry => acc = Current
    <3>1. Current = [i \in 1 .. k |-> Current[i]]
      BY <2>1, EntryIsLast DEF Current
    <3>. QED  BY <1>6, <2>5, <2>6, <3>1
  <2>8. /\ (n + 1) + (m - 1) = k
        /\ \A i \in 1 .. m - 1 : Tail(t)[i] = SourceList[(n + 1) + i]
    <3>1. \A i \in 1 .. m - 1 : i + 1 \in 1 .. m /\ (n + 1) + i = n + (i + 1)
      OBVIOUS
    <3>. QED  BY <1>7, <2>2, <3>1
  <2>9. Current[n + 1].text = src[f]
    BY <1>4, <2>4
  <2>. QED  BY <1>6, <1>7, <2>1, <2>4, <2>5, <2>7, <2>8, <2>9
<1>11. ReadsOn(x, f, acc, Tail(t))
  BY <1>8, <1>9, <1>10 DEF ReadsOn
<1>. QED  BY <1>0, <1>1, <1>11

-----------------------------------------------------------------------------
(* The steps of the processes. *)

ImageRecord == [there : BOOLEAN, header : [by : Vers \cup {"none"}, of : Seq(ReadText)],
                blocks : Law, rest : Law]

\* The law of host h after a step of its own.
Lawful(h, l) ==
  /\ (l \notin {NoLaw, Failed} /\ h \notin touched' /\ ~raced) => l = Compiled(h, Current)
  /\ (l = Failed /\ h \notin touched') => ~Compilable

\* A step of one host leaves what is known of the others alone.
LEMMA HostMoves ==
  ASSUME ImageInv, NEW h \in Hosts, NEW o \in OpRecord, NEW l \in Law,
         UNCHANGED <<src, edits, image, raced, cache, inst>>,
         op' = [op EXCEPT ![h] = o], law' = [law EXCEPT ![h] = l],
         touched' = touched \/ touched' = touched \ {h},
         Ahead(h)', h \notin touched' => Sees(h)', Lawful(h, l),
         cache => o.step \in {"idle", "compile"} /\ inst[h].step = "ok"
  PROVE  ImageInv'
<1>1. SourceList' = SourceList /\ Current' = Current /\ (Compilable' <=> Compilable)
  BY SameSources
<1>2. /\ op \in [Procs -> OpRecord] /\ law \in [Hosts -> Law] /\ h \in Procs
      /\ touched \subseteq Hosts /\ h \notin Writers
  BY ProcsAssumption DEF ImageInv, ImageTypeOK, OpRecord, Procs
<1>3. /\ op'[h] = o /\ \A y \in Procs : y # h => op'[y] = op[y]
      /\ law'[h] = l /\ \A k \in Hosts : k # h => law'[k] = law[k]
      /\ \A w \in Writers : w \in Procs /\ op'[w] = op[w]
  BY <1>2 DEF Procs
<1>4. op' \in [Procs -> OpRecord] /\ law' \in [Hosts -> Law] /\ touched' \subseteq Hosts
  BY <1>2
<1>5. ImageTypeOK'
  BY <1>4 DEF ImageInv, ImageTypeOK, OpRecord
<1>6. \A y \in Procs : Ahead(y)'
  BY <1>3 DEF ImageInv, Ahead
<1>7. HostsSee'
  <2>. SUFFICES ASSUME NEW k \in Hosts \ touched'
                PROVE  Sees(k)'
    BY DEF HostsSee
  <2>1. CASE k = h
    BY <2>1
  <2>2. CASE k # h
    <3>1. k \notin touched /\ op'[k] = op[k]
      BY <1>2, <1>3, <2>2 DEF Procs
    <3>2. Sees(k)
      BY <3>1 DEF ImageInv, HostsSee
    <3>. QED  BY <3>1, <3>2, SeesSame
  <2>. QED  BY <2>1, <2>2
<1>8. WritersHold' /\ Substantial(image.blocks)' /\ Substantial(image.rest)'
  BY <1>3 DEF ImageInv, WritersHold, Substantial
<1>9. ~raced' => WritersSee' /\ OneBuild' /\ ImageSound'
  <2>. SUFFICES ASSUME ~raced
                PROVE  WritersSee' /\ OneBuild' /\ ImageSound'
    OBVIOUS
  <2>1. WritersSee'
    <3>. SUFFICES ASSUME NEW w \in Writers
                  PROVE  /\ Sees(w)'
                         /\ op[w].step \in Written => op[w].compiled = Compiled(w, Current)
      BY <1>1, <1>3 DEF WritersSee, Written, Compiled
    <3>1. Sees(w) /\ (op[w].step \in Written => op[w].compiled = Compiled(w, Current))
      BY DEF ImageInv, WritersSee
    <3>2. op'[w] = op[w]
      BY <1>3
    <3>. QED  BY <3>1, <3>2, SeesSame
  <2>2. OneBuild' /\ ImageSound'
    BY <1>3 DEF ImageInv, OneBuild, ImageSound
  <2>. QED  BY <2>1, <2>2
<1>10. cache' => CacheQuiet'
  <2>. SUFFICES ASSUME cache
                PROVE  CacheQuiet'
    OBVIOUS
  <2>1. CacheQuiet
    BY DEF ImageInv
  <2>2. image' = NoImage /\ touched' = {} /\ ~raced' /\ \A w \in Writers : op'[w] = Idle
    BY <1>3, <2>1 DEF CacheQuiet
  <2>3. ASSUME NEW k \in Hosts
        PROVE  /\ op'[k].step \in {"idle", "compile"}
               /\ (op'[k].step # "idle" \/ law'[k] # NoLaw) => inst'[k].step = "ok"
    <3>1. CASE k = h
      BY <1>3, <3>1
    <3>2. CASE k # h
      BY <1>3, <2>1, <3>2 DEF CacheQuiet, Procs
    <3>. QED  BY <3>1, <3>2
  <2>. QED  BY <2>2, <2>3 DEF CacheQuiet
<1>11. LawIsSources' /\ ImageNeverFails'
  <2>1. ASSUME NEW k \in Hosts
        PROVE  /\ (law'[k] \notin {NoLaw, Failed} /\ k \notin touched' /\ ~raced) =>
                    law'[k] = Compiled(k, Current)
               /\ (law'[k] = Failed /\ k \notin touched') => ~Compilable
    <3>1. CASE k = h
      BY <1>3, <3>1 DEF Lawful
    <3>2. CASE k # h
      BY <1>3, <3>2 DEF ImageInv, LawIsSources, ImageNeverFails
    <3>. QED  BY <3>1, <3>2
  <2>2. NoLaw' = NoLaw /\ Failed' = Failed /\ \A k \in Hosts : Compiled(k, Current)' = Compiled(k, Current)
    BY <1>1 DEF NoLaw, Nothing, Failed, Compiled
  <2>. QED  BY <1>1, <2>1, <2>2 DEF LawIsSources, ImageNeverFails
<1>. QED  BY <1>5, <1>6, <1>7, <1>8, <1>9, <1>10, <1>11 DEF ImageInv

\* A step of one writer, in the directory of an author.
LEMMA WriterMoves ==
  ASSUME ImageInv, NEW w \in Writers, NEW o \in OpRecord, ~cache,
         UNCHANGED <<src, edits, law, touched, cache, inst>>,
         op' = [op EXCEPT ![w] = o], image' \in ImageRecord, raced' \in BOOLEAN, raced => raced',
         Substantial(image'.blocks), Substantial(image'.rest),
         Ahead(w)', o.step \in Written => o.compiled.from # <<>>,
         ~raced' => /\ Sees(w)' /\ (o.step \in Written => o.compiled = Compiled(w, Current))
                    /\ OneBuild' /\ ImageSound'
  PROVE  ImageInv'
<1>1. SourceList' = SourceList /\ Current' = Current /\ (Compilable' <=> Compilable)
  BY SameSources
<1>2. op \in [Procs -> OpRecord] /\ w \in Procs /\ w \notin Hosts
  BY ProcsAssumption DEF ImageInv, ImageTypeOK, OpRecord, Procs
<1>3. /\ op'[w] = o /\ \A y \in Procs : y # w => op'[y] = op[y]
      /\ \A h \in Hosts : op'[h] = op[h]
  BY <1>2 DEF Procs
<1>4. ImageTypeOK'
  <2>1. op' \in [Procs -> OpRecord]
    BY <1>2
  <2>. QED  BY <2>1 DEF ImageInv, ImageTypeOK, OpRecord, ImageRecord
<1>5. \A y \in Procs : Ahead(y)'
  BY <1>3 DEF ImageInv, Ahead
<1>6. HostsSee'
  <2>. SUFFICES ASSUME NEW h \in Hosts \ touched
                PROVE  Sees(h)'
    BY DEF HostsSee
  <2>1. Sees(h) /\ op'[h] = op[h]
    BY <1>3 DEF ImageInv, HostsSee
  <2>. QED  BY <2>1, SeesSame
<1>7. WritersHold'
  <2>. SUFFICES ASSUME NEW v \in Writers, op'[v].step \in Written
                PROVE  op'[v].compiled.from # <<>>
    BY DEF WritersHold, Written
  <2>1. v # w => op'[v] = op[v]
    BY <1>3 DEF Procs
  <2>. QED  BY <1>3, <2>1 DEF ImageInv, WritersHold
<1>8. ~raced' => WritersSee'
  <2>. SUFFICES ASSUME ~raced', NEW v \in Writers
                PROVE  /\ Sees(v)'
                       /\ op'[v].step \in Written => op'[v].compiled = Compiled(v, Current)
    BY <1>1 DEF WritersSee, Written, Compiled
  <2>1. CASE v = w
    BY <1>3, <2>1
  <2>2. CASE v # w
    <3>1. op'[v] = op[v]
      BY <1>3, <2>2 DEF Procs
    <3>2. Sees(v) /\ (op[v].step \in Written => op[v].compiled = Compiled(v, Current))
      BY DEF ImageInv, WritersSee
    <3>. QED  BY <3>1, <3>2, SeesSame
  <2>. QED  BY <2>1, <2>2
<1>9. LawIsSources' /\ ImageNeverFails'
  BY <1>1 DEF ImageInv, LawIsSources, ImageNeverFails, NoLaw, Nothing, Failed, Compiled
<1>. QED  BY <1>4, <1>5, <1>6, <1>7, <1>8, <1>9 DEF ImageInv, Substantial, Nothing

\* The pieces of a step are well typed.
LEMMA PartsType ==
  /\ Nothing \in Law /\ Failed \in Law /\ Garbage \in Law /\ Idle \in OpRecord
  /\ Idle.step = "idle" /\ Idle.acc = <<>>
  /\ Emptied \in ImageRecord /\ NoImage \in ImageRecord
  /\ Failed # NoLaw /\ Garbage # Failed
  /\ \A x \in Procs, acc \in Seq(ReadText) :
       /\ Compiled(x, acc) \in Law /\ Compiled(x, acc).from = acc
       /\ Header(x, acc) \in [by : Vers \cup {"none"}, of : Seq(ReadText)]
       /\ acc # <<>> => Compiled(x, acc) \notin {NoLaw, Failed} /\ Header(x, acc) # NoHeader
<1>1. <<>> \in Seq(ReadText) /\ <<>> \in Seq(Sources)
  OBVIOUS
<1>2. Nothing \in Law /\ Failed \in Law /\ Garbage \in Law /\ Failed # NoLaw /\ Garbage # Failed
  BY <1>1 DEF Nothing, Failed, Garbage, Law, NoLaw
<1>3. Idle \in OpRecord /\ Idle.step = "idle" /\ Idle.acc = <<>>
  BY <1>1, <1>2 DEF Idle, OpRecord
<1>4. Emptied \in ImageRecord /\ NoImage \in ImageRecord
  BY <1>1, <1>2 DEF Emptied, NoImage, NoHeader, ImageRecord
<1>5. ASSUME NEW x \in Procs, NEW acc \in Seq(ReadText)
      PROVE  /\ Compiled(x, acc) \in Law /\ Compiled(x, acc).from = acc
             /\ Header(x, acc) \in [by : Vers \cup {"none"}, of : Seq(ReadText)]
             /\ acc # <<>> => Compiled(x, acc) \notin {NoLaw, Failed} /\ Header(x, acc) # NoHeader
  <2>1. JanetVersion[x] \in Vers
    BY DEF Vers
  <2>. QED  BY <2>1 DEF Compiled, Header, Law, NoLaw, Nothing, Failed, NoHeader
<1>. QED  BY <1>2, <1>3, <1>4, <1>5

\* Who has nothing to do sees everything there is to see.
LEMMA IdleSees ==
  ASSUME NEW x, op'[x] = Idle
  PROVE  Ahead(x)' /\ Sees(x)'
BY PartsType DEF Ahead, Sees

\* A file that a pass cannot use is the end of a load from the sources, and
\* the sources do not compile.
LEMMA HostReads ==
  ASSUME ImageInv, NEW h \in Hosts, ReadSource(h), UNCHANGED <<cache, inst>>,
         cache => inst[h].step = "ok"
  PROVE  ImageInv'
<1>1. PICK f, acc, todo : f = Head(op[h].todo) /\ acc = ReadAlso(h, f) /\ todo = Tail(op[h].todo)
  OBVIOUS
<1>2. h \in Procs /\ h \notin Writers /\ Ahead(h) /\ ImageTypeOK /\ op[h].step \in {"compile", "hash"}
  BY ProcsAssumption DEF ImageInv, Procs, ReadSource
<1>3. PICK unusable \in BOOLEAN : unusable = (src[f] = Absent \/ (op[h].step = "compile" /\ src[f] = Broken))
  OBVIOUS
<1>4. /\ UNCHANGED <<src, edits, image, touched, raced>>
      /\ \/ unusable /\ PassFails(h)
         \/ ~unusable /\ f = Entry /\ PassEnds(h, acc)
         \/ /\ ~unusable /\ f # Entry
            /\ op' = [op EXCEPT ![h] = [op[h] EXCEPT !.todo = Tail(@), !.acc = acc]]
            /\ UNCHANGED law
  BY <1>1, <1>3 DEF ReadSource, Goto, ReadAlso
<1>5. law \in [Hosts -> Law] /\ op[h] \in OpRecord /\ op \in [Procs -> OpRecord]
  BY <1>2 DEF ImageTypeOK, OpRecord
<1>6. law[h] \in Law /\ [law EXCEPT ![h] = law[h]] = law /\ Lawful(h, law[h])
  BY <1>4, <1>5 DEF ImageInv, LawIsSources, ImageNeverFails, Lawful
<1>7. cache => op[h].step = "compile"
  BY <1>2 DEF ImageInv, CacheQuiet
<1>8. h \notin touched => Sees(h)
  BY DEF ImageInv, HostsSee
<1>a. ReadsOn(h, f, acc, todo)
  BY <1>1, <1>2, OneFile
<1>9. CASE unusable /\ op[h].step = "hash"
  <2>1. op' = [op EXCEPT ![h] = Pass("compile", Nothing)] /\ UNCHANGED law
    BY <1>2, <1>4, <1>9 DEF PassFails, Goto
  <2>2. op'[h] = Pass("compile", Nothing)
    BY <1>2, <1>5, <2>1
  <2>3. Pass("compile", Nothing) \in OpRecord /\ Ahead(h)' /\ Sees(h)'
    BY <1>2, <1>4, <2>2, PassBegins, PartsType
  <2>. QED  BY <1>4, <1>6, <1>7, <1>9, <2>1, <2>3, HostMoves
<1>10. CASE unusable /\ op[h].step = "compile"
  <2>1. op' = [op EXCEPT ![h] = Idle] /\ law' = [law EXCEPT ![h] = Failed]
    BY <1>2, <1>4, <1>10 DEF PassFails, Goto
  <2>2. op'[h] = Idle
    BY <1>2, <1>5, <2>1
  <2>3. Sees(h) => ~Compilable
    <3>. SUFFICES ASSUME Sees(h)
                  PROVE  ~Compilable
      OBVIOUS
    <3>1. PICK i \in DOMAIN Current : Current[i].text = src[f]
      BY <1>a DEF ReadsOn
    <3>. QED  BY <1>3, <1>10, <3>1, TextsAssumption DEF Compilable
  <2>4. Lawful(h, Failed)
    BY <1>4, <1>8, <2>3 DEF Lawful
  <2>. QED  BY <1>4, <2>1, <2>2, <2>4, IdleSees, PartsType, HostMoves
<1>11. CASE ~unusable /\ f = Entry
  <2>1. acc \in Seq(ReadText) /\ acc # <<>> /\ (Sees(h) => acc = Current)
    <3>1. src[f] # Absent /\ f = Entry
      BY <1>3, <1>11
    <3>. QED  BY <1>a, <3>1 DEF ReadsOn
  <2>2. CASE op[h].step = "hash"
    <3>1. op' = [op EXCEPT ![h] = [Idle EXCEPT !.step = "image", !.acc = acc]] /\ UNCHANGED law
      BY <1>2, <1>4, <1>11, <2>2 DEF PassEnds, Goto
    <3>2. PICK o : o = [Idle EXCEPT !.step = "image", !.acc = acc]
      OBVIOUS
    <3>3. o \in OpRecord /\ o.step = "image" /\ o.acc = acc
      BY <2>1, <3>2, PartsType DEF Idle, OpRecord
    <3>4. op'[h] = o /\ op' = [op EXCEPT ![h] = o]
      BY <1>2, <1>5, <3>1, <3>2
    <3>5. Ahead(h)' /\ (Sees(h) => Sees(h)')
      BY <1>4, <2>1, <3>3, <3>4, SameSources DEF Ahead, Sees
    <3>. QED  BY <1>4, <1>6, <1>7, <1>8, <2>2, <3>1, <3>3, <3>4, <3>5, HostMoves
  <2>3. CASE op[h].step = "compile"
    <3>1. op' = [op EXCEPT ![h] = Idle] /\ law' = [law EXCEPT ![h] = Compiled(h, acc)]
      BY <1>2, <1>4, <1>11, <2>3 DEF PassEnds, Goto
    <3>2. op'[h] = Idle
      BY <1>2, <1>5, <3>1
    <3>3. Compiled(h, acc) \in Law /\ Compiled(h, acc) \notin {NoLaw, Failed}
      BY <1>2, <2>1, PartsType
    <3>4. Lawful(h, Compiled(h, acc))
      BY <1>4, <1>8, <2>1, <3>3 DEF Lawful
    <3>. QED  BY <1>4, <3>1, <3>2, <3>3, <3>4, IdleSees, PartsType, HostMoves
  <2>. QED  BY <1>2, <2>2, <2>3
<1>12. CASE ~unusable /\ f # Entry
  <2>1. PICK o : o = [op[h] EXCEPT !.todo = todo, !.acc = acc]
    OBVIOUS
  <2>2. /\ acc \in Seq(ReadText)
        /\ todo \in Seq(Sources) /\ todo # <<>> /\ todo[Len(todo)] = Entry
        /\ Sees(h) => /\ Len(acc) + Len(todo) = Len(SourceList)
                      /\ \A i \in 1 .. Len(acc) : acc[i] = Current[i]
                      /\ \A i \in 1 .. Len(todo) : todo[i] = SourceList[Len(acc) + i]
    <3>1. src[f] # Absent /\ f # Entry
      BY <1>3, <1>12
    <3>. QED  BY <1>a, <3>1 DEF ReadsOn
  <2>3. o \in OpRecord /\ o.step = op[h].step /\ o.acc = acc /\ o.todo = todo
    BY <1>5, <2>1, <2>2 DEF OpRecord
  <2>4. op' = [op EXCEPT ![h] = o] /\ op'[h] = o /\ UNCHANGED law
    BY <1>1, <1>2, <1>4, <1>5, <1>12, <2>1
  <2>5. Ahead(h)'
    BY <2>2, <2>3, <2>4 DEF Ahead
  <2>6. Sees(h) => Sees(h)'
    <3>. SUFFICES ASSUME Sees(h)
                  PROVE  Sees(h)'
      OBVIOUS
    <3>1. SourceList' = SourceList /\ Current' = Current
      BY <1>4, SameSources
    <3>2. op'[h].step \in {"compile", "hash"} /\ op'[h].acc = acc /\ op'[h].todo = todo
      BY <1>2, <2>3, <2>4
    <3>. QED  BY <2>2, <3>1, <3>2 DEF Sees
  <2>. QED  BY <1>4, <1>6, <1>7, <1>8, <2>3, <2>4, <2>5, <2>6, HostMoves
<1>. QED  BY <1>2, <1>9, <1>10, <1>11, <1>12

\* A load that begins.
LEMMA HostBegins ==
  ASSUME ImageInv, NEW h \in Hosts, BeginLoad(h), UNCHANGED <<cache, inst>>,
         cache => inst[h].step = "ok"
  PROVE  ImageInv'
<1>1. h \in Procs /\ op \in [Procs -> OpRecord] /\ NoLaw \in Law
  BY PartsType DEF ImageInv, ImageTypeOK, OpRecord, Procs, NoLaw
<1>2. PICK step \in {"compile", "hash"} : step = IF image.there THEN "hash" ELSE "compile"
  OBVIOUS
<1>3. /\ op' = [op EXCEPT ![h] = Pass(step, Nothing)] /\ law' = [law EXCEPT ![h] = NoLaw]
      /\ touched' = touched \ {h} /\ UNCHANGED <<src, edits, image, raced>>
  BY <1>2 DEF BeginLoad, Goto
<1>4. op'[h] = Pass(step, Nothing)
  BY <1>1, <1>3
<1>5. Pass(step, Nothing) \in OpRecord /\ Ahead(h)' /\ Sees(h)'
  BY <1>1, <1>3, <1>4, PassBegins, PartsType
<1>6. Lawful(h, NoLaw)
  BY PartsType DEF Lawful
<1>7. cache => Pass(step, Nothing).step \in {"idle", "compile"}
  BY <1>2 DEF ImageInv, CacheQuiet, NoImage, Emptied, Pass
<1>. QED  BY <1>1, <1>3, <1>5, <1>6, <1>7, HostMoves

\* An image is taken only if it is what the host would compile itself.
LEMMA HostReadsImage ==
  ASSUME ImageInv, NEW h \in Hosts, ReadImage(h), UNCHANGED <<cache, inst>>,
         cache => inst[h].step = "ok"
  PROVE  ImageInv'
<1>1. h \in Procs /\ op \in [Procs -> OpRecord] /\ law \in [Hosts -> Law] /\ image \in ImageRecord
  BY DEF ImageInv, ImageTypeOK, OpRecord, Procs, ImageRecord
<1>2. op[h].step = "image" /\ ~cache /\ UNCHANGED <<src, edits, image, touched, raced>>
  BY DEF ReadImage, ImageInv, CacheQuiet
<1>3. h \notin touched => op[h].acc = Current
  BY <1>2 DEF ImageInv, HostsSee, Sees
<1>4. Substantial(image.blocks) /\ Substantial(image.rest) /\ (~raced => ImageSound)
  BY DEF ImageInv
<1>5. CASE op' = [op EXCEPT ![h] = Pass("compile", Nothing)] /\ UNCHANGED law
  <2>1. op'[h] = Pass("compile", Nothing)
    BY <1>1, <1>5
  <2>2. Pass("compile", Nothing) \in OpRecord /\ Ahead(h)' /\ Sees(h)'
    BY <1>1, <1>2, <2>1, PassBegins, PartsType
  <2>3. law[h] \in Law /\ [law EXCEPT ![h] = law[h]] = law /\ Lawful(h, law[h])
    BY <1>1, <1>2 DEF ImageInv, LawIsSources, ImageNeverFails, Lawful
  <2>. QED  BY <1>2, <1>5, <2>2, <2>3, HostMoves
<1>6. ASSUME Matches(h), op' = [op EXCEPT ![h] = Idle],
             NEW l \in Unmarshalled \ {Nothing}, law' = [law EXCEPT ![h] = l]
      PROVE  ImageInv'
  <2>1. op'[h] = Idle
    BY <1>1, <1>6
  <2>2. image.blocks \in Law /\ image.rest \in Law
    BY <1>1 DEF ImageRecord
  <2>3. \/ l = Garbage /\ image.blocks # image.rest /\ image.blocks # Nothing /\ image.rest # Nothing
        \/ l = image.blocks /\ image.blocks # Nothing
    BY <1>6 DEF Unmarshalled
  <2>4. l \in Law /\ l # Failed
    <3>1. image.blocks # Nothing => image.blocks # Failed
      BY <1>4 DEF Substantial, Failed
    <3>. QED  BY <2>2, <2>3, <3>1, PartsType
  <2>5. ASSUME ~raced, h \notin touched
        PROVE  l = Compiled(h, Current)
    <3>1. image.header = Header(h, Current)
      BY <1>3, <1>6, <2>5 DEF Matches
    <3>2. image.header # NoHeader
      <4>1. 1 \in DOMAIN Current /\ DOMAIN <<>> = {}
        BY CurrentIs, EntryIsLast
      <4>2. Current # <<>>
        BY <4>1
      <4>. QED  BY <3>1, <4>2 DEF Header, NoHeader
    <3>3. image.blocks = Compiled(h, Current) /\ image.rest \in {Nothing, image.blocks}
      BY <1>4, <2>5, <3>1, <3>2 DEF ImageSound, Header, Compiled
    <3>. QED  BY <2>3, <3>3
  <2>6. Lawful(h, l)
    BY <1>2, <2>4, <2>5 DEF Lawful
  <2>. QED  BY <1>2, <1>6, <2>1, <2>4, <2>6, IdleSees, PartsType, HostMoves
<1>. QED  BY <1>5, <1>6 DEF ReadImage, Goto

-----------------------------------------------------------------------------
(* The writers. *)

\* A writer that goes on, or stops, brings no other build of Janet in.
LEMMA BuildKept ==
  ASSUME OneBuild, NEW w \in Writers, NEW o, op \in [Procs -> OpRecord],
         op' = [op EXCEPT ![w] = o], o.step # "idle" => op[w].step # "idle"
  PROVE  OneBuild'
<1>1. \A v \in Writers : op'[v].step # "idle" => op[v].step # "idle"
  BY DEF Procs
<1>. QED  BY <1>1 DEF OneBuild

\* A writer that does not touch the image leaves it sound.
LEMMA ImageKept ==
  ASSUME ImageSound, NEW w \in Writers, NEW o, op \in [Procs -> OpRecord], image' = image,
         op' = [op EXCEPT ![w] = o],
         o.step \in {"blocks", "rest"} => op[w].step \in {"blocks", "rest"} /\ o.compiled = op[w].compiled
  PROVE  ImageSound'
<1>1. \A v \in Writers : op'[v].step \in {"blocks", "rest"} =>
                           op[v].step \in {"blocks", "rest"} /\ op'[v].compiled = op[v].compiled
  BY DEF Procs
<1>2. \A v \in Writers : op'[v].step \in {"blocks", "rest"} =>
        image.blocks \in {Nothing, op'[v].compiled} /\ image.rest \in {Nothing, op'[v].compiled}
  BY <1>1 DEF ImageSound
<1>. QED  BY <1>2 DEF ImageSound, NoHeader, Nothing

\* A writer compiles and hashes like a host, but what it has compiled is kept.
LEMMA WriterReads ==
  ASSUME ImageInv, NEW w \in Writers, ReadSource(w), ~cache, UNCHANGED <<cache, inst>>
  PROVE  ImageInv'
<1>1. PICK f, acc, todo : f = Head(op[w].todo) /\ acc = ReadAlso(w, f) /\ todo = Tail(op[w].todo)
  OBVIOUS
<1>2. w \in Procs /\ w \notin Hosts /\ Ahead(w) /\ ImageTypeOK /\ op[w].step \in {"compile", "hash"}
  BY ProcsAssumption DEF ImageInv, Procs, ReadSource
<1>3. PICK unusable \in BOOLEAN : unusable = (src[f] = Absent \/ (op[w].step = "compile" /\ src[f] = Broken))
  OBVIOUS
<1>4. /\ UNCHANGED <<src, edits, image, touched, raced>>
      /\ \/ unusable /\ PassFails(w)
         \/ ~unusable /\ f = Entry /\ PassEnds(w, acc)
         \/ /\ ~unusable /\ f # Entry
            /\ op' = [op EXCEPT ![w] = [op[w] EXCEPT !.todo = Tail(@), !.acc = acc]]
            /\ UNCHANGED law
  BY <1>1, <1>3 DEF ReadSource, Goto, ReadAlso
<1>5. /\ op[w] \in OpRecord /\ op \in [Procs -> OpRecord] /\ image \in ImageRecord /\ raced \in BOOLEAN
      /\ Substantial(image.blocks) /\ Substantial(image.rest)
  BY <1>2 DEF ImageTypeOK, OpRecord, ImageRecord, ImageInv
<1>6. ReadsOn(w, f, acc, todo)
  BY <1>1, <1>2, OneFile
<1>7. ~raced => /\ Sees(w) /\ OneBuild /\ ImageSound
                /\ op[w].step \in Written => op[w].compiled = Compiled(w, Current)
  BY DEF ImageInv, WritersSee
<1>8. op[w].step \in Written => op[w].compiled.from # <<>>
  BY DEF ImageInv, WritersHold
<1>9. ASSUME NEW o \in OpRecord, op' = [op EXCEPT ![w] = o], UNCHANGED law, Ahead(w)',
             Sees(w) => Sees(w)', o.step \notin {"blocks", "rest"},
             o.step \in Written => o.compiled.from # <<>>,
             (o.step \in Written /\ ~raced) => o.compiled = Compiled(w, Current)
      PROVE  ImageInv'
  <2>1. ~raced => OneBuild'
    BY <1>2, <1>5, <1>7, <1>9, BuildKept
  <2>2. ~raced => ImageSound'
    BY <1>4, <1>5, <1>7, <1>9, ImageKept
  <2>. QED  BY <1>4, <1>5, <1>7, <1>9, <2>1, <2>2, WriterMoves
<1>10. CASE unusable
  <2>1. op' = [op EXCEPT ![w] = Idle] /\ UNCHANGED law
    BY <1>2, <1>4, <1>10 DEF PassFails, Goto
  <2>2. op'[w] = Idle /\ Idle.step \notin Written
    BY <1>2, <1>5, <2>1, PartsType DEF Written
  <2>. QED  BY <1>9, <2>1, <2>2, IdleSees, PartsType
<1>11. CASE ~unusable /\ f = Entry
  <2>1. acc \in Seq(ReadText) /\ acc # <<>> /\ (Sees(w) => acc = Current)
    <3>1. src[f] # Absent /\ f = Entry
      BY <1>3, <1>11
    <3>. QED  BY <1>6, <3>1 DEF ReadsOn
  <2>2. CASE op[w].step = "compile"
    <3>1. PICK c : c = Compiled(w, acc)
      OBVIOUS
    <3>2. c \in Law /\ c.from # <<>> /\ (~raced => c = Compiled(w, Current))
      BY <1>2, <1>7, <2>1, <3>1, PartsType
    <3>3. op' = [op EXCEPT ![w] = Pass("hash", c)] /\ UNCHANGED law
      BY <1>2, <1>4, <1>11, <2>2, <3>1 DEF PassEnds, Goto
    <3>4. op'[w] = Pass("hash", c)
      BY <1>2, <1>5, <3>3
    <3>5. Pass("hash", c) \in OpRecord /\ Ahead(w)' /\ Sees(w)'
      BY <1>2, <1>4, <3>2, <3>4, PassBegins
    <3>6. Pass("hash", c).step = "hash" /\ Pass("hash", c).compiled = c
      BY DEF Pass
    <3>. QED  BY <1>9, <3>2, <3>3, <3>5, <3>6
  <2>3. CASE op[w].step = "hash"
    <3>1. PICK o : o = [op[w] EXCEPT !.step = "open", !.todo = <<>>, !.acc = acc]
      OBVIOUS
    <3>0. <<>> \in Seq(Sources)
      OBVIOUS
    <3>2. /\ o \in OpRecord /\ o.step = "open" /\ o.acc = acc /\ o.compiled = op[w].compiled
      BY <1>5, <2>1, <3>0, <3>1 DEF OpRecord
    <3>3. op' = [op EXCEPT ![w] = o] /\ op'[w] = o /\ UNCHANGED law
      BY <1>2, <1>4, <1>5, <1>11, <2>3, <3>1 DEF PassEnds, Goto
    <3>4. Ahead(w)' /\ (Sees(w) => Sees(w)')
      BY <1>4, <2>1, <3>2, <3>3, SameSources DEF Ahead, Sees
    <3>5. op[w].step \in Written
      BY <2>3 DEF Written
    <3>. QED  BY <1>7, <1>8, <1>9, <3>2, <3>3, <3>4, <3>5
  <2>. QED  BY <1>2, <2>2, <2>3
<1>12. CASE ~unusable /\ f # Entry
  <2>1. PICK o : o = [op[w] EXCEPT !.todo = todo, !.acc = acc]
    OBVIOUS
  <2>2. /\ acc \in Seq(ReadText)
        /\ todo \in Seq(Sources) /\ todo # <<>> /\ todo[Len(todo)] = Entry
        /\ Sees(w) => /\ Len(acc) + Len(todo) = Len(SourceList)
                      /\ \A i \in 1 .. Len(acc) : acc[i] = Current[i]
                      /\ \A i \in 1 .. Len(todo) : todo[i] = SourceList[Len(acc) + i]
    <3>1. src[f] # Absent /\ f # Entry
      BY <1>3, <1>12
    <3>. QED  BY <1>6, <3>1 DEF ReadsOn
  <2>3. /\ o \in OpRecord /\ o.step = op[w].step /\ o.acc = acc /\ o.todo = todo
        /\ o.compiled = op[w].compiled
    BY <1>5, <2>1, <2>2 DEF OpRecord
  <2>4. op' = [op EXCEPT ![w] = o] /\ op'[w] = o /\ UNCHANGED law
    BY <1>1, <1>2, <1>4, <1>5, <1>12, <2>1
  <2>5. Ahead(w)'
    BY <2>2, <2>3, <2>4 DEF Ahead
  <2>6. Sees(w) => Sees(w)'
    <3>. SUFFICES ASSUME Sees(w)
                  PROVE  Sees(w)'
      OBVIOUS
    <3>1. SourceList' = SourceList /\ Current' = Current
      BY <1>4, SameSources
    <3>2. op'[w].step \in {"compile", "hash"} /\ op'[w].acc = acc /\ op'[w].todo = todo
      BY <1>2, <2>3, <2>4
    <3>. QED  BY <2>2, <3>1, <3>2 DEF Sees
  <2>. QED  BY <1>2, <1>7, <1>8, <1>9, <2>3, <2>4, <2>5, <2>6
<1>. QED  BY <1>10, <1>11, <1>12

\* A writer begins: when another build of Janet is writing, that is a race.
LEMMA WriterBegins ==
  ASSUME ImageInv, NEW w \in Writers, BeginWrite(w), ~cache, UNCHANGED <<cache, inst>>
  PROVE  ImageInv'
<1>1. /\ w \in Procs /\ op \in [Procs -> OpRecord] /\ image \in ImageRecord
      /\ Substantial(image.blocks) /\ Substantial(image.rest)
  BY DEF ImageInv, ImageTypeOK, OpRecord, ImageRecord, Procs
<1>2. PICK o : o = Pass("compile", Nothing)
  OBVIOUS
<1>3. /\ op' = [op EXCEPT ![w] = o] /\ UNCHANGED <<src, edits, image, law, touched>>
      /\ raced' \in BOOLEAN /\ (raced => raced')
      /\ ~raced' => /\ ~raced
                    /\ \A v \in Writers : op[v].step # "idle" => JanetVersion[v] = JanetVersion[w]
  BY <1>2 DEF BeginWrite, Goto
<1>4. op'[w] = o
  BY <1>1, <1>3
<1>5. o \in OpRecord /\ Ahead(w)' /\ Sees(w)'
  BY <1>1, <1>2, <1>3, <1>4, PassBegins, PartsType
<1>6. o.step = "compile" /\ o.step \notin Written
  BY <1>2 DEF Pass, Written
<1>7. ~raced' => OneBuild'
  <2>. SUFFICES ASSUME ~raced', NEW u \in Writers, NEW v \in Writers,
                       op'[u].step # "idle", op'[v].step # "idle"
                PROVE  JanetVersion[u] = JanetVersion[v]
    BY DEF OneBuild
  <2>1. \A y \in Writers : y # w => op'[y] = op[y]
    BY <1>1, <1>3 DEF Procs
  <2>2. \A y \in Writers : op'[y].step # "idle" => JanetVersion[y] = JanetVersion[w]
    BY <1>3, <2>1
  <2>. QED  BY <2>2
<1>8. ~raced' => ImageSound'
  <2>1. ~raced' => ImageSound
    BY <1>3 DEF ImageInv
  <2>. QED  BY <1>1, <1>3, <1>6, <2>1, ImageKept
<1>. QED  BY <1>1, <1>3, <1>5, <1>6, <1>7, <1>8, WriterMoves

\* A writer gives up.
LEMMA WriterAbandons ==
  ASSUME ImageInv, NEW w \in Writers, AbandonWrite(w), ~cache, UNCHANGED <<cache, inst>>
  PROVE  ImageInv'
<1>1. /\ w \in Procs /\ op \in [Procs -> OpRecord] /\ image \in ImageRecord /\ raced \in BOOLEAN
      /\ Substantial(image.blocks) /\ Substantial(image.rest)
  BY DEF ImageInv, ImageTypeOK, OpRecord, ImageRecord, Procs
<1>2. op' = [op EXCEPT ![w] = Idle] /\ UNCHANGED <<src, edits, image, law, touched, raced>>
  BY DEF AbandonWrite, Goto
<1>3. op'[w] = Idle /\ Idle \in OpRecord /\ Idle.step = "idle" /\ Idle.step \notin Written
  BY <1>1, <1>2, PartsType DEF Written
<1>4. ~raced => OneBuild /\ ImageSound
  BY DEF ImageInv
<1>5. ~raced => OneBuild' /\ ImageSound'
  BY <1>1, <1>2, <1>3, <1>4, BuildKept, ImageKept
<1>. QED  BY <1>1, <1>2, <1>3, <1>5, IdleSees, WriterMoves

\* The image is emptied, or a part of it is written. As long as nothing has
\* raced, all writers write the same, so that it does not matter whose part
\* is in the file.
LEMMA WriterWrites ==
  ASSUME ImageInv, NEW w \in Writers, OpenImage(w) \/ WriteBlocks(w) \/ WriteRest(w),
         ~cache, UNCHANGED <<cache, inst>>
  PROVE  ImageInv'
<1>1. /\ w \in Procs /\ op \in [Procs -> OpRecord] /\ op[w] \in OpRecord
      /\ image \in ImageRecord /\ raced \in BOOLEAN
      /\ Substantial(image.blocks) /\ Substantial(image.rest)
  BY DEF ImageInv, ImageTypeOK, OpRecord, ImageRecord, Procs
<1>2. UNCHANGED <<src, edits, law, touched, raced>>
  BY DEF OpenImage, WriteBlocks, WriteRest
<1>3. op[w].step \in {"open", "blocks", "rest"} /\ op[w].step \in Written
  BY DEF OpenImage, WriteBlocks, WriteRest, Written
<1>4. op[w].compiled.from # <<>>
  BY <1>3 DEF ImageInv, WritersHold
<1>5. ~raced => /\ WritersSee /\ OneBuild /\ ImageSound
                /\ Sees(w) /\ op[w].acc = Current /\ op[w].compiled = Compiled(w, Current)
  BY <1>3 DEF ImageInv, WritersSee, Sees
<1>6. PICK o : /\ op' = [op EXCEPT ![w] = o] /\ o \in OpRecord
               /\ \/ o = Idle
                  \/ o.step \in {"blocks", "rest"} /\ o.acc = op[w].acc /\ o.compiled = op[w].compiled
  <2>1. CASE OpenImage(w)
    <3>1. PICK p : p = [op[w] EXCEPT !.step = "blocks"]
      OBVIOUS
    <3>2. p \in OpRecord /\ p.step = "blocks" /\ p.acc = op[w].acc /\ p.compiled = op[w].compiled
      BY <1>1, <3>1 DEF OpRecord
    <3>3. op' = [op EXCEPT ![w] = p]
      BY <2>1, <3>1 DEF OpenImage, Goto
    <3>. QED  BY <3>2, <3>3
  <2>2. CASE WriteBlocks(w)
    <3>1. PICK p : p = [op[w] EXCEPT !.step = "rest"]
      OBVIOUS
    <3>2. p \in OpRecord /\ p.step = "rest" /\ p.acc = op[w].acc /\ p.compiled = op[w].compiled
      BY <1>1, <3>1 DEF OpRecord
    <3>3. op' = [op EXCEPT ![w] = p]
      BY <2>2, <3>1 DEF WriteBlocks, Goto
    <3>. QED  BY <3>2, <3>3
  <2>3. CASE WriteRest(w)
    BY <2>3, PartsType DEF WriteRest, Goto
  <2>. QED  BY <2>1, <2>2, <2>3
<1>7. op'[w] = o /\ \A v \in Writers : v # w => op'[v] = op[v]
  BY <1>1, <1>6 DEF Procs
<1>8. /\ Ahead(w)' /\ (~raced => Sees(w)')
      /\ o.step \in Written => o.compiled = op[w].compiled
      /\ o.step # "idle" => op[w].step # "idle"
  <2>1. CASE o = Idle
    BY <1>7, <2>1, IdleSees, PartsType DEF Written
  <2>2. CASE o.step \in {"blocks", "rest"} /\ o.acc = op[w].acc /\ o.compiled = op[w].compiled
    <3>1. Ahead(w)'
      BY <1>7, <2>2 DEF Ahead
    <3>2. ~raced => Sees(w)'
      BY <1>2, <1>5, <1>7, <2>2, SameSources DEF Sees
    <3>. QED  BY <1>3, <2>2, <3>1, <3>2
  <2>. QED  BY <1>6, <2>1, <2>2
<1>9. ~raced => OneBuild'
  BY <1>1, <1>5, <1>6, <1>8, BuildKept
<1>10. /\ op[w].compiled \in Law /\ op[w].acc \in Seq(ReadText)
       /\ Header(w, op[w].acc) \in [by : Vers \cup {"none"}, of : Seq(ReadText)]
  BY <1>1, PartsType DEF OpRecord
\* What every writer that has opened the image is to write.
<1>11. ASSUME ~raced
       PROVE  \A v \in Writers : op'[v].step \in {"blocks", "rest"} =>
                op'[v].compiled = op[w].compiled
  <2>. SUFFICES ASSUME NEW v \in Writers, op'[v].step \in {"blocks", "rest"}
                PROVE  op'[v].compiled = op[w].compiled
    OBVIOUS
  <2>1. CASE v = w
    BY <1>7, <1>8, <2>1 DEF Written
  <2>2. CASE v # w
    <3>1. op'[v] = op[v] /\ op[v].step \in Written /\ op[v].step # "idle"
      BY <1>7, <2>2 DEF Written
    <3>2. op'[v].compiled = Compiled(v, Current)
      BY <1>5, <1>11, <3>1 DEF WritersSee
    <3>3. JanetVersion[v] = JanetVersion[w]
      BY <1>3, <1>5, <1>11, <3>1 DEF OneBuild
    <3>. QED  BY <1>5, <1>11, <3>2, <3>3 DEF Compiled
  <2>. QED  BY <2>1, <2>2
<1>12. /\ image' \in ImageRecord /\ Substantial(image'.blocks) /\ Substantial(image'.rest)
       /\ ~raced => ImageSound'
  <2>1. CASE OpenImage(w)
    <3>1. image' = Emptied
      BY <2>1 DEF OpenImage
    <3>2. /\ image' \in ImageRecord /\ image'.header = NoHeader
          /\ image'.blocks = Nothing /\ image'.rest = Nothing
      BY <3>1, PartsType DEF Emptied
    <3>. QED  BY <3>2 DEF Substantial, ImageSound, NoHeader, Nothing
  <2>2. CASE WriteBlocks(w)
    <3>1. image' = [image EXCEPT !.header = Header(w, op[w].acc), !.blocks = op[w].compiled]
      BY <2>2 DEF WriteBlocks
    <3>2. /\ image' \in ImageRecord /\ image'.header = Header(w, op[w].acc)
          /\ image'.blocks = op[w].compiled /\ image'.rest = image.rest
      BY <1>1, <1>10, <3>1 DEF ImageRecord
    <3>3. ASSUME ~raced
          PROVE  ImageSound'
      <4>1. image.rest \in {Nothing, op[w].compiled}
        BY <1>5, <2>2, <3>3 DEF ImageSound, WriteBlocks
      <4>2. Header(w, op[w].acc) # NoHeader
        BY <1>4, <1>5, <3>3 DEF Header, NoHeader, Compiled
      <4>3. op[w].compiled = [by |-> Header(w, op[w].acc).by, from |-> Header(w, op[w].acc).of]
        BY <1>5, <3>3 DEF Header, Compiled
      <4>. QED  BY <1>11, <3>2, <3>3, <4>1, <4>2, <4>3 DEF ImageSound, NoHeader, Nothing
    <3>. QED  BY <1>1, <1>4, <3>2, <3>3 DEF Substantial, Nothing
  <2>3. CASE WriteRest(w)
    <3>1. image' = [image EXCEPT !.rest = op[w].compiled]
      BY <2>3 DEF WriteRest
    <3>2. /\ image' \in ImageRecord /\ image'.header = image.header
          /\ image'.blocks = image.blocks /\ image'.rest = op[w].compiled
      BY <1>1, <1>10, <3>1 DEF ImageRecord
    <3>3. ASSUME ~raced
          PROVE  ImageSound'
      <4>1. /\ image.blocks \in {Nothing, op[w].compiled}
            /\ image.header = NoHeader => image.blocks = Nothing
            /\ image.header # NoHeader =>
                 image.blocks = [by |-> image.header.by, from |-> image.header.of]
        BY <1>5, <2>3, <3>3 DEF ImageSound, WriteRest
      <4>2. image.header # NoHeader => image.blocks # Nothing
        <5>1. image.header \in [by : Vers \cup {"none"}, of : Seq(ReadText)]
          BY <1>1 DEF ImageRecord
        <5>. QED  BY <4>1, <5>1 DEF NoHeader, Nothing
      <4>. QED  BY <1>11, <3>2, <3>3, <4>1, <4>2 DEF ImageSound, NoHeader, Nothing
    <3>. QED  BY <1>1, <1>4, <3>2, <3>3 DEF Substantial, Nothing
  <2>. QED  BY <2>1, <2>2, <2>3
<1>13. raced' \in BOOLEAN /\ (raced => raced') /\ (~raced' => ~raced)
  BY <1>1, <1>2
<1>14. o.step \in Written => o.compiled.from # <<>>
  BY <1>4, <1>8
<1>15. ~raced' => /\ Sees(w)' /\ (o.step \in Written => o.compiled = Compiled(w, Current))
                  /\ OneBuild' /\ ImageSound'
  BY <1>5, <1>8, <1>9, <1>12, <1>13
<1>. QED  BY <1>2, <1>6, <1>8, <1>12, <1>13, <1>14, <1>15, WriterMoves

-----------------------------------------------------------------------------
(* The authors and the installers. *)

\* What only depends on the image, the writers and the laws stays.
LEMMA OthersKept ==
  ASSUME ImageInv, UNCHANGED <<image, op, law>>
  PROVE  /\ \A x \in Procs : Ahead(x)'
         /\ WritersHold' /\ Substantial(image.blocks)' /\ Substantial(image.rest)'
         /\ ~raced => OneBuild' /\ ImageSound'
BY DEF ImageInv, Ahead, WritersHold, Written, Substantial, OneBuild, ImageSound, NoHeader, Nothing

\* After a change of the sources every load and every image begun before it is
\* out of date, and nothing is claimed of them.
LEMMA EditKeepsInv ==
  ASSUME ImageInv, NEW f \in Sources, NEW t \in Texts \cup {Absent}, Edit(f, t), ~cache, ~cache'
  PROVE  ImageInv'
<1>1. /\ edits < MaxEdits /\ edits' = edits + 1 /\ src' = [src EXCEPT ![f] = t]
      /\ touched' = Hosts /\ UNCHANGED <<image, op, law>>
      /\ raced' \in BOOLEAN
      /\ ~raced' => ~raced /\ \A w \in Writers : op[w].step = "idle"
  BY DEF Edit
<1>2. ImageTypeOK'
  <2>1. edits' \in 0 .. MaxEdits
    BY <1>1, EditsAssumption DEF ImageInv, ImageTypeOK
  <2>. QED  BY <1>1, <2>1 DEF ImageInv, ImageTypeOK
<1>3. HostsSee' /\ LawIsSources' /\ ImageNeverFails'
  BY <1>1 DEF HostsSee, LawIsSources, ImageNeverFails
<1>4. ~raced' => WritersSee'
  BY <1>1 DEF WritersSee, Sees, Written
<1>. QED  BY <1>1, <1>2, <1>3, <1>4, OthersKept DEF ImageInv

\* Taking the image away harms nobody.
LEMMA RemovalKeepsInv ==
  ASSUME ImageInv, RemoveImage, ~cache, ~cache'
  PROVE  ImageInv'
<1>1. image' = NoImage /\ UNCHANGED <<src, edits, op, law, touched, raced>>
  BY DEF RemoveImage
<1>2. /\ image' \in ImageRecord /\ image'.header = NoHeader
      /\ image'.blocks = Nothing /\ image'.rest = Nothing
  BY <1>1, PartsType DEF NoImage, Emptied
<1>3. SourceList' = SourceList /\ Current' = Current /\ (Compilable' <=> Compilable)
  BY <1>1, SameSources
<1>4. ImageTypeOK'
  BY <1>1, <1>2 DEF ImageInv, ImageTypeOK, ImageRecord
<1>5. \A x : Sees(x) => Sees(x)'
  BY <1>1, SeesSame
<1>6. HostsSee'
  BY <1>1, <1>5 DEF ImageInv, HostsSee
<1>7. ~raced' => WritersSee'
  BY <1>1, <1>3, <1>5 DEF ImageInv, WritersSee, Written, Compiled
<1>8. (\A x \in Procs : Ahead(x)') /\ WritersHold' /\ (~raced' => OneBuild')
  BY <1>1 DEF ImageInv, Ahead, WritersHold, Written, OneBuild
<1>9. Substantial(image.blocks)' /\ Substantial(image.rest)' /\ ImageSound'
  BY <1>2 DEF Substantial, ImageSound, NoHeader, Nothing
<1>10. LawIsSources' /\ ImageNeverFails'
  BY <1>1, <1>3 DEF ImageInv, LawIsSources, ImageNeverFails, NoLaw, Nothing, Failed, Compiled
<1>. QED  BY <1>4, <1>6, <1>7, <1>8, <1>9, <1>10 DEF ImageInv

\* A process that has returned from its install stays there.
LEMMA InstalledStays ==
  ASSUME InstallInv, NEW i \in Installers, InstallStep(i), NEW h \in Installers, inst[h].step = "ok"
  PROVE  inst'[h].step = "ok"
<1>1. inst \in [Installers -> [step : InstallSteps, file : Sources, tmp : Texts \cup {Absent, Cut}]]
  BY DEF InstallInv
<1>2. inst[i].step # "ok"
  BY DEF InstallStep, BeginInstall, OpenTmp, FillTmp, RenameTmp, WriteMark, AbandonInstall
<1>3. PICK d : inst' = [inst EXCEPT ![i] = d]
  BY DEF InstallStep, BeginInstall, OpenTmp, FillTmp, RenameTmp, WriteMark, AbandonInstall, Becomes
<1>. QED  BY <1>1, <1>2, <1>3

\* An installer changes the bytes of the pack only while no process has
\* installed it, and so none loads it; from then on it can only replace a
\* file by the same bytes.
LEMMA InstallerKeepsImage ==
  ASSUME InstallInv, ImageInv, NEW i \in Installers, InstallerStep(i)
  PROVE  ImageInv'
<1>1. cache /\ cache' /\ InstallStep(i) /\ UNCHANGED <<edits, image, op, law, touched, raced>>
  BY DEF InstallerStep
<1>2. InstallInv' /\ CacheQuiet
  BY <1>1, InstallerStepKeepsInv DEF ImageInv
<1>3. ImageTypeOK'
  BY <1>1, <1>2 DEF ImageInv, ImageTypeOK, InstallInv, SourceFiles
<1>4. CacheQuiet'
  <2>1. \A h \in Hosts : inst[h].step = "ok" => inst'[h].step = "ok"
    BY <1>1, InstalledStays, InstallersAssumption
  <2>2. \A h \in Hosts :
          /\ op'[h].step \in {"idle", "compile"}
          /\ (op'[h].step # "idle" \/ law'[h] # NoLaw) => inst'[h].step = "ok"
    BY <1>1, <1>2, <2>1 DEF CacheQuiet
  <2>. QED  BY <1>1, <1>2, <2>2 DEF CacheQuiet, NoLaw, Nothing
<1>5. \A w \in Writers : op'[w] = Idle /\ op'[w].step = "idle"
  BY <1>1, <1>2, PartsType DEF CacheQuiet
<1>6. WritersSee'
  BY <1>5, IdleSees, PartsType DEF WritersSee, Written
<1>7. HostsSee' /\ LawIsSources' /\ ImageNeverFails'
  <2>1. CASE src' = src
    <3>1. SourceList' = SourceList /\ Current' = Current /\ (Compilable' <=> Compilable)
      BY <2>1, SameSources
    <3>2. \A x : Sees(x) => Sees(x)'
      BY <1>1, <2>1, SeesSame
    <3>3. HostsSee'
      BY <1>1, <3>2 DEF ImageInv, HostsSee
    <3>. QED  BY <1>1, <3>1, <3>3
              DEF ImageInv, LawIsSources, ImageNeverFails, NoLaw, Nothing, Failed, Compiled
  <2>2. CASE src' # src
    <3>1. RenameTmp(i)
      BY <1>1, <2>2 DEF InstallStep, BeginInstall, OpenTmp, FillTmp, WriteMark, AbandonInstall
    <3>2. inst[i].file \in Sources /\ src \in SourceFiles /\ src'[inst[i].file] = Pack[inst[i].file]
      BY <1>1, <3>1, RenameKeepsWhole DEF InstallInv
    <3>3. src' = [src EXCEPT ![inst[i].file] = src'[inst[i].file]]
      BY <3>1, <3>2 DEF RenameTmp, SourceFiles
    <3>4. src[inst[i].file] # Pack[inst[i].file]
      BY <2>2, <3>2, <3>3 DEF SourceFiles
    <3>5. \A h \in Hosts : inst[h].step # "ok"
      BY <1>1, <3>2, <3>4, InstallersAssumption DEF InstallInv, InstallerInv, Whole
    <3>6. \A h \in Hosts : op'[h].step = "idle" /\ law'[h] = NoLaw
      BY <1>1, <1>2, <3>5 DEF CacheQuiet
    <3>7. HostsSee'
      BY <3>6 DEF HostsSee, Sees
    <3>8. NoLaw' = NoLaw /\ Failed' = Failed /\ NoLaw # Failed
      BY PartsType DEF NoLaw, Nothing, Failed
    <3>. QED  BY <3>6, <3>7, <3>8 DEF LawIsSources, ImageNeverFails
  <2>. QED  BY <2>1, <2>2
<1>. QED  BY <1>1, <1>2, <1>3, <1>4, <1>6, <1>7, OthersKept DEF ImageInv, CacheQuiet

-----------------------------------------------------------------------------
(* The theorems on the packs that are loaded. *)

\* At the start there is no image and nothing is loaded.
LEMMA ImageInitInv == Init => ImageInv
<1>. SUFFICES ASSUME Init
              PROVE  ImageInv
  OBVIOUS
<1>1. /\ image = NoImage /\ edits = 0 /\ touched = {} /\ raced = FALSE
      /\ op = [x \in Procs |-> Idle] /\ law = [h \in Hosts |-> NoLaw]
  BY DEF Init, ImageInit
<1>2. \A x \in Procs : op[x] = Idle /\ op[x].step = "idle"
  BY <1>1, PartsType
<1>3. \A h \in Hosts : h \in Procs /\ law[h] = NoLaw
  BY <1>1 DEF Procs
<1>4. ImageTypeOK
  <2>1. op \in [Procs -> OpRecord] /\ law \in [Hosts -> Law] /\ image \in ImageRecord
    BY <1>1, PartsType DEF NoLaw
  <2>2. src \in [Sources -> Texts \cup {Absent}]
    BY DEF Init
  <2>3. edits \in 0 .. MaxEdits /\ touched \subseteq Hosts /\ raced \in BOOLEAN
    <3>1. edits = 0 /\ touched = {}
      BY <1>1
    <3>2. raced \in BOOLEAN
      BY <1>1
    <3>3. edits \in 0 .. MaxEdits
      BY <3>1, EditsAssumption
    <3>. QED  BY <3>1, <3>2, <3>3
  <2>. QED  BY <2>1, <2>2, <2>3 DEF ImageTypeOK, OpRecord, ImageRecord
<1>5. /\ image.header = NoHeader /\ image.blocks = Nothing /\ image.rest = Nothing
  BY <1>1 DEF NoImage, Emptied
<1>6. (\A x \in Procs : Ahead(x)) /\ \A x \in Procs : Sees(x)
  BY <1>2 DEF Ahead, Sees
<1>7. HostsSee /\ WritersHold /\ WritersSee /\ OneBuild
  BY <1>2, <1>6 DEF HostsSee, WritersHold, WritersSee, OneBuild, Procs, Written
<1>8. Substantial(image.blocks) /\ Substantial(image.rest) /\ ImageSound
  BY <1>2, <1>5 DEF Substantial, ImageSound, Procs
<1>9. CacheQuiet
  BY <1>1, <1>2, <1>3 DEF CacheQuiet, Procs
<1>10. LawIsSources /\ ImageNeverFails
  BY <1>3, PartsType DEF LawIsSources, ImageNeverFails
<1>. QED  BY <1>4, <1>6, <1>7, <1>8, <1>9, <1>10 DEF ImageInv

PackInv == InstallInv /\ ImageInv

\* The invariant of the installers and that of the image hold together.
LEMMA PackInvHolds == Spec => []PackInv
<1>1. Init => PackInv
  BY InitInv, ImageInitInv DEF PackInv
<1>2. PackInv /\ [Next]_vars => PackInv'
  <2>. SUFFICES ASSUME InstallInv, ImageInv, [Next]_vars
                PROVE  InstallInv' /\ ImageInv'
    BY DEF PackInv
  <2>1. CASE UNCHANGED vars
    <3>1. /\ UNCHANGED <<src, edits, image, op, law, touched, raced, cache, done, inst>>
      BY <2>1 DEF vars, imageVars
    <3>2. SourceList' = SourceList /\ Current' = Current /\ (Compilable' <=> Compilable)
      BY <3>1, SameSources
    <3>3. \A x : Sees(x) => Sees(x)'
      BY <3>1, SeesSame
    <3>4. HostsSee' /\ (~raced' => WritersSee')
      BY <3>1, <3>2, <3>3 DEF ImageInv, HostsSee, WritersSee, Written, Compiled
    <3>5. ImageTypeOK' /\ (cache' => CacheQuiet')
      BY <3>1 DEF ImageInv, ImageTypeOK, CacheQuiet, NoLaw, Nothing
    <3>6. LawIsSources' /\ ImageNeverFails'
      BY <3>1, <3>2 DEF ImageInv, LawIsSources, ImageNeverFails, NoLaw, Nothing, Failed, Compiled
    <3>. QED  BY <3>1, <3>4, <3>5, <3>6, OthersKept, QuietKeepsInv DEF ImageInv
  <2>2. CASE AuthorStep
    <3>1. ~cache /\ ~cache' /\ UNCHANGED <<cache, inst>> /\ AuthorNext /\ InstallInv'
      BY <2>2, AuthorStepKeepsInv DEF AuthorStep
    <3>2. CASE \E h \in Hosts : LoadStep(h)
      BY <3>1, <3>2, HostBegins, HostReads, HostReadsImage DEF LoadStep
    <3>3. CASE \E w \in Writers : WriteStep(w)
      BY <3>1, <3>3, WriterBegins, WriterReads, WriterWrites, WriterAbandons DEF WriteStep
    <3>4. CASE \E f \in Sources, t \in Texts \cup {Absent} : Edit(f, t)
      BY <3>1, <3>4, EditKeepsInv
    <3>5. CASE RemoveImage
      BY <3>1, <3>5, RemovalKeepsInv
    <3>. QED  BY <3>1, <3>2, <3>3, <3>4, <3>5 DEF AuthorNext
  <2>3. CASE \E i \in Installers : InstallerStep(i)
    BY <2>3, InstallerStepKeepsInv, InstallerKeepsImage
  <2>4. CASE \E h \in Hosts : InstalledLoad(h)
    <3>1. PICK h \in Hosts : InstalledLoad(h)
      BY <2>4
    <3>2. inst[h].step = "ok" /\ LoadStep(h) /\ UNCHANGED <<cache, inst>>
      BY <3>1 DEF InstalledLoad
    <3>. QED  BY <3>1, <3>2, InstalledLoadKeepsInv, HostBegins, HostReads, HostReadsImage DEF LoadStep
  <2>. QED  BY <2>1, <2>2, <2>3, <2>4 DEF Next
<1>. QED  BY <1>1, <1>2, PTL DEF Spec

\* The types of the variables.
THEOREM PackDirTypeCorrect == Spec => []TypeOK
<1>1. PackInv => TypeOK
  BY DEF PackInv, InstallInv, ImageInv, TypeOK
<1>. QED  BY <1>1, PackInvHolds, PTL

\* What a host has loaded is what its own build of Janet compiles from the
\* sources that are there, whatever image load_pack_image has found beside
\* them: for any number of hosts, of writers that overlap, fail or die, and
\* of files, texts and builds of Janet, as long as no source changed and no
\* other build wrote while an image was written.
THEOREM LawIsSourcesHolds == Spec => []LawIsSources
<1>1. PackInv => LawIsSources
  BY DEF PackInv, ImageInv
<1>. QED  BY <1>1, PackInvHolds, PTL

\* No state of the image makes a load of load_one_pack fail: one that fails
\* has met sources that do not compile.
THEOREM ImageNeverFailsHolds == Spec => []ImageNeverFails
<1>1. PackInv => ImageNeverFails
  BY DEF PackInv, ImageInv
<1>. QED  BY <1>1, PackInvHolds, PTL

\* What a host has loaded from the cache is the pack embedded in the crate, all
\* its files in their order, for any pack and any number of installers.
THEOREM LoadsEmbeddedHolds == Spec => []LoadsEmbedded
<1>1. PackInv => LoadsEmbedded
  <2>. SUFFICES ASSUME InstallInv, ImageInv, NEW h \in Hosts, cache, law[h] # NoLaw
                PROVE  law[h] = Compiled(h, [i \in Sources |-> [file |-> InOrder(i), text |-> Pack[InOrder(i)]]])
    BY DEF PackInv, LoadsEmbedded, InOrder
  <2>1. touched = {} /\ ~raced /\ inst[h].step = "ok"
    BY DEF ImageInv, CacheQuiet
  <2>2. \A f \in Sources : src[f] = Pack[f]
    BY <2>1, InstallersAssumption DEF InstallInv, InstallerInv, Whole
  <2>3. \A f \in Sources : src[f] \in Texts \ {Broken} /\ src[f] # Absent
    BY <2>2, PackAssumption, TextsAssumption
  <2>4. \A i \in Sources : InOrder(i) \in Sources
    BY SourcesAreNumbers, SourcesAssumption DEF InOrder, Sources
  <2>5. SourceList = [i \in Sources |-> InOrder(i)]
    BY <2>3, WholeList
  <2>6. Current = [i \in Sources |-> [file |-> InOrder(i), text |-> src[InOrder(i)]]]
    BY <2>5 DEF Current
  <2>7. \A i \in Sources : src[InOrder(i)] = Pack[InOrder(i)] /\ src[InOrder(i)] \in Texts \ {Broken}
    BY <2>2, <2>3, <2>4
  <2>8. Current = [i \in Sources |-> [file |-> InOrder(i), text |-> Pack[InOrder(i)]]]
    BY <2>6, <2>7
  <2>9. Compilable
    BY <2>6, <2>7 DEF Compilable
  <2>10. law[h] # Failed
    BY <2>1, <2>9 DEF ImageInv, ImageNeverFails
  <2>11. law[h] = Compiled(h, Current)
    BY <2>1, <2>10 DEF ImageInv, LawIsSources
  <2>. QED  BY <2>8, <2>11
<1>. QED  BY <1>1, PackInvHolds, PTL
=============================================================================

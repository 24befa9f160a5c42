--------------------------- MODULE SlotFileProofs ---------------------------
(***************************************************************************)
(* Theorems about SlotFile for every set of writers, readers and records:  *)
(* the inductive invariant Private, and from it that the system calls of   *)
(* write_slot and read_slot_file implement SlotRegister.                   *)
(***************************************************************************)
EXTENDS SlotFile, TLAPS

\* An empty directory is well typed.
LEMMA InitType == Init => TypeOK
BY DEF Init, TypeOK, PCs

\* Every step keeps TypeOK.
LEMMA NextType ==
  ASSUME TypeOK, Private, [Next]_vars
  PROVE  TypeOK'
<1> USE DEF TypeOK, PCs, Goto, TmpName
<1>1. ASSUME NEW w \in Writers, WriterStep(w)
      PROVE  TypeOK'
  <2>1. ASSUME NEW v \in Records, Begin(w, v)
        PROVE  TypeOK'
    BY <2>1 DEF Begin
  <2>2. ASSUME NEW i \in Inodes, Create(w, i)
        PROVE  TypeOK'
    BY <2>2 DEF Create
  <2>3. CASE CreateExists(w) \/ Unlink(w) \/ CreateFails(w) \/ StepFails(w)
    BY <2>3 DEF CreateExists, Unlink, UnlinkTmp, CreateFails, StepFails
  <2>4. CASE Fill(w) \/ Close(w)
    <3>1. pc' \in [Writers -> PCs] /\ UNCHANGED <<slot, tmp, rec, own, fd, got, left>>
      BY <2>4 DEF Fill, Close
    <3>2. data' \in [Inodes -> Records \cup {Torn}]
      <4>1. rec[w] \in Records
        BY <2>4 DEF Fill, Close, Private
      <4>. QED  BY <2>4, <4>1 DEF Fill, Close
    <3>. QED  BY <3>1, <3>2
  <2>5. CASE Cleanup(w) \/ Rename(w)
    BY <2>5 DEF Cleanup, UnlinkTmp, Rename
  <2>6. CASE Die(w)
    BY <2>6 DEF Die
  <2>. QED  BY <1>1, <2>1, <2>2, <2>3, <2>4, <2>5, <2>6 DEF WriterStep
<1>2. ASSUME NEW r \in Readers, ReaderStep(r)
      PROVE  TypeOK'
  BY <1>2 DEF ReaderStep, ReadOpen, ReadMiss, Read
<1>3. CASE UNCHANGED vars
  BY <1>3 DEF vars
<1>. QED  BY <1>1, <1>2, <1>3 DEF Next

-----------------------------------------------------------------------------
(* Private, part by part. *)

\* What is in place is whole.
InPlaceWhole == slot # None => data[slot] # Torn

\* What is being read is whole.
ReadWhole == \A r \in Readers : fd[r] # None => data[fd[r]] # Torn

\* A writer has a record to store, and the file it fills is its own.
Filling(w) ==
  /\ pc[w] # "idle" => rec[w] # None
  /\ pc[w] \in {"fill", "close", "rename"} => own[w] # None /\ own[w] = tmp[w]
  /\ pc[w] = "rename" => data[own[w]] = rec[w]

\* A temporary file is not in place, not being read and has one name.
Apart(w) ==
  tmp[w] # None =>
    /\ tmp[w] # slot
    /\ \A r \in Readers : fd[r] # tmp[w]
    /\ \A x \in Writers : x # w => tmp[x] # tmp[w]

\* Private is the conjunction of its parts.
LEMMA PrivateParts ==
  Private <=> InPlaceWhole /\ ReadWhole /\ \A w \in Writers : Filling(w) /\ Apart(w)
BY DEF Private, InPlaceWhole, ReadWhole, Filling, Apart

\* An empty directory is private.
LEMMA InitPrivate == Init => Private
BY DEF Init, Private

\* Every step keeps Private.
LEMMA NextPrivate ==
  ASSUME TypeOK, Private, [Next]_vars
  PROVE  Private'
<1> USE DEF TypeOK, PCs, Goto, TmpName
<1>0. InPlaceWhole /\ ReadWhole /\ \A w \in Writers : Filling(w) /\ Apart(w)
  BY PrivateParts
<1>a. InPlaceWhole' /\ ReadWhole' /\ (\A w \in Writers : Filling(w)' /\ Apart(w)') => Private'
  BY DEF Private, InPlaceWhole, ReadWhole, Filling, Apart
<1>1. ASSUME NEW w \in Writers, NEW v \in Records, Begin(w, v)
      PROVE  Private'
  BY <1>0, <1>a, <1>1, ContentsAssumption DEF Begin, InPlaceWhole, ReadWhole, Filling, Apart
<1>2. ASSUME NEW w \in Writers, NEW i \in Inodes, Create(w, i)
      PROVE  Private'
  <2>1. /\ i # slot /\ i # None
        /\ \A x \in Writers : tmp[x] # i /\ own[x] # i
        /\ \A r \in Readers : fd[r] # i
    BY <1>2, ContentsAssumption DEF Create, Unreferenced
  <2>2. \A j \in Inodes : j # i => data'[j] = data[j]
    BY <1>2 DEF Create
  <2>3. InPlaceWhole' /\ ReadWhole'
    BY <1>0, <1>2, <2>1, <2>2 DEF Create, InPlaceWhole, ReadWhole
  <2>4. ASSUME NEW x \in Writers
        PROVE  Filling(x)'
    BY <1>0, <1>2, <2>1, <2>2 DEF Create, Filling
  <2>5. ASSUME NEW x \in Writers
        PROVE  Apart(x)'
    BY <1>0, <1>2, <2>1 DEF Create, Apart
  <2>. QED  BY <1>a, <2>3, <2>4, <2>5
<1>3. ASSUME NEW w \in Writers, CreateExists(w) \/ CreateFails(w) \/ StepFails(w)
      PROVE  Private'
  BY <1>0, <1>a, <1>3
     DEF CreateExists, CreateFails, StepFails, InPlaceWhole, ReadWhole, Filling, Apart
<1>4. ASSUME NEW w \in Writers, Unlink(w) \/ Cleanup(w) \/ Die(w)
      PROVE  Private'
  <2>1. UNCHANGED <<slot, data, rec, fd>>
    BY <1>4 DEF Unlink, Cleanup, UnlinkTmp, Die
  <2>2. \A x \in Writers : tmp'[x] = tmp[x] \/ (x = w /\ tmp'[x] = None)
    BY <1>4 DEF Unlink, Cleanup, UnlinkTmp, Die
  <2>3. /\ pc'[w] \in {"idle", "recreate"} /\ (pc'[w] = "recreate" => pc[w] = "unlink")
        /\ \A x \in Writers : x # w => pc'[x] = pc[x] /\ own'[x] = own[x]
    BY <1>4 DEF Unlink, Cleanup, UnlinkTmp, Die
  <2>4. ASSUME NEW x \in Writers
        PROVE  Filling(x)'
    BY <1>0, <2>1, <2>2, <2>3 DEF Filling
  <2>5. ASSUME NEW x \in Writers
        PROVE  Apart(x)'
    BY <1>0, <2>1, <2>2 DEF Apart
  <2>. QED  BY <1>0, <1>a, <2>1, <2>4, <2>5 DEF InPlaceWhole, ReadWhole
<1>5. ASSUME NEW w \in Writers, Fill(w) \/ Close(w)
      PROVE  Private'
  <2>1. own[w] \in Inodes /\ own[w] = tmp[w] /\ rec[w] \in Records
    BY <1>0, <1>5 DEF Fill, Close, Filling
  <2>2. UNCHANGED <<slot, tmp, rec, own, fd>>
    BY <1>5 DEF Fill, Close
  <2>3. \A j \in Inodes : j # own[w] => data'[j] = data[j]
    BY <1>5 DEF Fill, Close
  <2>4. InPlaceWhole' /\ ReadWhole'
    BY <1>0, <2>1, <2>2, <2>3, ContentsAssumption DEF InPlaceWhole, ReadWhole, Apart
  <2>5. ASSUME NEW x \in Writers
        PROVE  Filling(x)'
    <3>1. CASE x = w
      BY <1>0, <1>5, <2>1, <3>1 DEF Fill, Close, Filling
    <3>2. CASE x # w
      <4>1. pc'[x] = pc[x]
        BY <1>5, <3>2 DEF Fill, Close
      <4>2. pc[x] = "rename" => own[x] \in Inodes /\ own[x] # own[w]
        BY <1>0, <2>1, <3>2 DEF Filling, Apart
      <4>. QED  BY <1>0, <2>2, <2>3, <4>1, <4>2 DEF Filling
    <3>. QED  BY <3>1, <3>2
  <2>6. ASSUME NEW x \in Writers
        PROVE  Apart(x)'
    BY <1>0, <2>2 DEF Apart
  <2>. QED  BY <1>a, <2>4, <2>5, <2>6
<1>6. ASSUME NEW w \in Writers, Rename(w)
      PROVE  Private'
  <2>1. /\ slot' = tmp[w] /\ tmp[w] # None /\ data[tmp[w]] = rec[w] /\ rec[w] \in Records
        /\ UNCHANGED <<data, rec, fd>>
    BY <1>0, <1>6 DEF Rename, Filling
  <2>2. /\ \A x \in Writers : tmp'[x] = IF x = w THEN None ELSE tmp[x]
        /\ \A x \in Writers : x # w => pc'[x] = pc[x] /\ own'[x] = own[x]
        /\ pc'[w] = "idle"
    BY <1>6 DEF Rename
  <2>3. InPlaceWhole' /\ ReadWhole'
    BY <1>0, <2>1, ContentsAssumption DEF InPlaceWhole, ReadWhole
  <2>4. ASSUME NEW x \in Writers
        PROVE  Filling(x)'
    BY <1>0, <2>1, <2>2 DEF Filling
  <2>5. ASSUME NEW x \in Writers
        PROVE  Apart(x)'
    BY <1>0, <2>1, <2>2 DEF Apart
  <2>. QED  BY <1>a, <2>3, <2>4, <2>5
<1>7. ASSUME NEW r \in Readers, ReaderStep(r)
      PROVE  Private'
  <2>1. UNCHANGED <<slot, tmp, data, pc, rec, own>>
    BY <1>7 DEF ReaderStep, ReadOpen, ReadMiss, Read
  <2>2. \A q \in Readers : fd'[q] \in {fd[q], slot, None}
    BY <1>7 DEF ReaderStep, ReadOpen, ReadMiss, Read
  <2>3. InPlaceWhole' /\ ReadWhole'
    BY <1>0, <2>1, <2>2 DEF InPlaceWhole, ReadWhole
  <2>4. ASSUME NEW x \in Writers
        PROVE  Filling(x)' /\ Apart(x)'
    BY <1>0, <2>1, <2>2 DEF Filling, Apart
  <2>. QED  BY <1>a, <2>3, <2>4
<1>8. CASE UNCHANGED vars
  BY <1>8 DEF vars, Private
<1>. QED  BY <1>1, <1>2, <1>3, <1>4, <1>5, <1>6, <1>7, <1>8 DEF Next, WriterStep

\* However many processes write the slot at once and wherever they fail or
\* die: the file a writer fills is its own, and what is in place or being read
\* is a whole record.
THEOREM PrivateHolds == Spec => [](TypeOK /\ Private)
<1>1. TypeOK /\ Private /\ [Next]_vars => (TypeOK /\ Private)'
  BY NextType, NextPrivate
<1>. QED  BY <1>1, InitType, InitPrivate, PTL DEF Spec

-----------------------------------------------------------------------------
(* The refinement. *)

\* What every reader sees is written as one function of the readers.
Views == [r \in Readers |-> Seen(r)]

\* A step that leaves the files in place and open alone, and what the last
\* reads returned, is invisible to the register.
LEMMA Invisible ==
  ASSUME TypeOK, UNCHANGED <<slot, fd, got>>,
         slot # None => data'[slot] = data[slot],
         \A r \in Readers : fd[r] # None => data'[fd[r]] = data[fd[r]]
  PROVE  UNCHANGED <<InPlace, Views>>
BY DEF InPlace, Views, Seen

\* Every step of a writer or a reader is a step of the register or invisible.
LEMMA NextRefines ==
  ASSUME TypeOK, Private, [Next]_vars
  PROVE  [Register!Next]_(Register!vars)
<1> USE DEF TypeOK, PCs, TmpName
<1>1. ASSUME UNCHANGED <<InPlace, Views>>
      PROVE  [Register!Next]_(Register!vars)
  BY <1>1 DEF Register!vars, Views
<1>2. ASSUME NEW w \in Writers,
             \/ CreateExists(w) \/ Unlink(w) \/ CreateFails(w) \/ StepFails(w)
             \/ Cleanup(w) \/ Die(w) \/ (\E v \in Records : Begin(w, v))
      PROVE  UNCHANGED <<InPlace, Views>>
  BY <1>2, Invisible DEF CreateExists, Unlink, CreateFails, StepFails, Cleanup, Die, Begin
<1>3. ASSUME NEW w \in Writers, NEW i \in Inodes, Create(w, i)
      PROVE  UNCHANGED <<InPlace, Views>>
  BY <1>3, Invisible DEF Create, Unreferenced
<1>4. ASSUME NEW w \in Writers, Fill(w) \/ Close(w)
      PROVE  UNCHANGED <<InPlace, Views>>
  <2>1. own[w] \in Inodes /\ own[w] # slot /\ \A r \in Readers : fd[r] # own[w]
    BY <1>4 DEF Fill, Close, Private
  <2>2. UNCHANGED <<slot, fd, got>> /\ \A j \in Inodes : j # own[w] => data'[j] = data[j]
    BY <1>4 DEF Fill, Close
  <2>. QED  BY <2>1, <2>2, Invisible
<1>5. ASSUME NEW w \in Writers, Rename(w)
      PROVE  Register!Store
  <2>1. /\ slot' = tmp[w] /\ tmp[w] # None /\ data[tmp[w]] = rec[w] /\ rec[w] \in Records
        /\ UNCHANGED <<data, fd, got>>
    BY <1>5 DEF Rename, Private
  <2>2. InPlace' \in Records
    BY <2>1 DEF InPlace
  <2>3. UNCHANGED Views
    BY <2>1 DEF Views, Seen
  <2>. QED  BY <2>2, <2>3 DEF Register!Store, Views
<1>6. ASSUME NEW r \in Readers, ReaderStep(r)
      PROVE  [Register!Next]_(Register!vars)
  <2>1. UNCHANGED <<slot, data>> /\ UNCHANGED InPlace
    BY <1>6 DEF ReaderStep, ReadOpen, ReadMiss, Read, InPlace
  <2>2. CASE ReadOpen(r)
    <3>1. Views' = [Views EXCEPT ![r] = InPlace]
      BY <2>1, <2>2 DEF ReadOpen, Views, Seen, InPlace
    <3>. QED  BY <2>1, <3>1 DEF Register!Next, Register!Look, Views
  <2>3. CASE ReadMiss(r)
    <3>1. Views' = [Views EXCEPT ![r] = None]
      BY <2>1, <2>3 DEF ReadMiss, Views, Seen
    <3>. QED  BY <2>1, <3>1 DEF Register!Next, Register!Miss, Views
  <2>4. CASE Read(r)
    <3>1. Views' = Views
      BY <2>1, <2>4 DEF Read, Views, Seen
    <3>. QED  BY <1>1, <2>1, <3>1
  <2>. QED  BY <1>6, <2>2, <2>3, <2>4 DEF ReaderStep
<1>7. CASE UNCHANGED vars
  BY <1>1, <1>7, Invisible DEF vars
<1>. QED  BY <1>1, <1>2, <1>3, <1>4, <1>5, <1>6, <1>7
       DEF Next, WriterStep, Register!Next

\* write_slot and read_slot_file, with any number of writers and readers that
\* interleave, fail and die, implement the register that is replaced whole.
THEOREM Refinement == Spec => IsRegister
<1>1. Init => Register!Init
  BY DEF Init, Register!Init, InPlace, Seen
<1>2. TypeOK /\ Private /\ [Next]_vars => [Register!Next]_(Register!vars)
  BY NextRefines
<1>. QED  BY <1>1, <1>2, PrivateHolds, PTL DEF Spec, IsRegister, Register!Spec

\* write_slot reports success only for its own record, however many writers
\* rename their files at once.
THEOREM PublishesOwnHolds == Spec => PublishesOwn
<1>1. ASSUME TypeOK, Private, [Next]_vars
      PROVE  [\A w \in Writers :
                (pc[w] = "rename" /\ pc'[w] = "idle" /\ slot' # slot) =>
                   data'[slot'] = rec[w]]_vars
  <2>1. ASSUME NEW w \in Writers, Next, pc[w] = "rename", pc'[w] = "idle", slot' # slot
        PROVE  data'[slot'] = rec[w]
    <3>1. PICK x \in Writers : Rename(x)
      BY <2>1 DEF Next, WriterStep, ReaderStep, Begin, Create, CreateExists, Unlink, CreateFails,
                  Fill, Close, StepFails, Cleanup, Die, ReadOpen, ReadMiss, Read
    <3>2. x = w
      BY <1>1, <2>1, <3>1 DEF Rename, Goto, TypeOK
    <3>3. slot' = tmp[w] /\ data' = data
      BY <3>1, <3>2 DEF Rename, TmpName
    <3>4. tmp[w] = own[w] /\ data[own[w]] = rec[w]
      BY <1>1, <2>1 DEF Private
    <3>. QED  BY <3>3, <3>4
  <2>. QED  BY <1>1, <2>1
<1>. QED  BY <1>1, PrivateHolds, PTL DEF Spec, PublishesOwn

-----------------------------------------------------------------------------
(* Temporary files that are left. *)

\* What NoStrayFile needs of a call that is under way: until it has created
\* its own file, one that it finds was left by a death or a failed unlink().
Strayed(w) ==
  (pc[w] \in {"idle", "create", "recreate"} /\ tmp[w] # None) => w \in left

\* write_slot leaves a temporary file behind only where its process dies or
\* unlink() fails, whatever its other system calls return.
THEOREM NoStrayFileHolds == Spec => []NoStrayFile
<1> DEFINE Left == \A w \in Writers : Strayed(w)
<1>1. Init => Left
  BY DEF Init, Strayed
<1>2. TypeOK /\ Left /\ [Next]_vars => Left'
  <2>. SUFFICES ASSUME TypeOK, Left, [Next]_vars, NEW x \in Writers
                PROVE  Strayed(x)'
    OBVIOUS
  <2> USE DEF TypeOK, PCs, Goto, TmpName, Strayed
  <2>1. ASSUME NEW w \in Writers, NEW v \in Records, Begin(w, v)
        PROVE  Strayed(x)'
    BY <2>1 DEF Begin
  <2>2. ASSUME NEW w \in Writers, NEW i \in Inodes, Create(w, i)
        PROVE  Strayed(x)'
    BY <2>2 DEF Create
  <2>3. ASSUME NEW w \in Writers,
               CreateExists(w) \/ CreateFails(w) \/ Fill(w) \/ Close(w) \/ StepFails(w)
        PROVE  Strayed(x)'
    BY <2>3 DEF CreateExists, CreateFails, Fill, Close, StepFails
  <2>4. ASSUME NEW w \in Writers, Unlink(w) \/ Cleanup(w) \/ Rename(w)
        PROVE  Strayed(x)'
    BY <2>4 DEF Unlink, Cleanup, UnlinkTmp, Rename
  <2>5. ASSUME NEW w \in Writers, Die(w)
        PROVE  Strayed(x)'
    BY <2>5 DEF Die
  <2>6. ASSUME NEW r \in Readers, ReaderStep(r)
        PROVE  Strayed(x)'
    BY <2>6 DEF ReaderStep, ReadOpen, ReadMiss, Read
  <2>7. CASE UNCHANGED vars
    BY <2>7 DEF vars
  <2>. QED  BY <2>1, <2>2, <2>3, <2>4, <2>5, <2>6, <2>7 DEF Next, WriterStep
<1>3. Left => NoStrayFile
  BY DEF Strayed, NoStrayFile, TmpName
<1>. QED  BY <1>1, <1>2, <1>3, PrivateHolds, PTL DEF Spec
=============================================================================

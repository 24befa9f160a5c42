---------------------------- MODULE PolicydProofs ----------------------------
(***************************************************************************)
(* Proofs about PackHost and about Policyd, which serves its laws, for     *)
(* every set of agents, workspaces, paths, files, laws and requests, every *)
(* sequence of requests and every limit on the number of packs.            *)
(*                                                                         *)
(* The loops of the pack host are recursive functions. What they compute   *)
(* is proved by induction over the number of rounds (NatRecursion). What   *)
(* the path rules say of strings comes from PathLexProofs.                 *)
(***************************************************************************)
EXTENDS Policyd, PathLexProofs

-----------------------------------------------------------------------------
(* The loops. *)

\* expand_dir_packs lists files.
LEMMA DirFilesType ==
  ASSUME TypeOK
  PROVE  DirFiles \in Seq(Files)
<1> DEFINE H == {f \in Files \ Foreign : tree[root][f] # Missing}
           Q(d) == d = [f \in 0 .. NFiles |-> IF f = 0 THEN <<>>
                          ELSE IF f \in H THEN Append(d[f - 1], f) ELSE d[f - 1]]
           D == CHOOSE d : Q(d)
           G == [f \in 1 .. NFiles |-> [s \in Seq(Files) |->
                   IF f \in H THEN Append(s, f) ELSE s]]
<1>0. NFiles \in Nat /\ \A s \in Seq(Files), f \in 1 .. NFiles : Append(s, f) \in Seq(Files)
  BY FilesAssumption DEF Files
<1>1. G \in [1 .. NFiles -> [Seq(Files) -> Seq(Files)]]
  <2>. HIDE DEF H
  <2>. QED  BY <1>0
<1>2. PICK d : Recurs(d, NFiles, Seq(Files), << >>, G)
  <2> DEFINE V == Seq(Files)
             b == << >>
  <2>1. b \in V /\ G \in [1 .. NFiles -> [V -> V]]
    BY <1>1
  <2>. HIDE DEF G, V, b
  <2>2. \E d : Recurs(d, NFiles, V, b, G)
    BY <1>0, <2>1, Recursion
  <2>. QED  BY <2>2 DEF V, b
<1>3. \A f \in 1 .. NFiles :
        d[f] = IF f \in H THEN Append(d[f - 1], f) ELSE d[f - 1]
  <2>. HIDE DEF H
  <2>. TAKE f \in 1 .. NFiles
  <2>1. f - 1 \in 0 .. NFiles
    BY <1>0
  <2>2. d[f - 1] \in Seq(Files)
    BY <1>2, <2>1 DEF Recurs
  <2>. QED  BY <1>2, <2>2 DEF Recurs
<1>4. Q(d)
  <2>. HIDE DEF G, H
  <2>1. \A f \in 0 .. NFiles : d[f] = IF f = 0 THEN <<>>
                          ELSE IF f \in H THEN Append(d[f - 1], f) ELSE d[f - 1]
    <3>. TAKE f \in 0 .. NFiles
    <3>1. f # 0 => f \in 1 .. NFiles
      BY <1>0
    <3>. QED  BY <1>2, <1>3, <3>1 DEF Recurs
  <2>. QED  BY <1>2, <2>1 DEF Recurs
<1>5. Q(D)
  <2>. HIDE DEF Q
  <2>. QED  BY <1>4
<1>6. DirFiles = D[NFiles]
  BY DEF DirFiles
<1>. HIDE DEF D, H
<1> DEFINE S == {f \in 0 .. NFiles : D[f] \in Seq(Files)}
<1>7. 0 \in S
  BY <1>0, <1>5
<1>8. ASSUME NEW f \in 0 .. NFiles, f < NFiles, f \in S
      PROVE  f + 1 \in S
  <2>1. f + 1 \in 0 .. NFiles /\ f + 1 \in 1 .. NFiles /\ (f + 1) - 1 = f /\ f + 1 # 0
    BY <1>0, <1>8
  <2>2. D[f + 1] = IF f + 1 \in H THEN Append(D[f], f + 1) ELSE D[f]
    BY <1>5, <2>1
  <2>. QED  BY <1>0, <1>8, <2>1, <2>2
<1>9. NFiles \in S
  <2>. HIDE DEF S
  <2>1. \A f \in 0 .. NFiles : f \in S
    BY <1>0, <1>7, <1>8, InductionTo
  <2>. QED  BY <1>0, <2>1
<1>. QED  BY <1>6, <1>9

\* parse_pack_spec: a segment is a file or the files of the directory, and the
\* files of the segments follow each other.
LEMMA ExpandType ==
  ASSUME TypeOK, NEW seg \in Segments
  PROVE  Expand(seg) \in Seq(Files)
BY DirFilesType, SegmentAssumption DEF Expand, Segments

\* The expanded list of packs is a list of files.
LEMMA ExpandedType ==
  ASSUME TypeOK, NEW sp \in Seq(Segments)
  PROVE  Expanded(sp) \in Seq(Files)
<1> DEFINE n == Len(sp)
           X == [i \in 1 .. n |-> Expand(sp[i])]
           Q(a) == a = [i \in 0 .. n |-> IF i = 0 THEN <<>> ELSE a[i - 1] \o Expand(sp[i])]
           A == CHOOSE a : Q(a)
           G == [i \in 1 .. n |-> [s \in Seq(Files) |-> s \o X[i]]]
<1>0. n \in Nat /\ X \in [1 .. n -> Seq(Files)]
  <2>1. n \in Nat /\ \A i \in 1 .. n : sp[i] \in Segments
    OBVIOUS
  <2>. HIDE DEF n
  <2>. QED  BY <2>1, ExpandType
<1>1. G \in [1 .. n -> [Seq(Files) -> Seq(Files)]]
  <2>. HIDE DEF X, n
  <2>. QED  BY <1>0
<1>2. PICK a : Recurs(a, n, Seq(Files), << >>, G)
  <2> DEFINE V == Seq(Files)
             b == << >>
  <2>1. b \in V /\ G \in [1 .. n -> [V -> V]]
    BY <1>1
  <2>. HIDE DEF G, V, b, n
  <2>2. \E a : Recurs(a, n, V, b, G)
    BY <1>0, <2>1, Recursion
  <2>. QED  BY <2>2 DEF V, b
<1>3. \A i \in 1 .. n : a[i] = a[i - 1] \o Expand(sp[i])
  <2>. HIDE DEF n
  <2>. TAKE i \in 1 .. n
  <2>1. i - 1 \in 0 .. n
    BY <1>0
  <2>2. a[i - 1] \in Seq(Files) /\ a[i] = G[i][a[i - 1]]
    BY <1>2, <2>1 DEF Recurs
  <2>3. X[i] = Expand(sp[i])
    OBVIOUS
  <2>. HIDE DEF X
  <2>. QED  BY <2>2, <2>3
<1>4. Q(a)
  <2>. HIDE DEF G, n
  <2>1. \A i \in 0 .. n : a[i] = IF i = 0 THEN <<>> ELSE a[i - 1] \o Expand(sp[i])
    <3>. TAKE i \in 0 .. n
    <3>1. i # 0 => i \in 1 .. n
      BY <1>0
    <3>. QED  BY <1>2, <1>3, <3>1 DEF Recurs
  <2>. QED  BY <1>2, <2>1 DEF Recurs
<1>5. Q(A)
  <2>. HIDE DEF Q
  <2>. QED  BY <1>4
<1>6. Expanded(sp) = A[n]
  BY DEF Expanded
<1>. HIDE DEF A, n
<1> DEFINE S == {i \in 0 .. n : A[i] \in Seq(Files)}
<1>7. 0 \in S
  BY <1>0, <1>5
<1>8. ASSUME NEW i \in 0 .. n, i < n, i \in S
      PROVE  i + 1 \in S
  <2>1. i + 1 \in 0 .. n /\ i + 1 \in 1 .. n /\ (i + 1) - 1 = i /\ i + 1 # 0
    BY <1>0, <1>8
  <2>2. A[i + 1] = A[i] \o Expand(sp[i + 1])
    BY <1>5, <2>1
  <2>3. Expand(sp[i + 1]) \in Seq(Files)
    BY <1>0, <2>1
  <2>4. A[i] \o Expand(sp[i + 1]) \in Seq(Files)
    BY <1>8, <2>3
  <2>. QED  BY <2>1, <2>2, <2>4
<1>9. n \in S
  <2>. HIDE DEF S
  <2>1. \A i \in 0 .. n : i \in S
    BY <1>0, <1>7, <1>8, InductionTo
  <2>. QED  BY <1>0, <2>1
<1>. QED  BY <1>6, <1>9

-----------------------------------------------------------------------------
(* The composition of the verdicts. *)

\* What the loop of compose_pack_entry carries along. A loop that has stopped
\* denies, and only the ranks 1 and 2 stand for "allow" and "prompt".
Codes == {"PACK_MISSING", "PACK_RUNTIME_ERROR", "PACK_BAD_RESULT", "PACK"}

Carried ==
  {b \in [stop : BOOLEAN, rank : 0 .. 3, decision : Outcomes, code : Codes] :
     /\ b.stop => b.rank = 3
     /\ b.decision = "allow" => b.rank = 1
     /\ b.decision = "prompt" => b.rank = 2}

\* Outcome o has been taken into account by rank r.
Heeded(r, o) ==
  /\ r < 3 => o \in {"none", "allow", "prompt"}
  /\ r < 2 => o # "prompt"
  /\ r < 1 => o = "none"

\* A round heeds its outcome and keeps heeding the earlier ones.
LEMMA RoundHeeds ==
  ASSUME NEW b \in Carried, NEW o \in Outcomes
  PROVE  /\ Round(b, o) \in Carried
         /\ Heeded(Round(b, o).rank, o)
         /\ \A q \in Outcomes : Heeded(b.rank, q) => Heeded(Round(b, o).rank, q)
<1>1. b.rank \in 0 .. 3 /\ b.stop \in BOOLEAN
  BY DEF Carried
<1>2. CASE b.stop \/ o = "none"
  BY <1>1, <1>2 DEF Round, Heeded, Carried
<1>3. CASE ~b.stop /\ o \in {"error", "bad", "deny"}
  BY <1>1, <1>3 DEF Round, Heeded, Carried, Stop, Outcomes, Verdicts, Codes
<1>4. CASE ~b.stop /\ o \in {"allow", "prompt", "unknown"}
  <2> DEFINE n == [stop |-> FALSE, rank |-> Rank(o), decision |-> o, code |-> "PACK"]
  <2>1. Round(b, o) = IF Rank(o) > b.rank THEN n ELSE b
    BY <1>4 DEF Round
  <2>2. Rank(o) = IF o = "prompt" THEN 2 ELSE IF o = "allow" THEN 1 ELSE 3
    BY <1>4 DEF Rank
  <2>3. n \in Carried /\ n.rank = Rank(o)
    BY <1>4, <2>2 DEF Carried, Outcomes, Verdicts, Codes
  <2>. HIDE DEF n
  <2>. QED  BY <1>1, <1>4, <2>1, <2>2, <2>3 DEF Heeded
<1>. QED  BY <1>2, <1>3, <1>4 DEF Outcomes, Verdicts

\* The loop heeds the outcome of every pack.
LEMMA BestHeeds ==
  ASSUME NEW ps \in Seq(Pack), NEW entry \in Entries
  PROVE  /\ Best(ps, entry)[Len(ps)] \in Carried
         /\ \A j \in DOMAIN ps : Heeded(Best(ps, entry)[Len(ps)].rank, ps[j].law[entry])
<1> DEFINE n == Len(ps)
           L == [i \in 1 .. n |-> ps[i].law[entry]]
           Q(a) == a = [i \in 0 .. n |-> IF i = 0 THEN NoVerdict
                                         ELSE Round(a[i - 1], ps[i].law[entry])]
           B == CHOOSE a : Q(a)
           G == [i \in 1 .. n |-> [b \in Carried |-> Round(b, L[i])]]
<1>0. n \in Nat /\ DOMAIN ps = 1 .. n /\ L \in [1 .. n -> Outcomes]
  <2>1. n \in Nat /\ DOMAIN ps = 1 .. n /\ \A i \in 1 .. n : ps[i] \in Pack
    OBVIOUS
  <2>2. \A i \in 1 .. n : ps[i].law \in [Entries -> Outcomes]
    <3>. HIDE DEF n
    <3>. QED  BY <2>1, LawsAssumption DEF Pack
  <2>. HIDE DEF n
  <2>. QED  BY <2>1, <2>2
<1>1. G \in [1 .. n -> [Carried -> Carried]] /\ NoVerdict \in Carried
  <2>1. NoVerdict \in Carried
    BY DEF NoVerdict, Carried, Codes, Outcomes, Verdicts
  <2>. HIDE DEF L, n
  <2>. QED  BY <1>0, <2>1, RoundHeeds
<1>2. PICK a : Recurs(a, n, Carried, NoVerdict, G)
  <2>. HIDE DEF G, n
  <2>. QED  BY <1>0, <1>1, Recursion
<1>3. \A i \in 1 .. n : a[i] = Round(a[i - 1], ps[i].law[entry])
  <2>. HIDE DEF n
  <2>. TAKE i \in 1 .. n
  <2>1. i - 1 \in 0 .. n
    BY <1>0
  <2>2. a[i - 1] \in Carried /\ a[i] = G[i][a[i - 1]]
    BY <1>2, <2>1 DEF Recurs
  <2>3. L[i] = ps[i].law[entry]
    OBVIOUS
  <2>. HIDE DEF L
  <2>. QED  BY <2>2, <2>3
<1>4. Q(a)
  <2>. HIDE DEF G, n
  <2>1. \A i \in 0 .. n : a[i] = IF i = 0 THEN NoVerdict ELSE Round(a[i - 1], ps[i].law[entry])
    <3>. TAKE i \in 0 .. n
    <3>1. i # 0 => i \in 1 .. n
      BY <1>0
    <3>. QED  BY <1>2, <1>3, <3>1 DEF Recurs
  <2>. QED  BY <1>2, <2>1 DEF Recurs
<1>5. Q(B)
  <2>. HIDE DEF Q
  <2>. QED  BY <1>4
<1>6. Best(ps, entry) = B
  BY DEF Best
<1>. HIDE DEF B, n
<1> DEFINE S == {i \in 0 .. n : B[i] \in Carried /\ \A j \in 1 .. i : Heeded(B[i].rank, L[j])}
<1>7. 0 \in S
  <2>1. 1 .. 0 = {} /\ 0 \in 0 .. n
    BY <1>0
  <2>. QED  BY <1>1, <1>5, <2>1
<1>8. ASSUME NEW i \in 0 .. n, i < n, i \in S
      PROVE  i + 1 \in S
  <2>1. i + 1 \in 0 .. n /\ i + 1 \in 1 .. n /\ (i + 1) - 1 = i /\ i + 1 # 0
    BY <1>0, <1>8
  <2>2. B[i + 1] = Round(B[i], L[i + 1])
    BY <1>5, <2>1
  <2>3. B[i] \in Carried /\ \A j \in 1 .. i : Heeded(B[i].rank, L[j])
    BY <1>8
  <2>. HIDE DEF L
  <2>4. \A j \in 1 .. i + 1 : L[j] \in Outcomes /\ (j = i + 1 \/ j \in 1 .. i)
    BY <1>0, <2>1
  <2>5. B[i + 1] \in Carried /\ \A j \in 1 .. i + 1 : Heeded(B[i + 1].rank, L[j])
    <3>1. L[i + 1] \in Outcomes
      BY <1>0, <2>1
    <3> DEFINE b == B[i]
               o == L[i + 1]
    <3>2. b \in Carried /\ o \in Outcomes /\ B[i + 1] = Round(b, o)
      BY <2>2, <2>3, <3>1
    <3>. HIDE DEF b, o
    <3>3. /\ B[i + 1] \in Carried /\ Heeded(B[i + 1].rank, o)
          /\ \A q \in Outcomes : Heeded(b.rank, q) => Heeded(B[i + 1].rank, q)
      BY <3>2, RoundHeeds
    <3>. QED  BY <2>3, <2>4, <3>3 DEF b, o
  <2>. QED  BY <2>1, <2>5
<1>9. n \in S
  <2>. HIDE DEF S
  <2>1. \A i \in 0 .. n : i \in S
    BY <1>0, <1>7, <1>8, InductionTo
  <2>. QED  BY <1>0, <2>1
<1>10. \A j \in 1 .. n : L[j] = ps[j].law[entry]
  OBVIOUS
<1>. QED  BY <1>0, <1>6, <1>9, <1>10 DEF n

\* An answer that does not deny has been given by every pack.
LEMMA ComposeHeeds ==
  ASSUME NEW ps \in Seq(Pack), NEW entry \in Entries
  PROVE  /\ Compose(ps, entry).call = entry
         /\ Compose(ps, entry).decision \in Outcomes
         /\ Compose(ps, entry).code \notin {"PACK_PATH_INVALID", "PACK_LOAD_FAILED", "PACK_RELOADED"}
         /\ \A j \in DOMAIN ps :
              /\ Compose(ps, entry).decision \in {"allow", "prompt"} =>
                   ps[j].law[entry] \in {"none", "allow", "prompt"}
              /\ Compose(ps, entry).decision = "allow" => ps[j].law[entry] # "prompt"
<1> DEFINE b == Best(ps, entry)[Len(ps)]
<1>1. b \in Carried /\ \A j \in DOMAIN ps : Heeded(b.rank, ps[j].law[entry])
  BY BestHeeds
<1>2. Compose(ps, entry) = [call |-> entry, decision |-> b.decision, code |-> b.code]
  BY DEF Compose, Reply
<1>. HIDE DEF b
<1>. QED  BY <1>1, <1>2 DEF Carried, Heeded, Codes

-----------------------------------------------------------------------------
(* Types. *)

\* A sequence over a set is one over every larger set.
LEMMA SeqGrows ==
  ASSUME NEW C, NEW D, C \subseteq D, NEW s \in Seq(C)
  PROVE  s \in Seq(D)
<1>1. \A i \in 1 .. Len(s) : s[i] \in D
  OBVIOUS
<1>. QED  BY <1>1, SeqDef

\* While the packs are read, those that are loaded and those still to be read
\* fit the table together.
LoadFits ==
  /\ op.step = "idle" => op = Idle
  /\ op.step # "idle" => op.call # "none"
  /\ op.step = "load" => op.todo \in Seq(Files) /\ Len(packs) + Len(op.todo) <= MaxPacks

\* What the host may be at, as in TypeOK.
Ops == [step : {"idle", "parse", "load"}, call : Entries \cup {"none", "reload"}, todo : Seq(Segments)]

\* What the process does besides: an entry point that does not ask the packs.
HostNext == Next \/ (Answered(NoAnswer) /\ UNCHANGED <<rootfd, before>>)

\* What the host loads on its own is a list of segments.
LEMMA DefaultSpecType ==
  ASSUME TypeOK
  PROVE  DefaultSpec \in Seq(Segments)
<1>1. Default \in Segments
  BY FilesAssumption DEF Segments
<1>2. spec \in Seq(Segments)
  <2>1. spec \in Seq(Files) /\ Files \subseteq Segments
    BY DEF TypeOK, Segments
  <2>. QED  BY <2>1
<1>3. env \in Seq(Segments)
  BY DEF TypeOK
<1>. QED  BY <1>1, <1>2, <1>3 DEF DefaultSpec

\* The root descriptor is open on one of the trees.
LEMMA RootFdType ==
  ASSUME TypeOK
  PROVE  RootFd \in Trees
BY DEF TypeOK, RootFd

\* Opening a pack file gives contents, or that there are none.
LEMMA OpenedType ==
  ASSUME TypeOK, NEW f \in Files
  PROVE  Opened(f) \in Contents
<1>1. CASE f \in Foreign
  BY <1>1 DEF Opened, Contents
<1>2. CASE f \notin Foreign
  <2>1. tree[RootFd] \in [Files \ Foreign -> Contents]
    BY RootFdType DEF TypeOK
  <2>. QED  BY <1>2, <2>1 DEF Opened
<1>. QED  BY <1>1, <1>2

\* The start of a load keeps to the types.
LEMMA BeginLoadType ==
  ASSUME TypeOK, NEW call \in Entries \cup {"reload"}, NEW sp \in Seq(Segments), NEW r,
         Parses(sp, r), BeginLoad(call, sp), rootfd' \in Trees \cup {NoTree}
  PROVE  TypeOK' /\ LoadFits'
<1>1. Expanded(sp) \in Seq(Files) /\ Len(Expanded(sp)) <= MaxPacks
  BY ExpandedType, BoundsAssumption DEF Parses
<1>2. MaxPacks \in Nat
  BY BoundsAssumption
<1>3. op' = [step |-> "load", call |-> call, todo |-> Expanded(sp)]
  BY DEF BeginLoad, Loading
<1>4. packs' = <<>> /\ loaded' = FALSE /\ failed' = FALSE /\ read' = <<>> /\ touched' = FALSE
  BY DEF BeginLoad, Unload
<1>5. UNCHANGED <<tree, root, env, spec, closed>>
  BY DEF BeginLoad
<1>6. TypeOK'
  <2>1. packs' \in Seq(Pack) /\ Len(packs') <= MaxPacks /\ read' \in Seq(Contents)
    BY <1>2, <1>4
  <2>2. Expanded(sp) \in Seq(Segments)
    BY <1>1, SeqGrows DEF Segments
  <2>3. op' \in Ops
    BY <1>3, <2>2 DEF Ops
  <2>. QED  BY <1>4, <1>5, <2>1, <2>3 DEF TypeOK, Ops
<1>7. Len(packs') = 0 /\ Len(op'.todo) <= MaxPacks /\ op'.step = "load" /\ op'.call # "none"
  BY <1>1, <1>3, <1>4 DEF Entries
<1>8. Len(op'.todo) \in Nat /\ op'.todo \in Seq(Files)
  BY <1>1, <1>3
<1>. QED  BY <1>2, <1>6, <1>7, <1>8 DEF LoadFits

\* A load that fails keeps to the types.
LEMMA LoadFailsType ==
  ASSUME TypeOK, LoadFails, read' \in Seq(Contents), rootfd' \in Trees \cup {NoTree},
         UNCHANGED <<tree, root, env, touched>>
  PROVE  TypeOK' /\ LoadFits'
<1>1. packs' = <<>> /\ loaded' = FALSE /\ failed' = TRUE /\ op' = Idle
  BY DEF LoadFails, Unload
<1>2. spec' \in Seq(Files) /\ closed' \in BOOLEAN
  BY DEF LoadFails, TypeOK
<1>3. MaxPacks \in Nat
  BY BoundsAssumption
<1>4. packs' \in Seq(Pack) /\ Len(packs') <= MaxPacks
  BY <1>1, <1>3
<1>5. op'.step = "idle" /\ op' \in Ops
  BY <1>1 DEF Idle, Ops
<1>. QED  BY <1>1, <1>2, <1>4, <1>5 DEF TypeOK, LoadFits, Ops

\* A specification that is still to be parsed is a list of segments.
LEMMA BeginsType ==
  ASSUME TypeOK, NEW call \in Entries \cup {"reload"}, NEW sp \in Seq(Segments), Begins(call, sp),
         UNCHANGED rootfd
  PROVE  TypeOK' /\ LoadFits'
<1>1. op' = [step |-> "parse", call |-> call, todo |-> sp]
  BY DEF InForce, Begins, Parsing
<1>2. op' \in Ops /\ op'.step = "parse" /\ op'.call # "none"
  BY <1>1 DEF Ops, Entries
<1>3. UNCHANGED <<tree, root, packs, loaded, failed, spec, env, read, closed, touched>>
  BY DEF Begins, InForce
<1>. QED  BY <1>2, <1>3 DEF TypeOK, LoadFits, Ops

\* Parsing keeps to the types.
LEMMA ParseType ==
  ASSUME TypeOK, LoadFits, Parse
  PROVE  TypeOK' /\ LoadFits'
<1>1. op.step = "parse" /\ op.call \in Entries \cup {"reload"} /\ op.todo \in Seq(Segments)
  BY DEF InForce, Parse, LoadFits, TypeOK
<1>2. rootfd' \in Trees \cup {NoTree}
  BY RootFdType DEF InForce, Parse, TypeOK
<1>3. CASE Parses(op.todo, op.call = "reload") /\ BeginLoad(op.call, op.todo)
  BY <1>1, <1>2, <1>3, BeginLoadType
<1>4. CASE ~Parses(op.todo, op.call = "reload")
  <2>1. op' = Idle /\ UNCHANGED <<tree, root, packs, loaded, failed, spec, env, read, closed, touched>>
    BY <1>4 DEF Parse, InForce
  <2>2. op' \in Ops /\ op'.step = "idle"
    BY <2>1 DEF Idle, Ops
  <2>. QED  BY <1>2, <2>1, <2>2 DEF TypeOK, LoadFits, Ops
<1>. QED  BY <1>3, <1>4 DEF InForce, Parse

\* The load of one pack keeps to the types.
LEMMA LoadOneType ==
  ASSUME TypeOK, LoadFits, LoadOne
  PROVE  TypeOK' /\ LoadFits'
<1> DEFINE f == Head(op.todo)
           c == Opened(f)
<1>1. op.todo \in Seq(Files) /\ op.todo # <<>> /\ op.step = "load"
  BY DEF LoadFits, LoadOne
<1>2. f \in Files /\ Tail(op.todo) \in Seq(Files) /\ Len(Tail(op.todo)) = Len(op.todo) - 1
  BY <1>1
<1>3. c \in Contents
  <2>. HIDE DEF f
  <2>. QED  BY <1>2, OpenedType
<1>4. read' = Append(read, c) /\ rootfd' = RootFd
  BY DEF LoadOne
<1>5. read' \in Seq(Contents) /\ rootfd' \in Trees \cup {NoTree}
  <2>. HIDE DEF c
  <2>1. read \in Seq(Contents)
    BY DEF TypeOK
  <2>. QED  BY <1>3, <1>4, <2>1, RootFdType
<1>6. UNCHANGED <<tree, root, env, touched>>
  BY DEF LoadOne
<1>7. CASE c \in {Missing, Broken} /\ LoadFails
  BY <1>5, <1>6, <1>7, LoadFailsType
<1>8. CASE /\ c \in Laws
           /\ packs' = IF \E e \in Entries : c[e] # "none"
                         THEN Append(packs, [file |-> f, law |-> c]) ELSE packs
           /\ op' = [op EXCEPT !.todo = Tail(@)]
           /\ UNCHANGED <<loaded, failed, spec, answer, closed>>
  <2>1. [file |-> f, law |-> c] \in Pack
    <3>. HIDE DEF f, c
    <3>. QED  BY <1>2, <1>8 DEF Pack
  <2>. HIDE DEF f, c
  <2>2. packs' \in Seq(Pack) /\ Len(packs') <= Len(packs) + 1 /\ Len(packs') \in Nat
    BY <1>8, <2>1 DEF TypeOK
  <2>3. /\ op' \in Ops
        /\ op'.step = "load" /\ op'.call = op.call /\ op'.todo = Tail(op.todo)
    <3>1. Tail(op.todo) \in Seq(Segments)
      BY <1>2, SeqGrows DEF Segments
    <3>. QED  BY <1>1, <1>8, <3>1 DEF TypeOK, Ops
  <2>4. Len(packs) \in Nat /\ Len(op.todo) \in Nat /\ Len(op.todo) # 0 /\ MaxPacks \in Nat
    BY <1>1, BoundsAssumption DEF TypeOK
  <2>5. Len(packs') + Len(op'.todo) <= MaxPacks /\ Len(packs') <= MaxPacks
    BY <1>1, <1>2, <2>2, <2>3, <2>4 DEF LoadFits
  <2>. QED  BY <1>1, <1>2, <1>5, <1>6, <1>8, <2>2, <2>3, <2>5 DEF TypeOK, LoadFits, Ops
<1>. QED  BY <1>7, <1>8 DEF LoadOne

\* The end of a load keeps to the types.
LEMMA LoadDoneType ==
  ASSUME TypeOK, LoadFits, LoadDone
  PROVE  TypeOK' /\ LoadFits'
<1>1. CASE packs = <<>> /\ LoadFails /\ UNCHANGED env
  BY <1>1, LoadFailsType DEF LoadDone, TypeOK
<1>2. CASE packs # <<>> /\ ~LoadFails
  <2>1. /\ loaded' = TRUE /\ failed' = FALSE /\ op' = Idle /\ UNCHANGED packs
        /\ UNCHANGED <<tree, root, rootfd, read, touched>>
        /\ spec' = [i \in DOMAIN packs |-> packs[i].file]
        /\ (env' = spec' /\ closed' = FALSE) \/ UNCHANGED <<env, closed>>
    BY <1>2 DEF LoadDone
  <2>2. spec' \in Seq(Files)
    <3>1. packs \in Seq(Pack)
      BY DEF TypeOK
    <3>2. Len(packs) \in Nat /\ DOMAIN packs = 1 .. Len(packs) /\ \A i \in 1 .. Len(packs) : packs[i] \in Pack
      BY <3>1
    <3>3. \A i \in 1 .. Len(packs) : packs[i].file \in Files
      BY <3>2 DEF Pack
    <3>. QED  BY <2>1, <3>2, <3>3
  <2>3. env' \in Seq(Segments)
    <3>1. Files \subseteq Segments
      BY DEF Segments
    <3>2. spec' \in Seq(Segments)
      BY <2>2, <3>1
    <3>. QED  BY <2>1, <3>2 DEF TypeOK
  <2>4. op'.step = "idle" /\ op' \in Ops
    BY <2>1 DEF Idle, Ops
  <2>5. closed' \in BOOLEAN
    BY <2>1 DEF TypeOK
  <2>. QED  BY <2>1, <2>2, <2>3, <2>4, <2>5 DEF TypeOK, LoadFits, Ops
<1>3. CASE packs # <<>> /\ LoadFails
  BY <1>3 DEF LoadDone, LoadFails, Unload
<1>. QED  BY <1>1, <1>2, <1>3 DEF LoadDone

\* Every step of the pack host keeps to the types.
LEMMA NextType ==
  ASSUME TypeOK, LoadFits, HostNext
  PROVE  TypeOK' /\ LoadFits'
<1>1. ASSUME NEW r, Answered(r), rootfd' \in Trees \cup {NoTree}
      PROVE  TypeOK' /\ LoadFits'
  BY <1>1 DEF InForce, Answered, TypeOK, LoadFits
<1>2. ASSUME NEW sp \in Requests, Reload(sp)
      PROVE  TypeOK' /\ LoadFits'
  <2>1. sp \in Seq(Segments)
    BY SegmentAssumption DEF Segments
  <2>2. rootfd' = rootfd /\ rootfd' \in Trees \cup {NoTree}
    BY <1>2 DEF Reload, TypeOK
  <2>. QED  BY <1>1, <1>2, <2>1, <2>2, BeginsType DEF Reload
<1>3. ASSUME NEW entry \in Entries, Check(entry)
      PROVE  TypeOK' /\ LoadFits'
  <2>1. rootfd' = rootfd /\ rootfd' \in Trees \cup {NoTree}
    BY <1>3 DEF Check, TypeOK
  <2>. QED  BY <1>1, <1>3, <2>1, DefaultSpecType, BeginsType DEF Check
<1>4. CASE Reset
  <2>1. MaxPacks \in Nat
    BY BoundsAssumption
  <2>2. packs' = <<>> /\ spec' = <<>>
    BY <1>4 DEF Reset, Unload
  <2>3. packs' \in Seq(Pack) /\ Len(packs') <= MaxPacks /\ spec' \in Seq(Files)
    BY <2>1, <2>2
  <2>4. op' = op /\ op.step = "idle"
    BY <1>4 DEF Reset, Idle
  <2>. QED  BY <1>4, <2>3, <2>4 DEF Reset, Unload, TypeOK, LoadFits
<1>5. ASSUME NEW f \in Files \ Foreign, NEW c \in Contents, Edit(f, c)
      PROVE  TypeOK' /\ LoadFits'
  BY <1>5 DEF InForce, Edit, TypeOK, LoadFits
<1>6. ASSUME NEW t \in Trees, Upgrade(t)
      PROVE  TypeOK' /\ LoadFits'
  BY <1>6 DEF InForce, Upgrade, TypeOK, LoadFits
<1>7. rootfd \in Trees \cup {NoTree}
  BY DEF TypeOK
<1>. QED  BY <1>1, <1>2, <1>3, <1>4, <1>5, <1>6, <1>7, ParseType, LoadOneType, LoadDoneType
          DEF HostNext, Next, LoadStep

-----------------------------------------------------------------------------
(* The law that answers is the law that was read. *)

HasEntry(c) == \E e \in Entries : c[e] # "none"

\* Every file that was read is a law, and if it has an entry it is among the
\* packs; and every pack was read.
AllHeld ==
  /\ \A i \in DOMAIN read :
       /\ read[i] \in Laws
       /\ HasEntry(read[i]) => \E j \in DOMAIN packs : packs[j].law = read[i]
  /\ \A j \in DOMAIN packs : \E i \in DOMAIN read : read[i] = packs[j].law /\ HasEntry(read[i])

\* Nothing is answered while packs are read; what has been read so far, and
\* later what is in force, is all held.
LawRead ==
  /\ op.step = "load" => ~loaded
  /\ op.step # "idle" => answer = NoAnswer
  /\ loaded => packs # <<>>
  /\ (op.step = "load" \/ loaded) => AllHeld /\ (packs # <<>> => read # <<>>)

\* A law that was read and answers "none" to everything allows nothing; each
\* other one is a pack, which Compose has asked.
LEMMA ComposeClosed ==
  ASSUME TypeOK, AllHeld, NEW entry \in Entries
  PROVE  Compose(packs, entry).decision \in {"allow", "prompt"} =>
           \A i \in DOMAIN read :
             /\ read[i] \in Laws
             /\ read[i][entry] \in {"none", "allow", "prompt"}
             /\ Compose(packs, entry).decision = "allow" => read[i][entry] # "prompt"
<1> DEFINE d == Compose(packs, entry).decision
<1>1. \A j \in DOMAIN packs :
        /\ d \in {"allow", "prompt"} => packs[j].law[entry] \in {"none", "allow", "prompt"}
        /\ d = "allow" => packs[j].law[entry] # "prompt"
  BY ComposeHeeds DEF TypeOK
<1>. HIDE DEF d
<1>2. d \in {"allow", "prompt"} =>
        \A i \in DOMAIN read :
          /\ read[i] \in Laws
          /\ read[i][entry] \in {"none", "allow", "prompt"}
          /\ d = "allow" => read[i][entry] # "prompt"
  <2>. SUFFICES ASSUME d \in {"allow", "prompt"}, NEW i \in DOMAIN read
                PROVE  /\ read[i] \in Laws
                       /\ read[i][entry] \in {"none", "allow", "prompt"}
                       /\ d = "allow" => read[i][entry] # "prompt"
    OBVIOUS
  <2>1. CASE read[i][entry] = "none"
    BY <2>1 DEF AllHeld
  <2>2. CASE read[i][entry] # "none"
    <3>1. PICK j \in DOMAIN packs : packs[j].law = read[i]
      BY <2>2 DEF AllHeld, HasEntry
    <3>. QED  BY <1>1, <3>1 DEF AllHeld
  <2>. QED  BY <2>1, <2>2
<1>. QED  BY <1>2 DEF d

\* What a load that goes on adds to what it has read.
LEMMA LoadOneHolds ==
  ASSUME TypeOK, LawRead, LoadOne
  PROVE  LawRead'
<1> DEFINE f == Head(op.todo)
           c == Opened(f)
<1>1. op.step = "load" /\ read' = Append(read, c)
  BY DEF LoadOne
<1>. HIDE DEF f, c
<1>2. CASE LoadFails
  <2>1. op'.step = "idle" /\ ~loaded'
    BY <1>2 DEF LoadFails, Unload, Idle
  <2>. QED  BY <2>1 DEF LawRead
<1>3. CASE /\ c \in Laws
           /\ packs' = IF \E e \in Entries : c[e] # "none"
                         THEN Append(packs, [file |-> f, law |-> c]) ELSE packs
           /\ op' = [op EXCEPT !.todo = Tail(@)]
           /\ UNCHANGED <<loaded, failed, spec, answer, closed>>
  <2> DEFINE n == Len(read)
             m == Len(packs)
  <2>1. /\ n \in Nat /\ DOMAIN read = 1 .. n /\ DOMAIN read' = 1 .. n + 1
        /\ read'[n + 1] = c /\ \A i \in 1 .. n : read'[i] = read[i]
    <3>1. read \in Seq(Contents)
      BY DEF TypeOK
    <3>. QED  BY <1>1, <3>1
  <2>2. /\ m \in Nat /\ DOMAIN packs = 1 .. m /\ DOMAIN packs \subseteq DOMAIN packs'
        /\ \A j \in DOMAIN packs : packs'[j] = packs[j]
        /\ HasEntry(c) =>
             m + 1 \in DOMAIN packs' /\ packs'[m + 1].law = c
        /\ \A j \in DOMAIN packs' : j \in DOMAIN packs \/ (HasEntry(c) /\ packs'[j].law = c)
    <3>1. packs \in Seq(Pack)
      BY DEF TypeOK
    <3>. QED  BY <1>3, <3>1 DEF HasEntry
  <2>3. AllHeld /\ ~loaded /\ answer = NoAnswer
    BY <1>1 DEF LawRead
  <2>4. read' # <<>>
    BY <2>1
  <2>. HIDE DEF n, m
  <2>5. AllHeld'
    <3>1. ASSUME NEW i \in 1 .. n + 1
          PROVE  /\ read'[i] \in Laws
                 /\ HasEntry(read'[i]) => \E j \in DOMAIN packs' : packs'[j].law = read'[i]
      <4>1. CASE i = n + 1
        BY <1>3, <2>1, <2>2, <4>1
      <4>2. CASE i # n + 1
        <5>1. i \in DOMAIN read /\ read'[i] = read[i]
          BY <2>1, <4>2
        <5>. QED  BY <2>2, <2>3, <5>1 DEF AllHeld
      <4>. QED  BY <4>1, <4>2
    <3>2. ASSUME NEW j \in DOMAIN packs'
          PROVE  \E i \in DOMAIN read' : read'[i] = packs'[j].law /\ HasEntry(read'[i])
      <4>1. CASE j \in DOMAIN packs
        <5>1. PICK i \in DOMAIN read : read[i] = packs[j].law /\ HasEntry(read[i])
          BY <2>3, <4>1 DEF AllHeld
        <5>. QED  BY <2>1, <2>2, <4>1, <5>1
      <4>2. CASE HasEntry(c) /\ packs'[j].law = c
        <5>1. n + 1 \in DOMAIN read' /\ read'[n + 1] = c
          BY <2>1
        <5>. QED  BY <4>2, <5>1
      <4>. QED  BY <2>2, <4>1, <4>2
    <3>. QED  BY <2>1, <3>1, <3>2 DEF AllHeld
  <2>6. ~loaded' /\ answer' = NoAnswer
    BY <1>3, <2>3
  <2>. QED  BY <2>4, <2>5, <2>6 DEF LawRead
<1>. QED  BY <1>2, <1>3 DEF LoadOne, f, c

\* Every step keeps the packs that are held and the files that were read in
\* agreement.
LEMMA NextRead ==
  ASSUME TypeOK, LoadFits, LawRead, HostNext
  PROVE  LawRead'
<1>1. ASSUME NEW call, NEW sp, BeginLoad(call, sp)
      PROVE  LawRead'
  <2>1. packs' = <<>> /\ read' = <<>> /\ ~loaded' /\ answer' = NoAnswer
    BY <1>1 DEF BeginLoad, Unload
  <2>2. DOMAIN read' = {}
    BY <2>1
  <2>. QED  BY <2>1, <2>2 DEF LawRead, AllHeld
<1>2. ASSUME NEW r, Answered(r), op.step # "idle" => r = NoAnswer
      PROVE  LawRead'
  BY <1>2 DEF InForce, Answered, LawRead, AllHeld, HasEntry
<1>3. ASSUME op = Idle
      PROVE  op.step = "idle"
  BY <1>3 DEF Idle
<1>10. ASSUME NEW call, NEW sp, Begins(call, sp), op = Idle
       PROVE  LawRead'
  <2>1. op'.step = "parse" /\ answer' = NoAnswer /\ UNCHANGED <<packs, loaded, read>>
    BY <1>10 DEF InForce, Begins, Parsing
  <2>. QED  BY <2>1 DEF LawRead, AllHeld, HasEntry
<1>4. ASSUME NEW sp, Reload(sp)
      PROVE  LawRead'
  BY <1>2, <1>3, <1>4, <1>10 DEF Reload
<1>5. ASSUME NEW entry, Check(entry)
      PROVE  LawRead'
  BY <1>2, <1>3, <1>5, <1>10 DEF Check
<1>11. CASE Parse
  <2>1. CASE Parses(op.todo, op.call = "reload")
    BY <1>1, <1>11, <2>1 DEF InForce, Parse
  <2>2. CASE ~Parses(op.todo, op.call = "reload")
    <3>1. op'.step = "idle" /\ UNCHANGED <<packs, loaded, read>>
      BY <1>11, <2>2 DEF InForce, Parse, Idle
    <3>. QED  BY <3>1 DEF LawRead, AllHeld, HasEntry
  <2>. QED  BY <2>1, <2>2
<1>6. CASE Reset
  BY <1>3, <1>6 DEF Reset, Unload, LawRead
<1>7. CASE LoadDone
  <2>1. CASE LoadFails
    <3>1. op'.step = "idle" /\ ~loaded'
      BY <2>1 DEF LoadFails, Unload, Idle
    <3>. QED  BY <3>1 DEF LawRead
  <2>2. CASE ~LoadFails
    <3>1. op'.step = "idle" /\ packs # <<>> /\ UNCHANGED <<packs, read>>
      BY <1>7, <2>2 DEF LoadDone, Idle
    <3>2. AllHeld /\ read # <<>>
      BY <1>7, <3>1 DEF LoadDone, LawRead
    <3>. QED  BY <3>1, <3>2 DEF LawRead, AllHeld, HasEntry
  <2>. QED  BY <2>1, <2>2
<1>8. ASSUME NEW f, NEW c, Edit(f, c) PROVE LawRead'
  BY <1>8 DEF InForce, Edit, LawRead, AllHeld, HasEntry
<1>9. ASSUME NEW t, Upgrade(t) PROVE LawRead'
  BY <1>9 DEF InForce, Upgrade, LawRead, AllHeld, HasEntry
<1>. QED  BY <1>2, <1>4, <1>5, <1>6, <1>7, <1>8, <1>9, <1>11, LoadOneHolds DEF HostNext, Next, LoadStep

\* An answer of the packs is closed, and nothing that changes what FailClosed
\* looks at leaves an answer in place.
LEMMA NextFailClosed ==
  ASSUME TypeOK, LoadFits, LawRead, FailClosed, HostNext
  PROVE  FailClosed'
<1>1. ASSUME answer' = NoAnswer \/ answer'.decision = "deny" \/ answer'.call = "reload"
      PROVE  FailClosed'
  BY <1>1 DEF FailClosed, NoAnswer, Entries
<1>2. ASSUME NEW entry \in Entries, answer' = Compose(packs, entry), AllHeld, packs # <<>>, read # <<>>,
             loaded', UNCHANGED <<packs, read>>
      PROVE  FailClosed'
  <2>1. answer'.call = entry
    BY <1>2, ComposeHeeds DEF TypeOK
  <2>. QED  BY <1>2, <2>1, ComposeClosed DEF FailClosed
<1>3. ASSUME LoadFails
      PROVE  FailClosed'
  BY <1>1, <1>3 DEF LoadFails, Reply
<1>4. ASSUME NEW call, NEW sp, BeginLoad(call, sp)
      PROVE  FailClosed'
  BY <1>1, <1>4 DEF BeginLoad
<1>5. ASSUME NEW sp, Reload(sp)
      PROVE  FailClosed'
  BY <1>1, <1>5 DEF InForce, Reload, Begins, Answered, Rejected, Reply
<1>6. ASSUME NEW entry \in Entries, Check(entry)
      PROVE  FailClosed'
  <2>1. CASE loaded /\ Answered(Compose(packs, entry))
    BY <1>2, <2>1 DEF InForce, Answered, LawRead
  <2>2. CASE Answered(Rejected(entry)) \/ Begins(entry, DefaultSpec)
    BY <1>1, <2>2 DEF InForce, Answered, Begins, Rejected, Reply
  <2>. QED  BY <1>6, <2>1, <2>2 DEF Check
<1>10. CASE Parse
  BY <1>1, <1>4, <1>10 DEF InForce, Parse, Rejected, Reply
<1>7. CASE LoadOne
  <2>1. CASE LoadFails
    BY <1>3, <2>1
  <2>2. CASE ~LoadFails
    BY <1>1, <1>7, <2>2 DEF LoadOne, LawRead
  <2>. QED  BY <2>1, <2>2
<1>8. CASE LoadDone
  <2>1. CASE LoadFails
    BY <1>3, <2>1
  <2>2. CASE ~LoadFails
    <3>1. op.step = "load" /\ packs # <<>> /\ UNCHANGED <<packs, read>> /\ loaded'
      BY <1>8, <2>2 DEF LoadDone
    <3>2. AllHeld /\ read # <<>>
      BY <3>1 DEF LawRead
    <3>3. CASE answer' = Reply("reload", "allow", "PACK_RELOADED")
      BY <1>1, <3>3 DEF Reply
    <3>4. CASE op.call \in Entries /\ answer' = Compose(packs, op.call)
      BY <1>2, <3>1, <3>2, <3>4
    <3>. QED  BY <1>8, <2>2, <3>3, <3>4 DEF LoadDone
  <2>. QED  BY <2>1, <2>2
<1>9. CASE \/ Reset \/ (\E f, c : Edit(f, c)) \/ (\E t : Upgrade(t))
           \/ (Answered(NoAnswer) /\ UNCHANGED <<rootfd, before>>)
  BY <1>1, <1>9 DEF InForce, Reset, Edit, Upgrade, Answered
<1>. QED  BY <1>5, <1>6, <1>7, <1>8, <1>9, <1>10 DEF HostNext, Next, LoadStep

-----------------------------------------------------------------------------
(* A reload that failed. *)

\* The host stays marked as failed, and only a reload can be under way.
Shut ==
  closed => /\ ~loaded
            /\ \/ op = Idle /\ failed
               \/ op.step = "parse" /\ op.call = "reload" /\ failed
               \/ op.step = "load" /\ op.call = "reload"

\* Every step keeps a host shut after a load that has failed.
LEMMA NextShut ==
  ASSUME TypeOK, LoadFits, LawRead, Shut, ClosedAfterFailure, HostNext
  PROVE  Shut' /\ ClosedAfterFailure'
<1>0. Idle.step = "idle"
  BY DEF Idle
<1>1. ASSUME answer' = NoAnswer \/ answer'.decision = "deny" \/ answer'.call = "reload"
      PROVE  ClosedAfterFailure'
  BY <1>1 DEF ClosedAfterFailure, NoAnswer, Entries
<1>2. ASSUME LoadFails
      PROVE  Shut' /\ ClosedAfterFailure'
  BY <1>1, <1>2 DEF LoadFails, Unload, Reply, Shut
<1>3. ASSUME NEW sp, Reload(sp)
      PROVE  Shut' /\ ClosedAfterFailure'
  <2>1. CASE Answered(Rejected("reload"))
    BY <1>1, <2>1 DEF InForce, Answered, Rejected, Reply, Shut
  <2>2. CASE op = Idle /\ Begins("reload", sp)
    <3>1. /\ op'.step = "parse" /\ op'.call = "reload" /\ answer' = NoAnswer
          /\ UNCHANGED <<loaded, failed, closed>>
      BY <2>2 DEF InForce, Begins, Parsing
    <3>. QED  BY <1>0, <1>1, <2>2, <3>1 DEF Shut
  <2>. QED  BY <1>3, <2>1, <2>2 DEF Reload
<1>9. CASE Parse
  <2>1. CASE BeginLoad(op.call, op.todo)
    <3>1. /\ ~loaded' /\ op'.step = "load" /\ op'.call = op.call /\ answer' = NoAnswer
          /\ closed' = closed /\ op.step = "parse"
      BY <1>9, <2>1 DEF InForce, Parse, BeginLoad, Loading, Unload
    <3>. QED  BY <1>0, <1>1, <3>1 DEF Shut
  <2>2. CASE ~BeginLoad(op.call, op.todo)
    <3>1. /\ op.step = "parse" /\ op' = Idle /\ answer'.decision = "deny"
          /\ UNCHANGED <<loaded, failed, closed>>
      BY <1>9, <2>2 DEF InForce, Parse, Rejected, Reply
    <3>. QED  BY <1>0, <1>1, <3>1 DEF Shut
  <2>. QED  BY <2>1, <2>2
<1>4. ASSUME NEW entry, Check(entry)
      PROVE  Shut' /\ ClosedAfterFailure'
  <2>1. CASE ~closed
    <3>1. ~closed'
      BY <1>4, <2>1 DEF InForce, Check, Begins, Answered
    <3>. QED  BY <3>1 DEF Shut, ClosedAfterFailure
  <2>2. CASE closed
    <3>1. failed /\ ~loaded
      BY <1>0, <1>4, <2>2 DEF Shut, Check
    <3>2. Answered(Rejected(entry))
      BY <1>4, <3>1 DEF Check
    <3>. QED  BY <1>1, <3>2 DEF InForce, Answered, Rejected, Reply, Shut
  <2>. QED  BY <2>1, <2>2 DEF TypeOK
<1>5. CASE LoadOne
  <2>1. CASE LoadFails
    BY <1>2, <2>1
  <2>2. CASE ~LoadFails
    <3>1. /\ op.step = "load" /\ op' = [op EXCEPT !.todo = Tail(@)]
          /\ UNCHANGED <<loaded, failed, closed, answer>>
      BY <1>5, <2>2 DEF LoadOne
    <3>2. op'.step = "load" /\ op'.call = op.call
      BY <3>1 DEF TypeOK
    <3>. QED  BY <1>0, <1>1, <3>1, <3>2 DEF LawRead, Shut
  <2>. QED  BY <2>1, <2>2
<1>6. CASE LoadDone
  <2>1. CASE LoadFails
    BY <1>2, <2>1
  <2>2. CASE ~LoadFails
    <3>1. ~closed'
      BY <1>0, <1>6, <2>2 DEF LoadDone, Shut, Entries
    <3>. QED  BY <3>1 DEF Shut, ClosedAfterFailure
  <2>. QED  BY <2>1, <2>2
<1>7. CASE Reset
  BY <1>7 DEF Reset, Shut, ClosedAfterFailure
<1>8. CASE \/ (\E f, c : Edit(f, c)) \/ (\E t : Upgrade(t))
           \/ (Answered(NoAnswer) /\ UNCHANGED <<rootfd, before>>)
  BY <1>1, <1>8 DEF InForce, Edit, Upgrade, Answered, Shut
<1>. QED  BY <1>3, <1>4, <1>5, <1>6, <1>7, <1>8, <1>9 DEF HostNext, Next, LoadStep

\* Until its specification is accepted a reload changes nothing.
Untouched == (op.step = "parse" /\ op.call = "reload") => InForce = before

\* Every step of a reload keeps it all or nothing.
LEMMA NextWhole ==
  ASSUME TypeOK, LoadFits, LawRead, Untouched, ReloadIsWhole, HostNext
  PROVE  Untouched' /\ ReloadIsWhole'
<1> DEFINE Told == {"PACK_PATH_INVALID", "PACK_LOAD_FAILED", "PACK_RELOADED"}
<1>0. Idle.step = "idle" /\ NoAnswer.code \notin Told
  BY DEF Idle, NoAnswer
<1>1. ASSUME answer'.code \notin Told
      PROVE  ReloadIsWhole'
  BY <1>1 DEF ReloadIsWhole
<1>2. ASSUME op'.step # "parse"
      PROVE  Untouched'
  BY <1>2 DEF Untouched
<1>3. ASSUME LoadFails
      PROVE  Untouched' /\ ReloadIsWhole'
  <2>1. op' = Idle /\ packs' = <<>> /\ ~loaded' /\ failed'
    BY <1>3 DEF LoadFails, Unload
  <2>2. CASE op.call = "reload"
    <3>1. answer'.code = "PACK_LOAD_FAILED" /\ spec' = <<>>
      BY <1>3, <2>2 DEF LoadFails, Reply
    <3>. QED  BY <1>0, <1>2, <2>1, <3>1 DEF ReloadIsWhole
  <2>3. CASE op.call # "reload"
    <3>1. answer'.code = "PACK_MISSING"
      BY <1>3, <2>3 DEF LoadFails, Reply
    <3>. QED  BY <1>0, <1>1, <1>2, <2>1, <3>1
  <2>. QED  BY <2>2, <2>3
<1>4. ASSUME NEW sp, Reload(sp)
      PROVE  Untouched' /\ ReloadIsWhole'
  <2>1. before' = InForce /\ InForce' = InForce
    BY <1>4 DEF InForce, Reload, Answered, Begins
  <2>2. Untouched'
    BY <2>1 DEF Untouched
  <2>3. answer'.code \notin {"PACK_LOAD_FAILED", "PACK_RELOADED"}
    BY <1>4 DEF InForce, Reload, Answered, Begins, Rejected, Reply, NoAnswer
  <2>. QED  BY <2>1, <2>2, <2>3 DEF ReloadIsWhole
<1>5. ASSUME NEW entry \in Entries, Check(entry)
      PROVE  Untouched' /\ ReloadIsWhole'
  <2>1. op = Idle /\ entry # "reload"
    BY <1>5 DEF Check, Entries
  <2>2. Compose(packs, entry).code \notin Told
    BY ComposeHeeds DEF TypeOK
  <2>3. Rejected(entry).code \notin Told
    BY <2>1 DEF Rejected, Reply
  <2>4. CASE Begins(entry, DefaultSpec)
    <3>1. op'.call = entry /\ answer' = NoAnswer
      BY <2>4 DEF InForce, Begins, Parsing
    <3>. QED  BY <1>0, <1>1, <2>1, <3>1 DEF Untouched
  <2>5. CASE Answered(Rejected(entry)) \/ Answered(Compose(packs, entry))
    <3>1. op' = Idle /\ answer'.code \notin Told
      BY <2>1, <2>2, <2>3, <2>5 DEF InForce, Answered
    <3>. QED  BY <1>0, <1>1, <1>2, <3>1
  <2>. QED  BY <1>5, <2>4, <2>5 DEF Check
<1>6. CASE Parse
  <2>1. CASE BeginLoad(op.call, op.todo)
    <3>1. op'.step = "load" /\ answer' = NoAnswer
      BY <2>1 DEF BeginLoad, Loading
    <3>. QED  BY <1>0, <1>1, <1>2, <3>1
  <2>2. CASE ~BeginLoad(op.call, op.todo)
    <3>1. /\ op.step = "parse" /\ op' = Idle /\ answer' = Rejected(op.call)
          /\ before' = before /\ InForce' = InForce
      BY <1>6, <2>2 DEF InForce, Parse
    <3>2. CASE op.call = "reload"
      <4>1. InForce' = before' /\ answer'.code = "PACK_PATH_INVALID"
        BY <3>1, <3>2 DEF Untouched, Rejected, Reply
      <4>. QED  BY <1>0, <1>2, <3>1, <4>1 DEF ReloadIsWhole
    <3>3. CASE op.call # "reload"
      <4>1. answer'.code = "PACK_MISSING"
        BY <3>1, <3>3 DEF Rejected, Reply
      <4>. QED  BY <1>0, <1>1, <1>2, <3>1, <4>1
    <3>. QED  BY <3>2, <3>3
  <2>. QED  BY <2>1, <2>2
<1>7. CASE LoadOne
  <2>1. CASE ~LoadFails
    <3>1. op' = [op EXCEPT !.todo = Tail(@)] /\ answer' = answer /\ op.step = "load"
      BY <1>7, <2>1 DEF LoadOne
    <3>2. op'.step = "load" /\ answer' = NoAnswer
      BY <3>1 DEF TypeOK, LawRead
    <3>. QED  BY <1>0, <1>1, <1>2, <3>2
  <2>. QED  BY <1>3, <2>1
<1>8. CASE LoadDone
  <2>1. CASE ~LoadFails
    <3>1. /\ op.step = "load" /\ op' = Idle /\ loaded' /\ ~failed' /\ UNCHANGED <<packs, read>>
          /\ packs # <<>>
      BY <1>8, <2>1 DEF LoadDone
    <3>2. AllHeld
      BY <3>1 DEF LawRead
    <3>3. CASE answer' = Reply("reload", "allow", "PACK_RELOADED")
      <4>1. /\ \A i \in DOMAIN read :
                 /\ read[i] \in Laws
                 /\ (\E e \in Entries : read[i][e] # "none") =>
                      \E j \in DOMAIN packs : packs[j].law = read[i]
            /\ \A j \in DOMAIN packs : \E i \in DOMAIN read : packs[j].law = read[i]
        BY <3>2 DEF AllHeld, HasEntry
      <4>2. answer'.code = "PACK_RELOADED"
        BY <3>3 DEF Reply
      <4>. QED  BY <1>0, <1>2, <3>1, <4>1, <4>2 DEF ReloadIsWhole
    <3>4. CASE op.call \in Entries /\ answer' = Compose(packs, op.call)
      <4>1. answer'.code \notin Told
        BY <3>4, ComposeHeeds DEF TypeOK
      <4>. QED  BY <1>0, <1>1, <1>2, <3>1, <4>1
    <3>. QED  BY <1>8, <2>1, <3>3, <3>4 DEF LoadDone
  <2>. QED  BY <1>3, <2>1
<1>9. CASE Reset
  <2>1. op' = Idle /\ answer' = NoAnswer
    BY <1>9 DEF Reset
  <2>. QED  BY <1>0, <1>1, <1>2, <2>1
<1>10. CASE \/ (\E f, c : Edit(f, c)) \/ (\E t : Upgrade(t))
            \/ (Answered(NoAnswer) /\ UNCHANGED <<rootfd, before>>)
  <2>1. answer' = NoAnswer /\ op' = op /\ before' = before /\ InForce' = InForce
    BY <1>10 DEF InForce, Edit, Upgrade, Answered
  <2>. QED  BY <1>0, <1>1, <2>1 DEF Untouched
<1>. QED  BY <1>4, <1>5, <1>6, <1>7, <1>8, <1>9, <1>10 DEF HostNext, Next, LoadStep

-----------------------------------------------------------------------------
(* The theorems. *)

HostInv ==
  TypeOK /\ LoadFits /\ LawRead /\ FailClosed /\ Shut /\ ClosedAfterFailure /\ Untouched /\ ReloadIsWhole

\* The invariant of the pack host holds at the start.
LEMMA InitHost ==
  ASSUME Init
  PROVE  HostInv
<1>1. packs = <<>> /\ read = <<>> /\ spec = <<>> /\ op = Idle /\ answer = NoAnswer /\ ~loaded /\ ~closed
  BY DEF Init
<1>2. MaxPacks \in Nat
  BY BoundsAssumption
<1>3. packs \in Seq(Pack) /\ Len(packs) <= MaxPacks /\ read \in Seq(Contents) /\ spec \in Seq(Files)
  BY <1>1, <1>2
<1>4. op \in Ops /\ op.step = "idle"
  BY <1>1 DEF Idle, Ops
<1>5. env \in Seq(Segments)
  <2>1. CASE env = <<>>
    BY <2>1
  <2>2. CASE \E seg \in Segments : env = <<seg>>
    BY <2>2
  <2>. QED  BY <2>1, <2>2 DEF Init
<1>6. TypeOK
  BY <1>3, <1>4, <1>5 DEF TypeOK, Init, Ops
<1>7. LoadFits /\ LawRead /\ FailClosed /\ Shut /\ ClosedAfterFailure /\ Untouched /\ ReloadIsWhole
  BY <1>1, <1>4 DEF LoadFits, LawRead, FailClosed, Shut, ClosedAfterFailure, Untouched, ReloadIsWhole,
                    NoAnswer, Entries
<1>. QED  BY <1>6, <1>7 DEF HostInv

\* Every step of the pack host keeps it.
LEMMA NextHost ==
  ASSUME HostInv, HostNext \/ UNCHANGED vars
  PROVE  HostInv'
<1>1. CASE HostNext
  BY <1>1, NextType, NextRead, NextFailClosed, NextShut, NextWhole DEF HostInv
<1>2. CASE UNCHANGED vars
  <2>0. /\ UNCHANGED <<tree, root, rootfd, op, answer, read, closed, touched, before>>
        /\ UNCHANGED <<packs, loaded, failed, spec, env>>
    BY <1>2 DEF vars, InForce
  <2>1. TypeOK' /\ LoadFits'
    BY <2>0 DEF HostInv, TypeOK, LoadFits
  <2>2. LawRead' /\ Shut' /\ ClosedAfterFailure'
    BY <2>0 DEF HostInv, LawRead, AllHeld, HasEntry, Shut, ClosedAfterFailure
  <2>3. FailClosed'
    BY <2>0 DEF HostInv, FailClosed
  <2>4. Untouched' /\ ReloadIsWhole'
    BY <2>0 DEF InForce, HostInv, Untouched, ReloadIsWhole
  <2>. QED  BY <2>1, <2>2, <2>3, <2>4 DEF HostInv
<1>. QED  BY <1>1, <1>2

\* It always holds.
LEMMA SpecHost == Spec => []HostInv
<1>1. HostInv /\ [Next]_vars => HostInv'
  BY NextHost DEF HostNext
<1>. QED  BY InitHost, <1>1, PTL DEF Spec

\* Every variable of the pack host keeps its type; the table of packs never
\* has more than PACK_MAX entries, however many files the segments name.
THEOREM PackTypeCorrect == Spec => []TypeOK
BY SpecHost, PTL DEF HostInv

\* compose_pack_entry and load_packs_from_spec fail closed for every set of
\* laws and files: an answer of "allow" or "prompt" has been given by all of
\* the law that was read.
THEOREM FailClosedHolds == Spec => []FailClosed
BY SpecHost, PTL DEF HostInv

\* After a failed reload every check is denied until a reload or a reset.
THEOREM ClosedAfterFailureHolds == Spec => []ClosedAfterFailure
BY SpecHost, PTL DEF HostInv

\* A reload is all or nothing for every disk and every interleaving of edits
\* with its looks and reads: refused, it leaves in force what it found; failed,
\* it leaves nothing; done, the packs are exactly the laws it has read.
THEOREM ReloadIsWholeHolds == Spec => []ReloadIsWhole
BY SpecHost, PTL DEF HostInv

-----------------------------------------------------------------------------
(* The first rule that applies. *)

\* Rule k of the n rules L is the first that applies.
First(L, n, k) == L[k].when /\ \A j \in 1 .. n : j < k => ~L[j].when

\* FirstMatch takes the first rule that applies.
LEMMA FirstIs ==
  ASSUME NEW n \in Nat, NEW L, DOMAIN L = 1 .. n, NEW k \in 1 .. n, First(L, n, k)
  PROVE  FirstMatch(L) = L[k].is
<1> DEFINE P(i) == L[i].when /\ \A j \in DOMAIN L : j < i => ~L[j].when
           c == CHOOSE i \in DOMAIN L : P(i)
<1>1. k \in DOMAIN L /\ P(k)
  BY DEF First
<1>2. c \in DOMAIN L /\ P(c)
  <2>. HIDE DEF P
  <2>. QED  BY <1>1
<1>3. FirstMatch(L) = L[c].is
  BY DEF FirstMatch
<1>. HIDE DEF c
<1>4. c \in 1 .. n /\ ~(c < k) /\ ~(k < c)
  BY <1>1, <1>2
<1>. QED  BY <1>3, <1>4

\* A list whose last rule always applies has a first rule that applies.
LEMMA FirstExists ==
  ASSUME NEW n \in Nat, NEW L, DOMAIN L = 1 .. n, n > 0, L[n].when
  PROVE  \E k \in 1 .. n : First(L, n, k) /\ FirstMatch(L) = L[k].is
<1> DEFINE T == {i \in 1 .. n : L[i].when}
<1>1. T \in SUBSET Nat /\ n \in T
  OBVIOUS
<1>2. PICK k \in T : \A m \in T : k <= m
  <2>. HIDE DEF T
  <2>. QED  BY <1>1, LeastNat
<1>3. k \in 1 .. n /\ First(L, n, k)
  BY <1>2 DEF First
<1>. QED  BY <1>3, FirstIs

-----------------------------------------------------------------------------
(* The decisions of the entry points. *)

Verdict(d, c) == [decision |-> d, code |-> c]

\* The rules of the seat, in the order in which they are tried.
LEMMA SeatVerdictIs ==
  ASSUME NEW a, NEW action, lockdown \in BOOLEAN
  PROVE  SeatVerdict(a, action) =
           IF lockdown THEN Verdict("deny", "DENY_ALL")
           ELSE IF a = Null THEN Verdict("deny", "INVALID_MESSAGE")
           ELSE IF Status(a).state # "running" THEN Verdict("deny", "TOOLS_DEFAULT_DENY")
           ELSE IF action \in SeatActions THEN Verdict("allow", "SEAT_BOARD_ALLOW")
           ELSE Verdict("deny", "UNKNOWN_SEAT_ACTION")
<1> DEFINE L == <<Lockdown,
                  NoAgent(a),
                  NotRunning(a),
                  Rule(action \in SeatActions, "allow", "SEAT_BOARD_ALLOW"),
                  Otherwise("deny", "UNKNOWN_SEAT_ACTION")>>
<1>0. DOMAIN L = 1 .. 5
  OBVIOUS
<1>1. /\ (L[1].when <=> (lockdown))
      /\ (L[2].when <=> (a = Null))
      /\ (L[3].when <=> (Status(a).state # "running"))
      /\ (L[4].when <=> (action \in SeatActions))
      /\ L[5].when
  BY DEF Rule, Lockdown, NoAgent, NotRunning, Otherwise
<1>2. /\ L[1].is = Verdict("deny", "DENY_ALL")
      /\ L[2].is = Verdict("deny", "INVALID_MESSAGE")
      /\ L[3].is = Verdict("deny", "TOOLS_DEFAULT_DENY")
      /\ L[4].is = Verdict("allow", "SEAT_BOARD_ALLOW")
      /\ L[5].is = Verdict("deny", "UNKNOWN_SEAT_ACTION")
  BY DEF Rule, Lockdown, NoAgent, NotRunning, Otherwise, Verdict
<1>3. SeatVerdict(a, action) = FirstMatch(L)
  BY DEF SeatVerdict
<1>. HIDE DEF L
<1>4. PICK k \in 1 .. 5 : First(L, 5, k) /\ FirstMatch(L) = L[k].is
  <2>1. 5 \in Nat /\ 5 > 0
    OBVIOUS
  <2>. QED  BY <1>0, <1>1, <2>1, FirstExists
<1>5. k = 1 \/ k = 2 \/ k = 3 \/ k = 4 \/ k = 5
  OBVIOUS
<1>. QED  BY <1>1, <1>2, <1>3, <1>4, <1>5 DEF First

\* The rules of the model.
LEMMA ModelVerdictIs ==
  ASSUME NEW a, lockdown \in BOOLEAN
  PROVE  ModelVerdict(a) =
           IF lockdown THEN Verdict("deny", "DENY_ALL")
           ELSE IF a = Null THEN Verdict("deny", "INVALID_MESSAGE")
           ELSE IF Status(a).state # "running" THEN Verdict("deny", "TOOLS_DEFAULT_DENY")
           ELSE Verdict("allow", "MODEL_START_ALLOW")
<1> DEFINE L == <<Lockdown,
                  NoAgent(a),
                  NotRunning(a),
                  Otherwise("allow", "MODEL_START_ALLOW")>>
<1>0. DOMAIN L = 1 .. 4
  OBVIOUS
<1>1. /\ (L[1].when <=> (lockdown))
      /\ (L[2].when <=> (a = Null))
      /\ (L[3].when <=> (Status(a).state # "running"))
      /\ L[4].when
  BY DEF Rule, Lockdown, NoAgent, NotRunning, Otherwise
<1>2. /\ L[1].is = Verdict("deny", "DENY_ALL")
      /\ L[2].is = Verdict("deny", "INVALID_MESSAGE")
      /\ L[3].is = Verdict("deny", "TOOLS_DEFAULT_DENY")
      /\ L[4].is = Verdict("allow", "MODEL_START_ALLOW")
  BY DEF Rule, Lockdown, NoAgent, NotRunning, Otherwise, Verdict
<1>3. ModelVerdict(a) = FirstMatch(L)
  BY DEF ModelVerdict
<1>. HIDE DEF L
<1>4. PICK k \in 1 .. 4 : First(L, 4, k) /\ FirstMatch(L) = L[k].is
  <2>1. 4 \in Nat /\ 4 > 0
    OBVIOUS
  <2>. QED  BY <1>0, <1>1, <2>1, FirstExists
<1>5. k = 1 \/ k = 2 \/ k = 3 \/ k = 4
  OBVIOUS
<1>. QED  BY <1>1, <1>2, <1>3, <1>4, <1>5 DEF First

\* The rules of the high risk actions.
LEMMA RiskVerdictIs ==
  ASSUME NEW action, lockdown \in BOOLEAN
  PROVE  RiskVerdict(action) =
           IF lockdown THEN Verdict("deny", "DENY_ALL")
           ELSE IF action = "secret_export" THEN Verdict("deny", "SECRET_EXPORT_DENIED")
           ELSE Verdict("prompt", "HIGH_RISK_PROMPT")
<1> DEFINE L == <<Lockdown,
                  Rule(action = "secret_export", "deny", "SECRET_EXPORT_DENIED"),
                  Otherwise("prompt", "HIGH_RISK_PROMPT")>>
<1>0. DOMAIN L = 1 .. 3
  OBVIOUS
<1>1. /\ (L[1].when <=> (lockdown))
      /\ (L[2].when <=> (action = "secret_export"))
      /\ L[3].when
  BY DEF Rule, Lockdown, Otherwise
<1>2. /\ L[1].is = Verdict("deny", "DENY_ALL")
      /\ L[2].is = Verdict("deny", "SECRET_EXPORT_DENIED")
      /\ L[3].is = Verdict("prompt", "HIGH_RISK_PROMPT")
  BY DEF Rule, Lockdown, Otherwise, Verdict
<1>3. RiskVerdict(action) = FirstMatch(L)
  BY DEF RiskVerdict
<1>. HIDE DEF L
<1>4. PICK k \in 1 .. 3 : First(L, 3, k) /\ FirstMatch(L) = L[k].is
  <2>1. 3 \in Nat /\ 3 > 0
    OBVIOUS
  <2>. QED  BY <1>0, <1>1, <2>1, FirstExists
<1>5. k = 1 \/ k = 2 \/ k = 3
  OBVIOUS
<1>. QED  BY <1>1, <1>2, <1>3, <1>4, <1>5 DEF First

\* The rules of the audio device.
LEMMA AudioVerdictIs ==
  ASSUME lockdown \in BOOLEAN, fixture \in BOOLEAN
  PROVE  AudioVerdict =
           IF lockdown THEN Verdict("deny", "DENY_ALL")
           ELSE IF fixture THEN Verdict("allow", "AUDIO_FIXTURE_ALLOW")
           ELSE Verdict("pack", "PACK")
<1> DEFINE L == <<Lockdown,
                  Rule(fixture, "allow", "AUDIO_FIXTURE_ALLOW"),
                  Otherwise("pack", "PACK")>>
<1>0. DOMAIN L = 1 .. 3
  OBVIOUS
<1>1. /\ (L[1].when <=> (lockdown))
      /\ (L[2].when <=> (fixture))
      /\ L[3].when
  BY DEF Rule, Lockdown, Otherwise
<1>2. /\ L[1].is = Verdict("deny", "DENY_ALL")
      /\ L[2].is = Verdict("allow", "AUDIO_FIXTURE_ALLOW")
      /\ L[3].is = Verdict("pack", "PACK")
  BY DEF Rule, Lockdown, Otherwise, Verdict
<1>3. AudioVerdict = FirstMatch(L)
  BY DEF AudioVerdict
<1>. HIDE DEF L
<1>4. PICK k \in 1 .. 3 : First(L, 3, k) /\ FirstMatch(L) = L[k].is
  <2>1. 3 \in Nat /\ 3 > 0
    OBVIOUS
  <2>. QED  BY <1>0, <1>1, <2>1, FirstExists
<1>5. k = 1 \/ k = 2 \/ k = 3
  OBVIOUS
<1>. QED  BY <1>1, <1>2, <1>3, <1>4, <1>5 DEF First

\* The rules of a path request.
LEMMA PathVerdictIs ==
  ASSUME NEW a, NEW action, NEW p, NEW v, v = PolicyEval(WorkspaceFor(a), "fs", action, p), lockdown \in BOOLEAN
  PROVE  PathVerdict(a, action, p) =
           IF lockdown THEN Verdict("deny", "DENY_ALL")
           ELSE IF Len(p) >= PathMax THEN Verdict("deny", "FIELD_TOO_LONG")
           ELSE Verdict(v.decision, v.code)
<1> DEFINE L == <<Lockdown,
                  Overlong(p),
                  Otherwise(v.decision, v.code)>>
<1>0. DOMAIN L = 1 .. 3
  OBVIOUS
<1>1. /\ (L[1].when <=> (lockdown))
      /\ (L[2].when <=> (Len(p) >= PathMax))
      /\ L[3].when
  BY DEF Rule, Lockdown, Otherwise, Overlong
<1>2. /\ L[1].is = Verdict("deny", "DENY_ALL")
      /\ L[2].is = Verdict("deny", "FIELD_TOO_LONG")
      /\ L[3].is = Verdict(v.decision, v.code)
  BY DEF Rule, Lockdown, Otherwise, Overlong, Verdict
<1>3. PathVerdict(a, action, p) = FirstMatch(L)
  BY DEF PathVerdict
<1>. HIDE DEF L
<1>4. PICK k \in 1 .. 3 : First(L, 3, k) /\ FirstMatch(L) = L[k].is
  <2>1. 3 \in Nat /\ 3 > 0
    OBVIOUS
  <2>. QED  BY <1>0, <1>1, <2>1, FirstExists
<1>5. k = 1 \/ k = 2 \/ k = 3
  OBVIOUS
<1>. QED  BY <1>1, <1>2, <1>3, <1>4, <1>5 DEF First

\* The rules of a shell request.
LEMMA ShellVerdictIs ==
  ASSUME NEW a, NEW p, NEW v, v = PolicyEval(WorkspaceFor(a), "shell", "exec", p), lockdown \in BOOLEAN
  PROVE  ShellVerdict(a, p) =
           IF lockdown THEN Verdict("deny", "DENY_ALL")
           ELSE IF Len(p) >= PathMax THEN Verdict("deny", "FIELD_TOO_LONG")
           ELSE Verdict(v.decision, v.code)
<1> DEFINE L == <<Lockdown,
                  Overlong(p),
                  Otherwise(v.decision, v.code)>>
<1>0. DOMAIN L = 1 .. 3
  OBVIOUS
<1>1. /\ (L[1].when <=> (lockdown))
      /\ (L[2].when <=> (Len(p) >= PathMax))
      /\ L[3].when
  BY DEF Rule, Lockdown, Otherwise, Overlong
<1>2. /\ L[1].is = Verdict("deny", "DENY_ALL")
      /\ L[2].is = Verdict("deny", "FIELD_TOO_LONG")
      /\ L[3].is = Verdict(v.decision, v.code)
  BY DEF Rule, Lockdown, Otherwise, Overlong, Verdict
<1>3. ShellVerdict(a, p) = FirstMatch(L)
  BY DEF ShellVerdict
<1>. HIDE DEF L
<1>4. PICK k \in 1 .. 3 : First(L, 3, k) /\ FirstMatch(L) = L[k].is
  <2>1. 3 \in Nat /\ 3 > 0
    OBVIOUS
  <2>. QED  BY <1>0, <1>1, <2>1, FirstExists
<1>5. k = 1 \/ k = 2 \/ k = 3
  OBVIOUS
<1>. QED  BY <1>1, <1>2, <1>3, <1>4, <1>5 DEF First

\* The rules of the bridge.
LEMMA BridgeVerdictIs ==
  ASSUME NEW a, NEW tool, NEW action, NEW p, NEW v, v = PolicyEval(WorkspaceFor(a), tool, action, p), lockdown \in BOOLEAN
  PROVE  BridgeVerdict(a, tool, action, p) =
           IF ~lockdown /\ tool \in {"seat", "model"} /\ a = Null THEN Verdict("deny", "INVALID_MESSAGE")
           ELSE IF ~lockdown /\ tool \in {"seat", "model"} /\ Status(a).state # "running"
             THEN Verdict("deny", "TOOLS_DEFAULT_DENY")
           ELSE IF Unreadable(a) THEN Verdict("none", "FAILED")
           ELSE Verdict(v.decision, v.code)
<1> DEFINE gated == ~lockdown /\ tool \in {"seat", "model"}
           L == <<Rule(gated /\ a = Null, "deny", "INVALID_MESSAGE"),
                  Rule(gated /\ Status(a).state # "running", "deny", "TOOLS_DEFAULT_DENY"),
                  Rule(Unreadable(a), "none", "FAILED"),
                  Otherwise(v.decision, v.code)>>
<1>0. DOMAIN L = 1 .. 4
  OBVIOUS
<1>1. /\ (L[1].when <=> (gated /\ a = Null))
      /\ (L[2].when <=> (gated /\ Status(a).state # "running"))
      /\ (L[3].when <=> Unreadable(a))
      /\ L[4].when
  BY DEF Rule, Otherwise, Unreadable
<1>2. /\ L[1].is = Verdict("deny", "INVALID_MESSAGE")
      /\ L[2].is = Verdict("deny", "TOOLS_DEFAULT_DENY")
      /\ L[3].is = Verdict("none", "FAILED")
      /\ L[4].is = Verdict(v.decision, v.code)
  BY DEF Rule, Otherwise, Verdict
<1>3. BridgeVerdict(a, tool, action, p) = FirstMatch(L)
  BY DEF BridgeVerdict
<1>. HIDE DEF L
<1>4. PICK k \in 1 .. 4 : First(L, 4, k) /\ FirstMatch(L) = L[k].is
  <2>1. 4 \in Nat /\ 4 > 0
    OBVIOUS
  <2>. QED  BY <1>0, <1>1, <2>1, FirstExists
<1>5. k = 1 \/ k = 2 \/ k = 3 \/ k = 4
  OBVIOUS
<1>. QED  BY <1>1, <1>2, <1>3, <1>4, <1>5 DEF First

\* The rules of phronesis_policy_eval one after the other.
EvalChain(ws, tool, action, p) ==
  IF lockdown THEN Verdict("deny", "DENY_ALL")
  ELSE IF tool = "" \/ action = "" THEN Verdict("deny", "MISSING_TOOL_ACTION")
  ELSE IF tool = "seat" /\ action \in SeatActions THEN Verdict("allow", "SEAT_BOARD_ALLOW")
  ELSE IF tool = "seat" THEN Verdict("deny", "UNKNOWN_SEAT_ACTION")
  ELSE IF tool = "model" /\ action = "start" THEN Verdict("allow", "MODEL_START_ALLOW")
  ELSE IF action = "secret_export" THEN Verdict("deny", "SECRET_EXPORT_DENIED")
  ELSE IF IsSensitive(p) /\ action \in PathActions \cup {"exec"} THEN Verdict("deny", "PATH_SENSITIVE_DENY")
  ELSE IF action \in {"delete", "network", "sudo"} THEN Verdict("prompt", "HIGH_RISK_PROMPT")
  ELSE IF action \in {"read", "write"} /\ PathUnderWorkspace(ws, p) THEN Verdict("allow", "PATH_UNDER_WORKSPACE_ALLOW")
  ELSE IF tool = "shell" /\ action = "exec" /\ PathUnderWorkspace(ws, p) THEN Verdict("allow", "SHELL_EXEC_ALLOW")
  ELSE IF p # <<>> /\ ~PathUnderWorkspace(ws, p) THEN Verdict("deny", "PATH_OUTSIDE_WORKSPACE")
  ELSE Verdict("deny", "TOOLS_DEFAULT_DENY")

\* The table of policy_eval, in the order in which it is tried.
LEMMA PolicyEvalIs ==
  ASSUME NEW ws, NEW tool, NEW action, NEW p, lockdown \in BOOLEAN
  PROVE  PolicyEval(ws, tool, action, p) = EvalChain(ws, tool, action, p)
<1> DEFINE L == <<Lockdown,
                  Rule(tool = "" \/ action = "", "deny", "MISSING_TOOL_ACTION"),
                  Rule(tool = "seat" /\ action \in SeatActions, "allow", "SEAT_BOARD_ALLOW"),
                  Rule(tool = "seat", "deny", "UNKNOWN_SEAT_ACTION"),
                  Rule(tool = "model" /\ action = "start", "allow", "MODEL_START_ALLOW"),
                  Rule(action = "secret_export", "deny", "SECRET_EXPORT_DENIED"),
                  Rule(IsSensitive(p) /\ action \in PathActions \cup {"exec"}, "deny", "PATH_SENSITIVE_DENY"),
                  Rule(action \in {"delete", "network", "sudo"}, "prompt", "HIGH_RISK_PROMPT"),
                  Rule(action \in {"read", "write"} /\ PathUnderWorkspace(ws, p), "allow", "PATH_UNDER_WORKSPACE_ALLOW"),
                  Rule(tool = "shell" /\ action = "exec" /\ PathUnderWorkspace(ws, p), "allow", "SHELL_EXEC_ALLOW"),
                  Rule(p # <<>> /\ ~PathUnderWorkspace(ws, p), "deny", "PATH_OUTSIDE_WORKSPACE"),
                  Otherwise("deny", "TOOLS_DEFAULT_DENY")>>
<1>0. DOMAIN L = 1 .. 12
  OBVIOUS
<1>1. /\ (L[1].when <=> (lockdown))
      /\ (L[2].when <=> (tool = "" \/ action = ""))
      /\ (L[3].when <=> (tool = "seat" /\ action \in SeatActions))
      /\ (L[4].when <=> (tool = "seat"))
      /\ (L[5].when <=> (tool = "model" /\ action = "start"))
      /\ (L[6].when <=> (action = "secret_export"))
      /\ (L[7].when <=> (IsSensitive(p) /\ action \in PathActions \cup {"exec"}))
      /\ (L[8].when <=> (action \in {"delete", "network", "sudo"}))
      /\ (L[9].when <=> (action \in {"read", "write"} /\ PathUnderWorkspace(ws, p)))
      /\ (L[10].when <=> (tool = "shell" /\ action = "exec" /\ PathUnderWorkspace(ws, p)))
      /\ (L[11].when <=> (p # <<>> /\ ~PathUnderWorkspace(ws, p)))
      /\ L[12].when
  BY DEF Rule, Lockdown, Otherwise
<1>2. /\ L[1].is = Verdict("deny", "DENY_ALL")
      /\ L[2].is = Verdict("deny", "MISSING_TOOL_ACTION")
      /\ L[3].is = Verdict("allow", "SEAT_BOARD_ALLOW")
      /\ L[4].is = Verdict("deny", "UNKNOWN_SEAT_ACTION")
      /\ L[5].is = Verdict("allow", "MODEL_START_ALLOW")
      /\ L[6].is = Verdict("deny", "SECRET_EXPORT_DENIED")
      /\ L[7].is = Verdict("deny", "PATH_SENSITIVE_DENY")
      /\ L[8].is = Verdict("prompt", "HIGH_RISK_PROMPT")
      /\ L[9].is = Verdict("allow", "PATH_UNDER_WORKSPACE_ALLOW")
      /\ L[10].is = Verdict("allow", "SHELL_EXEC_ALLOW")
      /\ L[11].is = Verdict("deny", "PATH_OUTSIDE_WORKSPACE")
      /\ L[12].is = Verdict("deny", "TOOLS_DEFAULT_DENY")
  BY DEF Rule, Lockdown, Otherwise, Verdict
<1>3. PolicyEval(ws, tool, action, p) = FirstMatch(L)
  BY DEF PolicyEval
<1>. HIDE DEF L
<1>4. PICK k \in 1 .. 12 : First(L, 12, k) /\ FirstMatch(L) = L[k].is
  <2>1. 12 \in Nat /\ 12 > 0
    OBVIOUS
  <2>. QED  BY <1>0, <1>1, <2>1, FirstExists
<1>5. k = 1 \/ k = 2 \/ k = 3 \/ k = 4 \/ k = 5 \/ k = 6 \/ k = 7 \/ k = 8 \/ k = 9 \/ k = 10 \/ k = 11 \/ k = 12
  OBVIOUS
<1>6. CASE k = 1
  BY <1>1, <1>2, <1>3, <1>4, <1>6 DEF First, EvalChain
<1>7. CASE k = 2
  <2>1. L[2].when /\ ~L[1].when
    BY <1>4, <1>7 DEF First
  <2>. QED  BY <1>1, <1>2, <1>3, <1>4, <1>7, <2>1 DEF EvalChain
<1>8. CASE k = 3
  <2>1. L[3].when /\ ~L[1].when /\ ~L[2].when
    BY <1>4, <1>8 DEF First
  <2>. QED  BY <1>1, <1>2, <1>3, <1>4, <1>8, <2>1 DEF EvalChain
<1>9. CASE k = 4
  <2>1. L[4].when /\ ~L[1].when /\ ~L[2].when /\ ~L[3].when
    BY <1>4, <1>9 DEF First
  <2>. QED  BY <1>1, <1>2, <1>3, <1>4, <1>9, <2>1 DEF EvalChain
<1>10. CASE k = 5
  <2>1. L[5].when /\ ~L[1].when /\ ~L[2].when /\ ~L[3].when /\ ~L[4].when
    BY <1>4, <1>10 DEF First
  <2>. QED  BY <1>1, <1>2, <1>3, <1>4, <1>10, <2>1 DEF EvalChain
<1>11. CASE k = 6
  <2>1. L[6].when /\ ~L[1].when /\ ~L[2].when /\ ~L[3].when /\ ~L[4].when /\ ~L[5].when
    BY <1>4, <1>11 DEF First
  <2>. QED  BY <1>1, <1>2, <1>3, <1>4, <1>11, <2>1 DEF EvalChain
<1>12. CASE k = 7
  <2>1. L[7].when /\ ~L[1].when /\ ~L[2].when /\ ~L[3].when /\ ~L[4].when /\ ~L[5].when /\ ~L[6].when
    BY <1>4, <1>12 DEF First
  <2>. QED  BY <1>1, <1>2, <1>3, <1>4, <1>12, <2>1 DEF EvalChain
<1>13. CASE k = 8
  <2>1. L[8].when /\ ~L[1].when /\ ~L[2].when /\ ~L[3].when /\ ~L[4].when /\ ~L[5].when /\ ~L[6].when /\ ~L[7].when
    BY <1>4, <1>13 DEF First
  <2>. QED  BY <1>1, <1>2, <1>3, <1>4, <1>13, <2>1 DEF EvalChain
<1>14. CASE k = 9
  <2>1. L[9].when /\ ~L[1].when /\ ~L[2].when /\ ~L[3].when /\ ~L[4].when /\ ~L[5].when /\ ~L[6].when /\ ~L[7].when /\ ~L[8].when
    BY <1>4, <1>14 DEF First
  <2>. QED  BY <1>1, <1>2, <1>3, <1>4, <1>14, <2>1 DEF EvalChain
<1>15. CASE k = 10
  <2>1. L[10].when /\ ~L[1].when /\ ~L[2].when /\ ~L[3].when /\ ~L[4].when /\ ~L[5].when /\ ~L[6].when /\ ~L[7].when /\ ~L[8].when /\ ~L[9].when
    BY <1>4, <1>15 DEF First
  <2>. QED  BY <1>1, <1>2, <1>3, <1>4, <1>15, <2>1 DEF EvalChain
<1>16. CASE k = 11
  <2>1. L[11].when /\ ~L[1].when /\ ~L[2].when /\ ~L[3].when /\ ~L[4].when /\ ~L[5].when /\ ~L[6].when /\ ~L[7].when /\ ~L[8].when /\ ~L[9].when /\ ~L[10].when
    BY <1>4, <1>16 DEF First
  <2>. QED  BY <1>1, <1>2, <1>3, <1>4, <1>16, <2>1 DEF EvalChain
<1>17. CASE k = 12
  <2>1. L[12].when /\ ~L[1].when /\ ~L[2].when /\ ~L[3].when /\ ~L[4].when /\ ~L[5].when /\ ~L[6].when /\ ~L[7].when /\ ~L[8].when /\ ~L[9].when /\ ~L[10].when /\ ~L[11].when
    BY <1>4, <1>17 DEF First
  <2>. QED  BY <1>1, <1>2, <1>3, <1>4, <1>17, <2>1 DEF EvalChain
<1>. QED  BY <1>5, <1>6, <1>7, <1>8, <1>9, <1>10, <1>11, <1>12, <1>13, <1>14, <1>15, <1>16, <1>17

-----------------------------------------------------------------------------
(* The pack host inside the process. *)

\* Whatever the process does is a step of the pack host, or none, or an answer
\* that the packs have no part in.
LEMMA EntryPointHost ==
  ASSUME NEW a, EntryPoint(a)
  PROVE  HostNext
<1>1. ASSUME NEW entry, NEW b, NEW p, NEW argv, NEW v, Answers(entry, b, p, argv, v)
      PROVE  HostNext
  BY <1>1 DEF Answers, HostNext
<1>2. ASSUME NEW entry, NEW pack \in Entries, NEW b, NEW p, NEW argv, AsksPacks(entry, pack, b, p, argv)
      PROVE  HostNext
  BY <1>2 DEF AsksPacks, HostNext, Next
<1>3. "shell" \in Entries /\ "audio" \in Entries
  BY DEF Entries
<1>4. ASSUME NEW argv, NEW p, CheckShell(a, p, argv)
      PROVE  HostNext
  BY <1>1, <1>2, <1>3, <1>4 DEF CheckShell
<1>5. ASSUME CheckAudio(a)
      PROVE  HostNext
  BY <1>1, <1>2, <1>3, <1>5 DEF CheckAudio
<1>6. ASSUME NEW entry, NEW action, CheckSeat(entry, a, action)
      PROVE  HostNext
  BY <1>1, <1>6 DEF CheckSeat
<1>7. ASSUME NEW entry, CheckModel(entry, a)
      PROVE  HostNext
  BY <1>1, <1>7 DEF CheckModel
<1>8. ASSUME NEW tool, NEW action, NEW p, PolicyCheck(a, tool, action, p)
      PROVE  HostNext
  BY <1>1, <1>8 DEF PolicyCheck
<1>9. ASSUME NEW action, NEW p, CheckPath(a, action, p)
      PROVE  HostNext
  BY <1>1, <1>9 DEF CheckPath
<1>10. ASSUME NEW action, CheckRisk(a, action)
       PROVE  HostNext
  BY <1>1, <1>10 DEF CheckRisk
<1>11. ASSUME AgentStatus(a)
       PROVE  HostNext
  BY <1>1, <1>11 DEF AgentStatus
<1>. QED  BY <1>4, <1>5, <1>6, <1>7, <1>8, <1>9, <1>10, <1>11 DEF EntryPoint, AdmitSeat, AdmitModel

\* A step of the entry points is a step of the pack host, or leaves it alone.
LEMMA PolicydHost ==
  ASSUME [PolicydNext]_allvars
  PROVE  HostNext \/ UNCHANGED vars
<1>1. ASSUME NEW sp \in Requests \cup {<<>>}, ReloadShellPack(sp)
      PROVE  HostNext
  BY <1>1 DEF ReloadShellPack, Answers, HostNext, Next
<1>2. ASSUME NEW entry, NEW code, BadMessage(entry, code)
      PROVE  HostNext
  BY <1>2 DEF BadMessage, Answers, HostNext
<1>3. CASE Between
  BY <1>3 DEF Between, AgentStarts, AgentBinds, AgentStops, SetEnv, Reconfigure, HostNext, Next
<1>4. ASSUME NEW a, SlotFileTurns(a) \/ \E proc \in ProcStates : AgentExits(a, proc)
      PROVE  UNCHANGED vars
  BY <1>4 DEF SlotFileTurns, AgentExits
<1>5. CASE PackWorld
  BY <1>5 DEF PackWorld, HostNext, Next
<1>6. CASE Returned
  BY <1>6 DEF Returned, HostNext
<1>7. CASE UNCHANGED allvars
  BY <1>7 DEF allvars
<1>. QED  BY <1>1, <1>2, <1>3, <1>4, <1>5, <1>6, <1>7, EntryPointHost DEF PolicydNext

\* The proofs of the pack host hold in the process.
LEMMA PolicydHostInv == PolicydSpec => []HostInv
<1>1. PolicydInit => HostInv
  BY InitHost DEF PolicydInit
<1>2. HostInv /\ [PolicydNext]_allvars => HostInv'
  BY PolicydHost, NextHost
<1>. QED  BY <1>1, <1>2, PTL DEF PolicydSpec

-----------------------------------------------------------------------------
(* Types. *)

\* Nothing is known of the workspace of a slot that cannot be read.
SlotRecord ==
  {s \in [state : SlotStates, ws : Workspaces \cup {<<>>}, proc : ProcStates] :
     s.state = "unreadable" => s.ws = <<>>}

PolicydTypeOK ==
  /\ slots \in [Agents -> SlotRecord]
  /\ lockdown \in BOOLEAN /\ fixture \in BOOLEAN

\* Reaping notices a dead process and changes nothing else.
LEMMA StatusIs ==
  ASSUME PolicydTypeOK, NEW a \in Agents
  PROVE  /\ Status(a) \in SlotRecord /\ Status(a).ws = slots[a].ws
         /\ Status(a).state = "running" => Status(a).proc # "gone"
         /\ Unreadable(a) => Status(a).state # "running" /\ slots[a].ws = <<>>
<1>1. a # Null
  BY NullAssumption
<1>2. slots[a] \in SlotRecord
  BY DEF PolicydTypeOK
<1>. QED  BY <1>1, <1>2 DEF Status, Reaped, Unreadable, SlotRecord, SlotStates, ProcStates

\* What an entry point does to the slots: at most reap the one it is about.
Reaps(a) ==
  slots' = slots \/ (a \in Agents /\ slots' = [slots EXCEPT ![a] = Status(a)])

\* A reap keeps slots slots and does not move a workspace.
LEMMA ReapsType ==
  ASSUME PolicydTypeOK, NEW a, Reaps(a)
  PROVE  slots' \in [Agents -> SlotRecord] /\ \A b \in Agents : slots'[b].ws = slots[b].ws
BY StatusIs DEF PolicydTypeOK, Reaps

-----------------------------------------------------------------------------
(* What a decision to allow rests on. *)

\* What policy_eval has found when it allows.
LEMMA EvalAllows ==
  ASSUME PolicydTypeOK, NEW ws, NEW tool, NEW action, NEW p,
         NEW v, v = PolicyEval(ws, tool, action, p)
  PROVE  /\ v.decision \in Verdicts
         /\ lockdown => v.decision = "deny"
         /\ v.decision = "allow" =>
              \/ tool = "seat"
              \/ tool = "model"
              \/ PathUnderWorkspace(ws, p) /\ p \notin Sensitive
<1>1. lockdown \in BOOLEAN
  BY DEF PolicydTypeOK
<1>2. v = EvalChain(ws, tool, action, p)
  BY <1>1, PolicyEvalIs
<1>3. \A d, c : Verdict(d, c).decision = d
  BY DEF Verdict
<1>4. CASE lockdown
  <2>1. v = Verdict("deny", "DENY_ALL")
    BY <1>2, <1>4 DEF EvalChain
  <2>. QED  BY <1>3, <2>1 DEF Verdicts
<1>5. CASE ~lockdown
  <2>1. v.decision \in Verdicts
    BY ZenonT(30), <1>2, <1>3, <1>5 DEF EvalChain, Verdicts
  <2>2. ASSUME v.decision = "allow", tool # "seat", tool # "model"
        PROVE  PathUnderWorkspace(ws, p) /\ p \notin Sensitive
    <3> DEFINE gone == tool = "" \/ action = ""
               keys == IsSensitive(p) /\ action \in PathActions \cup {"exec"}
               risk == action \in {"delete", "network", "sudo"}
               file == action \in {"read", "write"} /\ PathUnderWorkspace(ws, p)
               exec == tool = "shell" /\ action = "exec" /\ PathUnderWorkspace(ws, p)
               away == p # <<>> /\ ~PathUnderWorkspace(ws, p)
    <3>1. v = IF gone THEN Verdict("deny", "MISSING_TOOL_ACTION")
              ELSE IF action = "secret_export" THEN Verdict("deny", "SECRET_EXPORT_DENIED")
              ELSE IF keys THEN Verdict("deny", "PATH_SENSITIVE_DENY")
              ELSE IF risk THEN Verdict("prompt", "HIGH_RISK_PROMPT")
              ELSE IF file THEN Verdict("allow", "PATH_UNDER_WORKSPACE_ALLOW")
              ELSE IF exec THEN Verdict("allow", "SHELL_EXEC_ALLOW")
              ELSE IF away THEN Verdict("deny", "PATH_OUTSIDE_WORKSPACE")
              ELSE Verdict("deny", "TOOLS_DEFAULT_DENY")
      BY <1>2, <1>5, <2>2 DEF EvalChain
    <3>2. ~keys /\ (file \/ exec)
      <4>. HIDE DEF gone, keys, risk, file, exec, away
      <4>. QED  BY <1>3, <2>2, <3>1
    <3>. QED  BY <3>2 DEF IsSensitive, PathActions
  <2>. QED  BY <1>5, <2>1, <2>2
<1>. QED  BY <1>1, <1>4, <1>5

\* No decision in favour of the caller: a denial, or a bridge that fails.
Refuses(v) == v.decision = "deny" \/ (v.decision = "none" /\ v.code = "FAILED")

\* A seat or a model start.
LEMMA AdmissionAllows ==
  ASSUME PolicydTypeOK, NEW a \in Agents \cup {Null}, NEW action, NEW p,
         NEW v \in {SeatVerdict(a, action), ModelVerdict(a),
                    BridgeVerdict(a, "seat", action, p), BridgeVerdict(a, "model", action, p)}
  PROVE  /\ v.decision \in Verdicts \cup {"none"}
         /\ lockdown => Refuses(v)
         /\ v.decision = "allow" => ~lockdown /\ a \in Agents /\ Status(a).state = "running"
<1>1. lockdown \in BOOLEAN
  BY DEF PolicydTypeOK
<1>2. \A d, c : Verdict(d, c).decision = d /\ Verdict(d, c).code = c
  BY DEF Verdict
<1>3. CASE v = SeatVerdict(a, action)
  BY <1>1, <1>2, <1>3, SeatVerdictIs DEF Verdicts, Refuses
<1>4. CASE v = ModelVerdict(a)
  BY <1>1, <1>2, <1>4, ModelVerdictIs DEF Verdicts, Refuses
<1>5. ASSUME NEW tool \in {"seat", "model"}, v = BridgeVerdict(a, tool, action, p)
      PROVE  /\ v.decision \in Verdicts \cup {"none"}
             /\ lockdown => Refuses(v)
             /\ v.decision = "allow" => ~lockdown /\ a \in Agents /\ Status(a).state = "running"
  <2>1. PICK e : e = PolicyEval(WorkspaceFor(a), tool, action, p)
    OBVIOUS
  <2>2. e.decision \in Verdicts /\ (lockdown => e.decision = "deny")
    BY <2>1, EvalAllows
  <2>3. v = IF ~lockdown /\ a = Null THEN Verdict("deny", "INVALID_MESSAGE")
            ELSE IF ~lockdown /\ Status(a).state # "running" THEN Verdict("deny", "TOOLS_DEFAULT_DENY")
            ELSE IF Unreadable(a) THEN Verdict("none", "FAILED")
            ELSE Verdict(e.decision, e.code)
    BY <1>1, <1>5, <2>1, BridgeVerdictIs
  <2>. QED  BY <1>1, <1>2, <2>2, <2>3 DEF Verdicts, Refuses
<1>. QED  BY <1>3, <1>4, <1>5

\* A path or a command.
LEMMA PlaceAllows ==
  ASSUME PolicydTypeOK, NEW a \in Agents \cup {Null}, NEW action, NEW p,
         NEW tool \in {"fs", "shell", "tool"},
         NEW v \in {PathVerdict(a, action, p), ShellVerdict(a, p), BridgeVerdict(a, tool, action, p)}
  PROVE  /\ v.decision \in Verdicts \cup {"none"}
         /\ lockdown => Refuses(v)
         /\ v.decision = "allow" =>
              a \in Agents /\ PathUnderWorkspace(slots[a].ws, p) /\ p \notin Sensitive
<1>1. lockdown \in BOOLEAN
  BY DEF PolicydTypeOK
<1>2. \A d, c : Verdict(d, c).decision = d /\ Verdict(d, c).code = c
  BY DEF Verdict
<1>3. ASSUME NEW t \in {"fs", "shell", "tool"}, NEW act, NEW e, e = PolicyEval(WorkspaceFor(a), t, act, p)
      PROVE  /\ e.decision \in Verdicts
             /\ lockdown => e.decision = "deny"
             /\ e.decision = "allow" =>
                  a \in Agents /\ PathUnderWorkspace(slots[a].ws, p) /\ p \notin Sensitive
  <2>1. /\ e.decision \in Verdicts
        /\ lockdown => e.decision = "deny"
        /\ e.decision = "allow" => PathUnderWorkspace(WorkspaceFor(a), p) /\ p \notin Sensitive
    BY <1>3, EvalAllows
  <2>2. a = Null => WorkspaceFor(a) = <<>>
    BY DEF WorkspaceFor, Status, NoSlot
  <2>3. a \in Agents => WorkspaceFor(a) = slots[a].ws
    BY StatusIs DEF WorkspaceFor
  <2>4. ~PathUnderWorkspace(<<>>, p)
    BY DEF PathUnderWorkspace
  <2>. QED  BY <2>1, <2>2, <2>3, <2>4
<1>4. CASE v = PathVerdict(a, action, p)
  <2>1. PICK e : e = PolicyEval(WorkspaceFor(a), "fs", action, p)
    OBVIOUS
  <2>2. v = IF lockdown THEN Verdict("deny", "DENY_ALL")
            ELSE IF Len(p) >= PathMax THEN Verdict("deny", "FIELD_TOO_LONG")
            ELSE Verdict(e.decision, e.code)
    BY <1>1, <1>4, <2>1, PathVerdictIs
  <2>3. /\ e.decision \in Verdicts
        /\ lockdown => e.decision = "deny"
        /\ e.decision = "allow" =>
             a \in Agents /\ PathUnderWorkspace(slots[a].ws, p) /\ p \notin Sensitive
    BY <1>3, <2>1
  <2>. QED  BY <1>1, <1>2, <2>2, <2>3 DEF Verdicts, Refuses
<1>5. CASE v = ShellVerdict(a, p)
  <2>1. PICK e : e = PolicyEval(WorkspaceFor(a), "shell", "exec", p)
    OBVIOUS
  <2>2. v = IF lockdown THEN Verdict("deny", "DENY_ALL")
            ELSE IF Len(p) >= PathMax THEN Verdict("deny", "FIELD_TOO_LONG")
            ELSE Verdict(e.decision, e.code)
    BY <1>1, <1>5, <2>1, ShellVerdictIs
  <2>3. /\ e.decision \in Verdicts
        /\ lockdown => e.decision = "deny"
        /\ e.decision = "allow" =>
             a \in Agents /\ PathUnderWorkspace(slots[a].ws, p) /\ p \notin Sensitive
    BY <1>3, <2>1
  <2>. QED  BY <1>1, <1>2, <2>2, <2>3 DEF Verdicts, Refuses
<1>6. CASE v = BridgeVerdict(a, tool, action, p)
  <2>1. PICK e : e = PolicyEval(WorkspaceFor(a), tool, action, p)
    OBVIOUS
  <2>2. v = IF Unreadable(a) THEN Verdict("none", "FAILED") ELSE Verdict(e.decision, e.code)
    BY <1>1, <1>6, <2>1, BridgeVerdictIs
  <2>3. /\ e.decision \in Verdicts
        /\ lockdown => e.decision = "deny"
        /\ e.decision = "allow" =>
             a \in Agents /\ PathUnderWorkspace(slots[a].ws, p) /\ p \notin Sensitive
    BY <1>3, <2>1
  <2>. QED  BY <1>1, <1>2, <2>2, <2>3 DEF Verdicts, Refuses
<1>. QED  BY <1>4, <1>5, <1>6

-----------------------------------------------------------------------------
(* The two ways to ask. *)

\* The Cap'n entries and the string bridge agree in every state.
LEMMA Agreement ==
  ASSUME PolicydTypeOK, NEW a \in Agents \cup {Null}
  PROVE  /\ \A action \in SeatActions \cup {"other"} :
              Agree(a, SeatVerdict(a, action), BridgeVerdict(a, "seat", action, <<>>))
         /\ Agree(a, ModelVerdict(a), BridgeVerdict(a, "model", "start", <<>>))
         /\ \A action \in RiskActions \ {"pay"} :
              Agree(a, RiskVerdict(action), BridgeVerdict(a, "tool", action, <<>>))
         /\ RiskVerdict("pay").decision # "allow" /\ BridgeVerdict(a, "tool", "pay", <<>>).decision # "allow"
         /\ \A p \in Paths : Len(p) < PathMax =>
              /\ \A action : Agree(a, PathVerdict(a, action, p), BridgeVerdict(a, "fs", action, p))
              /\ Agree(a, ShellVerdict(a, p), BridgeVerdict(a, "shell", "exec", p))
         /\ \A p \in Paths : ~(Len(p) < PathMax) =>
              /\ \A action : PathVerdict(a, action, p).decision = "deny"
              /\ ShellVerdict(a, p).decision = "deny"
<1>1. lockdown \in BOOLEAN
  BY DEF PolicydTypeOK
<1>2. \A d, c : Verdict(d, c).decision = d /\ Verdict(d, c).code = c
  BY DEF Verdict
<1>3. ASSUME NEW tool, NEW action, NEW p, NEW v, v = PolicyEval(WorkspaceFor(a), tool, action, p)
      PROVE  /\ v = EvalChain(WorkspaceFor(a), tool, action, p)
             /\ lockdown => v = Verdict("deny", "DENY_ALL")
             /\ v = Verdict(v.decision, v.code)
  <2>1. v = EvalChain(WorkspaceFor(a), tool, action, p)
    BY <1>1, <1>3, PolicyEvalIs
  <2>2. lockdown => v = Verdict("deny", "DENY_ALL")
    BY <2>1 DEF EvalChain
  <2>3. \E d, c : v = Verdict(d, c)
    BY <2>1 DEF EvalChain
  <2>. QED  BY <1>2, <2>1, <2>2, <2>3
<1>4. Unreadable(a) => a \in Agents /\ Status(a).state # "running" /\ slots[a].ws = <<>>
  BY StatusIs DEF Unreadable
<1>10. ASSUME NEW c, NEW b, c = b \/ (Unreadable(a) /\ b = Verdict("none", "FAILED") /\ c.decision # "allow")
       PROVE  Agree(a, c, b)
  BY <1>2, <1>10 DEF Agree
<1>5. ASSUME NEW action \in SeatActions \cup {"other"}
      PROVE  Agree(a, SeatVerdict(a, action), BridgeVerdict(a, "seat", action, <<>>))
  <2>1. PICK v : v = PolicyEval(WorkspaceFor(a), "seat", action, <<>>)
    OBVIOUS
  <2>2. ~lockdown => v = IF action \in SeatActions THEN Verdict("allow", "SEAT_BOARD_ALLOW")
                                                 ELSE Verdict("deny", "UNKNOWN_SEAT_ACTION")
    <3>1. action # ""
      BY DEF SeatActions
    <3>2. v = EvalChain(WorkspaceFor(a), "seat", action, <<>>)
      BY <1>3, <2>1
    <3>. QED  BY <3>1, <3>2 DEF EvalChain
  <2>3. v = Verdict(v.decision, v.code) /\ (lockdown => v = Verdict("deny", "DENY_ALL"))
    BY <1>3, <2>1
  <2>4. BridgeVerdict(a, "seat", action, <<>>) =
          IF ~lockdown /\ a = Null THEN Verdict("deny", "INVALID_MESSAGE")
          ELSE IF ~lockdown /\ Status(a).state # "running" THEN Verdict("deny", "TOOLS_DEFAULT_DENY")
          ELSE IF Unreadable(a) THEN Verdict("none", "FAILED") ELSE v
    BY <1>1, <2>1, <2>3, BridgeVerdictIs
  <2>5. /\ lockdown => SeatVerdict(a, action) = Verdict("deny", "DENY_ALL")
        /\ ~lockdown => SeatVerdict(a, action) =
             IF a = Null THEN Verdict("deny", "INVALID_MESSAGE")
             ELSE IF Status(a).state # "running" THEN Verdict("deny", "TOOLS_DEFAULT_DENY") ELSE v
    BY <1>1, <2>2, SeatVerdictIs
  <2>6. CASE lockdown
    BY <1>2, <1>10, <2>3, <2>4, <2>5, <2>6
  <2>7. CASE ~lockdown
    BY <1>4, <1>10, <2>4, <2>5, <2>7
  <2>. QED  BY <1>1, <2>6, <2>7
<1>6. Agree(a, ModelVerdict(a), BridgeVerdict(a, "model", "start", <<>>))
  <2>1. PICK v : v = PolicyEval(WorkspaceFor(a), "model", "start", <<>>)
    OBVIOUS
  <2>2. ~lockdown => v = Verdict("allow", "MODEL_START_ALLOW")
    <3>1. v = EvalChain(WorkspaceFor(a), "model", "start", <<>>)
      BY <1>3, <2>1
    <3>. QED  BY <3>1 DEF EvalChain
  <2>3. v = Verdict(v.decision, v.code) /\ (lockdown => v = Verdict("deny", "DENY_ALL"))
    BY <1>3, <2>1
  <2>4. BridgeVerdict(a, "model", "start", <<>>) =
          IF ~lockdown /\ a = Null THEN Verdict("deny", "INVALID_MESSAGE")
          ELSE IF ~lockdown /\ Status(a).state # "running" THEN Verdict("deny", "TOOLS_DEFAULT_DENY")
          ELSE IF Unreadable(a) THEN Verdict("none", "FAILED") ELSE v
    BY <1>1, <2>1, <2>3, BridgeVerdictIs
  <2>5. /\ lockdown => ModelVerdict(a) = Verdict("deny", "DENY_ALL")
        /\ ~lockdown => ModelVerdict(a) =
             IF a = Null THEN Verdict("deny", "INVALID_MESSAGE")
             ELSE IF Status(a).state # "running" THEN Verdict("deny", "TOOLS_DEFAULT_DENY") ELSE v
    BY <1>1, <2>2, ModelVerdictIs
  <2>6. CASE lockdown
    BY <1>2, <1>10, <2>3, <2>4, <2>5, <2>6
  <2>7. CASE ~lockdown
    BY <1>4, <1>10, <2>4, <2>5, <2>7
  <2>. QED  BY <1>1, <2>6, <2>7
<1>7. ASSUME NEW action \in RiskActions
      PROVE  /\ RiskVerdict(action).decision # "allow"
             /\ action # "pay" => Agree(a, RiskVerdict(action), BridgeVerdict(a, "tool", action, <<>>))
  <2>0. RiskVerdict(action).decision # "allow"
    BY <1>1, <1>2, RiskVerdictIs
  <2>. SUFFICES ASSUME action # "pay"
                PROVE  Agree(a, RiskVerdict(action), BridgeVerdict(a, "tool", action, <<>>))
    BY <2>0
  <2>1. PICK v : v = PolicyEval(WorkspaceFor(a), "tool", action, <<>>)
    OBVIOUS
  <2>2. ~lockdown => v = IF action = "secret_export" THEN Verdict("deny", "SECRET_EXPORT_DENIED")
                         ELSE Verdict("prompt", "HIGH_RISK_PROMPT")
    <3>1. /\ action \in {"network", "secret_export", "sudo"} /\ action # ""
          /\ action \notin PathActions \cup {"exec"}
      BY DEF RiskActions, PathActions
    <3>2. v = EvalChain(WorkspaceFor(a), "tool", action, <<>>)
      BY <1>3, <2>1
    <3>. QED  BY <3>1, <3>2 DEF EvalChain
  <2>3. v = Verdict(v.decision, v.code) /\ (lockdown => v = Verdict("deny", "DENY_ALL"))
    BY <1>3, <2>1
  <2>4. BridgeVerdict(a, "tool", action, <<>>) = IF Unreadable(a) THEN Verdict("none", "FAILED") ELSE v
    BY <1>1, <2>1, <2>3, BridgeVerdictIs
  <2>5. RiskVerdict(action) = v
    BY <1>1, <2>2, <2>3, RiskVerdictIs
  <2>. QED  BY <1>10, <2>0, <2>4, <2>5
<1>8. "pay" \in RiskActions /\ BridgeVerdict(a, "tool", "pay", <<>>).decision # "allow"
  <2>1. ~PathUnderWorkspace(slots[a].ws, <<>>)
    BY DEF PathUnderWorkspace
  <2>2. BridgeVerdict(a, "tool", "pay", <<>>).decision # "allow"
    BY <2>1, PlaceAllows
  <2>. QED  BY <2>2 DEF RiskActions
<1>9. ASSUME NEW p \in Paths
      PROVE  Len(p) < PathMax <=> ~(Len(p) >= PathMax)
  <2>1. p \in Seq(Characters)
    BY StringsAssumption
  <2>2. Len(p) \in Nat
    BY <2>1
  <2>. QED  BY <2>2, PathMaxAssumption
<1>11. ASSUME NEW p \in Paths, NEW action, NEW tool \in {"fs", "shell"}, NEW c, NEW v,
              v = PolicyEval(WorkspaceFor(a), tool, action, p),
              c \in {PathVerdict(a, action, p), ShellVerdict(a, p)},
              c = IF lockdown THEN Verdict("deny", "DENY_ALL")
                  ELSE IF Len(p) >= PathMax THEN Verdict("deny", "FIELD_TOO_LONG")
                  ELSE Verdict(v.decision, v.code)
       PROVE  /\ Len(p) < PathMax => Agree(a, c, BridgeVerdict(a, tool, action, p))
              /\ ~(Len(p) < PathMax) => c.decision = "deny"
  <2>1. v = Verdict(v.decision, v.code) /\ (lockdown => v = Verdict("deny", "DENY_ALL"))
    BY <1>3, <1>11
  <2>2. BridgeVerdict(a, tool, action, p) = IF Unreadable(a) THEN Verdict("none", "FAILED") ELSE v
    BY <1>1, <1>11, <2>1, BridgeVerdictIs
  <2>3. Unreadable(a) => c.decision # "allow"
    <3>1. c.decision = "allow" => a \in Agents /\ PathUnderWorkspace(slots[a].ws, p)
      BY <1>11, PlaceAllows
    <3>2. ~PathUnderWorkspace(<<>>, p)
      BY DEF PathUnderWorkspace
    <3>. QED  BY <1>4, <3>1, <3>2
  <2>4. Len(p) < PathMax => c = v
    BY <1>1, <1>9, <1>11, <2>1
  <2>5. ~(Len(p) < PathMax) => c.decision = "deny"
    BY <1>1, <1>2, <1>9, <1>11
  <2>. QED  BY <1>10, <2>2, <2>3, <2>4, <2>5
<1>12. ASSUME NEW p \in Paths, NEW action
       PROVE  /\ Len(p) < PathMax => Agree(a, PathVerdict(a, action, p), BridgeVerdict(a, "fs", action, p))
              /\ ~(Len(p) < PathMax) => PathVerdict(a, action, p).decision = "deny"
  <2>1. PICK v : v = PolicyEval(WorkspaceFor(a), "fs", action, p)
    OBVIOUS
  <2>2. PathVerdict(a, action, p) = IF lockdown THEN Verdict("deny", "DENY_ALL")
          ELSE IF Len(p) >= PathMax THEN Verdict("deny", "FIELD_TOO_LONG")
          ELSE Verdict(v.decision, v.code)
    BY <1>1, <2>1, PathVerdictIs
  <2>. QED  BY <1>11, <2>1, <2>2
<1>13. ASSUME NEW p \in Paths
       PROVE  /\ Len(p) < PathMax => Agree(a, ShellVerdict(a, p), BridgeVerdict(a, "shell", "exec", p))
              /\ ~(Len(p) < PathMax) => ShellVerdict(a, p).decision = "deny"
  <2>1. PICK v : v = PolicyEval(WorkspaceFor(a), "shell", "exec", p)
    OBVIOUS
  <2>2. ShellVerdict(a, p) = IF lockdown THEN Verdict("deny", "DENY_ALL")
          ELSE IF Len(p) >= PathMax THEN Verdict("deny", "FIELD_TOO_LONG")
          ELSE Verdict(v.decision, v.code)
    BY <1>1, <2>1, ShellVerdictIs
  <2>. QED  BY <1>11, <2>1, <2>2
<1>. QED  BY <1>5, <1>6, <1>7, <1>8, <1>12, <1>13

-----------------------------------------------------------------------------
(* What is known of an answer until the caller has it. *)

PlaceEntries == {"check_path", "check_shell", "policy_check_fs", "policy_check_shell"}

\* An answer without the packs is there at once; nothing else goes on then.
AtOnce == (reply # NoReply /\ reply.decision # "pack") => op = Idle

\* Whoever is admitted runs, and is not gone.
Admitted ==
  reply.entry \in AdmitEntries =>
    /\ reply.decision # "pack"
    /\ reply.decision = "allow" =>
         /\ reply.agent \in Agents
         /\ slots[reply.agent].state = "running" /\ slots[reply.agent].proc # "gone"

\* A place that is allowed, or left to the packs, is in the workspace.
Placed ==
  (reply.entry \in PlaceEntries /\ reply.decision \in {"allow", "pack"}) =>
    /\ reply.agent \in Agents
    /\ PathUnderWorkspace(slots[reply.agent].ws, reply.path)
    /\ reply.path \notin Sensitive
    /\ reply.decision = "pack" => reply.entry = "check_shell"
    /\ reply.decision = "allow" => reply.argv = "none"

\* The packs are still to be asked about a command, or have answered.
ShellAsked ==
  (reply.entry = "check_shell" /\ reply.decision = "pack") =>
    \/ op.step # "idle" /\ op.call = "shell"
    \/ /\ op = Idle /\ answer.call = "shell"
       /\ answer.decision = "allow" =>
            loaded /\ \A i \in DOMAIN packs : packs[i].law["shell"] \in {"allow", "none"}

\* Nothing but a refusal is under way in a lockdown.
Locked == (lockdown /\ reply.entry \notin {"none", "agent_status"}) => Refuses(reply)

\* The path of an answer is one that a caller has asked about, or none.
Named == reply.path \in Paths \cup {<<>>}

ReplyInv == AtOnce /\ Named /\ Admitted /\ Placed /\ ShellAsked /\ Locked

\* No answer is under way.
LEMMA NoReplyInv ==
  ASSUME reply = NoReply
  PROVE  ReplyInv
BY DEF NoReply, ReplyInv, AtOnce, Named, Admitted, Placed, ShellAsked, Locked, AdmitEntries, PlaceEntries

\* An entry point that answers without the packs.
LEMMA AnswersInv ==
  ASSUME Free, NEW entry, NEW a, NEW p \in Paths \cup {<<>>}, NEW argv, NEW v,
         Answers(entry, a, p, argv, v), v.decision # "pack",
         (entry \in AdmitEntries /\ v.decision = "allow") =>
           a \in Agents /\ slots'[a].state = "running" /\ slots'[a].proc # "gone",
         (entry \in PlaceEntries /\ v.decision = "allow") =>
           /\ a \in Agents /\ PathUnderWorkspace(slots'[a].ws, p) /\ p \notin Sensitive
           /\ argv = "none",
         (lockdown /\ entry # "agent_status") => Refuses(v)
  PROVE  ReplyInv'
<1>1. /\ reply'.entry = entry /\ reply'.agent = a /\ reply'.path = p /\ reply'.argv = argv
      /\ reply'.decision = v.decision /\ reply'.code = v.code
  BY DEF Answers, Replies
<1>2. op' = Idle /\ lockdown' = lockdown
  BY DEF InForce, Free, Answers, Answered
<1>3. AtOnce' /\ Named' /\ ShellAsked' /\ Locked'
  BY <1>1, <1>2 DEF AtOnce, Named, ShellAsked, Locked, Refuses
<1>4. Admitted'
  BY <1>1 DEF Admitted
<1>5. Placed'
  BY <1>1 DEF Placed
<1>. QED  BY <1>3, <1>4, <1>5 DEF ReplyInv

\* Compose answers for its entry, and allows only what every pack allows.
LEMMA AsksInv ==
  ASSUME TypeOK, Free, ~lockdown, NEW entry, NEW pack \in Entries, NEW a,
         NEW p \in Paths \cup {<<>>}, NEW argv, AsksPacks(entry, pack, a, p, argv), entry \notin AdmitEntries,
         entry \in PlaceEntries =>
           /\ entry = "check_shell" /\ pack = "shell"
           /\ a \in Agents /\ PathUnderWorkspace(slots'[a].ws, p) /\ p \notin Sensitive
  PROVE  ReplyInv'
<1>1. /\ reply'.entry = entry /\ reply'.agent = a /\ reply'.path = p /\ reply'.decision = "pack"
  BY DEF AsksPacks, Replies, Asked
<1>2. ~lockdown' /\ Check(pack)
  BY DEF AsksPacks
<1>3. AtOnce' /\ Named' /\ Admitted' /\ Placed' /\ Locked'
  BY <1>1, <1>2 DEF AtOnce, Named, Admitted, Placed, Locked
<1>4. ASSUME pack = "shell"
      PROVE  ShellAsked'
  <2>1. CASE Begins(pack, DefaultSpec)
    <3>1. op'.step = "parse" /\ op'.call = "shell"
      BY <1>4, <2>1 DEF InForce, Begins, Parsing
    <3>. QED  BY <3>1 DEF ShellAsked
  <2>2. CASE Answered(Rejected(pack))
    <3>1. op' = Idle /\ answer'.call = "shell" /\ answer'.decision = "deny"
      BY <1>4, <2>2 DEF InForce, Answered, Rejected, Reply, Free
    <3>. QED  BY <3>1 DEF ShellAsked
  <2>3. CASE loaded /\ Answered(Compose(packs, pack))
    <3>1. op' = Idle /\ answer' = Compose(packs, pack) /\ loaded' /\ packs' = packs
      BY <2>3 DEF InForce, Answered, Free
    <3>2. /\ answer'.call = "shell"
          /\ answer'.decision = "allow" => \A i \in DOMAIN packs : packs[i].law["shell"] \in {"allow", "none"}
      BY <1>4, <3>1, ComposeHeeds DEF TypeOK
    <3>. QED  BY <3>1, <3>2 DEF ShellAsked
  <2>. QED  BY <1>2, <2>1, <2>2, <2>3 DEF Check
<1>5. ASSUME pack # "shell"
      PROVE  ShellAsked'
  BY <1>1, <1>5 DEF ShellAsked, PlaceEntries
<1>. QED  BY <1>3, <1>4, <1>5 DEF ReplyInv

\* A slot that was visited is reaped, and its workspace stays.
LEMMA VisitsInv ==
  ASSUME PolicydTypeOK, NEW a \in Agents \cup {Null}, Visits(a), ~lockdown
  PROVE  a \in Agents =>
           /\ slots'[a].ws = slots[a].ws
           /\ Status(a).state = "running" => slots'[a].state = "running" /\ slots'[a].proc # "gone"
<1>. SUFFICES ASSUME a \in Agents
              PROVE  slots'[a] = Status(a)
  BY StatusIs
<1>1. a # Null
  BY NullAssumption
<1>. QED  BY <1>1 DEF Visits, PolicydTypeOK

\* Asking for the state of an agent does no more than reap it.
LEMMA VisitsReaps ==
  ASSUME NEW a \in Agents \cup {Null}, Visits(a)
  PROVE  Reaps(a)
BY DEF Visits, Reaps

\* A high risk action is never simply allowed.
LEMMA RiskDenied ==
  ASSUME lockdown \in BOOLEAN, NEW action
  PROVE  /\ RiskVerdict(action).decision \in {"deny", "prompt"}
         /\ lockdown => RiskVerdict(action).decision = "deny"
BY RiskVerdictIs DEF Verdict

\* A reload without a path, or in a lockdown.
LEMMA ReloadDenied ==
  ASSUME NEW sp
  PROVE  FirstMatch(<<Rule(sp = <<>>, "deny", "PACK_PATH_INVALID"),
                      Otherwise("deny", "DENY_ALL")>>).decision = "deny"
<1> DEFINE L == <<Rule(sp = <<>>, "deny", "PACK_PATH_INVALID"), Otherwise("deny", "DENY_ALL")>>
<1>1. DOMAIN L = 1 .. 2 /\ L[2].when /\ L[1].is.decision = "deny" /\ L[2].is.decision = "deny"
  BY DEF Rule, Otherwise
<1>. HIDE DEF L
<1>2. PICK k \in 1 .. 2 : FirstMatch(L) = L[k].is
  <2>1. 2 \in Nat /\ 2 > 0
    OBVIOUS
  <2>. QED  BY <1>1, <2>1, FirstExists
<1>3. k = 1 \/ k = 2
  OBVIOUS
<1>4. FirstMatch(L).decision = "deny"
  BY <1>1, <1>2, <1>3
<1>. QED  BY <1>4 DEF L

\* Whatever an entry point answers, it keeps what is known of answers, and
\* at most reaps the slot of its agent.
LEMMA EntryPointInv ==
  ASSUME TypeOK, PolicydTypeOK, Free, NEW a \in Agents \cup {Null}, EntryPoint(a)
  PROVE  ReplyInv' /\ Reaps(a) /\ UNCHANGED <<lockdown, fixture>>
<1>0. lockdown \in BOOLEAN
  BY DEF PolicydTypeOK
<1>1. ASSUME NEW entry \in {"check_seat", "admit_seat"}, NEW action, CheckSeat(entry, a, action)
      PROVE  ReplyInv' /\ Reaps(a) /\ UNCHANGED <<lockdown, fixture>>
  <2>1. PICK v : v = SeatVerdict(a, action)
    OBVIOUS
  <2>2. /\ v.decision \in Verdicts \cup {"none"} /\ (lockdown => Refuses(v))
        /\ v.decision = "allow" => ~lockdown /\ a \in Agents /\ Status(a).state = "running"
    BY <2>1, AdmissionAllows
  <2>3. Answers(entry, a, <<>>, "none", v) /\ Visits(a)
    BY <1>1, <2>1 DEF CheckSeat
  <2>4. entry \notin PlaceEntries
    BY DEF PlaceEntries
  <2>5. ReplyInv'
    BY <2>2, <2>3, <2>4, AnswersInv, VisitsInv DEF Verdicts
  <2>. QED  BY <2>3, <2>5, VisitsReaps DEF Answers
<1>2. ASSUME NEW entry \in {"check_model", "admit_model"}, CheckModel(entry, a)
      PROVE  ReplyInv' /\ Reaps(a) /\ UNCHANGED <<lockdown, fixture>>
  <2>1. PICK v : v = ModelVerdict(a)
    OBVIOUS
  <2>2. /\ v.decision \in Verdicts \cup {"none"} /\ (lockdown => Refuses(v))
        /\ v.decision = "allow" => ~lockdown /\ a \in Agents /\ Status(a).state = "running"
    BY <2>1, AdmissionAllows
  <2>3. Answers(entry, a, <<>>, "none", v) /\ Visits(a)
    BY <1>2, <2>1 DEF CheckModel
  <2>4. entry \notin PlaceEntries
    BY DEF PlaceEntries
  <2>5. ReplyInv'
    BY <2>2, <2>3, <2>4, AnswersInv, VisitsInv DEF Verdicts
  <2>. QED  BY <2>3, <2>5, VisitsReaps DEF Answers
<1>3. ASSUME NEW action, NEW p \in Paths, CheckPath(a, action, p)
      PROVE  ReplyInv' /\ Reaps(a) /\ UNCHANGED <<lockdown, fixture>>
  <2>1. PICK v : v = PathVerdict(a, action, p)
    OBVIOUS
  <2>2. /\ v.decision \in Verdicts \cup {"none"} /\ (lockdown => Refuses(v))
        /\ v.decision = "allow" =>
             a \in Agents /\ PathUnderWorkspace(slots[a].ws, p) /\ p \notin Sensitive
    BY <2>1, PlaceAllows
  <2>3. Answers("check_path", a, p, "none", v) /\ Visits(a)
    BY <1>3, <2>1 DEF CheckPath
  <2>4. "check_path" \notin AdmitEntries
    BY DEF AdmitEntries
  <2>5. v.decision # "pack" /\ (v.decision = "allow" => ~lockdown)
    BY <2>2 DEF Verdicts, Refuses
  <2>6. v.decision = "allow" => PathUnderWorkspace(slots'[a].ws, p)
    BY <2>2, <2>3, <2>5, VisitsInv
  <2>7. ReplyInv'
    BY <2>2, <2>3, <2>4, <2>5, <2>6, AnswersInv
  <2>. QED  BY <2>3, <2>7, VisitsReaps DEF Answers
<1>4. ASSUME NEW argv, NEW p \in Paths, CheckShell(a, p, argv)
      PROVE  ReplyInv' /\ Reaps(a) /\ UNCHANGED <<lockdown, fixture>>
  <2>1. PICK v : v = ShellVerdict(a, p)
    OBVIOUS
  <2>2. /\ v.decision \in Verdicts \cup {"none"} /\ (lockdown => Refuses(v))
        /\ v.decision = "allow" =>
             a \in Agents /\ PathUnderWorkspace(slots[a].ws, p) /\ p \notin Sensitive
    BY <2>1, PlaceAllows
  <2>3. "check_shell" \notin AdmitEntries /\ "shell" \in Entries /\ Visits(a)
    BY <1>4 DEF AdmitEntries, Entries, CheckShell
  <2>4. CASE (v.decision # "allow" \/ argv = "none") /\ Answers("check_shell", a, p, argv, v)
    <3>1. v.decision # "pack" /\ (v.decision = "allow" => ~lockdown)
      BY <2>2 DEF Verdicts, Refuses
    <3>2. v.decision = "allow" => PathUnderWorkspace(slots'[a].ws, p)
      BY <2>2, <2>3, <3>1, VisitsInv
    <3>3. ReplyInv'
      BY <2>2, <2>3, <2>4, <3>1, <3>2, AnswersInv
    <3>. QED  BY <2>3, <2>4, <3>3, VisitsReaps DEF Answers
  <2>5. CASE v.decision = "allow" /\ AsksPacks("check_shell", "shell", a, p, argv)
    <3>1. ~lockdown
      BY <2>2, <2>5 DEF Refuses
    <3>2. ReplyInv'
      BY <2>2, <2>3, <2>5, <3>1, AsksInv, VisitsInv
    <3>. QED  BY <2>3, <2>5, <3>2, VisitsReaps DEF AsksPacks
  <2>. QED  BY <1>4, <2>1, <2>4, <2>5 DEF CheckShell
<1>5. ASSUME NEW action, CheckRisk(a, action)
      PROVE  ReplyInv' /\ Reaps(a) /\ UNCHANGED <<lockdown, fixture>>
  <2>1. PICK v : v = RiskVerdict(action)
    OBVIOUS
  <2>2. v.decision \in {"deny", "prompt"} /\ (lockdown => v.decision = "deny")
    BY <1>0, <2>1, RiskDenied
  <2>3. Answers("check_risk", a, <<>>, "none", v) /\ UNCHANGED slots
    BY <1>5, <2>1 DEF CheckRisk
  <2>4. ReplyInv'
    BY <2>2, <2>3, AnswersInv DEF Refuses
  <2>. QED  BY <2>3, <2>4 DEF Answers, Reaps
<1>6. ASSUME CheckAudio(a)
      PROVE  ReplyInv' /\ Reaps(a) /\ UNCHANGED <<lockdown, fixture>>
  <2>1. PICK v : v = AudioVerdict
    OBVIOUS
  <2>2. lockdown => v.decision = "deny"
    BY <1>0, <2>1, AudioVerdictIs DEF Verdict, PolicydTypeOK
  <2>3. "check_audio" \notin AdmitEntries \cup PlaceEntries /\ "audio" \in Entries /\ UNCHANGED slots
    BY <1>6 DEF AdmitEntries, PlaceEntries, Entries, CheckAudio
  <2>4. CASE v.decision # "pack" /\ Answers("check_audio", a, <<>>, "none", v)
    <3>1. ReplyInv'
      BY <2>2, <2>3, <2>4, AnswersInv DEF Refuses
    <3>. QED  BY <2>3, <2>4, <3>1 DEF Answers, Reaps
  <2>5. CASE v.decision = "pack" /\ AsksPacks("check_audio", "audio", a, <<>>, "none")
    <3>1. ~lockdown
      BY <2>2, <2>5
    <3>2. ReplyInv'
      BY <2>3, <2>5, <3>1, AsksInv
    <3>. QED  BY <2>3, <2>5, <3>2 DEF AsksPacks, Reaps
  <2>. QED  BY <1>6, <2>1, <2>4, <2>5 DEF CheckAudio
<1>7. ASSUME slots' = IF a = Null THEN slots ELSE [slots EXCEPT ![a] = Status(a)]
      PROVE  /\ Reaps(a)
             /\ a \in Agents =>
                  /\ slots'[a].ws = slots[a].ws
                  /\ Status(a).state = "running" => slots'[a].state = "running" /\ slots'[a].proc # "gone"
  <2>1. Reaps(a)
    BY <1>7 DEF Reaps
  <2>2. a \in Agents => slots'[a] = Status(a)
    BY <1>7, NullAssumption DEF PolicydTypeOK
  <2>. QED  BY <2>1, <2>2, StatusIs
<1>8. ASSUME AgentStatus(a)
      PROVE  ReplyInv' /\ Reaps(a) /\ UNCHANGED <<lockdown, fixture>>
  <2>1. PICK v : v = [decision |-> "none", code |-> IF Unreadable(a) THEN "missing" ELSE Status(a).state]
    OBVIOUS
  <2>2. Answers("agent_status", a, <<>>, "none", v) /\ v.decision = "none"
    BY <1>8, <2>1 DEF AgentStatus
  <2>3. ReplyInv'
    BY <2>2, AnswersInv
  <2>. QED  BY <1>7, <1>8, <2>2, <2>3 DEF Answers, AgentStatus
<1>9. ASSUME NEW ta \in Bridged, NEW p \in Paths \cup {<<>>}, PolicyCheck(a, ta[1], ta[2], p)
      PROVE  ReplyInv' /\ Reaps(a) /\ UNCHANGED <<lockdown, fixture>>
  <2>0. PICK tool, action : tool = ta[1] /\ action = ta[2]
    OBVIOUS
  <2>1. PICK v : v = BridgeVerdict(a, tool, action, p)
    OBVIOUS
  <2>2. /\ Answers(BridgeEntry[tool], a, p, "none", v)
        /\ slots' = IF a = Null THEN slots ELSE [slots EXCEPT ![a] = Status(a)]
    BY <1>9, <2>0, <2>1 DEF PolicyCheck
  <2>3. CASE tool \in {"seat", "model"}
    <3>1. /\ v.decision \in Verdicts \cup {"none"} /\ (lockdown => Refuses(v))
          /\ v.decision = "allow" => ~lockdown /\ a \in Agents /\ Status(a).state = "running"
      BY <2>1, <2>3, AdmissionAllows
    <3>2. BridgeEntry[tool] \notin PlaceEntries
      BY <2>3 DEF BridgeEntry, PlaceEntries
    <3>3. ReplyInv'
      BY <1>7, <2>2, <3>1, <3>2, AnswersInv DEF Verdicts
    <3>. QED  BY <1>7, <2>2, <3>3 DEF Answers
  <2>4. CASE tool \in {"fs", "shell", "tool"}
    <3>1. /\ v.decision \in Verdicts \cup {"none"} /\ (lockdown => Refuses(v))
          /\ v.decision = "allow" =>
               a \in Agents /\ PathUnderWorkspace(slots[a].ws, p) /\ p \notin Sensitive
      BY <2>1, <2>4, PlaceAllows
    <3>2. BridgeEntry[tool] \notin AdmitEntries
      BY <2>4 DEF BridgeEntry, AdmitEntries
    <3>3. ReplyInv'
      BY <1>7, <2>2, <3>1, <3>2, AnswersInv DEF Verdicts
    <3>. QED  BY <1>7, <2>2, <3>3 DEF Answers
  <2>5. ta[1] \in {"seat", "model", "fs", "shell", "tool"}
    <3>1. ASSUME NEW x, NEW S, ta \in {x} \X S PROVE ta[1] = x
      BY <3>1
    <3>2. ASSUME NEW x, NEW y, ta = <<x, y>> PROVE ta[1] = x
      BY <3>2
    <3>. QED  BY <3>1, <3>2 DEF Bridged
  <2>. QED  BY <2>0, <2>3, <2>4, <2>5
<1>. QED  BY <1>1, <1>2, <1>3, <1>4, <1>5, <1>6, <1>8, <1>9 DEF EntryPoint, AdmitSeat, AdmitModel

-----------------------------------------------------------------------------
(* The other steps. *)

\* A load that an entry point waits for goes on, or ends with its answer.
LEMMA LoadStepInv ==
  ASSUME HostInv, ReplyInv, LoadStep, UNCHANGED hostvars
  PROVE  ReplyInv'
<1>1. op.step # "idle" /\ op # Idle /\ TypeOK
  BY DEF LoadStep, Parse, LoadOne, LoadDone, Idle, HostInv
<1>2. reply' = reply /\ slots' = slots /\ lockdown' = lockdown
  BY DEF hostvars
<1>3. reply = NoReply \/ reply.decision = "pack"
  BY <1>1 DEF ReplyInv, AtOnce
<1>4. AtOnce' /\ Named' /\ Admitted' /\ Placed' /\ Locked'
  BY <1>2, <1>3 DEF ReplyInv, AtOnce, Named, Admitted, Placed, Locked
<1>5. ShellAsked'
  <2>. SUFFICES ASSUME reply.entry = "check_shell", reply.decision = "pack"
                PROVE  \/ op'.step # "idle" /\ op'.call = "shell"
                       \/ /\ op' = Idle /\ answer'.call = "shell"
                          /\ answer'.decision = "allow" =>
                               loaded' /\ \A i \in DOMAIN packs' : packs'[i].law["shell"] \in {"allow", "none"}
    BY <1>2 DEF ShellAsked
  <2>1. op.call = "shell"
    BY <1>1 DEF ReplyInv, ShellAsked
  <2>2. CASE LoadFails
    BY <2>1, <2>2 DEF LoadFails, Reply
  <2>3. CASE LoadOne /\ ~LoadFails
    <3>1. op' = [op EXCEPT !.todo = Tail(@)]
      BY <2>3 DEF LoadOne
    <3>2. op'.step # "idle" /\ op'.call = "shell"
      BY <1>1, <2>1, <3>1 DEF TypeOK
    <3>. QED  BY <3>2
  <2>5. CASE Parse
    <3>1. CASE BeginLoad(op.call, op.todo)
      BY <2>1, <3>1 DEF BeginLoad, Loading
    <3>2. CASE ~BeginLoad(op.call, op.todo)
      <4>1. op' = Idle /\ answer' = Rejected("shell")
        BY <2>1, <2>5, <3>2 DEF Parse
      <4>. QED  BY <4>1 DEF Rejected, Reply
    <3>. QED  BY <3>1, <3>2
  <2>4. CASE LoadDone /\ ~LoadFails
    <3>1. op' = Idle /\ loaded' /\ packs' = packs /\ answer' = Compose(packs, "shell")
      BY <2>1, <2>4 DEF LoadDone
    <3>2. "shell" \in Entries
      BY DEF Entries
    <3>3. /\ answer'.call = "shell"
          /\ answer'.decision = "allow" => \A i \in DOMAIN packs : packs[i].law["shell"] \in {"allow", "none"}
      BY <1>1, <3>1, <3>2, ComposeHeeds DEF TypeOK
    <3>. QED  BY <3>1, <3>3
  <2>. QED  BY <2>2, <2>3, <2>4, <2>5 DEF LoadStep
<1>. QED  BY <1>4, <1>5 DEF ReplyInv

PolicydInv == HostInv /\ PolicydTypeOK /\ ReplyInv

\* Every step of the process and of the world around it.
LEMMA PolicydStep ==
  ASSUME PolicydInv, [PolicydNext]_allvars
  PROVE  PolicydTypeOK' /\ ReplyInv'
<1>0. HostInv /\ TypeOK /\ PolicydTypeOK /\ ReplyInv
  BY DEF PolicydInv, HostInv
<1>1. ASSUME NEW a, Reaps(a), UNCHANGED <<lockdown, fixture>>
      PROVE  PolicydTypeOK'
  BY <1>0, <1>1, ReapsType DEF PolicydTypeOK
<1>2. ASSUME Free, NEW a \in Agents \cup {Null}, EntryPoint(a)
      PROVE  PolicydTypeOK' /\ ReplyInv'
  BY <1>0, <1>1, <1>2, EntryPointInv
<1>3. ASSUME Free, NEW entry \in {"reload", "check_seat", "check_shell"}, NEW v,
             Answers(entry, Null, <<>>, "none", v), v.decision = "deny", UNCHANGED slots
      PROVE  PolicydTypeOK' /\ ReplyInv'
  <2>1. ReplyInv'
    BY <1>3, AnswersInv DEF Refuses
  <2>2. UNCHANGED <<lockdown, fixture>>
    BY <1>3 DEF Answers
  <2>. QED  BY <1>0, <1>3, <2>1, <2>2 DEF PolicydTypeOK
<1>4. ASSUME Free, NEW sp, ReloadShellPack(sp)
      PROVE  PolicydTypeOK' /\ ReplyInv'
  <2>1. CASE sp = <<>> \/ lockdown
    <3>1. PICK v : v = FirstMatch(<<Rule(sp = <<>>, "deny", "PACK_PATH_INVALID"), Otherwise("deny", "DENY_ALL")>>)
      OBVIOUS
    <3>2. v.decision = "deny"
      BY <3>1, ReloadDenied
    <3>3. Answers("reload", Null, <<>>, "none", v) /\ UNCHANGED slots
      BY <1>0, <1>4, <2>1, <3>1 DEF ReloadShellPack, PolicydTypeOK
    <3>. QED  BY <1>3, <1>4, <3>2, <3>3
  <2>2. CASE sp # <<>> /\ ~lockdown
    <3>1. /\ reply'.entry = "reload" /\ reply'.decision = "pack" /\ reply'.path = <<>>
          /\ UNCHANGED <<slots, lockdown, fixture>>
      BY <1>4, <2>2 DEF ReloadShellPack, Replies, Asked
    <3>2. ReplyInv'
      BY <2>2, <3>1 DEF ReplyInv, AtOnce, Named, Admitted, Placed, ShellAsked, Locked, AdmitEntries, PlaceEntries
    <3>. QED  BY <1>0, <3>1, <3>2 DEF PolicydTypeOK
  <2>. QED  BY <2>1, <2>2
<1>5. ASSUME Free, NEW entry \in {"check_seat", "check_shell"}, NEW code, BadMessage(entry, code)
      PROVE  PolicydTypeOK' /\ ReplyInv'
  <2>1. PICK v : v = [decision |-> "deny", code |-> code]
    OBVIOUS
  <2>2. Answers(entry, Null, <<>>, "none", v) /\ UNCHANGED slots /\ v.decision = "deny"
    BY <1>5, <2>1 DEF BadMessage
  <2>. QED  BY <1>3, <1>5, <2>2
<1>6. ASSUME Free, Between
      PROVE  PolicydTypeOK' /\ ReplyInv'
  <2>1. reply' = NoReply
    BY <1>6 DEF Free, Between, AgentStarts, AgentBinds, AgentStops, SetEnv, Reconfigure, hostvars
  <2>2. ASSUME NEW a \in Agents, NEW ws \in Workspaces, AgentStarts(a, ws)
        PROVE  PolicydTypeOK'
    <3>1. [state |-> "running", ws |-> ws, proc |-> "live"] \in SlotRecord
      BY DEF SlotRecord, SlotStates, ProcStates
    <3>. QED  BY <1>0, <2>2, <3>1 DEF AgentStarts, PolicydTypeOK
  <2>8. ASSUME NEW a \in Agents, NEW ws \in Workspaces, NEW proc \in {"none", "live", "gone"},
               AgentBinds(a, ws, proc)
        PROVE  PolicydTypeOK'
    <3>1. Status(a) \in SlotRecord
      BY <1>0, StatusIs
    <3>2. PICK s : s = Status(a)
      OBVIOUS
    <3>3. [state |-> "running", ws |-> IF ws = <<>> THEN s.ws ELSE ws,
           proc |-> IF s.state = "running" /\ proc = "none" THEN s.proc ELSE proc] \in SlotRecord
      BY <3>1, <3>2 DEF SlotRecord, SlotStates, ProcStates
    <3>. QED  BY <1>0, <2>8, <3>2, <3>3 DEF AgentBinds, PolicydTypeOK
  <2>3. ASSUME NEW a \in Agents, AgentStops(a)
        PROVE  PolicydTypeOK'
    <3>1. slots[a] \in SlotRecord
      BY <1>0 DEF PolicydTypeOK
    <3>2. PICK r : r = [[slots[a] EXCEPT !.state = "stopped"] EXCEPT !.proc = "none"]
      OBVIOUS
    <3>3. r \in SlotRecord
      BY <3>1, <3>2 DEF SlotRecord, SlotStates, ProcStates
    <3>4. slots' = [slots EXCEPT ![a] = r] /\ UNCHANGED <<lockdown, fixture>>
      BY <1>0, <2>3, <3>2 DEF AgentStops, PolicydTypeOK
    <3>. QED  BY <1>0, <3>3, <3>4 DEF PolicydTypeOK
  <2>4. ASSUME NEW deny \in BOOLEAN, NEW allow \in BOOLEAN, SetEnv(deny, allow)
        PROVE  PolicydTypeOK'
    BY <1>0, <2>4 DEF SetEnv, PolicydTypeOK
  <2>5. ASSUME Reconfigure
        PROVE  PolicydTypeOK'
    BY <1>0, <2>5 DEF Reconfigure, hostvars, PolicydTypeOK
  <2>6. PolicydTypeOK'
    BY <1>6, <2>2, <2>3, <2>4, <2>5, <2>8 DEF Between
  <2>7. ReplyInv'
    BY <2>1 DEF NoReply, ReplyInv, AtOnce, Named, Admitted, Placed, ShellAsked, Locked, AdmitEntries, PlaceEntries
  <2>. QED  BY <2>6, <2>7
<1>7. ASSUME NEW a \in Agents, SlotFileTurns(a) \/ \E proc \in ProcStates : AgentExits(a, proc)
      PROVE  PolicydTypeOK' /\ ReplyInv'
  <2>1. reply = NoReply \/ reply.decision = "pack"
    BY <1>0, <1>7 DEF SlotFileTurns, AgentExits, Free, ReplyInv, AtOnce
  <2>2. UNCHANGED <<vars, lockdown, fixture, reply>>
    BY <1>7 DEF SlotFileTurns, AgentExits
  <2>3. slots' \in [Agents -> SlotRecord] /\ \A b \in Agents : slots'[b].ws = slots[b].ws
    <3>0. slots[a] \in SlotRecord
      BY <1>0 DEF PolicydTypeOK
    <3>1. ASSUME NEW r \in SlotRecord, slots' = [slots EXCEPT ![a] = r], r.ws = slots[a].ws
          PROVE  slots' \in [Agents -> SlotRecord] /\ \A b \in Agents : slots'[b].ws = slots[b].ws
      BY <1>0, <3>1 DEF PolicydTypeOK
    <3>2. ASSUME NEW proc \in ProcStates, AgentExits(a, proc)
          PROVE  slots' \in [Agents -> SlotRecord] /\ \A b \in Agents : slots'[b].ws = slots[b].ws
      <4>1. PICK r : r = [slots[a] EXCEPT !.proc = proc]
        OBVIOUS
      <4>2. r \in SlotRecord /\ r.ws = slots[a].ws
        BY <3>0, <4>1 DEF SlotRecord
      <4>3. slots' = [slots EXCEPT ![a] = r]
        BY <1>0, <3>2, <4>1 DEF AgentExits, PolicydTypeOK
      <4>. QED  BY <3>1, <4>2, <4>3
    <3>3. ASSUME SlotFileTurns(a), slots[a] = NoSlot
          PROVE  slots' \in [Agents -> SlotRecord] /\ \A b \in Agents : slots'[b].ws = slots[b].ws
      <4>1. PICK r : r = [slots[a] EXCEPT !.state = "unreadable"]
        OBVIOUS
      <4>2. r \in SlotRecord /\ r.ws = slots[a].ws
        BY <3>0, <3>3, <4>1 DEF SlotRecord, SlotStates, NoSlot
      <4>3. slots' = [slots EXCEPT ![a] = r]
        BY <1>0, <3>3, <4>1 DEF SlotFileTurns, PolicydTypeOK, NoSlot
      <4>. QED  BY <3>1, <4>2, <4>3
    <3>4. ASSUME SlotFileTurns(a), slots[a] # NoSlot
          PROVE  slots' \in [Agents -> SlotRecord] /\ \A b \in Agents : slots'[b].ws = slots[b].ws
      <4>1. slots[a].state = "unreadable" /\ slots' = [slots EXCEPT ![a] = NoSlot]
        BY <3>4 DEF SlotFileTurns
      <4>2. NoSlot \in SlotRecord /\ NoSlot.ws = slots[a].ws
        BY <3>0, <4>1 DEF SlotRecord, SlotStates, ProcStates, NoSlot
      <4>. QED  BY <3>1, <4>1, <4>2
    <3>. QED  BY <1>7, <3>2, <3>3, <3>4
  <2>4. PolicydTypeOK'
    BY <1>0, <2>2, <2>3 DEF PolicydTypeOK
  <2>5. ReplyInv'
    <3>1. AtOnce' /\ Named' /\ Locked' /\ ShellAsked'
      BY <1>0, <2>2 DEF InForce, ReplyInv, AtOnce, Named, Locked, ShellAsked, vars
    <3>2. Admitted'
      BY <1>0, <2>1, <2>2 DEF ReplyInv, Admitted, NoReply, AdmitEntries
    <3>3. Placed'
      BY <1>0, <2>2, <2>3 DEF ReplyInv, Placed
    <3>. QED  BY <3>1, <3>2, <3>3 DEF ReplyInv
  <2>. QED  BY <2>4, <2>5
<1>8. CASE PackWorld
  <2>1. UNCHANGED hostvars
    BY <1>8 DEF PackWorld
  <2>2. PolicydTypeOK'
    BY <1>0, <2>1 DEF hostvars, PolicydTypeOK
  <2>3. ASSUME Free \/ op # Idle, NEW f, NEW c, Edit(f, c)
        PROVE  ReplyInv'
    <3>1. op' = op /\ packs' = packs /\ loaded' = loaded /\ UNCHANGED <<slots, reply, lockdown>>
      BY <2>1, <2>3 DEF InForce, Edit, hostvars
    <3>2. AtOnce' /\ Named' /\ Admitted' /\ Placed' /\ Locked'
      BY <1>0, <3>1 DEF ReplyInv, AtOnce, Named, Admitted, Placed, Locked
    <3>3. ShellAsked'
      BY <1>0, <2>3, <3>1 DEF ReplyInv, ShellAsked, Free, NoReply
    <3>. QED  BY <3>2, <3>3 DEF ReplyInv
  <2>. QED  BY <1>0, <1>8, <2>1, <2>2, <2>3, LoadStepInv DEF PackWorld
<1>9. CASE Returned
  <2>1. reply' = NoReply /\ UNCHANGED <<slots, lockdown, fixture>>
    BY <1>9 DEF Returned
  <2>2. ReplyInv'
    BY <2>1 DEF NoReply, ReplyInv, AtOnce, Named, Admitted, Placed, ShellAsked, Locked, AdmitEntries, PlaceEntries
  <2>. QED  BY <1>0, <2>1, <2>2 DEF PolicydTypeOK
<1>10. CASE UNCHANGED allvars
  BY <1>0, <1>10 DEF InForce, allvars, vars, hostvars, PolicydTypeOK,
     ReplyInv, AtOnce, Named, Admitted, Placed, ShellAsked, Locked
<1>. QED  BY <1>2, <1>4, <1>5, <1>6, <1>7, <1>8, <1>9, <1>10 DEF PolicydNext

\* The invariant of the entry points always holds.
LEMMA PolicydInvHolds == PolicydSpec => []PolicydInv
<1>1. PolicydInit => PolicydInv
  <2>. SUFFICES ASSUME PolicydInit
                PROVE  PolicydTypeOK /\ ReplyInv
    BY InitHost DEF PolicydInit, PolicydInv
  <2>1. NoSlot \in SlotRecord
    BY DEF NoSlot, SlotRecord, SlotStates, ProcStates
  <2>2. PolicydTypeOK
    BY <2>1 DEF PolicydInit, PolicydTypeOK
  <2>. QED  BY <2>2, NoReplyInv DEF PolicydInit
<1>2. PolicydInv /\ [PolicydNext]_allvars => PolicydInv'
  BY PolicydHost, NextHost, PolicydStep DEF PolicydInv
<1>. QED  BY <1>1, <1>2, PTL DEF PolicydSpec

-----------------------------------------------------------------------------
(* The theorems. *)

\* Whoever gets a seat or a model start from the entry points or the bridge
\* has a slot that runs, and is not bound to a process that is gone.
THEOREM AdmitsNoGoneHolds == PolicydSpec => []AdmitsNoGone
<1>1. PolicydInv => AdmitsNoGone
  BY NullAssumption DEF PolicydInv, ReplyInv, Admitted, AdmitsNoGone, Decision
<1>. QED  BY <1>1, PolicydInvHolds, PTL

\* The Cap'n entries and the string bridge give the same decision and the same
\* code for every agent, path that fits, workspace and action but "pay"; on a
\* slot that cannot be read the bridge gives none, and Cap'n does not allow.
THEOREM BridgesAgreeHolds == PolicydSpec => []BridgesAgree
<1>1. PolicydInv => BridgesAgree
  BY Agreement DEF PolicydInv, BridgesAgree
<1>. QED  BY <1>1, PolicydInvHolds, PTL

\* What the path rule lets through, as the walk along the path sees it.
LEMMA PlacedInside ==
  ASSUME NEW w \in Workspaces \cup {<<>>}, NEW p \in Paths \cup {<<>>}, PathUnderWorkspace(w, p)
  PROVE  w # <<>> /\ Canonical(p) /\ Inside(w, p)
<1>1. PICK C : C = Characters \cup {"/"}
  OBVIOUS
<1>2. w # <<>> /\ p # <<>>
  BY DEF PathUnderWorkspace
<1>3. w \in Seq(Characters) /\ p \in Seq(Characters)
  BY <1>2, StringsAssumption
<1>4. w \in Seq(C) /\ p \in Seq(C)
  BY <1>1, <1>3, SeqGrows
<1>5. "/" \in C /\ Nul \notin C
  BY <1>1, StringsAssumption DEF Nul
<1>. QED  BY <1>2, <1>4, <1>5, UnderInside

\* A path or a command is allowed only in the workspace of its agent, on a
\* path whose resolution is what it says, and away from credentials; whatever
\* the packs were asked about, every one of them has let through.
THEOREM ConfinedHolds == PolicydSpec => []Confined
<1>1. PolicydInv => Confined
  <2>. SUFFICES ASSUME PolicydInv, reply.entry \in PlaceEntries, Decision = "allow"
                PROVE  /\ reply.agent # Null
                       /\ slots[reply.agent].ws # <<>>
                       /\ Canonical(reply.path)
                       /\ Inside(slots[reply.agent].ws, reply.path)
                       /\ reply.path \notin Sensitive
                       /\ reply.argv # "none" =>
                            loaded /\ \A i \in DOMAIN packs : packs[i].law["shell"] \in {"allow", "none"}
    BY DEF Confined, PlaceEntries
  <2>1. PolicydTypeOK /\ Named /\ Placed /\ ShellAsked
    BY DEF PolicydInv, ReplyInv
  <2>2. reply.decision = "allow" \/ (reply.decision = "pack" /\ op = Idle /\ answer.decision = "allow")
    BY DEF Decision
  <2>3. /\ reply.agent \in Agents
        /\ PathUnderWorkspace(slots[reply.agent].ws, reply.path)
        /\ reply.path \notin Sensitive
        /\ reply.decision = "pack" => reply.entry = "check_shell"
        /\ reply.decision = "allow" => reply.argv = "none"
    BY <2>1, <2>2 DEF Placed
  <2>4. slots[reply.agent].ws \in Workspaces \cup {<<>>} /\ reply.path \in Paths \cup {<<>>}
    BY <2>1, <2>3 DEF PolicydTypeOK, SlotRecord, Named
  <2>5. PICK w, p : w = slots[reply.agent].ws /\ p = reply.path
    OBVIOUS
  <2>6. w # <<>> /\ Canonical(p) /\ Inside(w, p)
    BY <2>3, <2>4, <2>5, PlacedInside
  <2>7. reply.argv # "none" =>
          loaded /\ \A i \in DOMAIN packs : packs[i].law["shell"] \in {"allow", "none"}
    BY <2>1, <2>2, <2>3 DEF ShellAsked, Idle
  <2>. QED  BY <2>3, <2>5, <2>6, <2>7, NullAssumption
<1>. QED  BY <1>1, PolicydInvHolds, PTL

\* An entry point that has not asked the packs leaves them alone.
LEMMA EntryPointLaw ==
  ASSUME NEW a, EntryPoint(a), reply'.decision # "pack"
  PROVE  UNCHANGED InForce
<1>1. ASSUME NEW entry, NEW p, NEW argv, NEW v, Answers(entry, a, p, argv, v)
      PROVE  UNCHANGED InForce
  BY <1>1 DEF InForce, Answers, Answered
<1>2. ASSUME NEW entry, NEW pack, NEW p, NEW argv, AsksPacks(entry, pack, a, p, argv)
      PROVE  FALSE
  BY <1>2 DEF AsksPacks, Replies, Asked
<1>3. ASSUME NEW entry, NEW action, CheckSeat(entry, a, action)
      PROVE  UNCHANGED InForce
  BY <1>1, <1>3 DEF CheckSeat
<1>4. ASSUME NEW entry, CheckModel(entry, a)
      PROVE  UNCHANGED InForce
  BY <1>1, <1>4 DEF CheckModel
<1>5. ASSUME NEW action, NEW p, CheckPath(a, action, p)
      PROVE  UNCHANGED InForce
  BY <1>1, <1>5 DEF CheckPath
<1>6. ASSUME NEW argv, NEW p, CheckShell(a, p, argv)
      PROVE  UNCHANGED InForce
  BY <1>1, <1>2, <1>6 DEF CheckShell
<1>7. ASSUME NEW action, CheckRisk(a, action)
      PROVE  UNCHANGED InForce
  BY <1>1, <1>7 DEF CheckRisk
<1>8. ASSUME CheckAudio(a)
      PROVE  UNCHANGED InForce
  BY <1>1, <1>2, <1>8 DEF CheckAudio
<1>9. ASSUME AgentStatus(a)
      PROVE  UNCHANGED InForce
  BY <1>1, <1>9 DEF AgentStatus
<1>10. ASSUME NEW tool, NEW action, NEW p, PolicyCheck(a, tool, action, p)
       PROVE  UNCHANGED InForce
  BY <1>1, <1>10 DEF PolicyCheck
<1>. QED  BY <1>3, <1>4, <1>5, <1>6, <1>7, <1>8, <1>9, <1>10 DEF EntryPoint, AdmitSeat, AdmitModel

\* In a lockdown a request is denied, and it changes no law.
LEMMA LockdownStep ==
  ASSUME PolicydInv, PolicydInv', PolicydNext,
         lockdown, reply'.entry \notin {"none", "agent_status"}
  PROVE  Refuses(reply') /\ UNCHANGED InForce
<1>0. reply' # NoReply
  BY DEF NoReply
<1>1. lockdown' => Refuses(reply')
  BY DEF PolicydInv, ReplyInv, Locked, Refuses
<1>2. ASSUME Free, NEW a \in Agents \cup {Null}, EntryPoint(a)
      PROVE  Refuses(reply') /\ UNCHANGED InForce
  <2>1. lockdown' = lockdown
    BY <1>2, EntryPointInv DEF PolicydInv, HostInv
  <2>2. reply'.decision # "pack"
    BY <1>1, <2>1 DEF Refuses
  <2>. QED  BY <1>1, <1>2, <2>1, <2>2, EntryPointLaw
<1>3. ASSUME NEW entry, NEW v, Answers(entry, Null, <<>>, "none", v)
      PROVE  Refuses(reply') /\ UNCHANGED InForce
  BY <1>1, <1>3 DEF InForce, Answers, Answered
<1>4. ASSUME NEW sp, ReloadShellPack(sp)
      PROVE  Refuses(reply') /\ UNCHANGED InForce
  BY <1>3, <1>4 DEF ReloadShellPack
<1>5. ASSUME NEW entry, NEW code, BadMessage(entry, code)
      PROVE  Refuses(reply') /\ UNCHANGED InForce
  BY <1>3, <1>5 DEF BadMessage
<1>6. ~(Free /\ Between) /\ ~Returned
  BY <1>0 DEF Free, Between, AgentStarts, AgentBinds, AgentStops, SetEnv, Reconfigure, hostvars, Returned
<1>7. ASSUME NEW a \in Agents, SlotFileTurns(a) \/ \E proc \in ProcStates : AgentExits(a, proc)
      PROVE  Refuses(reply') /\ UNCHANGED InForce
  BY <1>1, <1>7 DEF InForce, SlotFileTurns, AgentExits, vars
<1>8. ~PackWorld
  <2>. SUFFICES ASSUME PackWorld
                PROVE  FALSE
    OBVIOUS
  <2>1. reply' = reply /\ lockdown' = lockdown
    BY DEF PackWorld, hostvars
  <2>2. op = Idle /\ ~Free
    BY <1>0, <1>1, <2>1 DEF PolicydInv, ReplyInv, AtOnce, Free, Refuses
  <2>. QED  BY <2>2 DEF PackWorld, LoadStep, Parse, LoadOne, LoadDone, Idle
<1>. QED  BY <1>2, <1>4, <1>5, <1>6, <1>7, <1>8 DEF PolicydNext

\* PHRONESIS_DENY_ALL: as long as it is set every entry point denies, whatever
\* it is asked and whatever is loaded, or is the bridge and fails, and none
\* changes the law in force.
THEOREM LockdownDeniesHolds == PolicydSpec => LockdownDenies
<1>1. PolicydInv /\ PolicydInv' /\ [PolicydNext]_allvars =>
        [(lockdown /\ reply'.entry \notin {"none", "agent_status"}) =>
           (reply'.decision = "deny" \/ reply'.code = "FAILED") /\ UNCHANGED InForce]_allvars
  BY LockdownStep DEF Refuses
<1>. QED  BY <1>1, PolicydInvHolds, PTL DEF PolicydSpec, LockdownDenies
=============================================================================

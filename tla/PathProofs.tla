----------------------------- MODULE PathProofs -----------------------------
(***************************************************************************)
(* Proofs about opening beneath the pack root, about creating the          *)
(* directories of a handle, and about the path rules: for every tree,      *)
(* every number of processes, and strings of every length over every set   *)
(* of characters.                                                          *)
(***************************************************************************)
EXTENDS MCPaths, PathLexProofs

-----------------------------------------------------------------------------
(* Opening beneath the root. *)

Entries == Dirs \cup Files \cup {Link, Empty}
Trees   == [Dirs -> [Names -> Entries]]
Opened  == Dirs \cup Files \cup {Denied}
Comps   == Seq(Names \cup {Dot})

\* A file is neither a directory nor a link.
LEMMA FilesApart == \A f \in Files : f \notin Dirs /\ f # Link /\ f # Empty
<1> DEFINE U == UNION {{Tree[d][n] : n \in Names} : d \in Dirs}
<1>1. Files = U \ (Dirs \cup {Link, Empty})
  BY DEF Files
<1>. HIDE DEF U
<1>. QED  BY <1>1

\* Entering one component from an outcome gives an outcome.
LEMMA EnterType ==
  ASSUME NEW t \in Trees, NEW d \in Opened, NEW name \in Names \cup {Dot}
  PROVE  Enter(t, d, name) \in Opened
<1>1. CASE d \in Dirs /\ name # Dot
  <2>1. t[d][name] \in Entries
    BY <1>1 DEF Trees
  <2>. QED  BY <1>1, <2>1 DEF Enter, Opened, Entries
<1>. QED  BY <1>1 DEF Enter, Opened

\* The recursive definition of Reached has a solution: what openat2 has
\* reached after each component.
LEMMA ReachedIs ==
  ASSUME NEW t \in Trees, NEW c \in Comps
  PROVE  /\ Reached(t, c) \in [0 .. Len(c) -> Opened]
         /\ Reached(t, c)[0] = Root
         /\ \A i \in 1 .. Len(c) : Reached(t, c)[i] = Enter(t, Reached(t, c)[i - 1], c[i])
<1> DEFINE n == Len(c)
           V == Opened
           Q(a) == a = [i \in 0 .. n |-> IF i = 0 THEN Root ELSE Enter(t, a[i - 1], c[i])]
           A == CHOOSE a : Q(a)
           G == [i \in 1 .. n |-> [v \in V |-> Enter(t, v, c[i])]]
<1>0. n \in Nat /\ \A i \in 1 .. n : c[i] \in Names \cup {Dot}
  BY DEF Comps
<1>1. Root \in V
  BY TreeAssumption DEF Opened
<1>2. G \in [1 .. n -> [V -> V]]
  <2>. HIDE DEF n
  <2>. QED  BY <1>0, EnterType
<1>. HIDE DEF n, V
<1>3. PICK a : Recurs(a, n, V, Root, G)
  <2>. HIDE DEF G
  <2>. QED  BY <1>0, <1>1, <1>2, Recursion
<1>4. \A i \in 1 .. n : i - 1 \in 0 .. n /\ a[i] = Enter(t, a[i - 1], c[i])
  <2>. TAKE i \in 1 .. n
  <2>1. i - 1 \in 0 .. n
    BY <1>0
  <2>2. a[i - 1] \in V /\ a[i] = G[i][a[i - 1]]
    BY <1>3, <2>1 DEF Recurs
  <2>. QED  BY <2>1, <2>2
<1>5. Q(a)
  <2>. HIDE DEF G
  <2>1. \A i \in 0 .. n : a[i] = IF i = 0 THEN Root ELSE Enter(t, a[i - 1], c[i])
    <3>. TAKE i \in 0 .. n
    <3>1. i # 0 => i \in 1 .. n
      BY <1>0
    <3>. QED  BY <1>3, <1>4, <3>1 DEF Recurs
  <2>. QED  BY <1>3, <2>1 DEF Recurs
<1>6. Q(A)
  <2>. HIDE DEF Q
  <2>. QED  BY <1>5
<1>7. Reached(t, c) = A
  BY DEF Reached, n
<1>. HIDE DEF A
<1> DEFINE S == {i \in 0 .. n : A[i] \in V}
<1>8. A[0] = Root /\ \A i \in 1 .. n : A[i] = Enter(t, A[i - 1], c[i])
  <2>1. 0 \in 0 .. n /\ \A i \in 1 .. n : i \in 0 .. n /\ i # 0
    BY <1>0
  <2>. QED  BY <1>6, <2>1
<1>9. \A i \in 0 .. n : i \in S
  <2>1. 0 \in S
    BY <1>0, <1>1, <1>8
  <2>2. ASSUME NEW i \in 0 .. n, i < n, i \in S
        PROVE  i + 1 \in S
    <3>1. i + 1 \in 1 .. n /\ i + 1 \in 0 .. n /\ (i + 1) - 1 = i
      BY <1>0, <2>2
    <3>2. A[i + 1] = Enter(t, A[i], c[i + 1]) /\ A[i] \in V /\ c[i + 1] \in Names \cup {Dot}
      BY <1>0, <1>8, <2>2, <3>1
    <3>3. A[i + 1] \in V
      BY <3>2, EnterType DEF V
    <3>. QED  BY <3>1, <3>3
  <2>. HIDE DEF S
  <2>. QED  BY <1>0, <2>1, <2>2, InductionTo
<1>10. A \in [0 .. n -> V]
  BY <1>6, <1>9
<1>. QED  BY <1>7, <1>8, <1>10 DEF n, V

\* Behind what is no directory nothing is reached.
LEMMA DeniedStays ==
  ASSUME NEW t \in Trees, NEW c \in Comps, NEW i \in 0 .. Len(c), i < Len(c),
         Reached(t, c)[i] \notin Dirs
  PROVE  Reached(t, c)[Len(c)] = Denied
<1>0. PICK n \in Nat : n = Len(c)
  BY DEF Comps
<1> DEFINE A == Reached(t, c)
           m == n - (i + 1)
           S == {k \in 0 .. m : A[i + 1 + k] = Denied}
<1>1. \A j \in 1 .. n : A[j] = Enter(t, A[j - 1], c[j])
  BY <1>0, ReachedIs
<1>2. A[i] \notin Dirs
  OBVIOUS
<1>. HIDE DEF A
<1>3. m \in Nat /\ 0 \in 0 .. m
  BY <1>0
<1>4. 0 \in S
  <2>1. i + 1 \in 1 .. n /\ (i + 1) - 1 = i /\ i + 1 + 0 = i + 1
    BY <1>0
  <2>2. A[i + 1] = Denied
    BY <1>1, <1>2, <2>1 DEF Enter
  <2>. QED  BY <1>3, <2>1, <2>2
<1>5. ASSUME NEW k \in 0 .. m, k < m, k \in S
      PROVE  k + 1 \in S
  <2>1. /\ k + 1 \in 0 .. m /\ i + 1 + (k + 1) \in 1 .. n
        /\ (i + 1 + (k + 1)) - 1 = i + 1 + k
    BY <1>0, <1>5
  <2>2. A[i + 1 + (k + 1)] = Enter(t, Denied, c[i + 1 + (k + 1)])
    BY <1>1, <1>5, <2>1
  <2>. QED  BY <2>1, <2>2, TreeAssumption DEF Enter
<1>6. \A k \in 0 .. m : k \in S
  <2>. HIDE DEF S, m
  <2>. QED  BY <1>3, <1>4, <1>5, InductionTo
<1>7. m \in 0 .. m /\ i + 1 + m = n
  BY <1>0, <1>3
<1>. QED  BY <1>0, <1>6, <1>7 DEF A

\* The component the walk is at, and what it holds.
WalkInv ==
  /\ tree \in Trees /\ rest \in Comps /\ rel.comps \in Comps
  /\ fd \in Opened
  /\ rest # <<>> =>
       /\ fd \in Dirs
       /\ Len(rest) <= Len(rel.comps)
       /\ \A j \in 1 .. Len(rest) : rest[j] = rel.comps[Len(rel.comps) - Len(rest) + j]
       /\ quiet => fd = Reached(tree, rel.comps)[Len(rel.comps) - Len(rest)]
  /\ quiet => kernel = Openat2(tree, rel)
  /\ WalkAgrees

\* One turn of the loop of walk_open reaches what openat2 reaches, or it is
\* refused, and then openat2 refuses the name.
LEMMA WalkTurn ==
  ASSUME WalkInv, WalkNext
  PROVE  WalkInv'
<1>1. PICK n \in Nat, m \in Nat \ {0} : n = Len(rel.comps) /\ m = Len(rest) /\ m <= n
  <2>1. rest \in Comps /\ rel.comps \in Comps /\ rest # <<>> /\ Len(rest) <= Len(rel.comps)
    BY DEF WalkInv, WalkNext
  <2>2. Len(rest) \in Nat \ {0} /\ Len(rel.comps) \in Nat
    BY <2>1 DEF Comps
  <2>. QED  BY <2>1, <2>2
<1>2. PICK i \in 0 .. n : i = n - m /\ i < n /\ i + 1 \in 1 .. n
  <2>1. n - m \in 0 .. n /\ n - m < n /\ (n - m) + 1 \in 1 .. n
    BY <1>1
  <2>. QED  BY <2>1
<1>3. PICK c \in Comps, r \in Comps : c = rel.comps /\ r = rest
  BY DEF WalkInv
<1>4. PICK name \in Names \cup {Dot} : name = Head(r) /\ name = c[i + 1]
  <2>1. 1 \in 1 .. m
    BY <1>1
  <2>2. r[1] = c[i + 1]
    BY <1>1, <1>2, <1>3, <2>1 DEF WalkInv, WalkNext
  <2>3. Head(r) = r[1] /\ r[1] \in Names \cup {Dot}
    BY <1>1, <1>3, <2>1 DEF Comps
  <2>. QED  BY <2>2, <2>3
<1>5. /\ fd \in Dirs /\ tree \in Trees
      /\ fd' = IF name = Dot THEN fd ELSE OpenAt(tree, fd, name, m > 1)
      /\ rest' = IF fd' = Denied THEN <<>> ELSE Tail(r)
      /\ UNCHANGED <<tree, rel, kernel, quiet, starved, opens>>
  BY <1>1, <1>3, <1>4 DEF WalkInv, WalkNext
<1>6. PICK got : got = Reached(tree, c)
  OBVIOUS
<1>7. \A k \in 1 .. n : got[k] = Enter(tree, got[k - 1], c[k])
  BY <1>1, <1>3, <1>5, <1>6, ReachedIs
<1>8. quiet => got[i + 1] = Enter(tree, fd, name)
  <2>1. quiet => got[i] = fd
    BY <1>1, <1>2, <1>3, <1>6 DEF WalkInv, WalkNext
  <2>2. (i + 1) - 1 = i
    BY <1>2
  <2>. QED  BY <1>2, <1>4, <1>7, <2>1, <2>2
<1>9. ASSUME quiet
      PROVE  kernel = IF rel.slash /\ got[n] \notin Dirs THEN Denied ELSE got[n]
  BY <1>1, <1>3, <1>6, <1>9 DEF WalkInv, Openat2
<1>10. name # Dot => tree[fd][name] \in Entries
  BY <1>5 DEF Trees
<1>11. CASE fd' = Denied
  <2>1. name # Dot /\ OpenAt(tree, fd, name, m > 1) = Denied
    BY <1>5, <1>11, TreeAssumption
  <2>2. \/ Enter(tree, fd, name) = Denied
        \/ m > 1 /\ Enter(tree, fd, name) \in Files
    BY <1>5, <1>10, <2>1, TreeAssumption DEF OpenAt, Enter, Entries
  <2>3. ASSUME quiet
        PROVE  kernel = Denied
    <3>1. Enter(tree, fd, name) \notin Dirs
      BY <2>2, FilesApart, TreeAssumption
    <3>2. got[i + 1] \notin Dirs
      BY <1>8, <2>3, <3>1
    <3>3. CASE i + 1 < n
      <4>1. i + 1 \in 0 .. Len(c) /\ i + 1 < Len(c)
        BY <1>1, <1>2, <1>3, <3>3
      <4>2. got[n] = Denied
        BY <1>1, <1>3, <1>5, <1>6, <3>2, <4>1, DeniedStays
      <4>. QED  BY <1>9, <2>3, <4>2
    <3>4. CASE i + 1 = n
      <4>1. ~(m > 1)
        BY <1>1, <1>2, <3>4
      <4>2. got[n] = Denied
        BY <1>8, <2>2, <2>3, <3>4, <4>1
      <4>. QED  BY <1>9, <2>3, <4>2
    <3>. QED  BY <1>2, <3>3, <3>4
  <2>4. rest' = <<>> /\ <<>> \in Comps /\ fd' \in Opened
    BY <1>5, <1>11 DEF Comps, Opened
  <2>5. rel'.comps \in Comps /\ (quiet' => kernel' = Openat2(tree', rel'))
    BY <1>5 DEF WalkInv
  <2>6. WalkAgrees'
    BY <1>5, <1>11, <2>3 DEF WalkAgrees
  <2>. QED  BY <1>5, <2>4, <2>5, <2>6 DEF WalkInv
<1>12. CASE fd' # Denied
  <2>1. fd' = Enter(tree, fd, name) /\ fd' \in Opened /\ (m > 1 => fd' \in Dirs)
    <3>1. CASE name = Dot
      BY <1>5, <3>1 DEF Enter, Opened
    <3>2. CASE name # Dot
      <4>1. fd' = OpenAt(tree, fd, name, m > 1)
        BY <1>5, <3>2
      <4>. QED  BY <1>5, <1>10, <1>12, <3>2, <4>1 DEF OpenAt, Enter, Entries, Opened
    <3>. QED  BY <3>1, <3>2
  <2>2. PICK q : q = Tail(r)
    OBVIOUS
  <2>3. q \in Comps /\ Len(q) = m - 1 /\ \A j \in 1 .. m - 1 : q[j] = r[j + 1]
    <3>1. r \in Seq(Names \cup {Dot}) /\ r # <<>> /\ Len(r) = m
      BY <1>1, <1>3 DEF Comps, WalkNext
    <3>2. q \in Seq(Names \cup {Dot}) /\ Len(q) = Len(r) - 1 /\ \A j \in 1 .. Len(q) : q[j] = r[j + 1]
      BY <2>2, <3>1, HeadTailProperties
    <3>. QED  BY <3>1, <3>2 DEF Comps
  <2>4. rest' = q /\ tree' = tree /\ rel' = rel /\ rel'.comps = c /\ quiet' = quiet /\ kernel' = kernel
    BY <1>3, <1>5, <1>12, <2>2
  <2>5. CASE m > 1
    <3>1. fd' \in Dirs /\ Len(q) <= n
      BY <1>1, <2>1, <2>3, <2>5
    <3>2. ASSUME NEW j \in 1 .. m - 1
          PROVE  q[j] = c[n - Len(q) + j]
      <4>0. Len(q) = m - 1
        BY <2>3
      <4>1. j + 1 \in 1 .. m /\ n - m + (j + 1) = n - (m - 1) + j
        <5>1. PICK k \in 1 .. m : k = j + 1
          OBVIOUS
        <5>2. n - m + (j + 1) = n - (m - 1) + j
          OBVIOUS
        <5>. QED  BY <5>1, <5>2
      <4>2. r[j + 1] = c[n - m + (j + 1)]
        BY <1>1, <1>3, <4>1 DEF WalkInv, WalkNext
      <4>. QED  BY <2>3, <4>0, <4>1, <4>2
    <3>3. quiet => fd' = got[n - Len(q)]
      <4>1. n - Len(q) = i + 1
        BY <1>1, <1>2, <2>3
      <4>. QED  BY <1>8, <2>1, <4>1
    <3>4. q # <<>>
      BY <2>3, <2>5
    <3>5. WalkAgrees'
      BY <2>4, <3>4 DEF WalkAgrees
    <3>6. quiet' => kernel' = Openat2(tree', rel')
      BY <1>5 DEF WalkInv
    <3>7. /\ fd' \in Dirs /\ Len(q) <= Len(c)
          /\ \A j \in 1 .. Len(q) : q[j] = c[Len(c) - Len(q) + j]
          /\ quiet => fd' = Reached(tree, c)[Len(c) - Len(q)]
      <4>1. Len(q) = m - 1 /\ Len(c) = n
        BY <1>1, <1>3, <2>3
      <4>. QED  BY <1>6, <3>1, <3>2, <3>3, <4>1
    <3>8. /\ fd' \in Dirs /\ Len(rest') <= Len(rel'.comps)
          /\ \A j \in 1 .. Len(rest') : rest'[j] = rel'.comps[Len(rel'.comps) - Len(rest') + j]
          /\ quiet' => fd' = Reached(tree', rel'.comps)[Len(rel'.comps) - Len(rest')]
      BY <2>4, <3>7
    <3>9. tree' \in Trees /\ rest' \in Comps /\ rel'.comps \in Comps /\ fd' \in Opened
      BY <1>3, <1>5, <2>1, <2>3, <2>4
    <3>. QED  BY <3>5, <3>6, <3>8, <3>9 DEF WalkInv
  <2>6. CASE m = 1
    <3>1. q = <<>> /\ i + 1 = n
      BY <1>1, <1>2, <2>3, <2>6 DEF Comps
    <3>2. ASSUME quiet
          PROVE  fd' = kernel \/ (rel.slash /\ kernel = Denied /\ fd' \in Files)
      <4>1. fd' = got[n]
        BY <1>8, <2>1, <3>1, <3>2
      <4>. QED  BY <1>9, <1>12, <2>1, <3>2, <4>1 DEF Opened
    <3>3. WalkAgrees'
      BY <2>4, <3>2 DEF WalkAgrees
    <3>4. quiet' => kernel' = Openat2(tree', rel')
      BY <1>5 DEF WalkInv
    <3>. QED  BY <1>3, <1>5, <2>1, <2>3, <2>4, <3>1, <3>3, <3>4 DEF WalkInv
  <2>. QED  BY <1>1, <2>5, <2>6
<1>. QED  BY <1>11, <1>12

\* A name is opened: openat2 answers, or the walk begins at the root.
LEMMA WalkBegins ==
  ASSUME WalkInv, NEW r \in Rels, BeneathOpen(r)
  PROVE  WalkInv'
<1>1. r.comps \in Comps /\ Len(r.comps) \in Nat \ {0}
  <2>1. PICK k \in 1 .. MaxComps : r.comps \in [1 .. k -> Names \cup {Dot}]
    BY DEF Rels
  <2>2. PICK c : c = r.comps
    OBVIOUS
  <2>3. k \in Nat \ {0}
    OBVIOUS
  <2>4. c \in Seq(Names \cup {Dot}) /\ Len(c) = k
    BY <2>1, <2>2, <2>3
  <2>. QED  BY <2>2, <2>3, <2>4 DEF Comps
<1>2. PICK c \in Comps, n \in Nat \ {0} : c = r.comps /\ n = Len(c)
  BY <1>1
<1>3. tree \in Trees /\ tree' = tree /\ rel' = r /\ kernel' = Openat2(tree, r) /\ quiet'
  BY DEF WalkInv, BeneathOpen
<1>4. PICK got \in [0 .. n -> Opened] : got = Reached(tree, c) /\ got[0] = Root
  BY <1>2, <1>3, ReachedIs
<1>5. kernel' \in Opened
  <2>1. got[n] \in Opened
    BY <1>4
  <2>. QED  BY <1>2, <1>3, <1>4, <2>1 DEF Openat2, Opened
<1>6. CASE rest' = <<>> /\ (fd' = kernel' \/ (fd' = Denied /\ (r.long \/ starved')))
  <2>1. <<>> \in Comps /\ WalkAgrees'
    BY <1>3, <1>6 DEF Comps, WalkAgrees
  <2>2. fd' \in Opened
    BY <1>5, <1>6 DEF Opened
  <2>. QED  BY <1>2, <1>3, <1>6, <2>1, <2>2 DEF WalkInv
<1>7. CASE fd' = Root /\ rest' = r.comps
  <2>1. c # <<>> /\ WalkAgrees'
    <3>1. c # <<>>
      BY <1>2
    <3>. QED  BY <1>2, <1>7, <3>1 DEF WalkAgrees
  <2>2. n - n = 0 /\ \A j \in 1 .. n : n - n + j = j
    BY <1>2
  <2>3. Root \in Dirs /\ Root \in Opened
    BY TreeAssumption DEF Opened
  <2>. QED  BY <1>2, <1>3, <1>4, <1>7, <2>1, <2>2, <2>3 DEF WalkInv
<1>. QED  BY <1>6, <1>7 DEF BeneathOpen

\* The start: the root is open.
LEMMA WalkStarts == WalkInit => WalkInv
<1>. SUFFICES ASSUME WalkInit
              PROVE  WalkInv
  OBVIOUS
<1>1. tree \in Trees /\ Root \in Dirs
  BY TreeAssumption DEF WalkInit, Trees, Entries
<1>2. PICK c \in Comps : c = <<Dot>> /\ Len(c) = 1 /\ c[1] = Dot
  <2>1. <<Dot>> \in Seq(Names \cup {Dot})
    OBVIOUS
  <2>. QED  BY <2>1 DEF Comps
<1>3. Reached(tree, c)[1] = Enter(tree, Root, Dot)
  <2>1. 1 \in 1 .. Len(c) /\ 1 - 1 = 0
    BY <1>2
  <2>. QED  BY <1>1, <1>2, <2>1, ReachedIs
<1>4. Openat2(tree, rel) = Root
  BY <1>1, <1>2, <1>3 DEF WalkInit, Openat2, Enter
<1>5. rest = <<>> /\ <<>> \in Comps
  BY DEF WalkInit, Comps
<1>6. fd = Root /\ kernel = Root /\ rel.comps = c /\ Root \in Opened
  BY <1>1, <1>2 DEF WalkInit, Opened
<1>. QED  BY <1>1, <1>2, <1>4, <1>5, <1>6 DEF WalkInv, WalkAgrees

\* What opening beneath the root keeps.
LEMMA WalkInvHolds == Spec => []WalkInv
<1>1. Init => WalkInv
  BY WalkStarts DEF Init
<1>2. WalkInv /\ [TypingMoves \/ WalkMoves \/ DirsMove]_vars => WalkInv'
  <2>. SUFFICES ASSUME WalkInv, [TypingMoves \/ WalkMoves \/ DirsMove]_vars
                PROVE  WalkInv'
    OBVIOUS
  <2>1. ASSUME NEW r \in Rels, BeneathOpen(r)
        PROVE  WalkInv'
    BY <2>1, WalkBegins
  <2>2. CASE WalkNext
    BY <2>2, WalkTurn
  <2>5. CASE WalkStarves
    <3>1. <<>> \in Comps /\ fd' \in Opened
      BY <2>5 DEF WalkStarves, Comps, Opened
    <3>. QED  BY <2>5, <3>1 DEF WalkInv, WalkStarves, WalkAgrees
  <2>3. ASSUME NEW d \in Dirs, NEW n \in Names, NEW e \in {Tree[d][n], Link, Empty}, EditEntry(d, n, e)
        PROVE  WalkInv'
    <3>1. e \in Entries
      BY TreeAssumption DEF Entries
    <3>2. tree' \in Trees
      BY <2>3, <3>1 DEF WalkInv, Trees, EditEntry
    <3>. QED  BY <2>3, <3>2 DEF WalkInv, EditEntry, WalkAgrees
  <2>4. CASE UNCHANGED walkVars
    BY <2>4 DEF walkVars, WalkInv, WalkAgrees
  <2>. QED  BY <2>1, <2>2, <2>3, <2>4, <2>5 DEF WalkMoves, WalkStep, TypingMoves, DirsMove, vars
<1>. QED  BY <1>1, <1>2, PTL DEF Spec

\* walk_open of phronesis_beneath_open: however the entries change between its
\* openat() calls, its descriptor refers to nothing outside the tree.
THEOREM WalkConfinedHolds == Spec => []WalkConfined
<1>1. WalkInv => WalkConfined
  BY DEF WalkInv, WalkConfined, Opened
<1>. QED  BY <1>1, WalkInvHolds, PTL

\* phronesis_beneath_open: on a tree that nobody changes meanwhile the walk
\* and openat2 give the same answer, but for a file named with a slash, a name
\* that the buffer of the walk has no room for, and a call that gets no
\* descriptor.
THEOREM WalkAgreesHolds == Spec => []WalkAgrees
<1>1. WalkInv => WalkAgrees
  BY DEF WalkInv
<1>. QED  BY <1>1, WalkInvHolds, PTL

-----------------------------------------------------------------------------
(* The directories of a handle. *)

Plans   == {Needed(State, r) : r \in Runtimes \ {Tmp}}
Working == {"stat", "mkdir", "again"}

\* Every level but the first comes after the level above it.
Ordered(N) ==
  \A i \in 1 .. Len(N) : Len(N[i]) = 1 \/ \E j \in 1 .. i - 1 : N[j] = Parent(N[i])

\* The levels of one path.
LEMMA LevelsIs ==
  ASSUME NEW S, NEW p \in Seq(S)
  PROVE  /\ Levels(p) \in Seq(Seq(S)) /\ Len(Levels(p)) = Len(p)
         /\ Ordered(Levels(p))
<1>1. PICK n \in Nat : n = Len(p)
  OBVIOUS
<1>2. PICK N : N = [i \in 1 .. n |-> SubSeq(p, 1, i)]
  OBVIOUS
<1>3. ASSUME NEW i \in 1 .. n
      PROVE  SubSeq(p, 1, i) \in Seq(S) /\ Len(SubSeq(p, 1, i)) = i
  <2>1. PICK v : v = SubSeq(p, 1, i)
    OBVIOUS
  <2>. QED  BY <1>1, <2>1, FirstPart
<1>4. N \in [1 .. n -> Seq(S)]
  BY <1>2, <1>3
<1>5. N \in Seq(Seq(S)) /\ Len(N) = n
  BY <1>4
<1>6. N = Levels(p)
  BY <1>1, <1>2 DEF Levels
<1>7. ASSUME NEW i \in 1 .. n, Len(N[i]) # 1
      PROVE  \E j \in 1 .. i - 1 : N[j] = Parent(N[i])
  <2>1. PICK v \in Seq(S) : v = N[i] /\ v = SubSeq(p, 1, i) /\ Len(v) = i /\ \A k \in 1 .. i : v[k] = p[k]
    <3>1. PICK v : v = SubSeq(p, 1, i)
      OBVIOUS
    <3>2. v = N[i]
      BY <1>2, <3>1
    <3>. QED  BY <1>1, <3>1, <3>2, FirstPart
  <2>2. PICK j \in 1 .. n : j = i - 1 /\ j \in 1 .. i - 1
    <3>1. i # 1
      BY <1>7, <2>1
    <3>. QED  BY <3>1
  <2>3. PICK u \in Seq(S) : u = N[j] /\ Len(u) = j /\ \A k \in 1 .. j : u[k] = p[k]
    <3>1. PICK u : u = SubSeq(p, 1, j)
      OBVIOUS
    <3>2. u = N[j]
      BY <1>2, <3>1
    <3>. QED  BY <1>1, <3>1, <3>2, FirstPart
  <2>4. PICK w \in Seq(S) : w = SubSeq(v, 1, j) /\ Len(w) = j /\ \A k \in 1 .. j : w[k] = v[k]
    <3>1. PICK w : w = SubSeq(v, 1, j)
      OBVIOUS
    <3>2. j \in 0 .. Len(v)
      BY <2>1, <2>2
    <3>3. w \in Seq(S) /\ Len(w) = j /\ \A k \in 1 .. j : w[k] = v[k]
      BY <3>1, <3>2, FirstPart
    <3>. QED  BY <3>1, <3>3
  <2>5. Parent(v) = w
    BY <2>1, <2>2, <2>4 DEF Parent, Front
  <2>6. u = w
    <3>1. \A k \in 1 .. j : u[k] = w[k]
      <4>1. \A k \in 1 .. j : k \in 1 .. i
        BY <2>2
      <4>. QED  BY <2>1, <2>3, <2>4, <4>1
    <3>2. Len(u) = Len(w)
      BY <2>3, <2>4
    <3>. QED  BY <2>3, <3>1, <3>2, SeqEqual
  <2>. QED  BY <2>1, <2>2, <2>3, <2>5, <2>6
<1>. QED  BY <1>1, <1>5, <1>6, <1>7 DEF Ordered

\* One list of levels after another.
LEMMA OrderedConcat ==
  ASSUME NEW S, NEW M \in Seq(Seq(S)), NEW N \in Seq(Seq(S)), Ordered(M), Ordered(N)
  PROVE  /\ M \o N \in Seq(Seq(S)) /\ Len(M \o N) = Len(M) + Len(N)
         /\ Ordered(M \o N)
<1>1. PICK m \in Nat, n \in Nat : m = Len(M) /\ n = Len(N)
  OBVIOUS
<1>2. PICK L \in Seq(Seq(S)) :
        /\ L = M \o N /\ Len(L) = m + n
        /\ \A i \in 1 .. m : L[i] = M[i]
        /\ \A i \in 1 .. n : L[m + i] = N[i]
  <2>1. PICK L : L = M \o N
    OBVIOUS
  <2>2. L \in Seq(Seq(S)) /\ Len(L) = m + n
    BY <1>1, <2>1
  <2>3. \A i \in 1 .. m : L[i] = M[i]
    BY <1>1, <2>1
  <2>4. \A i \in 1 .. n : L[m + i] = N[i]
    BY <1>1, <2>1
  <2>. QED  BY <2>1, <2>2, <2>3, <2>4
<1>3. ASSUME NEW i \in 1 .. m + n, Len(L[i]) # 1
      PROVE  \E j \in 1 .. i - 1 : L[j] = Parent(L[i])
  <2>1. CASE i \in 1 .. m
    <3>1. PICK j \in 1 .. i - 1 : M[j] = Parent(M[i])
      BY <1>1, <1>2, <1>3, <2>1 DEF Ordered
    <3>2. j \in 1 .. m
      BY <2>1
    <3>. QED  BY <1>2, <2>1, <3>1, <3>2
  <2>2. CASE i \notin 1 .. m
    <3>1. PICK k \in 1 .. n : i = m + k
      <4>1. i - m \in 1 .. n /\ i = m + (i - m)
        BY <2>2
      <4>. QED  BY <4>1
    <3>2. L[i] = N[k]
      BY <1>2, <3>1
    <3>3. PICK j \in 1 .. k - 1 : N[j] = Parent(N[k])
      BY <1>1, <1>3, <3>2 DEF Ordered
    <3>4. j \in 1 .. n /\ m + j \in 1 .. i - 1
      BY <3>1
    <3>. QED  BY <1>2, <3>2, <3>3, <3>4
  <2>. QED  BY <2>1, <2>2
<1>. QED  BY <1>1, <1>2, <1>3 DEF Ordered

\* Short sequences.
LEMMA ShortSeqs ==
  ASSUME NEW S, NEW x \in S, NEW y \in S, NEW z \in S
  PROVE  /\ <<x>> \in Seq(S)
         /\ <<x, y>> \in Seq(S) /\ Len(<<x, y>>) = 2
         /\ <<x, y, z>> \in Seq(S)
<1>1. <<x>> \in Seq(S)
  OBVIOUS
<1>2. <<x, y>> \in Seq(S) /\ Len(<<x, y>>) = 2
  OBVIOUS
<1>3. <<x, y, z>> \in Seq(S)
  OBVIOUS
<1>. QED  BY <1>1, <1>2, <1>3

\* What supervisor_open ensures, in an order in which it can be ensured.
LEMMA PlanIs ==
  ASSUME NEW N \in Plans
  PROVE  /\ N \in Seq(AllDirs) /\ Len(N) \in Nat \ {0}
         /\ Ordered(N)
<1> DEFINE S == {"top", "state", "run", "log", "phronesis", "agents"}
<1>1. PICK r : r \in Runtimes \ {Tmp} /\ N = Needed(State, r)
  BY DEF Plans
<1>2. /\ r \in Seq(S) /\ State \in Seq(S) /\ Len(State) = 2
      /\ <<"log">> \in Seq(S) /\ <<"phronesis">> \in Seq(S) /\ <<"agents">> \in Seq(S)
  <2>1. r = <<"top", "state", "run">> \/ r = <<"top", "run">>
    BY <1>1 DEF Runtimes
  <2>2. /\ "top" \in S /\ "state" \in S /\ "run" \in S
        /\ "log" \in S /\ "phronesis" \in S /\ "agents" \in S
    OBVIOUS
  <2>. HIDE DEF S
  <2>3. r \in Seq(S)
    BY <2>1, <2>2, ShortSeqs
  <2>4. State \in Seq(S) /\ Len(State) = 2
    BY <2>2, ShortSeqs DEF State
  <2>5. <<"log">> \in Seq(S) /\ <<"phronesis">> \in Seq(S) /\ <<"agents">> \in Seq(S)
    BY <2>2, ShortSeqs
  <2>. QED  BY <2>3, <2>4, <2>5
<1>. HIDE DEF S
<1>0. \A x, y \in Seq(S) : x \o y \in Seq(S)
  OBVIOUS
<1>3. PICK p \in Seq(S) : p = State \o <<"log">>
  BY <1>0, <1>2
<1>4. PICK q \in Seq(S) : q = State \o <<"phronesis">>
  BY <1>0, <1>2
<1>5. PICK a \in Seq(S) : a = r \o <<"agents">>
  BY <1>0, <1>2
<1> DEFINE Good(L) == L \in Seq(Seq(S)) /\ Ordered(L)
<1>6. \A x \in Seq(S) : Good(Levels(x)) /\ Len(Levels(x)) = Len(x)
  BY LevelsIs
<1>7. ASSUME NEW L, NEW M, Good(L), Good(M)
      PROVE  Good(L \o M) /\ Len(L \o M) = Len(L) + Len(M)
  BY <1>7, OrderedConcat
<1>8. PICK I : I = Needed(State, r)
  OBVIOUS
<1>10. Good(I) /\ Len(I) \in Nat \ {0}
  <2>1. PICK A : A = Levels(State) /\ Good(A) /\ Len(A) = 2
    BY <1>2, <1>6
  <2>2. PICK B : B = Levels(p) /\ Good(B) /\ Len(B) \in Nat
    BY <1>6
  <2>3. PICK C : C = Levels(q) /\ Good(C) /\ Len(C) \in Nat
    BY <1>6
  <2>4. PICK D : D = Levels(r) /\ Good(D) /\ Len(D) \in Nat
    BY <1>2, <1>6
  <2>5. PICK E : E = Levels(a) /\ Good(E) /\ Len(E) \in Nat
    BY <1>6
  <2>. HIDE DEF Good
  <2>6. PICK F : F = A \o B /\ Good(F) /\ Len(F) = 2 + Len(B)
    BY <1>7, <2>1, <2>2
  <2>7. PICK G : G = F \o C /\ Good(G) /\ Len(G) = Len(F) + Len(C)
    BY <1>7, <2>3, <2>6
  <2>8. PICK H : H = G \o D /\ Good(H) /\ Len(H) = Len(G) + Len(D)
    BY <1>7, <2>4, <2>7
  <2>9. Good(H \o E) /\ Len(H \o E) = Len(H) + Len(E)
    BY <1>7, <2>5, <2>8
  <2>10. I = H \o E
    BY <1>3, <1>4, <1>5, <1>8, <2>1, <2>2, <2>3, <2>4, <2>5, <2>6, <2>7, <2>8 DEF Needed
  <2>11. 2 + Len(B) + Len(C) + Len(D) + Len(E) \in Nat \ {0}
    BY <2>2, <2>3, <2>4, <2>5
  <2>. QED  BY <2>6, <2>7, <2>8, <2>9, <2>10, <2>11
<1>9. N = I
  BY <1>1, <1>8
<1>11. I \in Seq(AllDirs)
  <2>1. ASSUME NEW i \in 1 .. Len(I)
        PROVE  I[i] \in AllDirs
    <3>1. I[i] \in ToSet(I)
      BY <1>10 DEF ToSet
    <3>2. ToSet(I) \in {ToSet(Needed(State, x)) : x \in Runtimes \ {Tmp}}
      BY <1>1, <1>9
    <3>. QED  BY <3>1, <3>2 DEF AllDirs
  <2>2. PICK n \in Nat : n = Len(I)
    BY <1>10
  <2>3. I \in [1 .. n -> AllDirs]
    <3>1. DOMAIN I = 1 .. n /\ I = [i \in 1 .. n |-> I[i]]
      BY <1>10, <2>2
    <3>. QED  BY <2>1, <2>2, <3>1
  <2>. QED  BY <2>3
<1>. QED  BY <1>9, <1>10, <1>11

\* Nothing but the first level is there at first, and what is there stays.
TreeInv ==
  /\ fs \in [AllDirs -> {"none", "dir", "file"}]
  /\ \A d \in AllDirs : Len(d) = 1 => fs[d] = "dir"

\* Handle h is at level k of the plan N.
AtLevel(h, N, k) ==
  /\ Len(todo[h]) = Len(N) - k + 1
  /\ \A j \in 1 .. Len(N) - k + 1 : todo[h][j] = N[k + j - 1]
  /\ wants[h] = ToSet(N)
  /\ \A i \in 1 .. k - 1 : fs[N[i]] = "dir"
  /\ at[h] = "again" => fs[N[k]] # "none"

HandleInv(h) ==
  /\ todo[h] \in Seq(AllDirs) /\ wants[h] \in SUBSET AllDirs
  /\ at[h] \in Working => \E N \in Plans : \E k \in 1 .. Len(N) : AtLevel(h, N, k)
  /\ at[h] = "open" => \A d \in wants[h] : fs[d] = "dir"
  /\ at[h] = "failed" => h \in faulted \/ \E d \in wants[h] : fs[d] = "file"

DirsInv ==
  /\ TreeInv
  /\ at \in [Openers -> Working \cup {"closed", "open", "failed", "refused"}]
  /\ todo \in [Openers -> Seq(AllDirs)] /\ wants \in [Openers -> SUBSET AllDirs]
  /\ \A h \in Openers : HandleInv(h)

\* The tree only grows.
TreeGrows == \A d \in AllDirs : fs[d] # "none" => fs'[d] = fs[d]

\* What others create does not disturb a handle.
LEMMA HandleStays ==
  ASSUME DirsInv, TreeGrows, NEW h \in Openers,
         todo'[h] = todo[h], at'[h] = at[h], wants'[h] = wants[h], h \in faulted => h \in faulted'
  PROVE  HandleInv(h)'
<1>1. HandleInv(h)
  BY DEF DirsInv
<1>2. ASSUME NEW N \in Plans, NEW k \in 1 .. Len(N), AtLevel(h, N, k)
      PROVE  AtLevel(h, N, k)'
  <2>1. N \in Seq(AllDirs) /\ Len(N) \in Nat
    BY PlanIs
  <2>2. k \in Nat /\ \A i \in 1 .. k : N[i] \in AllDirs
    BY <2>1
  <2>3. \A i \in 1 .. k - 1 : fs'[N[i]] = "dir"
    <3>. TAKE i \in 1 .. k - 1
    <3>1. i \in 1 .. k
      BY <2>2
    <3>2. fs[N[i]] = "dir"
      BY <1>2 DEF AtLevel
    <3>. QED  BY <2>2, <3>1, <3>2 DEF TreeGrows
  <2>4. at[h] = "again" => fs'[N[k]] # "none"
    <3>1. k \in 1 .. k
      OBVIOUS
    <3>2. at[h] = "again" => fs[N[k]] # "none"
      BY <1>2 DEF AtLevel
    <3>. QED  BY <2>2, <3>1, <3>2 DEF TreeGrows
  <2>. QED  BY <1>2, <2>3, <2>4 DEF AtLevel
<1>3. at'[h] = "open" => \A d \in wants'[h] : fs'[d] = "dir"
  BY <1>1 DEF HandleInv, TreeGrows
<1>4. at'[h] = "failed" => h \in faulted' \/ \E d \in wants'[h] : fs'[d] = "file"
  BY <1>1 DEF HandleInv, TreeGrows
<1>. QED  BY <1>1, <1>2, <1>3, <1>4 DEF HandleInv

\* A step of one handle.
LEMMA HandleMoves ==
  ASSUME DirsInv, TreeGrows, TreeInv', NEW h \in Openers, NEW t, NEW a, NEW w,
         todo' = [todo EXCEPT ![h] = t], at' = [at EXCEPT ![h] = a], wants' = [wants EXCEPT ![h] = w],
         a \in Working \cup {"closed", "open", "failed", "refused"},
         faulted \ {h} \subseteq faulted', HandleInv(h)'
  PROVE  DirsInv'
<1>1. /\ todo'[h] = t /\ at'[h] = a /\ wants'[h] = w
      /\ \A g \in Openers : g # h => /\ todo'[g] = todo[g] /\ at'[g] = at[g] /\ wants'[g] = wants[g]
                                     /\ g \in faulted => g \in faulted'
  BY DEF DirsInv
<1>2. t \in Seq(AllDirs) /\ w \in SUBSET AllDirs
  BY <1>1 DEF HandleInv
<1>3. /\ at' \in [Openers -> Working \cup {"closed", "open", "failed", "refused"}]
      /\ todo' \in [Openers -> Seq(AllDirs)] /\ wants' \in [Openers -> SUBSET AllDirs]
  BY <1>2 DEF DirsInv
<1>4. \A g \in Openers : HandleInv(g)'
  BY <1>1, HandleStays
<1>. QED  BY <1>3, <1>4 DEF DirsInv

\* The level a handle is at, and what is above it.
LEMMA LevelIs ==
  ASSUME DirsInv, NEW h \in Openers, at[h] \in Working
  PROVE  \E N \in Plans : \E k \in 1 .. Len(N) :
           /\ AtLevel(h, N, k) /\ k \in Nat /\ Len(N) \in Nat
           /\ N \in Seq(AllDirs)
           /\ Head(todo[h]) = N[k] /\ N[k] \in AllDirs /\ N[k] \in wants[h]
           /\ fs[N[k]] = "none" => fs[Parent(N[k])] = "dir"
<1>1. PICK N \in Plans : \E k \in 1 .. Len(N) : AtLevel(h, N, k)
  BY DEF DirsInv, HandleInv
<1>2. PICK n \in Nat : n = Len(N) /\ N \in Seq(AllDirs) /\ Ordered(N)
  BY PlanIs
<1>3. PICK k \in 1 .. n : AtLevel(h, N, k)
  BY <1>1, <1>2
<1>4. N[k] \in AllDirs /\ k \in Nat
  BY <1>2
<1>5. N[k] \in wants[h]
  BY <1>2, <1>3 DEF AtLevel, ToSet
<1>6. Head(todo[h]) = N[k]
  <2>1. PICK t \in Seq(AllDirs) : t = todo[h]
    BY DEF DirsInv
  <2>2. 1 \in 1 .. n - k + 1 /\ k + 1 - 1 = k
    OBVIOUS
  <2>3. t[1] = N[k] /\ Len(t) = n - k + 1
    BY <1>2, <1>3, <2>1, <2>2 DEF AtLevel
  <2>. QED  BY <2>1, <2>3
<1>7. ASSUME fs[N[k]] = "none"
      PROVE  fs[Parent(N[k])] = "dir"
  <2>1. Len(N[k]) # 1
    BY <1>4, <1>7 DEF DirsInv, TreeInv
  <2>2. PICK j \in 1 .. k - 1 : N[j] = Parent(N[k])
    BY <1>2, <2>1 DEF Ordered
  <2>. QED  BY <1>3, <2>2 DEF AtLevel
<1>. QED  BY <1>2, <1>3, <1>4, <1>5, <1>6, <1>7

\* The level is there: the handle goes on to the next, or it is open.
LEMMA EnsuredKeeps ==
  ASSUME DirsInv, TreeGrows, TreeInv', NEW h \in Openers, at[h] \in Working,
         Ensured(h), wants' = wants, fs'[Head(todo[h])] = "dir"
  PROVE  DirsInv'
<1>1. PICK N \in Plans, k \in Nat :
        /\ k \in 1 .. Len(N) /\ AtLevel(h, N, k) /\ N \in Seq(AllDirs)
        /\ Head(todo[h]) = N[k]
  BY LevelIs
<1>2. PICK n \in Nat : n = Len(N) /\ k <= n /\ k >= 1
  BY <1>1
<1>3. PICK t \in Seq(AllDirs) : t = todo[h]
  BY DEF DirsInv
<1>4. Len(t) = n - k + 1 /\ \A j \in 1 .. n - k + 1 : t[j] = N[k + j - 1]
  BY <1>1, <1>2, <1>3 DEF AtLevel
<1>5. PICK q \in Seq(AllDirs) : q = Tail(t) /\ Len(q) = n - k /\ \A j \in 1 .. n - k : q[j] = t[j + 1]
  <2>1. t # <<>> /\ Len(t) - 1 = n - k
    <3>1. Len(t) # 0
      BY <1>2, <1>4
    <3>. QED  BY <1>4, <3>1
  <2>2. Tail(t) \in Seq(AllDirs) /\ Len(Tail(t)) = Len(t) - 1 /\ \A j \in 1 .. Len(Tail(t)) : Tail(t)[j] = t[j + 1]
    BY <2>1, HeadTailProperties
  <2>. QED  BY <2>1, <2>2
<1>6. PICK a : a = IF q = <<>> THEN "open" ELSE "stat"
  OBVIOUS
<1>7. todo' = [todo EXCEPT ![h] = q] /\ at' = [at EXCEPT ![h] = a] /\ faulted' = faulted
  BY <1>3, <1>5, <1>6 DEF Ensured
<1>8. wants' = [wants EXCEPT ![h] = wants[h]] /\ wants[h] \in SUBSET AllDirs
  BY DEF DirsInv
<1>9. todo'[h] = q /\ at'[h] = a /\ wants'[h] = wants[h]
  BY <1>7, <1>8 DEF DirsInv
<1>10. \A i \in 1 .. k : fs'[N[i]] = "dir"
  <2>. TAKE i \in 1 .. k
  <2>1. CASE i = k
    BY <1>1, <2>1
  <2>2. CASE i # k
    <3>1. i \in 1 .. k - 1 /\ i \in 1 .. n
      BY <1>2, <2>2
    <3>2. fs[N[i]] = "dir" /\ N[i] \in AllDirs
      BY <1>1, <1>2, <3>1 DEF AtLevel
    <3>. QED  BY <3>2 DEF TreeGrows
  <2>. QED  BY <2>1, <2>2
<1>11. CASE k = n
  <2>1. q = <<>>
    BY <1>5, <1>11
  <2>2. wants[h] = ToSet(N)
    BY <1>1 DEF AtLevel
  <2>3. \A d \in wants[h] : fs'[d] = "dir"
    <3>1. \A i \in DOMAIN N : fs'[N[i]] = "dir"
      BY <1>1, <1>2, <1>10, <1>11
    <3>. QED  BY <2>2, <3>1 DEF ToSet
  <2>4. HandleInv(h)'
    BY <1>5, <1>6, <1>8, <1>9, <2>1, <2>3 DEF HandleInv, Working
  <2>5. a = "open"
    BY <1>6, <2>1
  <2>. QED  BY <1>7, <1>8, <2>4, <2>5, HandleMoves DEF Working
<1>12. CASE k # n
  <2>1. q # <<>> /\ a = "stat"
    <3>1. Len(q) # 0
      BY <1>2, <1>5, <1>12
    <3>2. q # <<>>
      BY <3>1
    <3>. QED  BY <1>6, <3>2
  <2>2. PICK l \in 1 .. n : l = k + 1
    BY <1>2, <1>12
  <2>3. \A j \in 1 .. n - l + 1 : q[j] = N[l + j - 1]
    <3>. TAKE j \in 1 .. n - l + 1
    <3>1. j \in 1 .. n - k /\ j + 1 \in 1 .. n - k + 1 /\ k + (j + 1) - 1 = l + j - 1
      BY <2>2
    <3>. QED  BY <1>4, <1>5, <3>1
  <2>4. Len(q) = n - l + 1 /\ \A i \in 1 .. l - 1 : i \in 1 .. k
    BY <1>5, <2>2
  <2>5. wants'[h] = ToSet(N)
    BY <1>1, <1>9 DEF AtLevel
  <2>6. AtLevel(h, N, l)'
    BY <1>2, <1>9, <1>10, <2>1, <2>3, <2>4, <2>5 DEF AtLevel
  <2>7. HandleInv(h)'
    BY <1>2, <1>5, <1>8, <1>9, <2>1, <2>6 DEF HandleInv
  <2>. QED  BY <1>7, <1>8, <2>1, <2>7, HandleMoves DEF Working
<1>. QED  BY <1>11, <1>12

\* The open fails, over a file that is in the way or a call that failed.
LEMMA GivesUpKeeps ==
  ASSUME DirsInv, NEW h \in Openers, wants' = wants, fs' = fs,
         \/ GivesUp(h) /\ \E d \in wants[h] : fs[d] = "file"
         \/ Faults(h)
  PROVE  DirsInv'
<1>1. /\ todo' = [todo EXCEPT ![h] = todo[h]] /\ wants' = [wants EXCEPT ![h] = wants[h]]
      /\ at' = [at EXCEPT ![h] = "failed"]
      /\ todo[h] \in Seq(AllDirs) /\ wants[h] \in SUBSET AllDirs
      /\ faulted \ {h} \subseteq faulted'
      /\ h \in faulted' \/ \E d \in wants[h] : fs[d] = "file"
  BY DEF DirsInv, GivesUp, Faults
<1>2. todo'[h] = todo[h] /\ at'[h] = "failed" /\ wants'[h] = wants[h]
  BY <1>1 DEF DirsInv
<1>3. HandleInv(h)'
  BY <1>1, <1>2 DEF HandleInv, Working
<1>4. TreeGrows /\ TreeInv'
  BY DEF TreeGrows, TreeInv, DirsInv
<1>. QED  BY <1>1, <1>3, <1>4, HandleMoves

\* A handle stays at its level and tries something else there.
LEMMA StaysKeeps ==
  ASSUME DirsInv, NEW h \in Openers, at[h] \in Working, NEW a \in Working,
         at' = [at EXCEPT ![h] = a], UNCHANGED <<todo, wants, fs, faulted>>,
         a = "again" => fs[Head(todo[h])] # "none"
  PROVE  DirsInv'
<1>1. PICK N \in Plans : \E k \in 1 .. Len(N) : AtLevel(h, N, k) /\ Head(todo[h]) = N[k]
  BY LevelIs
<1>2. PICK k \in 1 .. Len(N) : AtLevel(h, N, k) /\ Head(todo[h]) = N[k]
  BY <1>1
<1>3. /\ todo' = [todo EXCEPT ![h] = todo[h]] /\ wants' = [wants EXCEPT ![h] = wants[h]]
      /\ at'[h] = a
      /\ todo[h] \in Seq(AllDirs) /\ wants[h] \in SUBSET AllDirs
  BY DEF DirsInv
<1>4. AtLevel(h, N, k)'
  BY <1>2, <1>3 DEF AtLevel
<1>5. HandleInv(h)'
  BY <1>3, <1>4 DEF HandleInv, Working
<1>6. TreeGrows /\ TreeInv'
  BY DEF TreeGrows, TreeInv, DirsInv
<1>. QED  BY <1>3, <1>5, <1>6, HandleMoves

\* mkdir_one: stat(), and stat() again after EEXIST.
LEMMA StatKeeps ==
  ASSUME DirsInv, NEW h \in Openers, Stat(h)
  PROVE  DirsInv'
<1>1. at[h] \in Working /\ UNCHANGED <<fs, wants>>
  BY DEF Stat, Working
<1>2. PICK d : d = Head(todo[h]) /\ d \in AllDirs /\ d \in wants[h] /\ (at[h] = "again" => fs[d] # "none")
  <2>1. PICK N \in Plans : \E k \in 1 .. Len(N) :
          AtLevel(h, N, k) /\ Head(todo[h]) = N[k] /\ N[k] \in AllDirs /\ N[k] \in wants[h]
    BY <1>1, LevelIs
  <2>. QED  BY <2>1 DEF AtLevel
<1>3. CASE fs[d] = "dir" /\ Ensured(h)
  <2>1. TreeGrows /\ TreeInv' /\ wants' = wants /\ fs'[Head(todo[h])] = "dir"
    BY <1>1, <1>2, <1>3 DEF TreeGrows, TreeInv, DirsInv
  <2>. QED  BY <1>1, <1>3, <2>1, EnsuredKeeps
<1>4. CASE fs[d] = "file" /\ GivesUp(h)
  BY <1>1, <1>2, <1>4, GivesUpKeeps
<1>5. ~(fs[d] = "none" /\ at[h] = "again")
  BY <1>2
<1>6. CASE at' = [at EXCEPT ![h] = "mkdir"] /\ UNCHANGED <<todo, faulted>>
  BY <1>1, <1>6, StaysKeeps DEF Working
<1>7. CASE Faults(h)
  BY <1>1, <1>7, GivesUpKeeps
<1>. QED  BY <1>2, <1>3, <1>4, <1>5, <1>6, <1>7 DEF Stat

\* mkdir_one: mkdir(), which finds the level above.
LEMMA MkdirKeeps ==
  ASSUME DirsInv, NEW h \in Openers, Mkdir(h)
  PROVE  DirsInv'
<1>1. at[h] \in Working /\ wants' = wants
  BY DEF Mkdir, Working
<1>2. PICK d : /\ d = Head(todo[h]) /\ d \in AllDirs /\ d \in wants[h]
               /\ fs[d] = "none" => fs[Parent(d)] = "dir"
  <2>1. PICK N \in Plans : \E k \in 1 .. Len(N) :
          /\ Head(todo[h]) = N[k] /\ N[k] \in AllDirs /\ N[k] \in wants[h]
          /\ fs[N[k]] = "none" => fs[Parent(N[k])] = "dir"
    BY <1>1, LevelIs
  <2>. QED  BY <2>1
<1>3. CASE fs[d] = "none" /\ fs' = [fs EXCEPT ![d] = "dir"] /\ Ensured(h)
  <2>1. TreeGrows /\ TreeInv'
    BY <1>2, <1>3 DEF TreeGrows, TreeInv, DirsInv
  <2>2. fs'[Head(todo[h])] = "dir"
    BY <1>2, <1>3 DEF TreeInv, DirsInv
  <2>. QED  BY <1>1, <1>3, <2>1, <2>2, EnsuredKeeps
<1>4. CASE fs[d] # "none" /\ at' = [at EXCEPT ![h] = "again"] /\ UNCHANGED <<fs, todo, faulted>>
  BY <1>1, <1>2, <1>4, StaysKeeps DEF Working
<1>5. CASE Faults(h) /\ UNCHANGED fs
  BY <1>1, <1>5, GivesUpKeeps
<1>. QED  BY <1>2, <1>3, <1>4, <1>5 DEF Mkdir

\* phronesis_paths_resolve, up to the first directory.
LEMMA ResolveKeeps ==
  ASSUME DirsInv, NEW h \in Openers, NEW s \in {State, NoDir}, NEW r \in Runtimes, Resolve(h, s, r)
  PROVE  DirsInv'
<1>1. TreeGrows /\ TreeInv' /\ fs' = fs /\ faulted' = faulted
  BY DEF TreeGrows, TreeInv, DirsInv, Resolve
<1>2. CASE s = NoDir \/ r = Tmp
  <2>1. /\ todo' = [todo EXCEPT ![h] = todo[h]] /\ wants' = [wants EXCEPT ![h] = wants[h]]
        /\ at' = [at EXCEPT ![h] = "refused"]
        /\ todo[h] \in Seq(AllDirs) /\ wants[h] \in SUBSET AllDirs
    BY <1>2 DEF DirsInv, Resolve
  <2>2. todo'[h] = todo[h] /\ at'[h] = "refused" /\ wants'[h] = wants[h]
    BY <2>1 DEF DirsInv
  <2>3. HandleInv(h)'
    BY <2>1, <2>2 DEF HandleInv, Working
  <2>. QED  BY <1>1, <2>1, <2>3, HandleMoves
<1>3. CASE s # NoDir /\ r # Tmp
  <2>1. PICK N \in Plans : N = Needed(State, r)
    BY <1>3 DEF Plans
  <2>2. PICK n \in Nat \ {0} : n = Len(N) /\ N \in Seq(AllDirs)
    BY PlanIs
  <2>3. ToSet(N) \in SUBSET AllDirs
    BY <2>2 DEF ToSet
  <2>4. /\ todo' = [todo EXCEPT ![h] = N] /\ wants' = [wants EXCEPT ![h] = ToSet(N)]
        /\ at' = [at EXCEPT ![h] = "stat"]
    BY <1>3, <2>1 DEF Resolve
  <2>5. todo'[h] = N /\ at'[h] = "stat" /\ wants'[h] = ToSet(N)
    BY <2>4 DEF DirsInv
  <2>6. AtLevel(h, N, 1)'
    <3>1. n - 1 + 1 = n
      OBVIOUS
    <3>2. \A j \in 1 .. n : 1 + j - 1 = j
      OBVIOUS
    <3>3. 1 .. 1 - 1 = {}
      OBVIOUS
    <3>. QED  BY <2>2, <2>5, <3>1, <3>2, <3>3 DEF AtLevel
  <2>7. 1 \in 1 .. Len(N)
    BY <2>2
  <2>8. HandleInv(h)'
    BY <2>2, <2>3, <2>5, <2>6, <2>7 DEF HandleInv
  <2>. QED  BY <1>1, <2>4, <2>8, HandleMoves DEF Working
<1>. QED  BY <1>2, <1>3

\* The handle is closed, and somebody leaves a file.
LEMMA OthersKeep ==
  ASSUME DirsInv
  PROVE  /\ \A h \in Openers : Reopen(h) => DirsInv'
         /\ \A d \in AllDirs : (Len(d) > 1 /\ Obstruct(d)) => DirsInv'
<1>1. ASSUME NEW h \in Openers, Reopen(h)
      PROVE  DirsInv'
  <2>1. TreeGrows /\ TreeInv'
    BY <1>1 DEF TreeGrows, TreeInv, DirsInv, Reopen
  <2>2. PICK t \in Seq(AllDirs) : t = <<>>
    <3>1. <<>> \in Seq(AllDirs)
      OBVIOUS
    <3>. QED  BY <3>1
  <2>3. /\ todo' = [todo EXCEPT ![h] = t] /\ wants' = [wants EXCEPT ![h] = {}]
        /\ at' = [at EXCEPT ![h] = "closed"] /\ faulted' = faulted \ {h}
    BY <1>1, <2>2 DEF Reopen
  <2>4. todo'[h] = t /\ at'[h] = "closed" /\ wants'[h] = {}
    BY <2>3 DEF DirsInv
  <2>5. HandleInv(h)'
    BY <2>4 DEF HandleInv, Working
  <2>. QED  BY <2>1, <2>3, <2>5, HandleMoves
<1>2. ASSUME NEW d \in AllDirs, Len(d) > 1, Obstruct(d)
      PROVE  DirsInv'
  <2>1. fs[d] = "none" /\ fs' = [fs EXCEPT ![d] = "file"] /\ UNCHANGED <<todo, at, wants, faulted>>
    BY <1>2 DEF Obstruct
  <2>2. TreeGrows /\ TreeInv'
    BY <2>1 DEF TreeGrows, TreeInv, DirsInv
  <2>3. \A h \in Openers : HandleInv(h)'
    BY <2>1, <2>2, HandleStays
  <2>. QED  BY <2>1, <2>2, <2>3 DEF DirsInv
<1>. QED  BY <1>1, <1>2

\* What creating directories keeps, however many processes do it.
LEMMA DirsInvHolds == Spec => []DirsInv
<1>1. Init => DirsInv
  <2>. SUFFICES ASSUME DirInit
                PROVE  DirsInv
    BY DEF Init
  <2>1. TreeInv
    BY DEF DirInit, TreeInv
  <2>2. <<>> \in Seq(AllDirs)
    OBVIOUS
  <2>. QED  BY <2>1, <2>2 DEF DirInit, DirsInv, HandleInv, Working
<1>2. DirsInv /\ [TypingMoves \/ WalkMoves \/ DirsMove]_vars => DirsInv'
  <2>. SUFFICES ASSUME DirsInv, [TypingMoves \/ WalkMoves \/ DirsMove]_vars
                PROVE  DirsInv'
    OBVIOUS
  <2>1. CASE DirNext
    BY <2>1, ResolveKeeps, StatKeeps, MkdirKeeps, OthersKeep DEF DirNext
  <2>2. CASE UNCHANGED dirVars
    <3>1. fs' = fs /\ todo' = todo /\ at' = at /\ wants' = wants /\ faulted' = faulted
      BY <2>2 DEF dirVars
    <3>2. TreeGrows /\ TreeInv'
      BY <3>1 DEF DirsInv, TreeInv, TreeGrows
    <3>3. \A h \in Openers : HandleInv(h)'
      BY <3>1, <3>2, HandleStays
    <3>. QED  BY <3>1, <3>2, <3>3 DEF DirsInv
  <2>. QED  BY <2>1, <2>2 DEF WalkMoves, TypingMoves, DirsMove, vars
<1>. QED  BY <1>1, <1>2, PTL DEF Spec

\* phronesis_paths_ensure_dir: an open handle has all its directories, and an
\* open that fails has met something that is no directory or a system call that
\* failed, however many processes create the same tree.
THEOREM DirsReadyHolds == Spec => []DirsReady
<1>1. DirsInv => DirsReady
  BY DEF DirsInv, HandleInv, DirsReady
<1>. QED  BY <1>1, DirsInvHolds, PTL

-----------------------------------------------------------------------------
(* The path rules, on every pair of strings that can be typed. *)

Alphabet == Chars \cup {"/", "."}
TypedInv == ws \in Seq(Alphabet) /\ path \in Seq(Alphabet)

\* The alphabet has the two characters that the rules know, and no NUL.
LEMMA AlphabetIs == "/" \in Alphabet /\ "." \in Alphabet /\ Nul \notin Alphabet
BY CharsAssumption DEF Alphabet, Nul

\* The workspace and the path are always strings over the alphabet.
LEMMA TypedInvHolds == Spec => []TypedInv
<1>1. Init => TypedInv
  BY DEF Init, TypedInit, TypedInv
<1>2. TypedInv /\ [TypingMoves \/ WalkMoves \/ DirsMove]_vars => TypedInv'
  <2>. SUFFICES ASSUME TypedInv, [TypingMoves \/ WalkMoves \/ DirsMove]_vars
                PROVE  TypedInv'
    OBVIOUS
  <2>1. \A c \in Chars : c \in Alphabet
    BY DEF Alphabet
  <2>2. CASE TypeWs \/ TypePath \/ ClearAll
    <3>1. \A s \in Seq(Alphabet), c \in Chars : Append(s, c) \in Seq(Alphabet)
      BY <2>1, AppendProperties
    <3>2. <<>> \in Seq(Alphabet)
      OBVIOUS
    <3>3. CASE TypeWs
      BY <3>1, <3>3 DEF TypedInv, TypeWs
    <3>4. CASE TypePath
      BY <3>1, <3>4 DEF TypedInv, TypePath
    <3>5. CASE ClearAll
      BY <3>2, <3>5 DEF TypedInv, ClearAll
    <3>. QED  BY <2>2, <3>3, <3>4, <3>5
  <2>3. CASE UNCHANGED typedVars
    BY <2>3 DEF TypedInv, typedVars
  <2>. QED  BY <2>2, <2>3 DEF TypingMoves, WalkMoves, DirsMove, vars
<1>. QED  BY <1>1, <1>2, PTL DEF Spec

\* is_clean_abs_path accepts exactly the canonical paths, of every length.
THEOREM CleanIsCanonicalHolds == Spec => []CleanIsCanonical
<1>1. TypedInv => CleanIsCanonical
  <2>. SUFFICES ASSUME TypedInv
                PROVE  IsCleanAbsPath(path) <=> Canonical(path)
    BY DEF CleanIsCanonical
  <2>1. path \in Seq(Alphabet)
    BY DEF TypedInv
  <2>2. IsCleanAbsPath(path) => Canonical(path)
    BY <2>1, AlphabetIs, CleanCanonical
  <2>3. Canonical(path) => IsCleanAbsPath(path)
    BY <2>1, AlphabetIs, CanonicalClean
  <2>. QED  BY <2>2, <2>3
<1>. QED  BY <1>1, TypedInvHolds, PTL

\* path_under_workspace of policy.c decides containment of directories.
THEOREM UnderIsInsideHolds == Spec => []UnderIsInside
<1>1. TypedInv => UnderIsInside
  <2>. SUFFICES ASSUME TypedInv
                PROVE  UnderIsInside
    OBVIOUS
  <2>1. ws \in Seq(Alphabet) /\ path \in Seq(Alphabet)
    BY DEF TypedInv
  <2>2. ASSUME PathUnderWorkspace(ws, path)
        PROVE  /\ Canonical(ws) /\ Canonical(path)
               /\ Inside(ws, path)
               /\ Resolved(ws) = <<>> => Resolved(path) = <<>>
    BY <2>1, <2>2, AlphabetIs, UnderInside
  <2>3. ASSUME Canonical(ws), Canonical(path), Inside(ws, path),
               Resolved(ws) = <<>> => Resolved(path) = <<>>
        PROVE  PathUnderWorkspace(ws, path)
    BY <2>1, <2>3, AlphabetIs, InsideUnder
  <2>. QED  BY <2>2, <2>3 DEF UnderIsInside
<1>. QED  BY <1>1, TypedInvHolds, PTL

\* The host reads heads only of files inside the workspace, but for words with
\* a component "..", and leaves out no canonical name inside it.
THEOREM ProbeInsideHolds == Spec => []ProbeInside
<1>1. TypedInv => ProbeInside
  <2>. SUFFICES ASSUME TypedInv, ws # <<>>, NEW k \in 0 .. Len(path),
                       NEW cwd, cwd = Trimmed(ws) \o SubSeq(path, 1, k),
                       NEW tok, tok = SubSeq(path, k + 1, Len(path)),
                       NEW abs, abs = ResolveScript(cwd, tok),
                       PathUnderWorkspace(ws, cwd)
                PROVE  /\ ProbePath(ws, cwd, tok) = Failure \/ HasDotdot(tok) \/ Inside(ws, abs)
                       /\ (/\ abs # Failure /\ Canonical(abs) /\ Inside(ws, abs)
                           /\ Resolved(ws) = <<>> => Resolved(abs) = <<>>) => PackPathUnder(ws, abs)
    BY DEF ProbeInside
  <2>1. ws \in Seq(Alphabet) /\ path \in Seq(Alphabet)
    BY DEF TypedInv
  <2>2. cwd \in Seq(Alphabet)
    <3>1. <<>> \in Seq(Seq(Alphabet))
      OBVIOUS
    <3>2. Trimmed(ws) \in Seq(Alphabet)
      BY <2>1, <3>1, TrimWalk
    <3>3. SubSeq(path, 1, k) \in Seq(Alphabet)
      BY <2>1, FirstPart
    <3>. QED  BY <3>2, <3>3
  <2>3. tok \in Seq(Alphabet)
    <3>1. CASE k = 0
      <4>1. tok = path
        BY <2>1, <3>1, SubSeqFull
      <4>. QED  BY <2>1, <4>1
    <3>2. CASE k # 0
      <4>1. k \in 1 .. Len(path)
        BY <2>1, <3>2
      <4>. QED  BY <2>1, <4>1, LastPart
    <3>. QED  BY <3>1, <3>2
  <2>. QED  BY <2>1, <2>2, <2>3, AlphabetIs, ProbeMeans
<1>. QED  BY <1>1, TypedInvHolds, PTL

\* phronesis_resolve_script gives a path that fits its buffer and names what
\* the word means in the directory.
THEOREM ScriptResolvesHolds == Spec => []ScriptResolves
<1>1. TypedInv => ScriptResolves
  <2>. SUFFICES ASSUME TypedInv, ResolveScript(ws, path) # Failure
                PROVE  /\ Len(ResolveScript(ws, path)) < PathMax
                       /\ ResolveScript(ws, path)[1] = "/"
                       /\ Resolved(ResolveScript(ws, path)) =
                            (IF path[1] = "/" THEN Resolved(path) ELSE Walk(Resolved(ws), path))
    BY DEF ScriptResolves
  <2>1. ws \in Seq(Alphabet) /\ path \in Seq(Alphabet)
    BY DEF TypedInv
  <2>2. PICK a : a = ResolveScript(ws, path)
    OBVIOUS
  <2>3. a # Failure
    BY <2>2
  <2>4. /\ Len(a) < PathMax
        /\ a[1] = "/"
        /\ Resolved(a) = (IF path[1] = "/" THEN Resolved(path) ELSE Walk(Resolved(ws), path))
    BY <2>1, <2>2, <2>3, AlphabetIs, ScriptMeans
  <2>. QED  BY <2>2, <2>4
<1>. QED  BY <1>1, TypedInvHolds, PTL

\* phronesis_beneath_rel: the name it gives leads from the root to what the
\* path names, never upwards, and no canonical path below a proper root is
\* refused.
THEOREM RelIsBeneathHolds == Spec => []RelIsBeneath
<1>1. TypedInv => RelIsBeneath
  <2>. SUFFICES ASSUME TypedInv
                PROVE  RelIsBeneath
    OBVIOUS
  <2>1. ws \in Seq(Alphabet) /\ path \in Seq(Alphabet)
    BY DEF TypedInv
  <2>2. PICK r : r = BeneathRel(ws, path)
    OBVIOUS
  <2>3. PICK abs : abs = (Char(path, 1) = "/")
    OBVIOUS
  <2>4. ASSUME r # Failure
        PROVE  /\ Len(r) < PathMax
               /\ \A i \in DOMAIN r : Along(<<>>, r)[i].name = <<".", ".">> => ~EndsAt(r, i + 1)
               /\ Walk(Resolved(ws), r) = Walk(IF abs THEN <<>> ELSE Resolved(ws), path)
               /\ abs => Char(ws, 1) = "/" /\ Resolved(ws) # <<>>
    BY <2>1, <2>2, <2>3, <2>4, AlphabetIs, RelMeans
  <2>5. ASSUME Canonical(ws), Canonical(path), Inside(ws, path),
               Resolved(ws) # <<>>, Len(path) < PathMax
        PROVE  r # Failure
    BY <2>1, <2>2, <2>5, AlphabetIs, RelAccepts
  <2>. QED  BY <2>2, <2>3, <2>4, <2>5 DEF RelIsBeneath
<1>. QED  BY <1>1, TypedInvHolds, PTL
=============================================================================

---------------------------- MODULE PathLexProofs ----------------------------
(***************************************************************************)
(* What the path rules of PathLex mean, for strings of every length over   *)
(* every set of characters.                                                *)
(***************************************************************************)
EXTENDS PathLex, NatRecursion, SequenceTheorems

-----------------------------------------------------------------------------
(* Walking along a path. *)

\* The places of a walk: a directory, and a name that has been begun.
Places(C) == [dir : Seq(Seq(C)), name : Seq(C)]

\* One name leads from a directory to a directory.
LEMMA StepType ==
  ASSUME NEW C, NEW dir \in Seq(Seq(C)), NEW name \in Seq(C)
  PROVE  Step(dir, name) \in Seq(Seq(C))
<1>1. Append(dir, name) \in Seq(Seq(C))
  OBVIOUS
<1>2. ASSUME dir # <<>>
      PROVE  Front(dir) \in Seq(Seq(C))
  <2>1. Len(dir) \in Nat \ {0} /\ \A i \in 1 .. Len(dir) - 1 : dir[i] \in Seq(C)
    BY <1>2, EmptySeq, ElementOfSeq
  <2>2. Len(dir) - 1 \in Int /\ 1 \in Int
    BY <2>1
  <2>3. SubSeq(dir, 1, Len(dir) - 1) \in Seq(Seq(C))
    BY <2>1, <2>2, SubSeqProperties
  <2>. QED  BY <2>3 DEF Front
<1>. QED  BY <1>1, <1>2 DEF Step

\* One character leads from a place to a place.
LEMMA ReadType ==
  ASSUME NEW C, NEW at \in Places(C), NEW c \in C
  PROVE  Read(at, c) \in Places(C)
<1>1. at.dir \in Seq(Seq(C)) /\ at.name \in Seq(C) /\ <<>> \in Seq(C)
  BY DEF Places
<1>2. Append(at.name, c) \in Seq(C)
  BY <1>1
<1>3. Step(at.dir, at.name) \in Seq(Seq(C))
  BY <1>1, StepType
<1>. QED  BY <1>1, <1>2, <1>3 DEF Read, Places

\* The recursive definition of Along has a solution, so that it says what it
\* seems to say.
LEMMA AlongIs ==
  ASSUME NEW C, NEW s \in Seq(C), NEW d \in Seq(Seq(C))
  PROVE  /\ Along(d, s) \in [0 .. Len(s) -> Places(C)]
         /\ Along(d, s)[0] = [dir |-> d, name |-> <<>>]
         /\ \A i \in 1 .. Len(s) : Along(d, s)[i] = Read(Along(d, s)[i - 1], s[i])
<1> DEFINE n == Len(s)
           b == [dir |-> d, name |-> <<>>]
           V == Places(C)
           Q(a) == a = [i \in 0 .. n |-> IF i = 0 THEN b ELSE Read(a[i - 1], s[i])]
           A == CHOOSE a : Q(a)
           G == [i \in 1 .. n |-> [v \in V |-> Read(v, s[i])]]
<1>0. n \in Nat /\ \A i \in 1 .. n : s[i] \in C
  OBVIOUS
<1>1. b \in V
  BY DEF Places
<1>2. G \in [1 .. n -> [V -> V]]
  <2>. HIDE DEF n
  <2>. QED  BY <1>0, ReadType
<1>. HIDE DEF n, b, V
<1>3. PICK a : Recurs(a, n, V, b, G)
  <2>. HIDE DEF G
  <2>. QED  BY <1>0, <1>1, <1>2, Recursion
<1>4. \A i \in 1 .. n : i - 1 \in 0 .. n /\ a[i] = Read(a[i - 1], s[i])
  <2>. TAKE i \in 1 .. n
  <2>1. i - 1 \in 0 .. n
    BY <1>0
  <2>2. a[i - 1] \in V /\ a[i] = G[i][a[i - 1]]
    BY <1>3, <2>1 DEF Recurs
  <2>. QED  BY <2>1, <2>2
<1>5. Q(a)
  <2>. HIDE DEF G
  <2>1. \A i \in 0 .. n : a[i] = IF i = 0 THEN b ELSE Read(a[i - 1], s[i])
    <3>. TAKE i \in 0 .. n
    <3>1. i # 0 => i \in 1 .. n
      BY <1>0
    <3>. QED  BY <1>3, <1>4, <3>1 DEF Recurs
  <2>. QED  BY <1>3, <2>1 DEF Recurs
<1>6. Q(A)
  <2>. HIDE DEF Q
  <2>. QED  BY <1>5
<1>7. Along(d, s) = A
  BY DEF Along, n, b
<1>. HIDE DEF A
<1> DEFINE S == {i \in 0 .. n : A[i] \in V}
<1>8. A[0] = b /\ \A i \in 1 .. n : A[i] = Read(A[i - 1], s[i])
  <2>1. 0 \in 0 .. n /\ \A i \in 1 .. n : i \in 0 .. n /\ i # 0
    BY <1>0
  <2>. QED  BY <1>6, <2>1
<1>9. \A i \in 0 .. n : i \in S
  <2>1. 0 \in S
    BY <1>0, <1>1, <1>8
  <2>2. ASSUME NEW i \in 0 .. n, i < n, i \in S
        PROVE  i + 1 \in S
    <3>1. i + 1 \in 1 .. n /\ i + 1 \in 0 .. n /\ (i + 1) - 1 = i
      BY <1>0, <2>2
    <3>2. A[i + 1] = Read(A[i], s[i + 1]) /\ A[i] \in V /\ s[i + 1] \in C
      BY <1>0, <1>8, <2>2, <3>1
    <3>3. A[i + 1] \in V
      BY <3>2, ReadType DEF V
    <3>. QED  BY <3>1, <3>3
  <2>. HIDE DEF S
  <2>. QED  BY <1>0, <2>1, <2>2, InductionTo
<1>10. A \in [0 .. n -> V]
  BY <1>6, <1>9
<1>. QED  BY <1>7, <1>8, <1>10 DEF n, b, V

\* The walk along two strings is the same as far as the strings are.
LEMMA AlongSame ==
  ASSUME NEW C, NEW s \in Seq(C), NEW t \in Seq(C), NEW d \in Seq(Seq(C)),
         NEW k \in Nat, k <= Len(s), k <= Len(t), \A i \in 1 .. k : s[i] = t[i]
  PROVE  \A i \in 0 .. k : Along(d, s)[i] = Along(d, t)[i]
<1> DEFINE A == Along(d, s)
           B == Along(d, t)
           S == {i \in 0 .. k : A[i] = B[i]}
<1>1. /\ A[0] = B[0]
      /\ \A i \in 1 .. Len(s) : A[i] = Read(A[i - 1], s[i])
      /\ \A i \in 1 .. Len(t) : B[i] = Read(B[i - 1], t[i])
  BY AlongIs
<1>2. Len(s) \in Nat /\ Len(t) \in Nat
  OBVIOUS
<1>. HIDE DEF A, B
<1>3. 0 \in S
  BY <1>1
<1>4. ASSUME NEW i \in 0 .. k, i < k, i \in S
      PROVE  i + 1 \in S
  <2>1. i + 1 \in 1 .. k /\ i + 1 \in 1 .. Len(s) /\ i + 1 \in 1 .. Len(t) /\ (i + 1) - 1 = i
    BY <1>2, <1>4
  <2>. QED  BY <1>1, <1>4, <2>1
<1>5. \A i \in 0 .. k : i \in S
  <2>. HIDE DEF S
  <2>. QED  BY <1>3, <1>4, InductionTo
<1>. QED  BY <1>5 DEF A, B

\* A walk ends in a directory.
LEMMA WalkType ==
  ASSUME NEW C, NEW s \in Seq(C), NEW d \in Seq(Seq(C))
  PROVE  Walk(d, s) \in Seq(Seq(C))
<1>1. Along(d, s)[Len(s)] \in Places(C)
  <2>1. Len(s) \in 0 .. Len(s)
    OBVIOUS
  <2>. QED  BY <2>1, AlongIs
<1>2. PICK at \in Places(C) : at = Along(d, s)[Len(s)]
  BY <1>1
<1>3. at.dir \in Seq(Seq(C)) /\ at.name \in Seq(C)
  BY DEF Places
<1>. QED  BY <1>2, <1>3, StepType DEF Walk

\* The characters of two strings with a slash between them.
LEMMA SlashBetween ==
  ASSUME NEW C, "/" \in C, NEW s \in Seq(C), NEW t \in Seq(C),
         NEW u, u = s \o <<"/">> \o t
  PROVE  /\ u \in Seq(C) /\ Len(u) = Len(s) + 1 + Len(t)
         /\ \A i \in 1 .. Len(s) : u[i] = s[i]
         /\ u[Len(s) + 1] = "/"
         /\ \A i \in 1 .. Len(t) : u[Len(s) + 1 + i] = t[i]
<1> DEFINE m == Len(s)
           n == Len(t)
           v == s \o <<"/">>
<1>1. m \in Nat /\ n \in Nat /\ <<"/">> \in Seq(C) /\ Len(<<"/">>) = 1 /\ <<"/">>[1] = "/"
  OBVIOUS
<1>2. /\ v \in Seq(C) /\ Len(v) = m + 1
      /\ \A i \in 1 .. m + 1 : v[i] = IF i <= m THEN s[i] ELSE <<"/">>[i - m]
  BY <1>1, ConcatProperties
<1>3. (\A i \in 1 .. m : v[i] = s[i]) /\ v[m + 1] = "/"
  <2>1. \A i \in 1 .. m : i \in 1 .. m + 1 /\ i <= m
    BY <1>1
  <2>2. m + 1 \in 1 .. m + 1 /\ ~(m + 1 <= m) /\ (m + 1) - m = 1
    BY <1>1
  <2>. HIDE DEF v, m
  <2>. QED  BY <1>1, <1>2, <2>1, <2>2
<1>. HIDE DEF v, m, n
<1>4. u = v \o t
  BY DEF v
<1>5. /\ u \in Seq(C) /\ Len(u) = m + 1 + n
      /\ \A i \in 1 .. m + 1 + n : u[i] = IF i <= m + 1 THEN v[i] ELSE t[i - (m + 1)]
  BY <1>2, <1>4, ConcatProperties DEF n
<1>6. \A i \in 1 .. m + 1 : u[i] = v[i]
  <2>1. \A i \in 1 .. m + 1 : i \in 1 .. m + 1 + n /\ i <= m + 1
    BY <1>1
  <2>. QED  BY <1>5, <2>1
<1>7. \A i \in 1 .. n : u[m + 1 + i] = t[i]
  <2>. TAKE i \in 1 .. n
  <2>1. m + 1 + i \in 1 .. m + 1 + n /\ ~(m + 1 + i <= m + 1) /\ (m + 1 + i) - (m + 1) = i
    BY <1>1
  <2>. QED  BY <1>5, <2>1
<1>8. (\A i \in 1 .. m : i \in 1 .. m + 1) /\ m + 1 \in 1 .. m + 1
  BY <1>1
<1>9. (\A i \in 1 .. m : u[i] = s[i]) /\ u[m + 1] = "/"
  BY <1>3, <1>6, <1>8
<1>. QED  BY <1>5, <1>7, <1>9 DEF m, n

\* A walk goes on from where it has come.
LEMMA WalkConcat ==
  ASSUME NEW C, "/" \in C, NEW s \in Seq(C), NEW t \in Seq(C), NEW d \in Seq(Seq(C))
  PROVE  Walk(d, s \o <<"/">> \o t) = Walk(Walk(d, s), t)
<1>0. PICK u : u = s \o <<"/">> \o t
  OBVIOUS
<1> DEFINE m == Len(s)
           n == Len(t)
           e == Walk(d, s)
           A == Along(d, u)
           B == Along(e, t)
           S == {j \in 0 .. n : A[m + 1 + j] = B[j]}
<1>1. /\ m \in Nat /\ n \in Nat /\ u \in Seq(C) /\ Len(u) = m + 1 + n
      /\ \A i \in 1 .. m : u[i] = s[i]
      /\ u[m + 1] = "/"
      /\ \A i \in 1 .. n : u[m + 1 + i] = t[i]
  BY <1>0, SlashBetween
<1>2. e \in Seq(Seq(C))
  BY WalkType
<1>3. \A i \in 1 .. m + 1 + n : A[i] = Read(A[i - 1], u[i])
  <2>1. \A i \in 1 .. Len(u) : A[i] = Read(A[i - 1], u[i])
    <3>1. u \in Seq(C)
      BY <1>1
    <3>. QED  BY <3>1, AlongIs
  <2>. HIDE DEF A, m, n
  <2>. QED  BY <1>1, <2>1
<1>4. B[0] = [dir |-> e, name |-> <<>>] /\ \A i \in 1 .. n : B[i] = Read(B[i - 1], t[i])
  BY <1>2, AlongIs
<1>5. A[m] = Along(d, s)[m]
  <2>1. PICK k \in Nat : k = m
    BY <1>1
  <2>2. k <= Len(s) /\ k <= Len(u) /\ k \in 0 .. k /\ \A i \in 1 .. k : u[i] = s[i]
    BY <1>1, <2>1
  <2>3. \A i \in 0 .. k : Along(d, u)[i] = Along(d, s)[i]
    <3>1. u \in Seq(C)
      BY <1>1
    <3>2. k <= Len(u) /\ k <= Len(s) /\ \A i \in 1 .. k : u[i] = s[i]
      BY <2>2
    <3>. HIDE DEF m, n, e, A, B, S
    <3>. QED  BY SMTT(30), <3>1, <3>2, AlongSame
  <2>. QED  BY <2>1, <2>2, <2>3
<1>6. A[m + 1] = [dir |-> e, name |-> <<>>]
  <2>1. m + 1 \in 1 .. m + 1 + n /\ (m + 1) - 1 = m
    BY <1>1
  <2>2. A[m + 1] = Read(A[m], "/")
    <3>. HIDE DEF A, m, n
    <3>. QED  BY <1>1, <1>3, <2>1
  <2>3. e = Step(A[m].dir, A[m].name)
    BY <1>5 DEF Walk
  <2>. QED  BY <2>2, <2>3 DEF Read
<1>. HIDE DEF A, B, e, m, n
<1>7. 0 \in S
  BY <1>1, <1>4, <1>6
<1>8. ASSUME NEW j \in 0 .. n, j < n, j \in S
      PROVE  j + 1 \in S
  <2>1. /\ j + 1 \in 1 .. n /\ j + 1 \in 0 .. n /\ (j + 1) - 1 = j
        /\ m + 1 + (j + 1) \in 1 .. m + 1 + n /\ (m + 1 + (j + 1)) - 1 = m + 1 + j
    BY <1>1, <1>8
  <2>2. A[m + 1 + (j + 1)] = Read(A[m + 1 + j], u[m + 1 + (j + 1)])
    BY <1>3, <2>1
  <2>3. u[m + 1 + (j + 1)] = t[j + 1] /\ B[j + 1] = Read(B[j], t[j + 1])
    BY <1>1, <1>4, <2>1
  <2>. QED  BY <1>8, <2>1, <2>2, <2>3
<1>9. A[m + 1 + n] = B[n]
  <2>1. \A j \in 0 .. n : j \in S
    <3>. HIDE DEF S
    <3>. QED  BY <1>1, <1>7, <1>8, InductionTo
  <2>2. n \in 0 .. n
    BY <1>1
  <2>. QED  BY <2>1, <2>2
<1>10. Walk(d, u) = Step(A[m + 1 + n].dir, A[m + 1 + n].name)
  BY <1>1 DEF Walk, A
<1>11. Walk(e, t) = Step(B[n].dir, B[n].name)
  BY DEF Walk, B, n
<1>. QED  BY <1>0, <1>9, <1>10, <1>11 DEF e

-----------------------------------------------------------------------------
(* The text of a directory. *)

Text(dir) == Spelled(dir)[Len(dir)]

\* The spelling of a directory, name by name.
LEMMA SpelledIs ==
  ASSUME NEW C, "/" \in C, NEW dir \in Seq(Seq(C))
  PROVE  /\ Spelled(dir) \in [0 .. Len(dir) -> Seq(C)]
         /\ Spelled(dir)[0] = <<>>
         /\ \A i \in 1 .. Len(dir) : Spelled(dir)[i] = Spelled(dir)[i - 1] \o <<"/">> \o dir[i]
<1> DEFINE n == Len(dir)
           b == <<>>
           V == Seq(C)
           Q(a) == a = [i \in 0 .. n |-> IF i = 0 THEN b ELSE a[i - 1] \o <<"/">> \o dir[i]]
           A == CHOOSE a : Q(a)
           G == [i \in 1 .. n |-> [v \in V |-> v \o <<"/">> \o dir[i]]]
<1>0. n \in Nat /\ \A i \in 1 .. n : dir[i] \in V
  OBVIOUS
<1>1. b \in V
  OBVIOUS
<1>2. \A v, w \in V : v \o <<"/">> \o w \in V
  BY SlashBetween
<1>. HIDE DEF n, b, V
<1>3. G \in [1 .. n -> [V -> V]]
  BY <1>0, <1>2
<1>4. PICK a : Recurs(a, n, V, b, G)
  <2>. HIDE DEF G
  <2>. QED  BY <1>0, <1>1, <1>3, Recursion
<1>5. \A i \in 1 .. n : i - 1 \in 0 .. n /\ a[i] = a[i - 1] \o <<"/">> \o dir[i]
  <2>. TAKE i \in 1 .. n
  <2>1. i - 1 \in 0 .. n
    BY <1>0
  <2>2. a[i - 1] \in V /\ a[i] = G[i][a[i - 1]]
    BY <1>4, <2>1 DEF Recurs
  <2>. QED  BY <2>1, <2>2
<1>6. Q(a)
  <2>. HIDE DEF G
  <2>1. \A i \in 0 .. n : a[i] = IF i = 0 THEN b ELSE a[i - 1] \o <<"/">> \o dir[i]
    <3>. TAKE i \in 0 .. n
    <3>1. i # 0 => i \in 1 .. n
      BY <1>0
    <3>. QED  BY <1>4, <1>5, <3>1 DEF Recurs
  <2>. QED  BY <1>4, <2>1 DEF Recurs
<1>7. Q(A)
  <2>. HIDE DEF Q
  <2>. QED  BY <1>6
<1>8. Spelled(dir) = A
  BY DEF Spelled, n, b
<1>. HIDE DEF A
<1> DEFINE S == {i \in 0 .. n : A[i] \in V}
<1>9. A[0] = b /\ \A i \in 1 .. n : A[i] = A[i - 1] \o <<"/">> \o dir[i]
  <2>1. 0 \in 0 .. n /\ \A i \in 1 .. n : i \in 0 .. n /\ i # 0
    BY <1>0
  <2>. QED  BY <1>7, <2>1
<1>10. \A i \in 0 .. n : i \in S
  <2>1. 0 \in S
    BY <1>0, <1>1, <1>9
  <2>2. ASSUME NEW i \in 0 .. n, i < n, i \in S
        PROVE  i + 1 \in S
    <3>1. i + 1 \in 1 .. n /\ i + 1 \in 0 .. n /\ (i + 1) - 1 = i
      BY <1>0, <2>2
    <3>2. A[i + 1] = A[i] \o <<"/">> \o dir[i + 1] /\ A[i] \in V /\ dir[i + 1] \in V
      BY <1>0, <1>9, <2>2, <3>1
    <3>3. A[i + 1] \in V
      BY <1>2, <3>2
    <3>. QED  BY <3>1, <3>3
  <2>. HIDE DEF S
  <2>. QED  BY <1>0, <2>1, <2>2, InductionTo
<1>11. A \in [0 .. n -> V]
  BY <1>7, <1>10
<1>. QED  BY <1>8, <1>9, <1>11 DEF n, b, V

\* Two directories are spelled the same as far as they are.
LEMMA SpelledSame ==
  ASSUME NEW C, "/" \in C, NEW d \in Seq(Seq(C)), NEW e \in Seq(Seq(C)),
         NEW k \in Nat, k <= Len(d), k <= Len(e), \A i \in 1 .. k : d[i] = e[i]
  PROVE  \A i \in 0 .. k : Spelled(d)[i] = Spelled(e)[i]
<1> DEFINE A == Spelled(d)
           B == Spelled(e)
           S == {i \in 0 .. k : A[i] = B[i]}
<1>1. /\ A[0] = B[0]
      /\ \A i \in 1 .. Len(d) : A[i] = A[i - 1] \o <<"/">> \o d[i]
      /\ \A i \in 1 .. Len(e) : B[i] = B[i - 1] \o <<"/">> \o e[i]
  BY SpelledIs
<1>2. Len(d) \in Nat /\ Len(e) \in Nat
  OBVIOUS
<1>. HIDE DEF A, B
<1>3. 0 \in S
  BY <1>1
<1>4. ASSUME NEW i \in 0 .. k, i < k, i \in S
      PROVE  i + 1 \in S
  <2>1. i + 1 \in 1 .. k /\ i + 1 \in 1 .. Len(d) /\ i + 1 \in 1 .. Len(e) /\ (i + 1) - 1 = i
    BY <1>2, <1>4
  <2>2. A[i + 1] = A[i] \o <<"/">> \o d[i + 1] /\ B[i + 1] = B[i] \o <<"/">> \o e[i + 1]
    BY <1>1, <2>1
  <2>3. A[i] = B[i] /\ d[i + 1] = e[i + 1] /\ i + 1 \in 0 .. k
    BY <1>4, <2>1
  <2>4. A[i + 1] = B[i + 1]
    BY <2>2, <2>3
  <2>. QED  BY <2>3, <2>4
<1>5. \A i \in 0 .. k : i \in S
  <2>. HIDE DEF S
  <2>. QED  BY <1>3, <1>4, InductionTo
<1>. QED  BY <1>5 DEF A, B

\* The text of a directory and one more name.
LEMMA TextAppend ==
  ASSUME NEW C, "/" \in C, NEW d \in Seq(Seq(C)), NEW n \in Seq(C)
  PROVE  /\ Text(d) \in Seq(C) /\ Text(<<>>) = <<>>
         /\ Text(Append(d, n)) = Text(d) \o <<"/">> \o n
<1>1. Text(d) \in Seq(C)
  <2>1. Len(d) \in 0 .. Len(d)
    OBVIOUS
  <2>. QED  BY <2>1, SpelledIs DEF Text
<1>2. Text(<<>>) = <<>>
  <2>1. <<>> \in Seq(Seq(C)) /\ Len(<<>>) = 0
    OBVIOUS
  <2>2. Spelled(<<>>)[0] = <<>>
    BY <2>1, SpelledIs
  <2>. QED  BY <2>1, <2>2 DEF Text
<1>3. PICK e : e = Append(d, n)
  OBVIOUS
<1>4. /\ e \in Seq(Seq(C)) /\ Len(e) = Len(d) + 1 /\ Len(d) \in Nat
      /\ \A i \in 1 .. Len(d) : e[i] = d[i]
      /\ e[Len(d) + 1] = n
  BY <1>3, AppendProperties
<1>5. Spelled(e)[Len(d)] = Spelled(d)[Len(d)]
  <2>1. PICK k \in Nat : k = Len(d)
    BY <1>4
  <2>2. k <= Len(e) /\ k <= Len(d) /\ k \in 0 .. k /\ \A i \in 1 .. k : e[i] = d[i]
    BY <1>4, <2>1
  <2>3. \A i \in 0 .. k : Spelled(e)[i] = Spelled(d)[i]
    BY <1>4, <2>2, SpelledSame
  <2>. QED  BY <2>1, <2>2, <2>3
<1>6. Spelled(e)[Len(d) + 1] = Spelled(e)[Len(d)] \o <<"/">> \o n
  <2>1. Len(d) + 1 \in 1 .. Len(e) /\ (Len(d) + 1) - 1 = Len(d)
    BY <1>4
  <2>. QED  BY <1>4, <2>1, SpelledIs
<1>. QED  BY <1>1, <1>2, <1>3, <1>4, <1>5, <1>6 DEF Text

-----------------------------------------------------------------------------
(* Clean paths. *)

\* What the tests of is_clean_abs_path say of a slash at k.
SlashOk(s, k) ==
  /\ k + 1 \in 1 .. Len(s) => s[k + 1] # "/"
  /\ ~(k + 1 \in 1 .. Len(s) /\ s[k + 1] = "." /\ (k + 1 = Len(s) \/ s[k + 2] = "/"))
  /\ ~(/\ k + 2 \in 1 .. Len(s) /\ s[k + 1] = "." /\ s[k + 2] = "."
       /\ k + 2 = Len(s) \/ s[k + 3] = "/")

\* What a clean path has between its slashes.
LEMMA CleanSlash ==
  ASSUME NEW C, Nul \notin C, NEW s \in Seq(C), IsCleanAbsPath(s)
  PROVE  /\ Len(s) \in Nat \ {0} /\ s[1] = "/"
         /\ \A k \in 1 .. Len(s) : s[k] = "/" => SlashOk(s, k)
<1>1. Len(s) \in Nat /\ DOMAIN s = 1 .. Len(s)
  OBVIOUS
<1>2. \A i : IF i \in 1 .. Len(s) THEN Char(s, i) = s[i] ELSE Char(s, i) = Nul
  BY <1>1 DEF Char
<1>3. Char(s, 1) = "/" /\ Nul # "/"
  BY DEF IsCleanAbsPath, Nul
<1>4. 1 \in 1 .. Len(s) /\ s[1] = "/"
  BY <1>2, <1>3
<1>5. ASSUME NEW k \in 1 .. Len(s), s[k] = "/"
      PROVE  SlashOk(s, k)
  <2>1. /\ Char(s, k + 1) # "/"
        /\ ~(Char(s, k + 1) = "." /\ Char(s, k + 2) \in {"/", Nul})
        /\ ~(Char(s, k + 1) = "." /\ Char(s, k + 2) = "." /\ Char(s, k + 3) \in {"/", Nul})
    BY <1>1, <1>5 DEF IsCleanAbsPath, EndsAt
  <2>2. k + 1 \in 1 .. Len(s) => Char(s, k + 1) = s[k + 1]
    BY <1>2
  <2>3. IF k + 2 \in 1 .. Len(s) THEN Char(s, k + 2) = s[k + 2] ELSE Char(s, k + 2) = Nul
    BY <1>2
  <2>4. IF k + 3 \in 1 .. Len(s) THEN Char(s, k + 3) = s[k + 3] ELSE Char(s, k + 3) = Nul
    BY <1>2
  <2>5. /\ k + 2 \in 1 .. Len(s) => k + 1 \in 1 .. Len(s)
        /\ k + 1 = Len(s) => ~(k + 2 \in 1 .. Len(s))
        /\ k + 2 = Len(s) => ~(k + 3 \in 1 .. Len(s))
    <3>1. PICK n \in Nat : n = Len(s)
      BY <1>1
    <3>2. k \in Nat /\ k >= 1
      BY <1>1
    <3>3. /\ k + 2 \in 1 .. n => k + 1 \in 1 .. n
          /\ k + 1 = n => ~(k + 2 \in 1 .. n)
          /\ k + 2 = n => ~(k + 3 \in 1 .. n)
      BY <3>2
    <3>. QED  BY <3>1, <3>3
  <2>6. k + 1 \in 1 .. Len(s) => s[k + 1] # "/"
    BY <2>1, <2>2
  <2>7. ~(k + 1 \in 1 .. Len(s) /\ s[k + 1] = "." /\ (k + 1 = Len(s) \/ s[k + 2] = "/"))
    <3>. SUFFICES ASSUME k + 1 \in 1 .. Len(s), s[k + 1] = ".", k + 1 = Len(s) \/ s[k + 2] = "/"
                  PROVE  FALSE
      OBVIOUS
    <3>1. Char(s, k + 1) = "."
      BY <2>2
    <3>2. Char(s, k + 2) \in {"/", Nul}
      BY <2>3, <2>5
    <3>. QED  BY <2>1, <3>1, <3>2
  <2>8. ~(/\ k + 2 \in 1 .. Len(s) /\ s[k + 1] = "." /\ s[k + 2] = "."
          /\ k + 2 = Len(s) \/ s[k + 3] = "/")
    <3>. SUFFICES ASSUME k + 2 \in 1 .. Len(s), s[k + 1] = ".", s[k + 2] = ".",
                         k + 2 = Len(s) \/ s[k + 3] = "/"
                  PROVE  FALSE
      OBVIOUS
    <3>1. Char(s, k + 1) = "." /\ Char(s, k + 2) = "."
      BY <2>2, <2>3, <2>5
    <3>2. Char(s, k + 3) \in {"/", Nul}
      BY <2>4, <2>5
    <3>. QED  BY <2>1, <3>1, <3>2
  <2>. QED  BY <2>6, <2>7, <2>8 DEF SlashOk
<1>6. Len(s) # 0
  BY <1>4
<1>. QED  BY <1>1, <1>4, <1>5, <1>6

\* After i characters of s, with the last slash at k, the walk is in the
\* directory that is written before it, and has read the name after it.
Word(s, i, k, dir, name) ==
  /\ k \in 1 .. i /\ k + Len(name) = i /\ s[k] = "/"
  /\ Text(dir) = SubSeq(s, 1, k - 1)
  /\ \A j \in 1 .. Len(name) : name[j] = s[k + j]

\* In a clean path a name that ends is a proper one, or the path ends.
LEMMA ProperName ==
  ASSUME NEW C, Nul \notin C, NEW s \in Seq(C), IsCleanAbsPath(s),
         NEW i \in 1 .. Len(s), NEW k, NEW dir, NEW name \in Seq(C), Word(s, i, k, dir, name),
         i = Len(s) \/ s[i + 1] = "/"
  PROVE  /\ Step(dir, name) = IF name = <<>> THEN dir ELSE Append(dir, name)
         /\ i < Len(s) => name # <<>>
<1>1. Len(s) \in Nat /\ Len(name) \in Nat
  OBVIOUS
<1>2. /\ k \in 1 .. i /\ k + Len(name) = i /\ s[k] = "/"
      /\ \A j \in 1 .. Len(name) : name[j] = s[k + j]
  BY DEF Word
<1>3. SlashOk(s, k)
  <2>1. k \in 1 .. Len(s)
    BY <1>1, <1>2
  <2>. QED  BY <1>2, <2>1, CleanSlash
<1>4. name # <<".">>
  <2>. SUFFICES ASSUME name = <<".">>
                PROVE  FALSE
    OBVIOUS
  <2>1. Len(name) = 1 /\ name[1] = "." /\ 1 \in 1 .. Len(name)
    OBVIOUS
  <2>2. s[k + 1] = "."
    BY <1>2, <2>1
  <2>3. k + 1 = i /\ k + 2 = i + 1 /\ k + 1 \in 1 .. Len(s)
    BY <1>1, <1>2, <2>1
  <2>4. k + 1 = Len(s) \/ s[k + 2] = "/"
    BY <2>3
  <2>. QED  BY <1>3, <2>2, <2>3, <2>4 DEF SlashOk
<1>5. name # <<".", ".">>
  <2>. SUFFICES ASSUME name = <<".", ".">>
                PROVE  FALSE
    OBVIOUS
  <2>1. Len(name) = 2 /\ name[1] = "." /\ name[2] = "." /\ 1 \in 1 .. Len(name) /\ 2 \in 1 .. Len(name)
    OBVIOUS
  <2>2. s[k + 1] = "." /\ s[k + 2] = "."
    BY <1>2, <2>1
  <2>3. k + 2 = i /\ k + 3 = i + 1 /\ k + 2 \in 1 .. Len(s)
    BY <1>1, <1>2, <2>1
  <2>4. k + 2 = Len(s) \/ s[k + 3] = "/"
    BY <2>3
  <2>. QED  BY <1>3, <2>2, <2>3, <2>4 DEF SlashOk
<1>6. ASSUME i < Len(s), name = <<>>
      PROVE  FALSE
  <2>1. Len(name) = 0
    BY <1>6
  <2>2. k = i /\ k + 1 \in 1 .. Len(s) /\ s[i + 1] = "/"
    BY <1>1, <1>2, <1>6, <2>1
  <2>. QED  BY <1>3, <2>2 DEF SlashOk
<1>. QED  BY <1>4, <1>5, <1>6 DEF Step

\* The characters of a first part.
LEMMA FirstPart ==
  ASSUME NEW C, NEW s \in Seq(C), NEW i \in 0 .. Len(s), NEW v, v = SubSeq(s, 1, i)
  PROVE  v \in Seq(C) /\ Len(v) = i /\ \A j \in 1 .. i : v[j] = s[j]
<1>1. Len(s) \in Nat
  OBVIOUS
<1>2. i \in Int /\ 1 \in Int /\ \A j \in 1 .. i : s[j] \in C
  BY <1>1
<1>3. /\ v \in Seq(C) /\ Len(v) = IF 1 <= i THEN i - 1 + 1 ELSE 0
      /\ \A j \in 1 .. i - 1 + 1 : v[j] = s[1 + j - 1]
  BY <1>2, SubSeqProperties
<1>4. Len(v) = i
  BY <1>1, <1>3
<1>5. ASSUME NEW j \in 1 .. i
      PROVE  v[j] = s[j]
  <2>1. j \in 1 .. i - 1 + 1 /\ 1 + j - 1 = j
    BY <1>1
  <2>2. v[j] = s[1 + j - 1]
    BY <1>3, <2>1
  <2>. QED  BY <2>1, <2>2
<1>. QED  BY <1>3, <1>4, <1>5

\* The directory, a slash and the name together are what has been read.
LEMMA WordText ==
  ASSUME NEW C, "/" \in C, NEW s \in Seq(C), NEW i \in 1 .. Len(s), NEW k,
         NEW dir \in Seq(Seq(C)), NEW name \in Seq(C), Word(s, i, k, dir, name)
  PROVE  Text(dir) \o <<"/">> \o name = SubSeq(s, 1, i)
<1>1. PICK d : d = Text(dir)
  OBVIOUS
<1>2. PICK u : u = d \o <<"/">> \o name
  OBVIOUS
<1>3. PICK v : v = SubSeq(s, 1, i)
  OBVIOUS
<1>4. Len(s) \in Nat /\ Len(name) \in Nat /\ d \in Seq(C)
  BY <1>1, TextAppend
<1>5. /\ k \in 1 .. i /\ k + Len(name) = i /\ s[k] = "/"
      /\ \A j \in 1 .. Len(name) : name[j] = s[k + j]
      /\ d = SubSeq(s, 1, k - 1)
  BY <1>1 DEF Word
<1>6. Len(d) = k - 1 /\ \A j \in 1 .. k - 1 : d[j] = s[j]
  <2>1. k - 1 \in 0 .. Len(s)
    BY <1>4, <1>5
  <2>. QED  BY <1>5, <2>1, FirstPart
<1>7. v \in Seq(C) /\ Len(v) = i /\ \A j \in 1 .. i : v[j] = s[j]
  <2>1. i \in 0 .. Len(s)
    BY <1>4
  <2>. QED  BY <1>3, <2>1, FirstPart
<1>8. /\ u \in Seq(C) /\ Len(u) = Len(d) + 1 + Len(name)
      /\ \A j \in 1 .. Len(d) : u[j] = d[j]
      /\ u[Len(d) + 1] = "/"
      /\ \A j \in 1 .. Len(name) : u[Len(d) + 1 + j] = name[j]
  BY <1>2, <1>4, SlashBetween
<1>9. Len(u) = i
  BY <1>4, <1>5, <1>6, <1>8
<1>10. ASSUME NEW j \in 1 .. i
       PROVE  u[j] = s[j]
  <2>1. CASE j < k
    <3>1. j \in 1 .. k - 1 /\ j \in 1 .. Len(d)
      BY <1>5, <1>6, <2>1
    <3>. QED  BY <1>6, <1>8, <3>1
  <2>2. CASE j = k
    <3>1. Len(d) + 1 = k
      BY <1>5, <1>6
    <3>. QED  BY <1>5, <1>8, <2>2, <3>1
  <2>3. CASE j > k
    <3>1. PICK m \in 1 .. Len(name) : Len(d) + 1 + m = j /\ k + m = j
      <4>1. j - k \in 1 .. Len(name) /\ Len(d) + 1 + (j - k) = j /\ k + (j - k) = j
        BY <1>4, <1>5, <1>6, <2>3
      <4>. QED  BY <4>1
    <3>2. u[Len(d) + 1 + m] = name[m] /\ name[m] = s[k + m]
      BY <1>5, <1>8
    <3>. QED  BY <3>1, <3>2
  <2>. QED  BY <1>5, <2>1, <2>2, <2>3
<1>11. u = v
  <2>1. Len(u) = Len(v) /\ \A j \in 1 .. Len(u) : u[j] = v[j]
    BY <1>7, <1>9, <1>10
  <2>. QED  BY <1>7, <1>8, <2>1, SeqEqual
<1>. QED  BY <1>1, <1>2, <1>3, <1>11

\* A walk along a clean path is in the directory it has read.
LEMMA CleanAlong ==
  ASSUME NEW C, "/" \in C, Nul \notin C, NEW s \in Seq(C), IsCleanAbsPath(s),
         NEW A, A = Along(<<>>, s)
  PROVE  \A i \in 1 .. Len(s) : \E k : Word(s, i, k, A[i].dir, A[i].name)
<1>1. PICK n \in Nat : n = Len(s)
  OBVIOUS
<1>2. n # 0 /\ s[1] = "/" /\ \A i \in 1 .. n : s[i] \in C
  BY <1>1, CleanSlash
<1>3. /\ \A i \in 0 .. n : A[i] \in Places(C)
      /\ A[0] = [dir |-> <<>>, name |-> <<>>]
      /\ \A i \in 1 .. n : A[i] = Read(A[i - 1], s[i])
  <2>1. PICK d \in Seq(Seq(C)) : d = <<>>
    <3>1. <<>> \in Seq(Seq(C))
      OBVIOUS
    <3>. QED  BY <3>1
  <2>2. PICK B : B = Along(d, s)
    OBVIOUS
  <2>3. /\ B \in [0 .. n -> Places(C)] /\ B[0] = [dir |-> d, name |-> <<>>]
        /\ \A i \in 1 .. n : B[i] = Read(B[i - 1], s[i])
    BY ZenonT(30), <1>1, <2>2, AlongIs
  <2>4. B = A
    BY <2>1, <2>2
  <2>5. \A i \in 0 .. n : B[i] \in Places(C)
    BY <2>3
  <2>. QED  BY <2>1, <2>3, <2>4, <2>5
<1> DEFINE S == {i \in 0 .. n : i # 0 => \E k : Word(s, i, k, A[i].dir, A[i].name)}
<1>4. 0 \in S
  BY <1>1
<1>5. ASSUME NEW i \in 0 .. n, i < n, i \in S
      PROVE  i + 1 \in S
  <2>1. i + 1 \in 1 .. n /\ i + 1 \in 0 .. n /\ (i + 1) - 1 = i
    BY <1>5
  <2>2. PICK d, m : d = A[i].dir /\ m = A[i].name
    OBVIOUS
  <2>3. d \in Seq(Seq(C)) /\ m \in Seq(C)
    BY <1>3, <2>2 DEF Places
  <2>4. A[i + 1] = Read(A[i], s[i + 1])
    BY <1>3, <2>1
  <2>5. CASE i = 0
    <3>1. A[1].dir = <<>> /\ A[1].name = <<>>
      <4>1. d = <<>> /\ m = <<>>
        BY <1>3, <2>2, <2>5
      <4>. QED  BY <1>2, <2>2, <2>4, <2>5, <4>1 DEF Read, Step
    <3>2. Word(s, 1, 1, <<>>, <<>>)
      <4>1. Text(<<>>) = <<>>
        BY <2>3, TextAppend
      <4>2. SubSeq(s, 1, 1 - 1) = <<>>
        BY SubSeqEmpty
      <4>3. Len(<<>>) = 0 /\ 1 \in 1 .. 1 /\ 1 .. 0 = {}
        OBVIOUS
      <4>4. PICK e, k : e = <<>> /\ k = 1
        OBVIOUS
      <4>5. k \in 1 .. 1 /\ k + Len(e) = 1 /\ s[k] = "/" /\ Text(e) = SubSeq(s, 1, k - 1)
        <5>1. k \in 1 .. 1 /\ k + Len(e) = 1 /\ k - 1 = 1 - 1
          BY <4>3, <4>4
        <5>2. s[k] = "/" /\ Text(e) = <<>>
          BY <1>2, <4>1, <4>4
        <5>. QED  BY <4>2, <5>1, <5>2
      <4>6. \A j \in 1 .. Len(e) : e[j] = s[k + j]
        BY <4>3, <4>4
      <4>7. Word(s, 1, k, e, e)
        BY <4>5, <4>6 DEF Word
      <4>. QED  BY <4>4, <4>7
    <3>. QED  BY <2>1, <2>5, <3>1, <3>2
  <2>6. CASE i # 0
    <3>1. PICK k : Word(s, i, k, d, m)
      BY <1>5, <2>2, <2>6
    <3>2. i \in 1 .. Len(s)
      BY <1>1, <2>6
    <3>3. k \in 1 .. i /\ k + Len(m) = i /\ Len(m) \in Nat
      BY <2>3, <3>1 DEF Word
    <3>4. CASE s[i + 1] = "/"
      <4>1. A[i + 1].dir = Step(d, m) /\ A[i + 1].name = <<>>
        BY <2>2, <2>4, <3>4 DEF Read
      <4>2. Step(d, m) = Append(d, m)
        <5>1. i < Len(s)
          BY <1>1, <1>5
        <5>. QED  BY <2>3, <3>1, <3>2, <3>4, <5>1, ProperName
      <4>3. Text(Append(d, m)) = SubSeq(s, 1, i)
        <5>1. Text(Append(d, m)) = Text(d) \o <<"/">> \o m
          BY <2>3, TextAppend
        <5>2. Text(d) \o <<"/">> \o m = SubSeq(s, 1, i)
          BY ZenonT(30), <2>3, <3>1, <3>2, WordText
        <5>. QED  BY <5>1, <5>2
      <4>4. Word(s, i + 1, i + 1, Append(d, m), <<>>)
        <5>1. Len(<<>>) = 0 /\ i + 1 \in 1 .. i + 1 /\ i + 1 + 0 = i + 1 /\ (i + 1) - 1 = i /\ 1 .. 0 = {}
          BY <2>1
        <5>. QED  BY <3>4, <4>3, <5>1 DEF Word
      <4>. QED  BY <2>1, <4>1, <4>2, <4>4
    <3>5. CASE s[i + 1] # "/"
      <4>1. A[i + 1].dir = d /\ A[i + 1].name = Append(m, s[i + 1])
        BY <2>2, <2>4, <3>5 DEF Read
      <4>2. PICK m2 : m2 = Append(m, s[i + 1])
        OBVIOUS
      <4>3. /\ Len(m2) = Len(m) + 1 /\ m2[Len(m) + 1] = s[i + 1]
            /\ \A j \in 1 .. Len(m) : m2[j] = m[j]
        BY <1>2, <2>1, <2>3, <4>2, AppendProperties
      <4>4. k \in 1 .. i + 1 /\ k + Len(m2) = i + 1
        BY <2>1, <3>3, <4>3
      <4>5. ASSUME NEW j \in 1 .. Len(m2)
            PROVE  m2[j] = s[k + j]
        <5>1. CASE j = Len(m) + 1
          <6>1. k + j = i + 1
            BY <3>3, <5>1
          <6>. QED  BY <4>3, <5>1, <6>1
        <5>2. CASE j # Len(m) + 1
          <6>1. j \in 1 .. Len(m)
            BY <3>3, <4>3, <5>2
          <6>. QED  BY <3>1, <4>3, <6>1 DEF Word
        <5>. QED  BY <5>1, <5>2
      <4>6. Word(s, i + 1, k, d, m2)
        BY <3>1, <4>4, <4>5 DEF Word
      <4>. QED  BY <2>1, <4>1, <4>2, <4>6
    <3>. QED  BY <3>4, <3>5
  <2>. QED  BY <2>5, <2>6
<1>6. \A i \in 0 .. n : i \in S
  <2>. HIDE DEF S
  <2>. QED  BY <1>4, <1>5, InductionTo
<1>7. \A i \in 1 .. n : i \in 0 .. n /\ i # 0
  OBVIOUS
<1>. QED  BY <1>1, <1>6, <1>7

\* A clean path is the text of the directory it resolves to, or that text and
\* a slash.
LEMMA CleanText ==
  ASSUME NEW C, "/" \in C, Nul \notin C, NEW s \in Seq(C), IsCleanAbsPath(s)
  PROVE  /\ Resolved(s) \in Seq(Seq(C))
         /\ \/ s = Text(Resolved(s)) /\ Resolved(s) # <<>>
            \/ s = Text(Resolved(s)) \o <<"/">>
<1>1. PICK A : A = Along(<<>>, s)
  OBVIOUS
<1>2. PICK n \in Nat : n = Len(s)
  OBVIOUS
<1>3. n # 0 /\ n \in 1 .. Len(s) /\ n \in 0 .. n
  BY <1>2, CleanSlash
<1>4. PICK d, m : d = A[n].dir /\ m = A[n].name
  OBVIOUS
<1>5. <<>> \in Seq(Seq(C))
  OBVIOUS
<1>6. d \in Seq(Seq(C)) /\ m \in Seq(C)
  <2>0. A \in [0 .. Len(s) -> Places(C)]
    BY <1>1, <1>5, AlongIs
  <2>1. A[n] \in Places(C)
    BY <1>2, <1>3, <2>0
  <2>. QED  BY <1>4, <2>1 DEF Places
<1>7. PICK k : Word(s, n, k, d, m)
  BY <1>1, <1>3, <1>4, CleanAlong
<1>8. Resolved(s) = Step(d, m)
  BY <1>1, <1>2, <1>4 DEF Resolved, Walk
<1>9. Step(d, m) = IF m = <<>> THEN d ELSE Append(d, m)
  BY <1>2, <1>3, <1>6, <1>7, ProperName
<1>10. s = Text(d) \o <<"/">> \o m
  <2>1. Text(d) \o <<"/">> \o m = SubSeq(s, 1, n)
    BY ZenonT(30), <1>3, <1>6, <1>7, WordText
  <2>. QED  BY <1>2, <2>1, SubSeqFull
<1>11. Resolved(s) \in Seq(Seq(C))
  BY <1>6, <1>8, StepType
<1>12. CASE m = <<>>
  <2>1. Text(d) \in Seq(C) /\ <<"/">> \in Seq(C)
    BY <1>6, TextAppend
  <2>2. Text(d) \o <<"/">> \in Seq(C)
    BY <2>1, ConcatProperties
  <2>3. s = Text(d) \o <<"/">>
    BY <1>10, <1>12, <2>2, ConcatEmptySeq
  <2>. QED  BY <1>8, <1>9, <1>11, <1>12, <2>3
<1>13. CASE m # <<>>
  <2>1. Resolved(s) = Append(d, m) /\ Append(d, m) # <<>>
    BY <1>6, <1>8, <1>9, <1>13, AppendProperties
  <2>2. Text(Append(d, m)) = Text(d) \o <<"/">> \o m
    BY <1>6, TextAppend
  <2>. QED  BY <1>10, <1>11, <2>1, <2>2
<1>. QED  BY <1>12, <1>13

\* is_clean_abs_path accepts only canonical paths.
LEMMA CleanCanonical ==
  ASSUME NEW C, "/" \in C, Nul \notin C, NEW s \in Seq(C), IsCleanAbsPath(s)
  PROVE  Canonical(s)
<1>1. PICK r : r = Resolved(s)
  OBVIOUS
<1>2. r \in Seq(Seq(C)) /\ ((s = Text(r) /\ r # <<>>) \/ s = Text(r) \o <<"/">>)
  BY <1>1, CleanText
<1>3. CASE r = <<>>
  <2>0. <<>> \in Seq(C) /\ <<"/">> \in Seq(C)
    OBVIOUS
  <2>1. Text(r) = <<>> /\ <<>> \o <<"/">> = <<"/">>
    <3>1. Text(<<>>) = <<>>
      BY <1>2, <2>0, TextAppend
    <3>2. <<>> \o <<"/">> = <<"/">>
      BY <2>0, ConcatEmptySeq
    <3>. QED  BY <1>3, <3>1, <3>2
  <2>2. Written(r) = <<"/">> /\ s = <<"/">>
    BY <1>2, <1>3, <2>1 DEF Written
  <2>. QED  BY <1>1, <2>2 DEF Canonical
<1>4. CASE r # <<>>
  <2>1. Written(r) = Text(r)
    BY <1>4 DEF Written, Text
  <2>2. CASE s = Text(r)
    BY <1>1, <2>1, <2>2 DEF Canonical
  <2>3. CASE s = Text(r) \o <<"/">>
    <3>1. Text(r) # <<"/">>
      <4>. SUFFICES ASSUME Text(r) = <<"/">>
                    PROVE  FALSE
        OBVIOUS
      <4>1. PICK w : w = <<"/">>
        OBVIOUS
      <4>2. w \in Seq(C) /\ Len(w) = 1 /\ w[1] = "/" /\ s = w \o w
        BY <2>3, <4>1
      <4>5. Len(s) = Len(w) + Len(w) /\ \A i \in 1 .. Len(w) + Len(w) : s[i] = IF i <= Len(w) THEN w[i] ELSE w[i - Len(w)]
        BY <4>2, ConcatProperties
      <4>6. Len(s) = 2 /\ s[1] = w[1] /\ s[2] = w[1]
        BY <4>2, <4>5
      <4>3. SlashOk(s, 1)
        <5>1. 1 \in 1 .. Len(s) /\ s[1] = "/"
          BY <4>2, <4>6
        <5>. QED  BY <5>1, CleanSlash
      <4>4. 1 + 1 = 2 /\ 2 \in 1 .. 2
        OBVIOUS
      <4>. QED  BY <4>2, <4>3, <4>4, <4>6 DEF SlashOk
    <3>. QED  BY <1>1, <2>1, <2>3, <3>1 DEF Canonical
  <2>. QED  BY <1>2, <2>2, <2>3
<1>. QED  BY <1>3, <1>4

-----------------------------------------------------------------------------
(* Prefixes and trailing slashes. *)

\* A sequence that begins with another, index by index.
LEMMA PrefixIs ==
  ASSUME NEW X, NEW s \in Seq(X), NEW t \in Seq(X)
  PROVE  IsPrefix(s, t) <=> Len(s) <= Len(t) /\ \A i \in 1 .. Len(s) : s[i] = t[i]
<1>1. PICK n \in Nat : n = Len(s)
  OBVIOUS
<1>2. SubSeq(s, 1, n) = s
  BY <1>1, SubSeqFull
<1>3. ASSUME n <= Len(t)
      PROVE  s = SubSeq(t, 1, n) <=> \A i \in 1 .. n : s[i] = t[i]
  <2>1. PICK v : v = SubSeq(t, 1, n)
    OBVIOUS
  <2>2. n \in 0 .. Len(t)
    BY <1>3
  <2>3. v \in Seq(X) /\ Len(v) = n /\ \A i \in 1 .. n : v[i] = t[i]
    BY <2>1, <2>2, FirstPart
  <2>4. (\A i \in 1 .. n : s[i] = v[i]) => s = v
    BY <1>1, <2>3, SeqEqual
  <2>. QED  BY <2>1, <2>3, <2>4
<1>. QED  BY <1>1, <1>2, <1>3 DEF IsPrefix

\* A longer sequence has the same prefixes.
LEMMA PrefixAppend ==
  ASSUME NEW X, NEW s \in Seq(X), NEW t \in Seq(X), NEW e \in X, IsPrefix(s, t)
  PROVE  IsPrefix(s, Append(t, e))
<1>1. PICK u : u = Append(t, e)
  OBVIOUS
<1>2. u \in Seq(X) /\ Len(u) = Len(t) + 1 /\ \A i \in 1 .. Len(t) : u[i] = t[i]
  BY <1>1, AppendProperties
<1>3. Len(s) \in Nat /\ Len(t) \in Nat /\ Len(s) <= Len(t) /\ \A i \in 1 .. Len(s) : s[i] = t[i]
  BY PrefixIs
<1>4. Len(s) <= Len(u) /\ \A i \in 1 .. Len(s) : s[i] = u[i]
  BY <1>2, <1>3
<1>. QED  BY <1>1, <1>2, <1>4, PrefixIs

\* s ends, but for slashes, with its character n.
TrimsTo(s, n) ==
  /\ n \in 1 .. Len(s) /\ (n = 1 \/ s[n] # "/")
  /\ \A i \in 1 .. Len(s) : i > n => s[i] = "/"

\* What is left when slashes at the end are cut off.
LEMMA TrimmedIs ==
  ASSUME NEW C, NEW s \in Seq(C), s # <<>>
  PROVE  \E n : TrimsTo(s, n) /\ Trimmed(s) = SubSeq(s, 1, n)
<1>1. Len(s) \in Nat \ {0} /\ DOMAIN s = 1 .. Len(s)
  BY EmptySeq
<1> DEFINE T == {n \in 1 .. Len(s) : \A i \in 1 .. Len(s) : i > n => s[i] = "/"}
           P(n) == (n = 1 \/ s[n] # "/") /\ \A i \in DOMAIN s : i > n => s[i] = "/"
           c == CHOOSE n \in DOMAIN s : P(n)
<1>2. PICK n \in T : \A m \in T : n <= m
  <2>1. T \in SUBSET Nat /\ Len(s) \in T
    BY <1>1
  <2>. HIDE DEF T
  <2>. QED  BY <2>1, LeastNat
<1>3. n = 1 \/ s[n] # "/"
  <2>. SUFFICES ASSUME n # 1, s[n] = "/"
                PROVE  FALSE
    OBVIOUS
  <2>1. n - 1 \in 1 .. Len(s) /\ ~(n <= n - 1)
    BY <1>1
  <2>2. ASSUME NEW i \in 1 .. Len(s), i > n - 1
        PROVE  s[i] = "/"
    <3>1. i = n \/ i > n
      BY <1>1, <2>2
    <3>. QED  BY <1>2, <3>1
  <2>3. n - 1 \in T
    BY <2>1, <2>2
  <2>. HIDE DEF T
  <2>. QED  BY <1>2, <2>1, <2>3
<1>4. n \in DOMAIN s /\ P(n)
  BY <1>1, <1>2, <1>3
<1>5. c \in DOMAIN s /\ P(c)
  <2>. HIDE DEF P
  <2>. QED  BY <1>4
<1>6. Trimmed(s) = SubSeq(s, 1, c)
  BY DEF Trimmed
<1>. HIDE DEF c
<1>7. TrimsTo(s, c)
  BY <1>1, <1>5 DEF TrimsTo
<1>. QED  BY <1>6, <1>7

\* Slashes at the end lead nowhere else.
LEMMA TrimWalk ==
  ASSUME NEW C, NEW s \in Seq(C), s # <<>>, NEW d \in Seq(Seq(C))
  PROVE  /\ Trimmed(s) \in Seq(C) /\ Trimmed(s) # <<>>
         /\ Walk(d, Trimmed(s)) = Walk(d, s)
<1>1. PICK n : TrimsTo(s, n) /\ Trimmed(s) = SubSeq(s, 1, n)
  BY TrimmedIs
<1>2. PICK v : v = Trimmed(s)
  OBVIOUS
<1>3. PICK m \in Nat : m = Len(s)
  OBVIOUS
<1>4. n \in 1 .. m /\ n \in Nat /\ \A i \in 1 .. m : i > n => s[i] = "/"
  BY <1>1, <1>3 DEF TrimsTo
<1>5. v \in Seq(C) /\ Len(v) = n /\ \A i \in 1 .. n : v[i] = s[i]
  <2>1. n \in 0 .. Len(s)
    BY <1>3, <1>4
  <2>. QED  BY <1>1, <1>2, <2>1, FirstPart
<1>6. PICK A, B : A = Along(d, s) /\ B = Along(d, v)
  OBVIOUS
<1>7. B[n] = A[n]
  <2>1. n <= Len(s) /\ n <= Len(v) /\ n \in 0 .. n
    BY <1>3, <1>4, <1>5
  <2>2. \A i \in 0 .. n : Along(d, v)[i] = Along(d, s)[i]
    <3>1. PICK k \in Nat : k = n
      BY <1>4
    <3>2. k <= Len(v) /\ k <= Len(s) /\ \A i \in 1 .. k : v[i] = s[i]
      BY <1>5, <2>1, <3>1
    <3>3. v \in Seq(C) /\ s \in Seq(C) /\ d \in Seq(Seq(C))
      BY <1>5
    <3>. QED  BY <3>1, <3>2, <3>3, AlongSame, SMTT(30)
  <2>. QED  BY <1>6, <2>1, <2>2
<1>8. \A i \in 1 .. m : A[i] = Read(A[i - 1], s[i])
  BY <1>3, <1>6, AlongIs
<1> DEFINE w(i) == Step(A[i].dir, A[i].name)
           S == {i \in 0 .. m : i >= n => w(i) = w(n)}
<1>9. \A i \in 0 .. m : i \in S
  <2>1. 0 \in S
    BY <1>3, <1>4
  <2>2. ASSUME NEW i \in 0 .. m, i < m, i \in S
        PROVE  i + 1 \in S
    <3>1. i + 1 \in 1 .. m /\ i + 1 \in 0 .. m /\ (i + 1) - 1 = i
      BY <2>2
    <3>2. CASE i + 1 = n \/ ~(i + 1 >= n)
      BY <3>1, <3>2
    <3>3. CASE i >= n
      <4>1. s[i + 1] = "/"
        BY <1>4, <3>1, <3>3
      <4>2. A[i + 1] = Read(A[i], "/")
        BY <1>8, <3>1, <4>1
      <4>3. A[i + 1].dir = w(i) /\ A[i + 1].name = <<>>
        BY <4>2 DEF Read
      <4>4. w(i + 1) = w(i)
        BY <4>3 DEF Step
      <4>. QED  BY <2>2, <3>1, <3>3, <4>4
    <3>4. i + 1 = n \/ ~(i + 1 >= n) \/ i >= n
      BY <1>4
    <3>. QED  BY <3>2, <3>3, <3>4
  <2>. HIDE DEF S
  <2>. QED  BY <1>3, <2>1, <2>2, InductionTo
<1>10. w(m) = w(n)
  <2>1. m \in 0 .. m /\ m >= n
    BY <1>3, <1>4
  <2>. QED  BY <1>9, <2>1
<1>11. Walk(d, s) = w(m) /\ Walk(d, v) = Step(B[n].dir, B[n].name)
  BY <1>3, <1>5, <1>6 DEF Walk
<1>12. v # <<>>
  BY <1>4, <1>5
<1>. QED  BY <1>2, <1>5, <1>7, <1>10, <1>11, <1>12

-----------------------------------------------------------------------------
(* Paths under a workspace. *)

\* From anywhere on a clean path the walk only goes down.
LEMMA CleanGrows ==
  ASSUME NEW C, "/" \in C, Nul \notin C, NEW s \in Seq(C), IsCleanAbsPath(s),
         NEW j \in 1 .. Len(s), NEW R \in Seq(Seq(C)), IsPrefix(R, Along(<<>>, s)[j].dir)
  PROVE  IsPrefix(R, Resolved(s))
<1>1. PICK A : A = Along(<<>>, s)
  OBVIOUS
<1>2. PICK n \in Nat : n = Len(s)
  OBVIOUS
<1>3. <<>> \in Seq(Seq(C))
  OBVIOUS
<1>4. A \in [0 .. n -> Places(C)] /\ \A i \in 1 .. n : A[i] = Read(A[i - 1], s[i])
  BY ZenonT(30), <1>1, <1>2, <1>3, AlongIs
<1>5. \A i \in 1 .. n : \E k : Word(s, i, k, A[i].dir, A[i].name)
  BY <1>1, <1>2, CleanAlong
<1>6. ASSUME NEW i \in 1 .. n, IsPrefix(R, A[i].dir), i = n \/ s[i + 1] = "/"
      PROVE  IsPrefix(R, Step(A[i].dir, A[i].name))
  <2>1. PICK d, m : d = A[i].dir /\ m = A[i].name
    OBVIOUS
  <2>2. d \in Seq(Seq(C)) /\ m \in Seq(C)
    <3>1. i \in 0 .. n
      OBVIOUS
    <3>. QED  BY <1>4, <2>1, <3>1 DEF Places
  <2>3. PICK k : Word(s, i, k, d, m)
    BY <1>5, <2>1
  <2>4. i \in 1 .. Len(s) /\ (i = Len(s) \/ s[i + 1] = "/")
    BY <1>2, <1>6
  <2>5. Step(d, m) = IF m = <<>> THEN d ELSE Append(d, m)
    BY <2>2, <2>3, <2>4, ProperName
  <2>6. IsPrefix(R, Append(d, m))
    BY <1>6, <2>1, <2>2, PrefixAppend
  <2>. QED  BY <1>6, <2>1, <2>5, <2>6
<1> DEFINE S == {i \in 0 .. n : i >= j => IsPrefix(R, A[i].dir)}
<1>7. 0 \in S
  BY <1>2
<1>8. ASSUME NEW i \in 0 .. n, i < n, i \in S
      PROVE  i + 1 \in S
  <2>1. i + 1 \in 1 .. n /\ i + 1 \in 0 .. n /\ (i + 1) - 1 = i /\ j \in Nat /\ j >= 1
    BY <1>2, <1>8
  <2>2. CASE i + 1 = j
    <3>1. IsPrefix(R, A[i + 1].dir)
      BY <1>1, <2>2
    <3>. QED  BY <2>1, <3>1
  <2>3. CASE i >= j
    <3>1. i \in 1 .. n /\ IsPrefix(R, A[i].dir)
      BY <1>8, <2>1, <2>3
    <3>2. A[i + 1] = Read(A[i], s[i + 1])
      BY <1>4, <2>1
    <3>3. CASE s[i + 1] = "/"
      <4>1. A[i + 1].dir = Step(A[i].dir, A[i].name)
        BY <3>2, <3>3 DEF Read
      <4>2. IsPrefix(R, A[i + 1].dir)
        BY <1>6, <3>1, <3>3, <4>1
      <4>. QED  BY <2>1, <4>2
    <3>4. CASE s[i + 1] # "/"
      <4>1. A[i + 1].dir = A[i].dir
        BY <3>2, <3>4 DEF Read
      <4>. QED  BY <2>1, <3>1, <4>1
    <3>. QED  BY <3>3, <3>4
  <2>4. CASE ~(i + 1 >= j)
    BY <2>1, <2>4
  <2>. QED  BY <2>1, <2>2, <2>3, <2>4
<1>9. \A i \in 0 .. n : i \in S
  <2>. HIDE DEF S
  <2>. QED  BY <1>7, <1>8, InductionTo
<1>10. n \in 1 .. n /\ n \in 0 .. n /\ n >= j
  BY <1>2
<1>11. IsPrefix(R, A[n].dir)
  BY <1>9, <1>10
<1>12. Resolved(s) = Step(A[n].dir, A[n].name)
  BY <1>1, <1>2 DEF Resolved, Walk
<1>. QED  BY <1>6, <1>10, <1>11, <1>12

\* path_under_workspace accepts only what lies in the workspace.
LEMMA UnderInside ==
  ASSUME NEW C, "/" \in C, Nul \notin C, NEW w \in Seq(C), NEW p \in Seq(C),
         PathUnderWorkspace(w, p)
  PROVE  /\ Canonical(w) /\ Canonical(p) /\ Inside(w, p)
         /\ Resolved(w) = <<>> => Resolved(p) = <<>>
<1>1. w # <<>> /\ p # <<>> /\ IsCleanAbsPath(w) /\ IsCleanAbsPath(p) /\ StartsWith(w, p)
  BY DEF PathUnderWorkspace
<1>2. PICK t : t = Trimmed(w)
  OBVIOUS
<1>3. PICK R : R = Resolved(w)
  OBVIOUS
<1>4. <<>> \in Seq(Seq(C))
  OBVIOUS
<1>5. t \in Seq(C) /\ t # <<>> /\ Walk(<<>>, t) = R
  BY <1>1, <1>2, <1>3, <1>4, TrimWalk DEF Resolved
<1>6. R \in Seq(Seq(C))
  BY <1>1, <1>3, CleanText
<1>7. PICK m \in Nat : m = Len(t) /\ m # 0
  BY <1>5, EmptySeq
<1>8. PICK n \in Nat : n = Len(p)
  OBVIOUS
<1>9. m <= n /\ \A i \in 1 .. m : t[i] = p[i]
  BY <1>1, <1>2, <1>5, <1>7, <1>8, PrefixIs DEF StartsWith
<1>10. CASE n = m
  <2>1. p = t
    BY <1>5, <1>7, <1>8, <1>9, <1>10, SeqEqual
  <2>2. Resolved(p) = R
    BY <1>5, <2>1 DEF Resolved
  <2>3. IsPrefix(R, R)
    BY <1>6, PrefixIs
  <2>. QED  BY <1>1, <1>3, <2>2, <2>3, CleanCanonical DEF Inside
<1>11. CASE n # m
  <2>1. m + 1 \in 1 .. n /\ m <= n /\ m \in 0 .. m /\ (m + 1) - 1 = m
    BY <1>9, <1>11
  <2>2. p[m + 1] = "/"
    <3>1. Char(p, m + 1) \in {"/", Nul}
      BY <1>1, <1>2, <1>7 DEF StartsWith, EndsAt
    <3>2. m + 1 \in DOMAIN p /\ p[m + 1] \in C
      BY <1>8, <2>1
    <3>. QED  BY <3>1, <3>2 DEF Char
  <2>3. PICK A, B : A = Along(<<>>, p) /\ B = Along(<<>>, t)
    OBVIOUS
  <2>4. A[m] = B[m]
    <3>1. m <= Len(p) /\ m <= Len(t) /\ \A i \in 1 .. m : p[i] = t[i]
      BY <1>7, <1>8, <1>9, <2>1
    <3>2. t \in Seq(C)
      BY <1>5
    <3>3. \A i \in 0 .. m : Along(<<>>, p)[i] = Along(<<>>, t)[i]
      <4>1. PICK e \in Seq(Seq(C)) : e = <<>>
        BY <1>4
      <4>2. \A i \in 0 .. m : Along(e, p)[i] = Along(e, t)[i]
        BY <3>1, <3>2, AlongSame, SMTT(30)
      <4>. QED  BY <4>1, <4>2
    <3>. QED  BY <2>1, <2>3, <3>3
  <2>5. A[m + 1] = Read(A[m], "/")
    <3>1. \A i \in 1 .. n : A[i] = Read(A[i - 1], p[i])
      BY <1>4, <1>8, <2>3, AlongIs
    <3>. QED  BY <2>1, <2>2, <3>1
  <2>6. A[m + 1].dir = R
    <3>1. R = Step(B[m].dir, B[m].name)
      BY <1>5, <1>7, <2>3 DEF Walk
    <3>. QED  BY <2>4, <2>5, <3>1 DEF Read
  <2>7. IsPrefix(R, R)
    BY <1>6, PrefixIs
  <2>8. IsPrefix(R, Resolved(p))
    <3>1. IsPrefix(R, Along(<<>>, p)[m + 1].dir) /\ m + 1 \in 1 .. Len(p)
      BY <1>8, <2>1, <2>3, <2>6, <2>7
    <3>. QED  BY <1>1, <1>6, <3>1, CleanGrows
  <2>9. R # <<>>
    <3>. SUFFICES ASSUME R = <<>>
                  PROVE  FALSE
      OBVIOUS
    <3>1. w = Text(<<>>) \o <<"/">>
      BY <1>1, <1>3, CleanText
    <3>2. w = <<"/">>
      <4>1. <<>> \in Seq(C) /\ <<"/">> \in Seq(C)
        OBVIOUS
      <4>2. Text(<<>>) = <<>>
        BY <1>4, <4>1, TextAppend
      <4>. QED  BY <3>1, <4>1, <4>2, ConcatEmptySeq
    <3>3. Len(w) = 1
      BY <3>2
    <3>4. PICK k : TrimsTo(w, k) /\ t = SubSeq(w, 1, k)
      BY <1>1, <1>2, TrimmedIs
    <3>5. k \in 0 .. Len(w) /\ k = 1
      BY <3>3, <3>4 DEF TrimsTo
    <3>6. m = 1
      BY <1>7, <3>4, <3>5, FirstPart
    <3>7. SlashOk(p, 1)
      <4>1. 1 \in 1 .. Len(p) /\ p[1] = "/"
        BY <1>1, CleanSlash
      <4>. QED  BY <1>1, <4>1, CleanSlash
    <3>8. m + 1 = 1 + 1 /\ 1 + 1 \in 1 .. Len(p)
      BY <1>8, <2>1, <3>6
    <3>. QED  BY <2>2, <3>7, <3>8 DEF SlashOk
  <2>. QED  BY <1>1, <1>3, <2>8, <2>9, CleanCanonical DEF Inside
<1>. QED  BY <1>10, <1>11

-----------------------------------------------------------------------------
(* Names that a walk leaves behind. *)

Slashless(name) == \A j \in 1 .. Len(name) : name[j] # "/"
Proper(name)    == Slashless(name) /\ name \notin {<<>>, <<".">>, <<".", ".">>}
ProperDir(dir)  == \A i \in 1 .. Len(dir) : Proper(dir[i])

\* One name leads from a directory with proper names to another.
LEMMA StepProper ==
  ASSUME NEW C, NEW dir \in Seq(Seq(C)), NEW name \in Seq(C), ProperDir(dir), Slashless(name)
  PROVE  ProperDir(Step(dir, name))
<1>1. ASSUME name \notin {<<>>, <<".">>, <<".", ".">>}
      PROVE  ProperDir(Append(dir, name))
  <2>1. PICK e : e = Append(dir, name)
    OBVIOUS
  <2>2. /\ Len(e) = Len(dir) + 1 /\ e[Len(dir) + 1] = name
        /\ \A i \in 1 .. Len(dir) : e[i] = dir[i]
    BY <2>1, AppendProperties
  <2>3. Len(dir) \in Nat
    OBVIOUS
  <2>4. ASSUME NEW i \in 1 .. Len(e)
        PROVE  Proper(e[i])
    <3>1. i = Len(dir) + 1 \/ i \in 1 .. Len(dir)
      BY <2>2, <2>3
    <3>2. Proper(name)
      BY <1>1 DEF Proper
    <3>. QED  BY <2>2, <3>1, <3>2 DEF ProperDir
  <2>. QED  BY <2>1, <2>4 DEF ProperDir
<1>2. ASSUME dir # <<>>
      PROVE  ProperDir(Front(dir))
  <2>1. Len(dir) \in Nat \ {0} /\ Len(dir) - 1 \in 0 .. Len(dir)
    BY <1>2, EmptySeq
  <2>2. PICK v : v = SubSeq(dir, 1, Len(dir) - 1)
    OBVIOUS
  <2>3. Len(v) = Len(dir) - 1 /\ \A j \in 1 .. Len(dir) - 1 : v[j] = dir[j]
    <3>1. PICK i \in 0 .. Len(dir) : i = Len(dir) - 1
      BY <2>1
    <3>2. v = SubSeq(dir, 1, i)
      BY <2>2, <3>1
    <3>3. Len(v) = i /\ \A j \in 1 .. i : v[j] = dir[j]
      BY <3>2, FirstPart
    <3>. QED  BY <3>1, <3>3
  <2>4. \A j \in 1 .. Len(v) : j \in 1 .. Len(dir) /\ v[j] = dir[j]
    BY <2>1, <2>3
  <2>5. ProperDir(v)
    <3>. HIDE DEF Proper
    <3>. QED  BY <2>4 DEF ProperDir
  <2>. QED  BY <2>2, <2>5 DEF Front
<1>. QED  BY <1>1, <1>2 DEF Step

\* Every directory on a walk from one with proper names has proper names, and
\* no name that is being read has a slash.
LEMMA AlongProper ==
  ASSUME NEW C, NEW s \in Seq(C), NEW d \in Seq(Seq(C)), ProperDir(d)
  PROVE  \A i \in 0 .. Len(s) : ProperDir(Along(d, s)[i].dir) /\ Slashless(Along(d, s)[i].name)
<1>1. PICK n \in Nat : n = Len(s)
  OBVIOUS
<1>2. PICK A : A = Along(d, s)
  OBVIOUS
<1>3. /\ A \in [0 .. n -> Places(C)]
      /\ A[0] = [dir |-> d, name |-> <<>>]
      /\ \A i \in 1 .. n : A[i] = Read(A[i - 1], s[i])
  BY <1>1, <1>2, AlongIs
<1>4. Slashless(<<>>)
  BY DEF Slashless
<1> DEFINE S == {i \in 0 .. n : ProperDir(A[i].dir) /\ Slashless(A[i].name)}
<1>5. 0 \in S
  BY <1>3, <1>4
<1>6. ASSUME NEW i \in 0 .. n, i < n, i \in S
      PROVE  i + 1 \in S
  <2>1. i + 1 \in 1 .. n /\ i + 1 \in 0 .. n /\ (i + 1) - 1 = i
    BY <1>6
  <2>2. PICK e, m : e = A[i].dir /\ m = A[i].name
    OBVIOUS
  <2>3. e \in Seq(Seq(C)) /\ m \in Seq(C) /\ ProperDir(e) /\ Slashless(m)
    BY <1>3, <1>6, <2>2 DEF Places
  <2>4. A[i + 1] = Read(A[i], s[i + 1])
    BY <1>3, <2>1
  <2>5. CASE s[i + 1] = "/"
    <3>1. A[i + 1].dir = Step(e, m) /\ A[i + 1].name = <<>>
      BY <2>2, <2>4, <2>5 DEF Read
    <3>2. ProperDir(Step(e, m))
      BY <2>3, StepProper
    <3>. QED  BY <1>4, <2>1, <3>1, <3>2
  <2>6. CASE s[i + 1] # "/"
    <3>1. PICK m2 : m2 = Append(m, s[i + 1])
      OBVIOUS
    <3>2. A[i + 1].dir = e /\ A[i + 1].name = m2
      BY <2>2, <2>4, <2>6, <3>1 DEF Read
    <3>3. /\ Len(m2) = Len(m) + 1 /\ m2[Len(m) + 1] = s[i + 1]
          /\ \A j \in 1 .. Len(m) : m2[j] = m[j]
      <4>1. s[i + 1] \in C
        <5>1. \A j \in 1 .. n : s[j] \in C
          BY <1>1
        <5>. QED  BY <2>1, <5>1
      <4>. QED  BY <2>3, <3>1, <4>1, AppendProperties
    <3>4. \A j \in 1 .. Len(m2) : j = Len(m) + 1 \/ j \in 1 .. Len(m)
      <4>1. Len(m) \in Nat
        BY <2>3
      <4>. QED  BY <3>3, <4>1
    <3>5. Slashless(m2)
      BY <2>3, <2>6, <3>3, <3>4 DEF Slashless
    <3>. QED  BY <2>1, <2>3, <3>2, <3>5
  <2>. QED  BY <2>5, <2>6
<1>7. \A i \in 0 .. n : i \in S
  <2>. HIDE DEF S
  <2>. QED  BY <1>5, <1>6, InductionTo
<1>. QED  BY <1>1, <1>2, <1>7

\* Every path resolves to a directory with proper names.
LEMMA ResolvedProper ==
  ASSUME NEW C, NEW s \in Seq(C)
  PROVE  Resolved(s) \in Seq(Seq(C)) /\ ProperDir(Resolved(s))
<1>1. PICK d \in Seq(Seq(C)) : d = <<>>
  <2>1. <<>> \in Seq(Seq(C))
    OBVIOUS
  <2>. QED  BY <2>1
<1>2. ProperDir(d)
  BY <1>1 DEF ProperDir
<1>3. PICK at : at = Along(d, s)[Len(s)]
  OBVIOUS
<1>4. Len(s) \in 0 .. Len(s)
  OBVIOUS
<1>5. at.dir \in Seq(Seq(C)) /\ at.name \in Seq(C)
  <2>1. at \in Places(C)
    BY <1>3, <1>4, AlongIs
  <2>. QED  BY <2>1 DEF Places
<1>6. ProperDir(at.dir) /\ Slashless(at.name)
  BY <1>2, <1>3, <1>4, AlongProper
<1>7. ProperDir(Step(at.dir, at.name))
  BY <1>5, <1>6, StepProper
<1>8. Walk(d, s) = Step(at.dir, at.name)
  BY <1>3 DEF Walk
<1>. QED  BY <1>1, <1>7, <1>8, WalkType DEF Resolved

\* The tests of is_clean_abs_path ask no more of a path than CleanSlash says.
LEMMA SlashClean ==
  ASSUME NEW C, Nul \notin C, NEW s \in Seq(C), Len(s) # 0, s[1] = "/",
         \A k \in 1 .. Len(s) : s[k] = "/" => SlashOk(s, k)
  PROVE  IsCleanAbsPath(s)
<1>1. Len(s) \in Nat /\ DOMAIN s = 1 .. Len(s)
  OBVIOUS
<1>2. PICK n \in Nat : n = Len(s)
  BY <1>1
<1>3. \A i : IF i \in 1 .. n THEN Char(s, i) = s[i] ELSE Char(s, i) = Nul
  BY <1>1, <1>2 DEF Char
<1>4. 1 \in 1 .. n /\ \A i \in 1 .. n : s[i] # Nul
  BY <1>2
<1>5. Char(s, 1) = "/"
  BY <1>3, <1>4
<1>6. Nul # "/" /\ Nul # "."
  BY DEF Nul
<1>7. ASSUME NEW k \in 1 .. n, s[k] = "/"
      PROVE  /\ Char(s, k + 1) # "/"
             /\ ~(Char(s, k + 1) = "." /\ EndsAt(s, k + 2))
             /\ ~(Char(s, k + 1) = "." /\ Char(s, k + 2) = "." /\ EndsAt(s, k + 3))
  <2>1. SlashOk(s, k)
    BY <1>2, <1>7
  <2>2. Char(s, k + 1) # "/"
    BY <1>2, <1>3, <1>6, <2>1 DEF SlashOk
  <2>3. ASSUME Char(s, k + 1) = ".", Char(s, k + 2) \in {"/", Nul}
        PROVE  FALSE
    <3>1. k + 1 \in 1 .. n /\ s[k + 1] = "."
      BY <1>3, <1>6, <2>3
    <3>2. k + 1 # n /\ s[k + 2] # "/"
      BY <1>2, <2>1, <3>1 DEF SlashOk
    <3>3. k + 2 \in 1 .. n
      BY <3>1, <3>2
    <3>. QED  BY <1>3, <1>4, <2>3, <3>2, <3>3
  <2>4. ASSUME Char(s, k + 1) = ".", Char(s, k + 2) = ".", Char(s, k + 3) \in {"/", Nul}
        PROVE  FALSE
    <3>1. k + 1 \in 1 .. n /\ s[k + 1] = "."
      BY <1>3, <1>6, <2>4
    <3>2. k + 2 \in 1 .. n /\ s[k + 2] = "."
      BY <1>3, <1>6, <2>4
    <3>3. k + 2 # n /\ s[k + 3] # "/"
      BY <1>2, <2>1, <3>1, <3>2 DEF SlashOk
    <3>4. k + 3 \in 1 .. n
      BY <3>2, <3>3
    <3>. QED  BY <1>3, <1>4, <2>4, <3>3, <3>4
  <2>. QED  BY <2>2, <2>3, <2>4 DEF EndsAt
<1>. QED  BY <1>1, <1>2, <1>5, <1>7 DEF IsCleanAbsPath

-----------------------------------------------------------------------------
(* Canonical paths. *)

SlashesOk(s) == \A k \in 1 .. Len(s) : s[k] = "/" => SlashOk(s, k)

\* What can be written after a path that another name is to follow.
Joinable(s) == SlashesOk(s) /\ (Len(s) # 0 => s[1] = "/" /\ s[Len(s)] # "/")

\* What can be written after it and a slash.
MayFollow(name) == name = <<>> \/ Proper(name)

\* A proper name is not made of dots, character by character.
LEMMA ProperDots ==
  ASSUME NEW C, NEW name \in Seq(C), Proper(name)
  PROVE  /\ Len(name) \in Nat \ {0}
         /\ ~(Len(name) = 1 /\ name[1] = ".")
         /\ ~(Len(name) = 2 /\ name[1] = "." /\ name[2] = ".")
<1>1. Len(name) \in Nat /\ name # <<>> /\ name # <<".">> /\ name # <<".", ".">>
  BY DEF Proper
<1>2. Len(name) # 0
  BY <1>1, EmptySeq
<1>3. ASSUME Len(name) = 1, name[1] = "."
      PROVE  FALSE
  <2>1. PICK w : w = <<".">>
    OBVIOUS
  <2>2. w \in Seq({"."}) /\ Len(w) = 1 /\ w[1] = "."
    BY <2>1
  <2>3. \A j \in 1 .. Len(name) : name[j] = w[j]
    BY <1>3, <2>2
  <2>4. name \in Seq(C \cup {"."}) /\ w \in Seq(C \cup {"."})
    BY <2>2
  <2>5. name = w
    BY <1>3, <2>2, <2>3, <2>4, SeqEqual
  <2>. QED  BY <1>1, <2>1, <2>5
<1>4. ASSUME Len(name) = 2, name[1] = ".", name[2] = "."
      PROVE  FALSE
  <2>1. PICK w : w = <<".", ".">>
    OBVIOUS
  <2>2. w \in Seq({"."}) /\ Len(w) = 2 /\ w[1] = "." /\ w[2] = "."
    BY <2>1
  <2>3. \A j \in 1 .. Len(name) : name[j] = w[j]
    BY <1>4, <2>2
  <2>4. name \in Seq(C \cup {"."}) /\ w \in Seq(C \cup {"."})
    BY <2>2
  <2>5. name = w
    BY <1>4, <2>2, <2>3, <2>4, SeqEqual
  <2>. QED  BY <1>1, <2>1, <2>5
<1>. QED  BY <1>1, <1>2, <1>3, <1>4

\* A slash and a proper name, or only a slash, after such a path.
LEMMA JoinName ==
  ASSUME NEW C, "/" \in C, NEW t \in Seq(C), NEW name \in Seq(C), Joinable(t),
         MayFollow(name),
         NEW u, u = t \o <<"/">> \o name
  PROVE  /\ u \in Seq(C) /\ Len(u) # 0 /\ u[1] = "/" /\ SlashesOk(u)
<1>1. PICK m, n \in Nat : m = Len(t) /\ n = Len(name)
  OBVIOUS
<1>2. /\ u \in Seq(C) /\ Len(u) = m + 1 + n
      /\ \A i \in 1 .. m : u[i] = t[i]
      /\ u[m + 1] = "/"
      /\ \A i \in 1 .. n : u[m + 1 + i] = name[i]
  BY <1>1, SlashBetween
<1>3. u[1] = "/"
  <2>1. CASE m = 0
    BY <1>2, <2>1
  <2>2. CASE m # 0
    <3>1. 1 \in 1 .. m
      BY <2>2
    <3>. QED  BY <1>1, <1>2, <2>2, <3>1 DEF Joinable
  <2>. QED  BY <2>1, <2>2
<1>4. \A i \in 1 .. n : name[i] # "/"
  <2>1. CASE name = <<>>
    BY <1>1, <2>1
  <2>2. CASE Proper(name)
    BY <1>1, <2>2 DEF Proper, Slashless
  <2>. QED  BY <2>1, <2>2 DEF MayFollow
<1>5. ASSUME NEW k \in 1 .. m, u[k] = "/"
      PROVE  SlashOk(u, k)
  <2>1. t[k] = "/" /\ m # 0
    BY <1>2, <1>5
  <2>2. SlashOk(t, k) /\ t[m] # "/"
    BY <1>1, <2>1 DEF Joinable, SlashesOk
  <2>3. k # m /\ k + 1 \in 1 .. m /\ u[k + 1] = t[k + 1]
    BY <1>2, <2>1, <2>2
  <2>4. u[k + 1] # "/"
    BY <1>1, <2>2, <2>3 DEF SlashOk
  <2>5. ASSUME u[k + 1] = ".", k + 1 = Len(u) \/ u[k + 2] = "/"
        PROVE  FALSE
    <3>1. k + 1 # Len(u)
      BY <1>2, <2>3
    <3>2. k + 1 # m /\ t[k + 2] # "/"
      BY <1>1, <2>2, <2>3, <2>5 DEF SlashOk
    <3>3. k + 2 \in 1 .. m
      BY <2>3, <3>2
    <3>4. u[k + 2] = t[k + 2]
      BY <1>2, <3>3
    <3>. QED  BY <2>5, <3>1, <3>2, <3>4
  <2>6. ASSUME u[k + 1] = ".", u[k + 2] = ".", k + 2 = Len(u) \/ u[k + 3] = "/"
        PROVE  FALSE
    <3>1. k + 1 # m
      BY <1>1, <2>2, <2>3, <2>6 DEF SlashOk
    <3>2. k + 2 \in 1 .. m /\ u[k + 2] = t[k + 2]
      BY <1>2, <2>3, <3>1
    <3>3. k + 2 # m /\ t[k + 3] # "/"
      BY <1>1, <2>2, <2>3, <2>6, <3>2 DEF SlashOk
    <3>4. k + 3 \in 1 .. m /\ u[k + 3] = t[k + 3]
      <4>1. k + 3 \in 1 .. m
        BY <3>2, <3>3
      <4>. QED  BY <1>2, <4>1
    <3>5. k + 2 # Len(u)
      BY <1>2, <3>2
    <3>. QED  BY <2>6, <3>3, <3>4, <3>5
  <2>. QED  BY <2>4, <2>5, <2>6 DEF SlashOk
<1>6. SlashOk(u, m + 1)
  <2>0. (m + 1) + 1 = m + 2 /\ (m + 1) + 2 = m + 3 /\ (m + 1) + 3 = m + 4
    OBVIOUS
  <2>1. CASE name = <<>>
    <3>1. n = 0 /\ Len(u) = m + 1
      BY <1>1, <1>2, <2>1
    <3>2. ~((m + 1) + 1 \in 1 .. Len(u)) /\ ~((m + 1) + 2 \in 1 .. Len(u))
      BY <3>1
    <3>. QED  BY <3>2 DEF SlashOk
  <2>2. CASE Proper(name)
    <3>1. n # 0 /\ ~(n = 1 /\ name[1] = ".") /\ ~(n = 2 /\ name[1] = "." /\ name[2] = ".")
      BY <1>1, <2>2, ProperDots
    <3>2. u[m + 2] = name[1] /\ name[1] # "/"
      <4>1. 1 \in 1 .. n /\ m + 1 + 1 = m + 2
        BY <3>1
      <4>. QED  BY <1>2, <1>4, <4>1
    <3>3. n # 1 => u[m + 3] = name[2] /\ name[2] # "/"
      <4>1. n # 1 => 2 \in 1 .. n /\ m + 1 + 2 = m + 3
        BY <3>1
      <4>. QED  BY <1>2, <1>4, <4>1
    <3>4. n # 1 /\ n # 2 => u[m + 4] = name[3] /\ name[3] # "/"
      <4>1. n # 1 /\ n # 2 => 3 \in 1 .. n /\ m + 1 + 3 = m + 4
        BY <3>1
      <4>. QED  BY <1>2, <1>4, <4>1
    <3>5. (m + 2 = Len(u) <=> n = 1) /\ (m + 3 = Len(u) <=> n = 2) /\ (m + 3 \in 1 .. Len(u) => n # 1)
      BY <1>2
    <3>. QED  BY <2>0, <3>1, <3>2, <3>3, <3>4, <3>5 DEF SlashOk
  <2>. QED  BY <2>1, <2>2 DEF MayFollow
<1>7. SlashesOk(u)
  <2>. SUFFICES ASSUME NEW k \in 1 .. Len(u), u[k] = "/"
                PROVE  SlashOk(u, k)
    BY DEF SlashesOk
  <2>1. k \in 1 .. m \/ k = m + 1 \/ (k - (m + 1) \in 1 .. n /\ m + 1 + (k - (m + 1)) = k)
    BY <1>2
  <2>2. ~(k - (m + 1) \in 1 .. n /\ m + 1 + (k - (m + 1)) = k)
    BY ZenonT(30), <1>2, <1>4
  <2>. QED  BY <1>5, <1>6, <2>1, <2>2
<1>8. Len(u) # 0
  BY <1>2
<1>. QED  BY <1>2, <1>3, <1>7, <1>8

\* A path that a name has been added to can be followed by a name.
LEMMA JoinProper ==
  ASSUME NEW C, "/" \in C, NEW t \in Seq(C), NEW name \in Seq(C), Joinable(t), Proper(name)
  PROVE  Joinable(t \o <<"/">> \o name) /\ Len(t \o <<"/">> \o name) # 0
<1>1. PICK u : u = t \o <<"/">> \o name
  OBVIOUS
<1>2. PICK m, n \in Nat : m = Len(t) /\ n = Len(name) /\ n # 0
  BY ProperDots
<1>3. MayFollow(name)
  BY DEF MayFollow
<1>4. u[1] = "/" /\ SlashesOk(u) /\ Len(u) # 0
  BY <1>1, <1>3, JoinName
<1>5. u[Len(u)] # "/"
  <2>1. Len(u) = m + 1 + n /\ \A i \in 1 .. n : u[m + 1 + i] = name[i]
    BY <1>1, <1>2, SlashBetween
  <2>2. n \in 1 .. n /\ \A i \in 1 .. n : name[i] # "/"
    BY <1>2 DEF Proper, Slashless
  <2>. QED  BY <2>1, <2>2
<1>6. Joinable(u)
  BY <1>4, <1>5 DEF Joinable
<1>. QED  BY <1>1, <1>4, <1>6

\* The text of a directory with proper names can be followed by a name.
LEMMA TextJoinable ==
  ASSUME NEW C, "/" \in C, NEW d \in Seq(Seq(C)), ProperDir(d)
  PROVE  Text(d) \in Seq(C) /\ Joinable(Text(d)) /\ (d # <<>> => Len(Text(d)) # 0)
<1>1. PICK n \in Nat : n = Len(d)
  OBVIOUS
<1>2. PICK T : T = Spelled(d)
  OBVIOUS
<1>3. /\ T \in [0 .. n -> Seq(C)]
      /\ T[0] = <<>>
      /\ \A i \in 1 .. n : T[i] = T[i - 1] \o <<"/">> \o d[i]
  BY <1>1, <1>2, SpelledIs
<1>4. \A i \in 1 .. n : d[i] \in Seq(C) /\ Proper(d[i])
  <2>1. \A i \in 1 .. n : d[i] \in Seq(C)
    BY <1>1, ElementOfSeq
  <2>. QED  BY <1>1, <2>1 DEF ProperDir
<1> DEFINE S == {i \in 0 .. n : Joinable(T[i]) /\ (i # 0 => Len(T[i]) # 0)}
<1>5. 0 \in S
  <2>1. Joinable(<<>>)
    BY DEF Joinable, SlashesOk
  <2>. QED  BY <1>3, <2>1
<1>6. ASSUME NEW i \in 0 .. n, i < n, i \in S
      PROVE  i + 1 \in S
  <2>1. i + 1 \in 1 .. n /\ i + 1 \in 0 .. n /\ (i + 1) - 1 = i
    BY <1>6
  <2>2. T[i] \in Seq(C) /\ d[i + 1] \in Seq(C)
    BY <1>3, <1>4, <2>1
  <2>3. PICK t \in Seq(C) : t = T[i] /\ Joinable(t)
    BY <1>6, <2>2
  <2>4. PICK m \in Seq(C) : m = d[i + 1] /\ Proper(m)
    BY <1>4, <2>1, <2>2
  <2>5. PICK u : u = t \o <<"/">> \o m
    OBVIOUS
  <2>6. u = T[i + 1]
    BY <1>3, <2>1, <2>3, <2>4, <2>5
  <2>7. Joinable(u) /\ Len(u) # 0
    BY <2>3, <2>4, <2>5, JoinProper
  <2>. QED  BY <2>1, <2>6, <2>7
<1>7. \A i \in 0 .. n : i \in S
  <2>. HIDE DEF S
  <2>. QED  BY <1>5, <1>6, InductionTo
<1>8. n \in 0 .. n /\ (d # <<>> => n # 0)
  BY <1>1, EmptySeq
<1>9. Text(d) = T[n]
  BY <1>1, <1>2 DEF Text
<1>. QED  BY <1>3, <1>7, <1>8, <1>9

\* is_clean_abs_path accepts every canonical path.
LEMMA CanonicalClean ==
  ASSUME NEW C, "/" \in C, Nul \notin C, NEW s \in Seq(C), Canonical(s)
  PROVE  IsCleanAbsPath(s)
<1>1. PICK r \in Seq(Seq(C)) : r = Resolved(s) /\ ProperDir(r)
  BY ResolvedProper
<1>2. PICK t : t = Text(r)
  OBVIOUS
<1>3. t \in Seq(C) /\ Joinable(t) /\ (r # <<>> => Len(t) # 0)
  BY <1>1, <1>2, TextJoinable
<1>4. PICK e \in Seq(C) : e = <<>>
  <2>1. <<>> \in Seq(C)
    OBVIOUS
  <2>. QED  BY <2>1
<1>5. PICK u : u = t \o <<"/">> \o e
  OBVIOUS
<1>6. u = t \o <<"/">> /\ e \o <<"/">> = <<"/">> /\ <<"/">> \in Seq(C)
  <2>1. <<"/">> \in Seq(C)
    OBVIOUS
  <2>2. t \o <<"/">> \in Seq(C)
    BY <1>3, <2>1, ConcatProperties
  <2>. QED  BY <1>4, <1>5, <2>1, <2>2, ConcatEmptySeq
<1>7. u \in Seq(C) /\ Len(u) # 0 /\ u[1] = "/" /\ SlashesOk(u)
  <2>1. MayFollow(e)
    BY <1>4 DEF MayFollow
  <2>. QED  BY <1>3, <1>5, <2>1, JoinName
<1>8. IsCleanAbsPath(u)
  BY <1>7, SlashClean DEF SlashesOk
<1>9. s = u \/ (s = t /\ r # <<>>)
  <2>1. CASE r = <<>>
    <3>1. Written(r) = <<"/">>
      BY <2>1 DEF Written
    <3>2. t = e
      <4>1. Text(<<>>) = <<>>
        BY <1>4, <1>1, TextAppend
      <4>. QED  BY <1>2, <1>4, <2>1, <4>1
    <3>3. s = <<"/">>
      BY <1>1, <3>1 DEF Canonical
    <3>. QED  BY <1>6, <3>2, <3>3
  <2>2. CASE r # <<>>
    <3>1. Written(r) = t
      BY <1>2, <2>2 DEF Written, Text
    <3>. QED  BY <1>1, <1>6, <2>2, <3>1 DEF Canonical
  <2>. QED  BY <2>1, <2>2
<1>10. CASE s = t /\ r # <<>>
  BY <1>3, <1>10, SlashClean DEF Joinable, SlashesOk
<1>. QED  BY <1>8, <1>9, <1>10

-----------------------------------------------------------------------------
(* Directories in a workspace are under it. *)

\* Only one length is left when slashes at the end are cut off.
LEMMA TrimmedOf ==
  ASSUME NEW C, NEW s \in Seq(C), s # <<>>, NEW n, TrimsTo(s, n)
  PROVE  Trimmed(s) = SubSeq(s, 1, n)
<1>1. PICK m : TrimsTo(s, m) /\ Trimmed(s) = SubSeq(s, 1, m)
  BY TrimmedIs
<1>2. Len(s) \in Nat
  OBVIOUS
<1>3. /\ m \in 1 .. Len(s) /\ (m = 1 \/ s[m] # "/")
      /\ \A i \in 1 .. Len(s) : i > m => s[i] = "/"
  BY <1>1 DEF TrimsTo
<1>4. /\ n \in 1 .. Len(s) /\ (n = 1 \/ s[n] # "/")
      /\ \A i \in 1 .. Len(s) : i > n => s[i] = "/"
  BY DEF TrimsTo
<1>5. ~(m > n)
  BY <1>2, <1>3, <1>4
<1>6. ~(n > m)
  BY <1>2, <1>3, <1>4
<1>7. m = n
  BY <1>2, <1>3, <1>4, <1>5, <1>6
<1>. QED  BY <1>1, <1>7

\* The characters of a string and a slash.
LEMMA SlashAfter ==
  ASSUME NEW C, "/" \in C, NEW t \in Seq(C), NEW u, u = t \o <<"/">>
  PROVE  /\ u \in Seq(C) /\ Len(u) = Len(t) + 1 /\ u[Len(t) + 1] = "/"
         /\ \A i \in 1 .. Len(t) : u[i] = t[i]
<1>1. PICK e \in Seq(C) : e = <<>>
  <2>1. <<>> \in Seq(C)
    OBVIOUS
  <2>. QED  BY <2>1
<1>2. u = t \o <<"/">> \o e
  <2>1. <<"/">> \in Seq(C)
    OBVIOUS
  <2>2. t \o <<"/">> \in Seq(C)
    BY <2>1, ConcatProperties
  <2>. QED  BY <1>1, <2>2, ConcatEmptySeq
<1>3. Len(e) = 0 /\ Len(t) \in Nat
  BY <1>1
<1>4. /\ u \in Seq(C) /\ Len(u) = Len(t) + 1 + Len(e)
      /\ \A i \in 1 .. Len(t) : u[i] = t[i]
      /\ u[Len(t) + 1] = "/"
  BY <1>2, SlashBetween
<1>5. Len(u) = Len(t) + 1
  BY <1>3, <1>4
<1>. QED  BY <1>4, <1>5

\* A path that is written the canonical way is trimmed to the text of the
\* directory it names.
LEMMA TrimmedText ==
  ASSUME NEW C, "/" \in C, NEW w \in Seq(C), NEW r \in Seq(Seq(C)), ProperDir(r), r # <<>>,
         w \in {Text(r), Text(r) \o <<"/">>}
  PROVE  Trimmed(w) = Text(r)
<1>1. PICK t \in Seq(C) : t = Text(r) /\ Joinable(t) /\ Len(t) # 0
  BY TextJoinable
<1>2. PICK n \in Nat : n = Len(t)
  OBVIOUS
<1>3. n \in 1 .. n /\ t[n] # "/"
  BY <1>1, <1>2 DEF Joinable
<1>4. CASE w = t
  <2>1. TrimsTo(w, n)
    BY <1>2, <1>3, <1>4 DEF TrimsTo
  <2>2. w # <<>>
    BY <1>1, <1>4
  <2>3. Trimmed(w) = SubSeq(w, 1, n)
    BY <2>1, <2>2, TrimmedOf
  <2>. QED  BY <1>1, <1>2, <1>4, <2>3, SubSeqFull
<1>5. CASE w = t \o <<"/">>
  <2>1. Len(w) = n + 1 /\ w[n + 1] = "/" /\ \A i \in 1 .. n : w[i] = t[i]
    BY <1>2, <1>5, SlashAfter
  <2>2. TrimsTo(w, n)
    BY <1>3, <2>1 DEF TrimsTo
  <2>3. Len(w) # 0
    BY <2>1
  <2>4. w # <<>>
    BY <2>3
  <2>5. PICK v : v = SubSeq(w, 1, n)
    OBVIOUS
  <2>6. v = Trimmed(w)
    BY <2>2, <2>4, <2>5, TrimmedOf
  <2>7. n \in 0 .. Len(w)
    BY <2>1
  <2>8. v \in Seq(C) /\ Len(v) = n /\ \A i \in 1 .. n : v[i] = w[i]
    BY <2>5, <2>7, FirstPart
  <2>9. v = t
    BY <1>2, <2>1, <2>8, SeqEqual
  <2>. QED  BY <1>1, <2>6, <2>9
<1>. QED  BY <1>1, <1>4, <1>5

\* s is the beginning of u, up to its end or to a slash.
Heads(s, u) ==
  /\ Len(s) <= Len(u) /\ \A i \in 1 .. Len(s) : s[i] = u[i]
  /\ Len(u) = Len(s) \/ u[Len(s) + 1] = "/"

\* It remains so when a slash and a name are added.
LEMMA HeadsMore ==
  ASSUME NEW C, "/" \in C, NEW s \in Seq(C), NEW t \in Seq(C), NEW name \in Seq(C), Heads(s, t),
         NEW u, u = t \o <<"/">> \o name
  PROVE  Heads(s, u)
<1>1. PICK k, m, n \in Nat : k = Len(s) /\ m = Len(t) /\ n = Len(name)
  OBVIOUS
<1>2. /\ Len(u) = m + 1 + n
      /\ \A i \in 1 .. m : u[i] = t[i]
      /\ u[m + 1] = "/"
  BY <1>1, SlashBetween
<1>3. k <= m /\ (\A i \in 1 .. k : s[i] = t[i]) /\ (m = k \/ t[k + 1] = "/")
  BY <1>1 DEF Heads
<1>4. k <= Len(u) /\ \A i \in 1 .. k : i \in 1 .. m
  BY <1>2, <1>3
<1>5. \A i \in 1 .. k : s[i] = u[i]
  BY <1>2, <1>3, <1>4
<1>6. u[k + 1] = "/"
  <2>1. CASE m = k
    BY <1>2, <2>1
  <2>2. CASE m # k
    <3>1. k + 1 \in 1 .. m
      BY <1>3, <2>2
    <3>. QED  BY <1>2, <1>3, <2>2, <3>1
  <2>. QED  BY <2>1, <2>2
<1>. QED  BY <1>1, <1>4, <1>5, <1>6 DEF Heads

\* The text of a directory begins with the text of every directory above it.
LEMMA TextHeads ==
  ASSUME NEW C, "/" \in C, NEW d \in Seq(Seq(C)), NEW e \in Seq(Seq(C)), IsPrefix(d, e)
  PROVE  Heads(Text(d), Text(e))
<1>1. PICK m, n \in Nat : m = Len(d) /\ n = Len(e)
  OBVIOUS
<1>2. m <= n /\ \A i \in 1 .. m : d[i] = e[i]
  <2>1. PICK X : X = Seq(C)
    OBVIOUS
  <2>2. d \in Seq(X) /\ e \in Seq(X)
    BY <2>1
  <2>3. Len(d) <= Len(e) /\ \A i \in 1 .. Len(d) : d[i] = e[i]
    BY <2>2, PrefixIs
  <2>. QED  BY <1>1, <2>3
<1>3. PICK T : T = Spelled(e)
  OBVIOUS
<1>4. /\ T \in [0 .. n -> Seq(C)]
      /\ \A i \in 1 .. n : T[i] = T[i - 1] \o <<"/">> \o e[i]
  BY <1>1, <1>3, SpelledIs
<1>5. T[m] = Text(d)
  <2>1. m <= Len(d) /\ m <= Len(e) /\ m \in 0 .. m /\ \A i \in 1 .. m : d[i] = e[i]
    BY <1>1, <1>2
  <2>2. \A i \in 0 .. m : Spelled(d)[i] = Spelled(e)[i]
    BY <2>1, SpelledSame, Zenon
  <2>. QED  BY <1>1, <1>3, <2>1, <2>2 DEF Text
<1>6. PICK s : s = T[m]
  OBVIOUS
<1>7. m \in 0 .. n
  BY <1>2
<1>8. s \in Seq(C)
  BY <1>4, <1>6, <1>7
<1> DEFINE S == {i \in 0 .. n : i >= m => Heads(s, T[i])}
<1>9. Heads(s, s)
  <2>1. Len(s) \in Nat
    BY <1>8
  <2>. QED  BY <2>1 DEF Heads
<1>10. 0 \in S
  <2>1. 0 >= m => m = 0
    OBVIOUS
  <2>. QED  BY <1>6, <1>9, <2>1
<1>11. ASSUME NEW i \in 0 .. n, i < n, i \in S
       PROVE  i + 1 \in S
  <2>1. i + 1 \in 1 .. n /\ i + 1 \in 0 .. n /\ (i + 1) - 1 = i
    BY <1>11
  <2>2. CASE i + 1 = m
    BY <1>6, <1>9, <2>1, <2>2
  <2>3. CASE ~(i + 1 >= m)
    BY <2>1, <2>3
  <2>4. CASE i >= m
    <3>1. T[i] \in Seq(C) /\ e[i + 1] \in Seq(C)
      <4>1. \A j \in 1 .. n : e[j] \in Seq(C)
        BY <1>1, ElementOfSeq
      <4>. QED  BY <1>4, <2>1, <4>1
    <3>2. PICK t \in Seq(C) : t = T[i]
      BY <3>1
    <3>3. PICK b \in Seq(C) : b = e[i + 1]
      BY <3>1
    <3>4. PICK u : u = t \o <<"/">> \o b
      OBVIOUS
    <3>5. u = T[i + 1]
      BY <1>4, <2>1, <3>2, <3>3, <3>4
    <3>6. Heads(s, t)
      BY <1>11, <2>4, <3>2
    <3>7. Heads(s, u)
      BY <1>8, <3>4, <3>6, HeadsMore
    <3>. QED  BY <2>1, <3>5, <3>7
  <2>5. i + 1 = m \/ ~(i + 1 >= m) \/ i >= m
    OBVIOUS
  <2>. QED  BY <2>2, <2>3, <2>4, <2>5
<1>12. \A i \in 0 .. n : i \in S
  <2>. HIDE DEF S
  <2>. QED  BY <1>10, <1>11, InductionTo
<1>13. n \in 0 .. n /\ n >= m
  BY <1>2
<1>14. Heads(s, T[n])
  BY <1>12, <1>13
<1>15. Text(e) = T[n]
  BY <1>1, <1>3 DEF Text
<1>. QED  BY <1>5, <1>6, <1>14, <1>15

\* The only clean path to the root is "/".
LEMMA RootText ==
  ASSUME NEW C, "/" \in C, Nul \notin C, NEW s \in Seq(C), IsCleanAbsPath(s), Resolved(s) = <<>>
  PROVE  s = <<"/">>
<1>1. s = Text(<<>>) \o <<"/">>
  BY CleanText
<1>2. <<>> \in Seq(C) /\ <<"/">> \in Seq(C) /\ <<>> \in Seq(Seq(C))
  OBVIOUS
<1>3. Text(<<>>) = <<>>
  BY <1>2, TextAppend
<1>. QED  BY <1>1, <1>2, <1>3, ConcatEmptySeq

\* A path that begins with the trimmed workspace, up to its end or to a slash,
\* passes the comparison.
LEMMA HeadsStarts ==
  ASSUME NEW C, NEW w, NEW t \in Seq(C), t = Trimmed(w), NEW p \in Seq(C), Heads(t, p)
  PROVE  StartsWith(w, p)
<1>1. PICK m, n \in Nat : m = Len(t) /\ n = Len(p)
  OBVIOUS
<1>2. m <= n /\ (\A i \in 1 .. m : t[i] = p[i]) /\ (n = m \/ p[m + 1] = "/")
  BY <1>1 DEF Heads
<1>3. IsPrefix(t, p)
  BY <1>1, <1>2, PrefixIs
<1>4. DOMAIN p = 1 .. n
  BY <1>1
<1>5. Char(p, m + 1) \in {"/", Nul}
  <2>1. CASE n = m
    <3>1. m + 1 \notin DOMAIN p
      BY <1>4, <2>1
    <3>. QED  BY <3>1 DEF Char
  <2>2. CASE n # m
    BY <1>2, <2>2 DEF Char
  <2>. QED  BY <2>1, <2>2
<1>. QED  BY <1>1, <1>3, <1>5 DEF StartsWith, EndsAt

\* path_under_workspace accepts all that lies in the workspace.
LEMMA InsideUnder ==
  ASSUME NEW C, "/" \in C, Nul \notin C, NEW w \in Seq(C), NEW p \in Seq(C),
         Canonical(w), Canonical(p), Inside(w, p),
         Resolved(w) = <<>> => Resolved(p) = <<>>
  PROVE  PathUnderWorkspace(w, p)
<1>1. IsCleanAbsPath(w) /\ IsCleanAbsPath(p)
  BY CanonicalClean
<1>2. w # <<>> /\ p # <<>>
  <2>1. Len(w) # 0 /\ Len(p) # 0
    BY <1>1, CleanSlash
  <2>. QED  BY <2>1
<1>3. PICK d \in Seq(Seq(C)) : d = Resolved(w) /\ ProperDir(d)
  BY ResolvedProper
<1>4. PICK e \in Seq(Seq(C)) : e = Resolved(p) /\ ProperDir(e)
  BY ResolvedProper
<1>5. CASE d = <<>>
  <2>1. w = <<"/">> /\ p = <<"/">>
    BY <1>1, <1>3, <1>5, RootText
  <2>2. w = p /\ Len(w) = 1
    BY <2>1
  <2>3. TrimsTo(w, 1)
    BY <2>2 DEF TrimsTo
  <2>4. Trimmed(w) = SubSeq(w, 1, 1)
    BY <1>2, <2>3, TrimmedOf
  <2>5. Trimmed(w) = w
    BY <2>2, <2>4, SubSeqFull
  <2>6. Heads(w, w)
    BY <2>2 DEF Heads
  <2>7. StartsWith(w, p)
    BY <2>2, <2>5, <2>6, HeadsStarts
  <2>. QED  BY <1>1, <1>2, <2>7 DEF PathUnderWorkspace
<1>6. CASE d # <<>>
  <2>1. w = Text(d) \/ w = Text(d) \o <<"/">>
    BY <1>1, <1>3, CleanText
  <2>2. Trimmed(w) = Text(d)
    BY <1>3, <1>6, <2>1, TrimmedText
  <2>3. Heads(Text(d), Text(e))
    <3>1. IsPrefix(d, e)
      BY <1>3, <1>4 DEF Inside
    <3>. QED  BY <3>1, TextHeads
  <2>4. Text(d) \in Seq(C) /\ Text(e) \in Seq(C)
    BY <1>3, <1>4, TextJoinable
  <2>5. PICK s \in Seq(C) : s = Text(d)
    BY <2>4
  <2>6. PICK t \in Seq(C) : t = Text(e)
    BY <2>4
  <2>7. Heads(s, p)
    <3>1. CASE p = t
      BY <2>3, <2>5, <2>6, <3>1
    <3>2. CASE p = t \o <<"/">>
      <4>1. PICK b \in Seq(C) : b = <<>>
        <5>1. <<>> \in Seq(C)
          OBVIOUS
        <5>. QED  BY <5>1
      <4>2. p = p \o b
        BY <4>1, ConcatEmptySeq
      <4>3. p = t \o <<"/">> \o b
        BY <3>2, <4>2
      <4>. QED  BY <2>3, <2>5, <2>6, <4>3, HeadsMore
    <3>3. p = t \/ p = t \o <<"/">>
      BY <1>1, <1>4, <2>6, CleanText
    <3>. QED  BY <3>1, <3>2, <3>3
  <2>8. StartsWith(w, p)
    BY <2>2, <2>5, <2>7, HeadsStarts
  <2>. QED  BY <1>1, <1>2, <2>8 DEF PathUnderWorkspace
<1>. QED  BY <1>5, <1>6

-----------------------------------------------------------------------------
(* A word of a command. *)

\* phronesis_resolve_script gives the path that the word means in cwd.
LEMMA ScriptMeans ==
  ASSUME NEW C, "/" \in C, Nul \notin C, NEW w \in Seq(C), NEW p \in Seq(C),
         NEW a, a = ResolveScript(w, p), a # Failure
  PROVE  /\ Len(a) < PathMax
         /\ a[1] = "/"
         /\ Resolved(a) = (IF p[1] = "/" THEN Resolved(p) ELSE Walk(Resolved(w), p))
<1>1. PathMax \in Nat /\ Len(p) \in Nat /\ p # <<>>
  BY PathMaxAssumption DEF ResolveScript
<1>2. CASE p[1] = "/"
  <2>1. a = p /\ ~(Len(p) + 1 > PathMax)
    BY <1>1, <1>2 DEF ResolveScript
  <2>. QED  BY <1>1, <1>2, <2>1
<1>3. CASE p[1] # "/"
  <2>1. /\ a = Trimmed(w) \o <<"/">> \o p /\ Char(w, 1) = "/"
        /\ ~(Len(Trimmed(w)) + 1 + Len(p) + 1 > PathMax)
    BY <1>1, <1>3 DEF ResolveScript
  <2>2. 1 \in DOMAIN w /\ w[1] = "/"
    BY <2>1 DEF Char, Nul
  <2>3. w # <<>>
    BY <2>2
  <2>4. PICK d \in Seq(Seq(C)) : d = <<>>
    <3>1. <<>> \in Seq(Seq(C))
      OBVIOUS
    <3>. QED  BY <3>1
  <2>5. PICK t \in Seq(C) : t = Trimmed(w) /\ t # <<>> /\ Walk(d, t) = Walk(d, w)
    BY <2>3, TrimWalk
  <2>6. PICK n : TrimsTo(w, n) /\ t = SubSeq(w, 1, n)
    BY <2>3, <2>5, TrimmedIs
  <2>7. n \in 0 .. Len(w) /\ 1 \in 1 .. n
    BY <2>6 DEF TrimsTo
  <2>8. Len(t) = n /\ t[1] = w[1]
    BY <2>6, <2>7, FirstPart
  <2>9. Len(a) = Len(t) + 1 + Len(p) /\ \A i \in 1 .. Len(t) : a[i] = t[i]
    BY <2>1, <2>5, SlashBetween
  <2>10. a[1] = "/"
    BY <2>2, <2>7, <2>8, <2>9
  <2>11. Len(a) < PathMax
    BY <1>1, <2>1, <2>5, <2>9
  <2>12. Walk(d, a) = Walk(Walk(d, t), p)
    BY <2>1, <2>5, WalkConcat
  <2>13. Resolved(a) = Walk(Resolved(w), p)
    BY <2>4, <2>5, <2>12 DEF Resolved
  <2>. QED  BY <1>3, <2>10, <2>11, <2>13
<1>. QED  BY <1>2, <1>3

-----------------------------------------------------------------------------
(* Names beneath the pack root. *)

\* The name that a walk has begun after i characters: those after the last
\* slash.
Begun(s, i, name) ==
  /\ Len(name) <= i
  /\ \A j \in 1 .. Len(name) : name[j] = s[(i - Len(name)) + j]
  /\ Len(name) = i \/ s[i - Len(name)] = "/"

\* A walk along any string reads its names.
LEMMA NameAlong ==
  ASSUME NEW C, NEW s \in Seq(C), NEW d \in Seq(Seq(C))
  PROVE  \A i \in 0 .. Len(s) : Begun(s, i, Along(d, s)[i].name)
<1>1. PICK n \in Nat : n = Len(s)
  OBVIOUS
<1>2. PICK A : A = Along(d, s)
  OBVIOUS
<1>3. /\ A \in [0 .. n -> Places(C)]
      /\ A[0] = [dir |-> d, name |-> <<>>]
      /\ \A i \in 1 .. n : A[i] = Read(A[i - 1], s[i])
  BY <1>1, <1>2, AlongIs
<1> DEFINE S == {i \in 0 .. n : Begun(s, i, A[i].name)}
<1>4. 0 \in S
  <2>1. A[0].name = <<>> /\ Len(<<>>) = 0 /\ 1 .. 0 = {}
    BY <1>3
  <2>2. Begun(s, 0, <<>>)
    BY <2>1 DEF Begun
  <2>. QED  BY <2>1, <2>2
<1>5. ASSUME NEW i \in 0 .. n, i < n, i \in S
      PROVE  i + 1 \in S
  <2>1. i + 1 \in 1 .. n /\ i + 1 \in 0 .. n /\ (i + 1) - 1 = i
    BY <1>5
  <2>2. A[i].name \in Seq(C)
    BY <1>3 DEF Places
  <2>3. PICK m \in Seq(C) : m = A[i].name /\ Begun(s, i, m)
    BY <1>5, <2>2
  <2>4. A[i + 1] = Read(A[i], s[i + 1])
    BY <1>3, <2>1
  <2>5. CASE s[i + 1] = "/"
    <3>1. A[i + 1].name = <<>>
      BY <2>4, <2>5 DEF Read
    <3>2. Len(<<>>) = 0 /\ 1 .. 0 = {} /\ (i + 1) - 0 = i + 1
      OBVIOUS
    <3>3. Begun(s, i + 1, <<>>)
      BY <2>1, <2>5, <3>2 DEF Begun
    <3>. QED  BY <2>1, <3>1, <3>3
  <2>6. CASE s[i + 1] # "/"
    <3>1. PICK m2 : m2 = Append(m, s[i + 1])
      OBVIOUS
    <3>2. A[i + 1].name = m2
      BY <2>3, <2>4, <2>6, <3>1 DEF Read
    <3>3. PICK k \in Nat : k = Len(m)
      OBVIOUS
    <3>4. /\ Len(m2) = k + 1 /\ m2[k + 1] = s[i + 1]
          /\ \A j \in 1 .. k : m2[j] = m[j]
      <4>1. s[i + 1] \in C
        <5>1. \A j \in 1 .. n : s[j] \in C
          BY <1>1
        <5>. QED  BY <2>1, <5>1
      <4>. QED  BY <3>1, <3>3, <4>1, AppendProperties
    <3>5. k <= i /\ (\A j \in 1 .. k : m[j] = s[(i - k) + j]) /\ (k = i \/ s[i - k] = "/")
      BY <2>3, <3>3 DEF Begun
    <3>6. k + 1 <= i + 1 /\ (i + 1) - (k + 1) = i - k /\ (i - k) + (k + 1) = i + 1
      BY <3>5
    <3>7. \A j \in 1 .. k + 1 : m2[j] = s[(i - k) + j]
      <4>. TAKE j \in 1 .. k + 1
      <4>1. CASE j = k + 1
        BY <3>4, <3>6, <4>1
      <4>2. CASE j # k + 1
        <5>1. j \in 1 .. k
          BY <4>2
        <5>. QED  BY <3>4, <3>5, <5>1
      <4>. QED  BY <4>1, <4>2
    <3>8. k + 1 = i + 1 \/ s[i - k] = "/"
      BY <3>5
    <3>9. Begun(s, i + 1, m2)
      BY <3>4, <3>6, <3>7, <3>8 DEF Begun
    <3>. QED  BY <2>1, <3>2, <3>9
  <2>. QED  BY <2>5, <2>6
<1>6. \A i \in 0 .. n : i \in S
  <2>. HIDE DEF S
  <2>. QED  BY <1>4, <1>5, InductionTo
<1>. QED  BY <1>1, <1>2, <1>6

\* A string in which has_dotdot finds nothing has no name ".." on the way.
LEMMA NoDotdot ==
  ASSUME NEW C, NEW s \in Seq(C), NEW d \in Seq(Seq(C)), ~HasDotdot(s),
         NEW i \in 1 .. Len(s), EndsAt(s, i + 1)
  PROVE  Along(d, s)[i].name # <<".", ".">>
<1>. SUFFICES ASSUME Along(d, s)[i].name = <<".", ".">>
              PROVE  HasDotdot(s)
  OBVIOUS
<1>1. PICK n \in Nat : n = Len(s)
  OBVIOUS
<1>2. PICK m : m = <<".", ".">>
  OBVIOUS
<1>3. Len(m) = 2 /\ m[1] = "." /\ m[2] = "."
  BY <1>2
<1>4. i \in 0 .. Len(s)
  BY <1>1
<1>5. Begun(s, i, m)
  BY <1>2, <1>4, NameAlong
<1>6. 2 <= i /\ (\A j \in 1 .. 2 : m[j] = s[(i - 2) + j]) /\ (2 = i \/ s[i - 2] = "/")
  BY <1>3, <1>5 DEF Begun
<1>7. (i - 2) + 1 = i - 1 /\ (i - 2) + 2 = i /\ i - 1 \in 1 .. n /\ 1 \in 1 .. 2 /\ 2 \in 1 .. 2
  BY <1>1, <1>6
<1>8. s[i - 1] = "." /\ s[i] = "."
  BY <1>3, <1>6, <1>7
<1>9. DOMAIN s = 1 .. n
  BY <1>1
<1>10. PICK k \in DOMAIN s : k = i - 1
  BY <1>7, <1>9
<1>11. k + 1 = i /\ k + 2 = i + 1 /\ (2 = i => k = 1) /\ k - 1 = i - 2 /\ i \in DOMAIN s
  BY <1>1, <1>7, <1>9, <1>10
<1>12. Char(s, k + 1) = "."
  BY <1>8, <1>11 DEF Char
<1>13. s[k] = "." /\ EndsAt(s, k + 2) /\ (k = 1 \/ s[k - 1] = "/")
  BY <1>6, <1>8, <1>10, <1>11
<1>. QED  BY <1>12, <1>13 DEF HasDotdot

\* Where has_dotdot finds nothing, a directory that is not the root leads to
\* one that is not the root.
LEMMA StepDown ==
  ASSUME NEW C, NEW dir \in Seq(Seq(C)), NEW name \in Seq(C), name # <<".", ".">>,
         dir # <<>> \/ name \notin {<<>>, <<".">>}
  PROVE  Step(dir, name) # <<>>
<1>1. PICK e : e = Append(dir, name)
  OBVIOUS
<1>2. Len(e) = Len(dir) + 1 /\ Len(dir) \in Nat
  BY <1>1, AppendProperties
<1>3. Len(e) # 0
  BY <1>2
<1>4. e # <<>>
  BY <1>3
<1>. QED  BY <1>1, <1>4 DEF Step

\* A root that phronesis_beneath_rel does not refuse is not the root of the
\* file system.
LEMMA GoodRoot ==
  ASSUME NEW C, Nul \notin C, NEW s \in Seq(C), ~BadRoot(s)
  PROVE  Char(s, 1) = "/" /\ s # <<>> /\ Resolved(s) # <<>>
<1>1. Char(s, 1) = "/" /\ ~IsFsRoot(s) /\ ~HasDotdot(s)
  BY DEF BadRoot
<1>2. PICK n \in Nat : n = Len(s)
  OBVIOUS
<1>3. DOMAIN s = 1 .. n /\ \A j \in 1 .. n : s[j] \in C
  BY <1>2
<1>4. PICK i \in 1 .. n : s[i] # "/" /\ ~(s[i] = "." /\ EndsAt(s, i + 1))
  BY <1>1, <1>3 DEF IsFsRoot
<1>5. PICK d \in Seq(Seq(C)) : d = <<>>
  <2>1. <<>> \in Seq(Seq(C))
    OBVIOUS
  <2>. QED  BY <2>1
<1>6. PICK A : A = Along(d, s)
  OBVIOUS
<1>7. /\ A \in [0 .. n -> Places(C)]
      /\ \A j \in 1 .. n : A[j] = Read(A[j - 1], s[j])
  BY ZenonT(30), <1>2, <1>6, AlongIs
<1>8. \A j \in 1 .. n : EndsAt(s, j + 1) <=> j = n \/ s[j + 1] = "/"
  <2>. TAKE j \in 1 .. n
  <2>1. CASE j = n
    <3>1. j + 1 \notin DOMAIN s
      BY <1>3, <2>1
    <3>. QED  BY <2>1, <3>1 DEF EndsAt, Char
  <2>2. CASE j # n
    <3>1. j + 1 \in DOMAIN s /\ s[j + 1] # Nul
      BY <1>3, <2>2
    <3>. QED  BY <2>2, <3>1 DEF EndsAt, Char
  <2>. QED  BY <2>1, <2>2
<1> DEFINE Live(j) == \/ A[j].dir # <<>>
                      \/ Len(A[j].name) # 0 /\ (A[j].name = <<".">> => ~EndsAt(s, j + 1))
           S == {j \in 0 .. n : j >= i => Live(j)}
<1>9. ASSUME NEW j \in 1 .. n, Live(j), EndsAt(s, j + 1)
      PROVE  Step(A[j].dir, A[j].name) # <<>>
  <2>1. A[j].dir \in Seq(Seq(C)) /\ A[j].name \in Seq(C)
    <3>1. j \in 0 .. n
      OBVIOUS
    <3>. QED  BY <1>7, <3>1 DEF Places
  <2>2. A[j].name # <<".", ".">>
    BY <1>1, <1>2, <1>6, <1>9, NoDotdot
  <2>3. PICK e \in Seq(Seq(C)) : e = A[j].dir
    BY <2>1
  <2>4. PICK m \in Seq(C) : m = A[j].name
    BY <2>1
  <2>5. e # <<>> \/ (Len(m) # 0 /\ m # <<".">>)
    BY <1>9, <2>3, <2>4
  <2>6. e # <<>> \/ m \notin {<<>>, <<".">>}
    BY <2>5
  <2>7. Step(e, m) # <<>>
    BY <2>2, <2>4, <2>6, StepDown
  <2>. QED  BY <2>3, <2>4, <2>7
<1>10. Live(i)
  <2>1. i - 1 \in 0 .. n
    OBVIOUS
  <2>2. A[i - 1].name \in Seq(C)
    BY <1>7, <2>1 DEF Places
  <2>3. PICK m \in Seq(C) : m = A[i - 1].name
    BY <2>2
  <2>4. PICK m2 : m2 = Append(m, s[i])
    OBVIOUS
  <2>5. A[i].name = m2
    <3>1. A[i] = Read(A[i - 1], s[i])
      BY <1>7
    <3>. QED  BY <1>4, <2>3, <2>4, <3>1 DEF Read
  <2>6. Len(m2) = Len(m) + 1 /\ m2[Len(m) + 1] = s[i] /\ Len(m) \in Nat
    BY <1>3, <2>4, AppendProperties
  <2>7. Len(m2) # 0
    BY <2>6
  <2>8. ASSUME m2 = <<".">>
        PROVE  s[i] = "."
    <3>1. Len(m2) = 1 /\ m2[1] = "."
      BY <2>8
    <3>2. Len(m) + 1 = 1
      BY <2>6, <3>1
    <3>. QED  BY <2>6, <3>1, <3>2
  <2>. QED  BY <1>4, <2>5, <2>7, <2>8
<1>11. ASSUME NEW j \in 1 .. n, j < n, Live(j)
       PROVE  Live(j + 1)
  <2>1. j + 1 \in 1 .. n /\ (j + 1) - 1 = j /\ j \in 0 .. n
    BY <1>11
  <2>2. A[j + 1] = Read(A[j], s[j + 1])
    BY <1>7, <2>1
  <2>3. CASE s[j + 1] = "/"
    <3>1. A[j + 1].dir = Step(A[j].dir, A[j].name)
      BY <2>2, <2>3 DEF Read
    <3>2. EndsAt(s, j + 1)
      BY <1>8, <2>3
    <3>3. Step(A[j].dir, A[j].name) # <<>>
      <4>. HIDE DEF Live
      <4>. QED  BY <1>9, <1>11, <3>2
    <3>. QED  BY <3>1, <3>3
  <2>4. CASE s[j + 1] # "/"
    <3>1. A[j].name \in Seq(C)
      BY <1>7, <2>1 DEF Places
    <3>2. PICK m \in Seq(C) : m = A[j].name
      BY <3>1
    <3>3. PICK m2 : m2 = Append(m, s[j + 1])
      OBVIOUS
    <3>4. A[j + 1].dir = A[j].dir /\ A[j + 1].name = m2
      BY <2>2, <2>4, <3>2, <3>3 DEF Read
    <3>5. CASE A[j].dir # <<>>
      BY <3>4, <3>5
    <3>6. CASE A[j].dir = <<>>
      <4>1. Len(m) # 0 /\ Len(m) \in Nat
        BY <1>11, <3>2, <3>6
      <4>2. Len(m2) = Len(m) + 1
        BY <1>3, <2>1, <3>3, AppendProperties
      <4>3. Len(m2) # 0 /\ Len(m2) # 1
        BY <4>1, <4>2
      <4>4. m2 # <<".">>
        BY <4>3
      <4>. QED  BY <3>4, <4>3, <4>4
    <3>. QED  BY <3>5, <3>6
  <2>. QED  BY <2>3, <2>4
<1>12. \A j \in 0 .. n : j \in S
  <2>. HIDE DEF Live
  <2>1. 0 \in S
    OBVIOUS
  <2>2. ASSUME NEW j \in 0 .. n, j < n, j \in S
        PROVE  j + 1 \in S
    <3>1. j + 1 \in 0 .. n
      BY <2>2
    <3>2. CASE j + 1 = i
      BY <1>10, <3>1, <3>2
    <3>3. CASE j >= i
      <4>1. j \in 1 .. n /\ Live(j)
        BY <2>2, <3>3
      <4>2. Live(j + 1)
        BY <1>11, <2>2, <4>1
      <4>. QED  BY <3>1, <4>2
    <3>4. CASE ~(j + 1 >= i)
      BY <3>1, <3>4
    <3>. QED  BY <3>2, <3>3, <3>4
  <2>. HIDE DEF S
  <2>. QED  BY <2>1, <2>2, InductionTo
<1>13. n \in 1 .. n /\ n \in 0 .. n /\ n >= i
  OBVIOUS
<1>14. Live(n) /\ EndsAt(s, n + 1)
  <2>. HIDE DEF Live
  <2>. QED  BY <1>8, <1>12, <1>13
<1>15. Step(A[n].dir, A[n].name) # <<>>
  <2>. HIDE DEF Live
  <2>. QED  BY <1>9, <1>13, <1>14
<1>16. Resolved(s) = Step(A[n].dir, A[n].name)
  BY <1>2, <1>5, <1>6 DEF Resolved, Walk
<1>17. s # <<>>
  BY <1>2, <1>13
<1>. QED  BY <1>1, <1>15, <1>16, <1>17

\* The characters of a last part.
LEMMA LastPart ==
  ASSUME NEW C, NEW s \in Seq(C), NEW k \in 1 .. Len(s), NEW v, v = SubSeq(s, k + 1, Len(s))
  PROVE  v \in Seq(C) /\ Len(v) = Len(s) - k /\ \A j \in 1 .. Len(s) - k : v[j] = s[k + j]
<1>1. PICK n \in Nat : n = Len(s)
  OBVIOUS
<1>2. k + 1 \in Int /\ n \in Int /\ \A j \in (k + 1) .. n : s[j] \in C
  BY <1>1
<1>3. /\ v \in Seq(C) /\ Len(v) = IF k + 1 <= n THEN n - (k + 1) + 1 ELSE 0
      /\ \A j \in 1 .. n - (k + 1) + 1 : v[j] = s[(k + 1) + j - 1]
  BY <1>1, <1>2, SubSeqProperties
<1>4. Len(v) = n - k
  BY <1>1, <1>3
<1>5. ASSUME NEW j \in 1 .. n - k
      PROVE  v[j] = s[k + j]
  <2>1. j \in 1 .. n - (k + 1) + 1 /\ (k + 1) + j - 1 = k + j
    BY <1>1
  <2>. QED  BY <1>3, <2>1
<1>. QED  BY <1>1, <1>3, <1>4, <1>5

\* A path under a root begins with the trimmed root.
LEMMA StartsHeads ==
  ASSUME NEW C, Nul \notin C, NEW w \in Seq(C), NEW p \in Seq(C), w # <<>>, StartsWith(w, p)
  PROVE  \E t \in Seq(C) : t = Trimmed(w) /\ Len(t) # 0 /\ Heads(t, p)
<1>1. PICK t : t = Trimmed(w)
  OBVIOUS
<1>2. t \in Seq(C) /\ t # <<>>
  <2>1. <<>> \in Seq(Seq(C))
    OBVIOUS
  <2>. QED  BY <1>1, <2>1, TrimWalk
<1>3. PICK m \in Nat : m = Len(t) /\ m # 0
  BY <1>2, EmptySeq
<1>4. PICK n \in Nat : n = Len(p)
  OBVIOUS
<1>5. IsPrefix(t, p) /\ Char(p, m + 1) \in {"/", Nul}
  BY <1>1, <1>3 DEF StartsWith, EndsAt
<1>6. m <= n /\ \A i \in 1 .. m : t[i] = p[i]
  BY <1>2, <1>3, <1>4, <1>5, PrefixIs
<1>7. n = m \/ p[m + 1] = "/"
  <2>. SUFFICES ASSUME n # m
                PROVE  p[m + 1] = "/"
    OBVIOUS
  <2>1. m + 1 \in 1 .. n
    BY <1>6
  <2>2. m + 1 \in DOMAIN p /\ p[m + 1] \in C
    BY <1>4, <2>1
  <2>. QED  BY <1>5, <2>2 DEF Char
<1>8. Heads(t, p)
  BY <1>3, <1>4, <1>6, <1>7 DEF Heads
<1>. QED  BY <1>1, <1>2, <1>3, <1>8

\* p is t, a slash and q, character by character.
Cut(p, t, q) ==
  /\ q = SubSeq(p, Len(t) + 2, Len(p))
  /\ p[Len(t) + 1] = "/" /\ Len(t) + 1 + Len(q) = Len(p)
  /\ \A j \in 1 .. Len(q) : q[j] = p[Len(t) + 1 + j]
  /\ p = t \o <<"/">> \o q

\* A path under a root that is not the root is the trimmed root, a slash and
\* what phronesis_beneath_rel keeps.
LEMMA RestIs ==
  ASSUME NEW C, "/" \in C, NEW t \in Seq(C), NEW p \in Seq(C), Heads(t, p), Len(p) # Len(t)
  PROVE  \E q \in Seq(C) : Cut(p, t, q)
<1>1. PICK m, n \in Nat : m = Len(t) /\ n = Len(p)
  OBVIOUS
<1>2. m <= n /\ (\A i \in 1 .. m : t[i] = p[i]) /\ n # m /\ p[m + 1] = "/"
  BY <1>1 DEF Heads
<1>3. PICK k \in 1 .. Len(p) : k = m + 1
  BY <1>1, <1>2
<1>4. p[k] = "/"
  BY <1>2, <1>3
<1>5. PICK q : q = SubSeq(p, k + 1, Len(p))
  OBVIOUS
<1>6. q \in Seq(C) /\ Len(q) = Len(p) - k /\ \A j \in 1 .. Len(p) - k : q[j] = p[k + j]
  BY <1>5, LastPart
<1>7. PICK b \in Nat : b = Len(q) /\ m + 1 + b = n
  <2>1. Len(p) - k \in Nat /\ m + 1 + (Len(p) - k) = n
    BY <1>1, <1>3
  <2>. QED  BY <1>6, <2>1
<1>8. \A j \in 1 .. b : q[j] = p[k + j]
  BY <1>6, <1>7
<1>9. PICK u : u = t \o <<"/">> \o q
  OBVIOUS
<1>10. /\ u \in Seq(C) /\ Len(u) = Len(t) + 1 + Len(q)
       /\ \A i \in 1 .. Len(t) : u[i] = t[i]
       /\ u[Len(t) + 1] = "/"
       /\ \A i \in 1 .. Len(q) : u[Len(t) + 1 + i] = q[i]
  <2>1. q \in Seq(C)
    BY <1>6
  <2>. QED  BY <1>9, <2>1, SlashBetween
<1>11. /\ u \in Seq(C) /\ Len(u) = n
       /\ \A i \in 1 .. m : u[i] = t[i]
       /\ u[k] = "/"
       /\ \A i \in 1 .. b : u[k + i] = q[i]
  BY <1>1, <1>3, <1>7, <1>10
<1>12. ASSUME NEW i \in 1 .. n
       PROVE  p[i] = u[i]
  <2>1. CASE i \in 1 .. m
    BY <1>2, <1>11, <2>1
  <2>2. CASE i = k
    BY <1>4, <1>11, <2>2
  <2>3. CASE i > k
    <3>1. PICK j \in 1 .. b : i = k + j
      <4>0. k \in Nat
        BY <1>3
      <4>1. i - k \in 1 .. b /\ i = k + (i - k)
        BY <1>3, <1>7, <2>3, <4>0
      <4>. QED  BY <4>1
    <3>. QED  BY <1>8, <1>11, <3>1
  <2>4. i \in 1 .. m \/ i = k \/ i > k
    BY <1>3
  <2>. QED  BY <2>1, <2>2, <2>3, <2>4
<1>13. p = u
  BY <1>1, <1>11, <1>12, SeqEqual
<1>14. Len(t) + 1 + Len(q) = Len(p) /\ p[Len(t) + 1] = "/"
  BY <1>1, <1>3, <1>4, <1>7
<1>15. \A j \in 1 .. Len(q) : q[j] = p[Len(t) + 1 + j]
  BY <1>1, <1>3, <1>7, <1>8
<1>16. q = SubSeq(p, Len(t) + 2, Len(p))
  <2>1. Len(t) + 2 = k + 1
    BY <1>1, <1>3
  <2>. QED  BY <1>5, <2>1
<1>17. p = t \o <<"/">> \o q
  BY <1>9, <1>13
<1>18. Cut(p, t, q)
  BY <1>14, <1>15, <1>16, <1>17 DEF Cut
<1>. QED  BY <1>6, <1>18

\* A string in which has_dotdot finds nothing leads nowhere upwards.
LEMMA NeverUp ==
  ASSUME NEW C, NEW s \in Seq(C), ~HasDotdot(s)
  PROVE  \A i \in DOMAIN s : Along(<<>>, s)[i].name = <<".", ".">> => ~EndsAt(s, i + 1)
<1>1. PICK d \in Seq(Seq(C)) : d = <<>>
  <2>1. <<>> \in Seq(Seq(C))
    OBVIOUS
  <2>. QED  BY <2>1
<1>2. DOMAIN s = 1 .. Len(s)
  OBVIOUS
<1>3. \A i \in 1 .. Len(s) : EndsAt(s, i + 1) => Along(d, s)[i].name # <<".", ".">>
  BY NoDotdot
<1>. QED  BY <1>1, <1>2, <1>3

\* "." leads nowhere.
LEMMA DotStays ==
  ASSUME NEW C, "." \in C, NEW d \in Seq(Seq(C)), NEW s, s = <<".">>
  PROVE  s \in Seq(C) /\ Len(s) = 1 /\ Walk(d, s) = d /\ ~HasDotdot(s)
<1>1. s \in Seq(C) /\ Len(s) = 1 /\ s[1] = "." /\ 1 \in 1 .. 1 /\ DOMAIN s = 1 .. 1
  OBVIOUS
<1>2. PICK A : A = Along(d, s)
  OBVIOUS
<1>3. A[0] = [dir |-> d, name |-> <<>>] /\ \A i \in 1 .. 1 : A[i] = Read(A[i - 1], s[i])
  BY <1>1, <1>2, AlongIs
<1>4. A[1] = Read(A[0], ".")
  <2>1. 1 - 1 = 0
    OBVIOUS
  <2>. QED  BY <1>1, <1>3, <2>1
<1>5. A[1].dir = d /\ A[1].name = Append(<<>>, ".")
  BY <1>3, <1>4 DEF Read
<1>6. Append(<<>>, ".") = <<".">>
  OBVIOUS
<1>7. Walk(d, s) = Step(A[1].dir, A[1].name)
  BY <1>1, <1>2 DEF Walk
<1>8. Walk(d, s) = d
  BY <1>5, <1>6, <1>7 DEF Step
<1>9. ~HasDotdot(s)
  <2>1. \A i \in DOMAIN s : i + 1 \notin DOMAIN s
    BY <1>1
  <2>2. \A i \in DOMAIN s : Char(s, i + 1) # "."
    BY <2>1 DEF Char, Nul
  <2>. QED  BY <2>2 DEF HasDotdot
<1>. QED  BY <1>1, <1>8, <1>9

\* The name that phronesis_beneath_rel gives leads from the root to what the
\* path names.
LEMMA RelMeans ==
  ASSUME NEW C, "/" \in C, "." \in C, Nul \notin C, NEW w \in Seq(C), NEW p \in Seq(C),
         NEW r, r = BeneathRel(w, p), r # Failure,
         NEW abs, abs = (Char(p, 1) = "/")
  PROVE  /\ Len(r) < PathMax
         /\ \A i \in DOMAIN r : Along(<<>>, r)[i].name = <<".", ".">> => ~EndsAt(r, i + 1)
         /\ Walk(Resolved(w), r) = Walk(IF abs THEN <<>> ELSE Resolved(w), p)
         /\ abs => Char(w, 1) = "/" /\ Resolved(w) # <<>>
<1>1. PathMax \in Nat /\ Len(p) \in Nat
  BY PathMaxAssumption
<1>3. CASE Char(p, 1) # "/"
  <2>1. r = p /\ ~HasDotdot(p) /\ ~(Len(p) >= PathMax)
    BY <1>3 DEF BeneathRel
  <2>2. \A i \in DOMAIN r : Along(<<>>, r)[i].name = <<".", ".">> => ~EndsAt(r, i + 1)
    BY <2>1, NeverUp
  <2>3. Len(r) < PathMax
    BY <1>1, <2>1
  <2>. QED  BY <1>3, <2>1, <2>2, <2>3
<1>4. CASE Char(p, 1) = "/"
  <2>1. ~BadRoot(w) /\ StartsWith(w, p)
    BY <1>4 DEF BeneathRel
  <2>2. Char(w, 1) = "/" /\ w # <<>> /\ Resolved(w) # <<>>
    BY <2>1, GoodRoot
  <2>3. PICK d \in Seq(Seq(C)) : d = <<>>
    <3>1. <<>> \in Seq(Seq(C))
      OBVIOUS
    <3>. QED  BY <3>1
  <2>4. PICK t \in Seq(C) : t = Trimmed(w) /\ Len(t) # 0 /\ Heads(t, p)
    BY <2>1, <2>2, StartsHeads
  <2>5. Resolved(w) \in Seq(Seq(C)) /\ Resolved(w) = Walk(d, t)
    <3>1. Walk(d, t) = Walk(d, w)
      BY <2>2, <2>4, TrimWalk
    <3>. QED  BY <2>3, <3>1, ResolvedProper DEF Resolved
  <2>6. Len(t) <= Len(p) /\ \A i \in 1 .. Len(t) : t[i] = p[i]
    BY <2>4 DEF Heads
  <2>7. CASE Len(p) = Len(t)
    <3>1. r = <<".">> /\ ~(PathMax < 2)
      BY <1>4, <2>1, <2>4, <2>7 DEF BeneathRel
    <3>2. r \in Seq(C) /\ Len(r) = 1 /\ Walk(Resolved(w), r) = Resolved(w) /\ ~HasDotdot(r)
      BY <2>5, <3>1, DotStays
    <3>3. \A i \in DOMAIN r : Along(<<>>, r)[i].name = <<".", ".">> => ~EndsAt(r, i + 1)
      BY <3>2, NeverUp
    <3>4. Walk(d, p) = Resolved(w)
      <4>1. p = t
        BY <2>4, <2>6, <2>7, SeqEqual
      <4>. QED  BY <2>5, <4>1
    <3>5. Len(r) < PathMax
      BY <1>1, <3>1, <3>2
    <3>. QED  BY <1>4, <2>2, <2>3, <3>2, <3>3, <3>4, <3>5
  <2>8. CASE Len(p) # Len(t)
    <3>0. PICK q \in Seq(C) : Cut(p, t, q)
      BY <2>4, <2>8, RestIs
    <3>1. r = q /\ ~HasDotdot(q) /\ ~(Len(q) >= PathMax)
      <4>1. q = SubSeq(p, Len(Trimmed(w)) + 2, Len(p))
        BY <2>4, <3>0 DEF Cut
      <4>. QED  BY <1>4, <2>1, <2>4, <2>8, <4>1 DEF BeneathRel
    <3>2. q \in Seq(C) /\ Len(q) \in Nat /\ p = t \o <<"/">> \o q
      <4>1. q \in Seq(C) /\ Len(q) \in Nat
        OBVIOUS
      <4>2. p = t \o <<"/">> \o q
        BY <3>0, Zenon DEF Cut
      <4>. QED  BY <4>1, <4>2, Zenon
    <3>3. \A i \in DOMAIN r : Along(<<>>, r)[i].name = <<".", ".">> => ~EndsAt(r, i + 1)
      BY <3>1, <3>2, NeverUp
    <3>4. Walk(d, p) = Walk(Walk(d, t), q)
      BY <2>4, <3>2, WalkConcat
    <3>5. Len(r) < PathMax
      BY <1>1, <3>1, <3>2
    <3>. QED  BY <1>4, <2>2, <2>3, <2>5, <3>1, <3>3, <3>4, <3>5
  <2>. QED  BY <2>7, <2>8
<1>. QED  BY <1>3, <1>4

\* Clean paths have no component "..".
LEMMA CleanNoDotdot ==
  ASSUME NEW C, Nul \notin C, NEW s \in Seq(C), IsCleanAbsPath(s),
         NEW i, i \in 2 .. Len(s), s[i - 1] = "/", s[i] = ".", Char(s, i + 1) = "."
  PROVE  ~EndsAt(s, i + 2)
<1>1. i - 1 \in DOMAIN s /\ (i - 1) + 1 = i /\ (i - 1) + 2 = i + 1 /\ (i - 1) + 3 = i + 2 /\ i \in DOMAIN s
  OBVIOUS
<1>2. Char(s, i) = "."
  BY <1>1 DEF Char
<1>. QED  BY <1>1, <1>2 DEF IsCleanAbsPath

\* phronesis_beneath_rel refuses no canonical path below a proper root that
\* fits its buffer.
LEMMA RelAccepts ==
  ASSUME NEW C, "/" \in C, "." \in C, Nul \notin C, NEW w \in Seq(C), NEW p \in Seq(C),
         Canonical(w), Canonical(p), Inside(w, p), Resolved(w) # <<>>, Len(p) < PathMax
  PROVE  BeneathRel(w, p) # Failure
<1>1. /\ w # <<>> /\ p # <<>> /\ IsCleanAbsPath(w) /\ IsCleanAbsPath(p)
      /\ StartsWith(w, p)
  BY InsideUnder DEF PathUnderWorkspace
<1>2. Char(w, 1) = "/" /\ Char(p, 1) = "/"
  BY <1>1 DEF IsCleanAbsPath
<1>3. PathMax \in Nat /\ Len(p) \in Nat /\ DOMAIN p = 1 .. Len(p) /\ DOMAIN w = 1 .. Len(w) /\ Len(w) \in Nat
  BY PathMaxAssumption
<1>4. w[1] = "/" /\ p[1] = "/"
  BY <1>1, CleanSlash
<1>5. PICK d \in Seq(Seq(C)) : d = <<>>
  <2>1. <<>> \in Seq(Seq(C))
    OBVIOUS
  <2>. QED  BY <2>1
<1>6. ASSUME NEW s \in Seq(C), Len(s) = 1, s[1] = "/"
      PROVE  Resolved(s) = <<>>
  <2>1. PICK A : A = Along(d, s)
    OBVIOUS
  <2>2. A[0] = [dir |-> d, name |-> <<>>] /\ \A i \in 1 .. Len(s) : A[i] = Read(A[i - 1], s[i])
    BY <2>1, AlongIs
  <2>3. 1 \in 1 .. Len(s) /\ 1 - 1 = 0
    BY <1>6
  <2>4. A[1] = Read(A[0], "/")
    BY <1>6, <2>2, <2>3
  <2>5. A[1].dir = d /\ A[1].name = <<>>
    BY <2>2, <2>4 DEF Read, Step
  <2>6. Walk(d, s) = Step(A[1].dir, A[1].name)
    BY <1>6, <2>1 DEF Walk
  <2>. QED  BY <1>5, <2>5, <2>6 DEF Resolved, Step
<1>7. ~IsFsRoot(w)
  <2>. SUFFICES ASSUME IsFsRoot(w)
                PROVE  FALSE
    OBVIOUS
  <2>1. Len(w) # 0 /\ Len(w) # 1
    <3>1. Len(w) # 0
      BY <1>1, EmptySeq
    <3>. QED  BY <1>4, <1>6, <3>1
  <2>2. 2 \in DOMAIN w /\ 1 \in DOMAIN w
    BY <1>3, <2>1
  <2>3. w[2] = "/" \/ (w[2] = "." /\ EndsAt(w, 2 + 1))
    BY <2>2 DEF IsFsRoot
  <2>4. Char(w, 1 + 1) # "/" /\ ~(Char(w, 1 + 1) = "." /\ EndsAt(w, 1 + 2))
    BY <1>1, <1>4, <2>2 DEF IsCleanAbsPath
  <2>5. Char(w, 2) = w[2] /\ 1 + 1 = 2 /\ 1 + 2 = 2 + 1
    BY <2>2 DEF Char
  <2>. QED  BY <2>3, <2>4, <2>5
<1>8. ~HasDotdot(w)
  <2>. SUFFICES ASSUME NEW i \in DOMAIN w,
                       w[i] = ".", Char(w, i + 1) = ".", EndsAt(w, i + 2), i = 1 \/ w[i - 1] = "/"
                PROVE  FALSE
    BY DEF HasDotdot
  <2>1. i # 1
    BY <1>4
  <2>2. i \in 2 .. Len(w)
    BY <1>3, <2>1
  <2>3. w[i - 1] = "/"
    BY <2>1
  <2>. QED  BY <1>1, <2>2, <2>3, CleanNoDotdot
<1>9. ~BadRoot(w)
  BY <1>2, <1>7, <1>8 DEF BadRoot
<1>10. PICK t \in Seq(C) : t = Trimmed(w) /\ Len(t) # 0 /\ Heads(t, p)
  BY <1>1, StartsHeads
<1>11. Walk(d, t) = Walk(d, w)
  BY <1>1, <1>10, TrimWalk
<1>12. Len(t) \in 1 .. Len(p) /\ \A i \in 1 .. Len(t) : t[i] = p[i]
  <2>1. Len(t) <= Len(p) /\ Len(t) \in Nat /\ \A i \in 1 .. Len(t) : t[i] = p[i]
    BY <1>10 DEF Heads
  <2>. QED  BY <1>3, <1>10, <2>1
<1>13. CASE Len(p) = Len(t)
  <2>0. p = t
    BY <1>11, <1>12, <1>13, SeqEqual
  <2>1. Resolved(p) = Resolved(w)
    BY <1>5, <1>11, <2>0 DEF Resolved
  <2>2. Len(p) # 1
    BY <1>4, <1>6, <2>1
  <2>3. ~(PathMax < 2)
    BY <1>3, <1>12, <2>2
  <2>4. BeneathRel(w, p) = <<".">>
    BY <1>1, <1>2, <1>9, <1>10, <1>13, <2>3 DEF BeneathRel
  <2>5. <<".">> # <<Nul>>
    BY DEF Nul
  <2>. QED  BY <2>4, <2>5 DEF Failure
<1>14. CASE Len(p) # Len(t)
  <2>1. PICK m \in Nat : m = Len(t) + 1
    BY <1>12
  <2>2. PICK q \in Seq(C) : Cut(p, t, q)
    BY <1>10, <1>14, RestIs
  <2>3. p[m] = "/" /\ m + Len(q) = Len(p) /\ \A j \in 1 .. Len(q) : q[j] = p[m + j]
    BY <2>1, <2>2 DEF Cut
  <2>4. q \in Seq(C) /\ Len(q) \in Nat /\ DOMAIN q = 1 .. Len(q)
    BY <2>2
  <2>5. m \in 2 .. Len(p) /\ Len(q) < Len(p)
    BY <1>3, <1>12, <2>1, <2>3, <2>4
  <2>6. \A i \in Nat \ {0} : Char(q, i) = Char(p, m + i)
    <3>. TAKE i \in Nat \ {0}
    <3>1. i \in DOMAIN q <=> m + i \in DOMAIN p
      BY <1>3, <2>3, <2>4
    <3>. QED  BY <2>3, <2>4, <3>1 DEF Char
  <2>7. ~HasDotdot(q)
    <3>. SUFFICES ASSUME NEW i \in DOMAIN q,
                         q[i] = ".", Char(q, i + 1) = ".", EndsAt(q, i + 2), i = 1 \/ q[i - 1] = "/"
                  PROVE  FALSE
      BY DEF HasDotdot
    <3>1. i \in 1 .. Len(q) /\ i + 1 \in Nat \ {0} /\ i + 2 \in Nat \ {0}
      BY <2>4
    <3>2. PICK k \in 2 .. Len(p) : k = m + i
      BY SMTT(30), <1>3, <2>3, <2>5, <3>1
    <3>3. m + (i + 1) = k + 1 /\ m + (i + 2) = k + 2
      <4>1. i \in Nat /\ m \in Nat
        BY <3>1
      <4>2. \A x, y \in Nat : x + (y + 1) = (x + y) + 1 /\ x + (y + 2) = (x + y) + 2
        OBVIOUS
      <4>. QED  BY <3>2, <4>1, <4>2
    <3>4. p[k] = "."
      BY <2>3, <3>1, <3>2
    <3>5. Char(p, k + 1) = "." /\ EndsAt(p, k + 2)
      BY <2>6, <3>1, <3>3 DEF EndsAt
    <3>6. p[k - 1] = "/"
      <4>1. CASE i = 1
        <5>1. k - 1 = m
          BY <3>2, <4>1
        <5>. QED  BY <2>3, <5>1
      <4>2. CASE i # 1
        <5>1. i - 1 \in 1 .. Len(q) /\ m + (i - 1) = k - 1
          BY SMTT(30), <2>4, <3>1, <3>2, <4>2
        <5>. QED  BY <2>3, <4>2, <5>1
      <4>. QED  BY <4>1, <4>2
    <3>. QED  BY <1>1, <3>4, <3>5, <3>6, CleanNoDotdot
  <2>8. ~(Len(q) >= PathMax)
    BY <1>3, <2>4, <2>5
  <2>9. BeneathRel(w, p) = q
    <3>1. q = SubSeq(p, Len(Trimmed(w)) + 2, Len(p))
      BY <1>10, <2>2 DEF Cut
    <3>. QED  BY <1>1, <1>2, <1>9, <1>10, <1>14, <2>7, <2>8, <3>1 DEF BeneathRel
  <2>10. q # Failure
    <3>. SUFFICES ASSUME q = Failure
                  PROVE  FALSE
      OBVIOUS
    <3>1. Len(q) = 1 /\ q[1] = Nul
      BY DEF Failure
    <3>2. 1 \in 1 .. Len(q)
      BY <3>1
    <3>3. q[1] \in C
      BY <2>4, <3>2
    <3>. QED  BY <3>1, <3>3
  <2>. QED  BY <2>9, <2>10
<1>. QED  BY <1>13, <1>14

-----------------------------------------------------------------------------
(* The words of a command. *)

\* What phronesis_resolve_script gives is a string.
LEMMA ScriptType ==
  ASSUME NEW C, "/" \in C, Nul \notin C, NEW w \in Seq(C), NEW p \in Seq(C),
         NEW a, a = ResolveScript(w, p), a # Failure
  PROVE  a \in Seq(C)
<1>1. CASE a = p
  BY <1>1
<1>2. CASE a # p
  <2>1. Char(w, 1) = "/" /\ a = Trimmed(w) \o <<"/">> \o p
    BY <1>2 DEF ResolveScript
  <2>2. w # <<>>
    <3>1. ASSUME w = <<>>
          PROVE  Char(w, 1) # "/"
      BY <3>1 DEF Char, Nul
    <3>. QED  BY <2>1, <3>1
  <2>3. Trimmed(w) \in Seq(C)
    <3>1. <<>> \in Seq(Seq(C))
      OBVIOUS
    <3>. QED  BY <2>2, <3>1, TrimWalk
  <2>4. PICK t \in Seq(C) : t = Trimmed(w)
    BY <2>3
  <2>. QED  BY <2>1, <2>4
<1>. QED  BY <1>1, <1>2

\* A name other than ".." leads to the directory or below it.
LEMMA StepKeeps ==
  ASSUME NEW C, NEW b \in Seq(Seq(C)), NEW dir \in Seq(Seq(C)), NEW name \in Seq(C),
         name # <<".", ".">>, IsPrefix(b, dir)
  PROVE  IsPrefix(b, Step(dir, name))
<1>1. IsPrefix(b, Append(dir, name))
  BY PrefixAppend
<1>. QED  BY <1>1 DEF Step

\* A string in which has_dotdot finds nothing leads from a directory to the
\* directory or below it.
LEMMA DownOnly ==
  ASSUME NEW C, NEW s \in Seq(C), NEW d \in Seq(Seq(C)), ~HasDotdot(s)
  PROVE  IsPrefix(d, Walk(d, s))
<1>1. PICK n \in Nat : n = Len(s)
  OBVIOUS
<1>2. PICK A : A = Along(d, s)
  OBVIOUS
<1>3. /\ A \in [0 .. n -> Places(C)]
      /\ A[0] = [dir |-> d, name |-> <<>>]
      /\ \A j \in 1 .. n : A[j] = Read(A[j - 1], s[j])
  BY ZenonT(30), <1>1, <1>2, AlongIs
<1>4. DOMAIN s = 1 .. n
  BY <1>1
<1> DEFINE S == {j \in 0 .. n : IsPrefix(d, A[j].dir)}
<1>5. ASSUME NEW j \in 0 .. n, j \in S, j > 0 => EndsAt(s, j + 1)
      PROVE  IsPrefix(d, Step(A[j].dir, A[j].name))
  <2>1. PICK e \in Seq(Seq(C)) : e = A[j].dir
    BY <1>3 DEF Places
  <2>2. PICK m \in Seq(C) : m = A[j].name
    BY <1>3 DEF Places
  <2>3. m # <<".", ".">>
    <3>1. CASE j = 0
      <4>1. m = <<>>
        BY <1>3, <2>2, <3>1
      <4>2. Len(m) = 0 /\ Len(<<".", ".">>) = 2
        BY <4>1
      <4>. QED  BY <4>2
    <3>2. CASE j # 0
      <4>1. j \in 1 .. Len(s) /\ EndsAt(s, j + 1)
        BY <1>1, <1>5, <3>2
      <4>. QED  BY <1>2, <2>2, <4>1, NoDotdot
    <3>. QED  BY <3>1, <3>2
  <2>4. IsPrefix(d, e)
    BY <1>5, <2>1
  <2>5. IsPrefix(d, Step(e, m))
    BY <2>3, <2>4, StepKeeps
  <2>. QED  BY <2>1, <2>2, <2>5
<1>6. 0 \in S
  <2>1. Len(d) \in Nat
    OBVIOUS
  <2>2. IsPrefix(d, d)
    BY <2>1, PrefixIs
  <2>. QED  BY <1>3, <2>2
<1>7. ASSUME NEW j \in 0 .. n, j < n, j \in S
      PROVE  j + 1 \in S
  <2>1. j + 1 \in 1 .. n /\ (j + 1) - 1 = j /\ j + 1 \in 0 .. n
    BY <1>7
  <2>2. A[j + 1] = Read(A[j], s[j + 1])
    BY <1>3, <2>1
  <2>3. CASE s[j + 1] = "/"
    <3>1. EndsAt(s, j + 1)
      BY <1>4, <2>1, <2>3 DEF EndsAt, Char
    <3>2. IsPrefix(d, Step(A[j].dir, A[j].name))
      BY <1>5, <1>7, <3>1
    <3>3. A[j + 1].dir = Step(A[j].dir, A[j].name)
      BY <2>2, <2>3 DEF Read
    <3>. QED  BY <2>1, <3>2, <3>3
  <2>4. CASE s[j + 1] # "/"
    <3>1. A[j + 1].dir = A[j].dir
      BY <2>2, <2>4 DEF Read
    <3>. QED  BY <1>7, <2>1, <3>1
  <2>. QED  BY <2>3, <2>4
<1>8. n \in S
  <2>1. \A j \in 0 .. n : j \in S
    <3>. HIDE DEF S
    <3>. QED  BY <1>6, <1>7, InductionTo
  <2>2. n \in 0 .. n
    OBVIOUS
  <2>. QED  BY <2>1, <2>2
<1>9. EndsAt(s, n + 1)
  <2>1. n + 1 \notin DOMAIN s
    BY <1>4
  <2>. QED  BY <2>1 DEF EndsAt, Char
<1>10. n \in 0 .. n
  OBVIOUS
<1>11. IsPrefix(d, Step(A[n].dir, A[n].name))
  BY <1>5, <1>8, <1>9, <1>10
<1>. QED  BY <1>1, <1>2, <1>11 DEF Walk

\* What is left of a path without a component ".." has none.
LEMMA RestNoDotdot ==
  ASSUME NEW C, Nul \notin C, NEW p \in Seq(C), NEW t \in Seq(C), NEW q \in Seq(C),
         Cut(p, t, q), ~HasDotdot(p)
  PROVE  ~HasDotdot(q)
<1>. SUFFICES ASSUME NEW i \in DOMAIN q, q[i] = ".", Char(q, i + 1) = ".", EndsAt(q, i + 2),
                     i = 1 \/ q[i - 1] = "/"
              PROVE  HasDotdot(p)
  BY DEF HasDotdot
<1>1. PICK m, l, n \in Nat : m = Len(t) + 1 /\ l = Len(q) /\ n = Len(p)
  OBVIOUS
<1>2. /\ p[m] = "/" /\ m + l = n /\ m \in 1 .. n
      /\ \A j \in 1 .. l : q[j] = p[m + j]
  <2>1. Len(t) \in Nat
    OBVIOUS
  <2>2. p[Len(t) + 1] = "/" /\ Len(t) + 1 + Len(q) = Len(p)
    BY Zenon DEF Cut
  <2>3. \A j \in 1 .. Len(q) : q[j] = p[Len(t) + 1 + j]
    BY Zenon DEF Cut
  <2>4. m + l = n /\ m \in 1 .. n
    BY <1>1, <2>1, <2>2, SMTT(30)
  <2>. QED  BY <1>1, <2>2, <2>3, <2>4
<1>3. DOMAIN q = 1 .. l /\ DOMAIN p = 1 .. n /\ i \in 1 .. l
  BY <1>1
<1>4. \A j \in 1 .. l + 2 : Char(q, j) = Char(p, m + j)
  <2>. TAKE j \in 1 .. l + 2
  <2>1. CASE j \in 1 .. l
    <3>1. m + j \in 1 .. n
      BY <1>1, <1>2, <2>1
    <3>. QED  BY <1>2, <1>3, <2>1, <3>1 DEF Char
  <2>2. CASE j \notin 1 .. l
    <3>1. m + j \notin 1 .. n
      BY <1>1, <1>2, <2>2
    <3>. QED  BY <1>3, <2>2, <3>1 DEF Char
  <2>. QED  BY <2>1, <2>2
<1>5. PICK k \in DOMAIN p : k = m + i
  BY <1>1, <1>2, <1>3
<1>6. i + 1 \in 1 .. l + 2 /\ i + 2 \in 1 .. l + 2 /\ k + 1 = m + (i + 1) /\ k + 2 = m + (i + 2)
  <2>1. PICK j \in 1 .. l : j = i
    BY <1>3
  <2>2. j + 1 \in 1 .. l + 2 /\ j + 2 \in 1 .. l + 2
    OBVIOUS
  <2>3. (m + j) + 1 = m + (j + 1) /\ (m + j) + 2 = m + (j + 2)
    OBVIOUS
  <2>. QED  BY <1>5, <2>1, <2>2, <2>3
<1>7. Char(p, k + 1) = "." /\ EndsAt(p, k + 2)
  BY <1>4, <1>6 DEF EndsAt
<1>8. p[k] = "."
  BY <1>2, <1>3, <1>5
<1>9. p[k - 1] = "/"
  <2>1. CASE i = 1
    <3>1. k - 1 = m
      BY <1>1, <1>5, <2>1
    <3>. QED  BY <1>2, <3>1
  <2>2. CASE i # 1
    <3>1. i - 1 \in 1 .. l /\ m + (i - 1) = k - 1
      BY <1>1, <1>2, <1>3, <1>5, <2>2
    <3>. QED  BY <1>2, <2>2, <3>1
  <2>. QED  BY <2>1, <2>2
<1>. QED  BY <1>7, <1>8, <1>9 DEF HasDotdot

\* What path_under_workspace of policy_janet.c accepts lies inside the
\* workspace, unless it has a component "..".
LEMMA PackInside ==
  ASSUME NEW C, "/" \in C, Nul \notin C, NEW w \in Seq(C), NEW p \in Seq(C),
         PackPathUnder(w, p), ~HasDotdot(p)
  PROVE  Inside(w, p)
<1>1. w # <<>> /\ StartsWith(w, p)
  BY DEF PackPathUnder
<1>2. PICK d \in Seq(Seq(C)) : d = <<>>
  <2>1. <<>> \in Seq(Seq(C))
    OBVIOUS
  <2>. QED  BY <2>1
<1>3. PICK t \in Seq(C) : t = Trimmed(w) /\ Len(t) # 0 /\ Heads(t, p)
  BY <1>1, StartsHeads
<1>4. Walk(d, t) = Walk(d, w)
  BY <1>1, <1>3, TrimWalk
<1>5. PICK e \in Seq(Seq(C)) : e = Walk(d, t)
  BY WalkType
<1>6. IsPrefix(e, Walk(d, p))
  <2>1. CASE Len(p) = Len(t)
    <3>1. p = t
      <4>1. \A i \in 1 .. Len(t) : t[i] = p[i]
        BY <1>3 DEF Heads
      <4>. QED  BY <2>1, <4>1, SeqEqual
    <3>2. Len(e) \in Nat
      OBVIOUS
    <3>3. IsPrefix(e, e)
      BY <3>2, PrefixIs
    <3>. QED  BY <1>5, <3>1, <3>3
  <2>2. CASE Len(p) # Len(t)
    <3>1. PICK q \in Seq(C) : Cut(p, t, q)
      BY <1>3, <2>2, RestIs
    <3>2. p = t \o <<"/">> \o q
      BY <3>1, Zenon DEF Cut
    <3>3. Walk(d, p) = Walk(Walk(d, t), q)
      BY <3>2, WalkConcat
    <3>4. ~HasDotdot(q)
      BY <3>1, RestNoDotdot
    <3>5. IsPrefix(e, Walk(e, q))
      BY <3>4, DownOnly
    <3>. QED  BY <1>5, <3>3, <3>5
  <2>. QED  BY <2>1, <2>2
<1>. QED  BY <1>2, <1>4, <1>5, <1>6 DEF Inside, Resolved

\* What is below something below the workspace is below the workspace.
LEMMA PrefixTrans ==
  ASSUME NEW X, NEW s \in Seq(X), NEW t \in Seq(X), NEW u \in Seq(X), IsPrefix(s, t), IsPrefix(t, u)
  PROVE  IsPrefix(s, u)
<1>1. PICK l, m, n \in Nat : l = Len(s) /\ m = Len(t) /\ n = Len(u)
  OBVIOUS
<1>2. /\ l <= m /\ \A i \in 1 .. l : s[i] = t[i]
      /\ m <= n /\ \A i \in 1 .. m : t[i] = u[i]
  BY <1>1, PrefixIs
<1>3. l <= n /\ \A i \in 1 .. l : s[i] = u[i]
  BY <1>2
<1>. QED  BY <1>1, <1>3, PrefixIs

\* The heads the host reads for the packs: see ProbeInside.
LEMMA ProbeMeans ==
  ASSUME NEW C, "/" \in C, Nul \notin C, NEW w \in Seq(C), NEW cwd \in Seq(C), NEW tok \in Seq(C),
         PathUnderWorkspace(w, cwd), NEW abs, abs = ResolveScript(cwd, tok)
  PROVE  /\ ProbePath(w, cwd, tok) = Failure \/ HasDotdot(tok) \/ Inside(w, abs)
         /\ (/\ abs # Failure /\ Canonical(abs) /\ Inside(w, abs)
             /\ Resolved(w) = <<>> => Resolved(abs) = <<>>) => PackPathUnder(w, abs)
<1>1. ASSUME ProbePath(w, cwd, tok) # Failure, ~HasDotdot(tok)
      PROVE  Inside(w, abs)
  <2>1. abs # Failure /\ PackPathUnder(w, abs)
    BY <1>1 DEF ProbePath
  <2>2. Resolved(abs) = IF tok[1] = "/" THEN Resolved(tok) ELSE Walk(Resolved(cwd), tok)
    BY <2>1, ScriptMeans
  <2>3. CASE tok[1] = "/"
    <3>1. abs = tok
      BY <2>1, <2>3 DEF ResolveScript
    <3>. QED  BY <1>1, <2>1, <3>1, PackInside
  <2>4. CASE tok[1] # "/"
    <3>1. PICK b, e \in Seq(Seq(C)) : b = Resolved(w) /\ e = Resolved(cwd)
      BY ResolvedProper
    <3>2. IsPrefix(b, e)
      BY <3>1, UnderInside DEF Inside
    <3>3. PICK f \in Seq(Seq(C)) : f = Walk(e, tok)
      BY WalkType
    <3>4. IsPrefix(e, f)
      BY <1>1, <3>3, DownOnly
    <3>5. IsPrefix(b, f)
      BY <3>2, <3>4, PrefixTrans
    <3>6. Resolved(abs) = f
      BY <2>2, <2>4, <3>1, <3>3
    <3>. QED  BY <3>1, <3>5, <3>6 DEF Inside
  <2>. QED  BY <2>3, <2>4
<1>2. ASSUME abs # Failure, Canonical(abs), Inside(w, abs), Resolved(w) = <<>> => Resolved(abs) = <<>>
      PROVE  PackPathUnder(w, abs)
  <2>1. Canonical(w) /\ w # <<>>
    BY UnderInside DEF PathUnderWorkspace
  <2>2. abs \in Seq(C)
    BY <1>2, ScriptType
  <2>3. PathUnderWorkspace(w, abs)
    BY <1>2, <2>1, <2>2, InsideUnder
  <2>. QED  BY <2>3 DEF PathUnderWorkspace, PackPathUnder, IsCleanAbsPath
<1>. QED  BY <1>1, <1>2
=============================================================================

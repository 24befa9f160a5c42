---------------------------- MODULE RecordsProofs ----------------------------
(***************************************************************************)
(* Proofs about the two records of what was decided, for any number of     *)
(* appends, readers and calls, and any size of the ring and of the buffer. *)
(***************************************************************************)
EXTENDS MCRecords, NatRecursion, SequenceTheorems

-----------------------------------------------------------------------------
(* The trace. *)

\* The slot of the i-th event after slot h of a full ring.
Slot(h, i) == IF h + i - 1 < RingSize THEN h + i - 1 ELSE h + i - 1 - RingSize

\* The remainder of a number that goes round the ring at most once.
LEMMA RoundOnce ==
  ASSUME NEW R \in Nat \ {0}, NEW x \in Nat, x < R + R
  PROVE  x % R = IF x < R THEN x ELSE x - R
OBVIOUS

\* The ring holds the end of what was committed: from slot 0 on until it is
\* full, and then from the slot that the next event will take.
RingHolds(c) ==
  /\ count < RingSize =>
       /\ Len(c) = count /\ head = count
       /\ \A i \in 1 .. count : ring[i - 1] = c[i]
  /\ count = RingSize =>
       /\ Len(c) >= RingSize
       /\ \A i \in 1 .. RingSize : ring[Slot(head, i)] = c[Len(c) - RingSize + i]

\* An event that a check commits was begun in that check, and so was the one
\* that is open.
OfThisCall ==
  call.kind = "check" =>
    /\ \A i \in 1 .. Len(committed) : committed[i].call = call.number
    /\ open => pending.call = call.number

\* A span of a function that began event m may stand in event n: it is the
\* same one, or n is a later one whose function has left it (L).
Belongs(n, m, L) == m = n \/ (m < n /\ n \in L)

Own(e, L) == \A k \in 1 .. Len(e.spans) : Belongs(e.seq, e.spans[k], L)

\* The event begun last on a stack s of functions, and the order of s: who
\* stands further in began later, and no later than event n.
Top(s) == IF s = <<>> THEN 0 ELSE s[Len(s)]

Ordered(s, n) ==
  /\ \A i \in 1 .. Len(s) : s[i] <= n
  /\ \A i, j \in 1 .. Len(s) : i < j => s[i] < s[j]

\* The next span of the running function will fit too.
OwnSpans ==
  /\ \A i \in 1 .. Len(committed) : Own(committed[i], left)
  /\ open => Own(pending, left) /\ Belongs(pending.seq, Top(scopes), left)

TraceInv ==
  /\ TraceTypeOK /\ committed \in Seq(Events)
  /\ RingHolds(committed)
  /\ OfThisCall
  /\ Ordered(scopes, seq)
  /\ OwnSpans

\* An event that is begun has no spans yet.
LEMMA FreshEvent ==
  ASSUME NEW n \in 0 .. MaxSeq, NEW c \in 0 .. MaxCalls
  PROVE  /\ Event(n, c) \in Events /\ Len(Event(n, c).spans) = 0
         /\ \A L : Own(Event(n, c), L)
         /\ Event(n, c).seq = n /\ Event(n, c).call = c
<1>1. <<>> \in Seq(0 .. MaxSeq) /\ Len(<<>>) = 0
  OBVIOUS
<1>. QED  BY <1>1 DEF Event, Events, Own

\* A function that begins an event becomes the innermost one.
LEMMA ScopeGrows ==
  ASSUME NEW s \in Seq(1 .. MaxSeq), NEW n \in 0 .. MaxSeq, n < MaxSeq, Ordered(s, n)
  PROVE  /\ Append(s, n + 1) \in Seq(1 .. MaxSeq) /\ Ordered(Append(s, n + 1), n + 1)
         /\ Top(Append(s, n + 1)) = n + 1
<1>1. MaxSeq \in Nat /\ n + 1 \in 1 .. MaxSeq
  BY TraceAssumption
<1>2. PICK u : u = Append(s, n + 1)
  OBVIOUS
<1>3. PICK l \in Nat : l = Len(s)
  OBVIOUS
<1>4. u \in Seq(1 .. MaxSeq) /\ Len(u) = l + 1 /\ u # <<>> /\ \A i \in 1 .. l + 1 : u[i] = IF i = l + 1 THEN n + 1 ELSE s[i]
  BY <1>1, <1>2, <1>3
<1>12. \A i \in 1 .. l : s[i] \in 1 .. MaxSeq
  BY <1>3, ElementOfSeq
<1>13. \A i \in 1 .. l : s[i] <= n
  BY <1>3 DEF Ordered
<1>5. \A i \in 1 .. l : s[i] \in 1 .. MaxSeq /\ s[i] <= n
  BY <1>12, <1>13
<1>6. \A i, j \in 1 .. l : i < j => s[i] < s[j]
  BY <1>3 DEF Ordered
<1>7. \A i \in 1 .. l + 1 : i = l + 1 \/ i \in 1 .. l
  OBVIOUS
<1>8. \A i \in 1 .. l + 1 : u[i] <= n + 1
  BY <1>1, <1>4, <1>5, <1>7
<1>9. \A i, j \in 1 .. l + 1 : i < j => u[i] < u[j]
  <2>. SUFFICES ASSUME NEW i \in 1 .. l + 1, NEW j \in 1 .. l + 1, i < j
                PROVE  u[i] < u[j]
    OBVIOUS
  <2>1. i \in 1 .. l /\ u[i] = s[i]
    BY <1>4
  <2>2. CASE j = l + 1
    <3>1. u[j] = n + 1 /\ s[i] \in Int /\ s[i] <= n
      BY <1>1, <1>4, <1>5, <2>1, <2>2
    <3>. QED  BY <2>1, <3>1
  <2>3. CASE j \in 1 .. l
    <3>1. u[j] = s[j]
      BY <1>4, <2>3
    <3>. QED  BY <1>6, <2>1, <2>3, <3>1
  <2>. QED  BY <1>7, <2>2, <2>3
<1>10. Top(u) = n + 1
  BY <1>4, SMT DEF Top
<1>11. Ordered(u, n + 1)
  BY <1>4, <1>8, <1>9 DEF Ordered
<1>. QED  BY <1>2, <1>4, <1>10, <1>11

\* Functions that end leave the outer ones, which began earlier.
LEMMA ScopeShrinks ==
  ASSUME NEW s \in Seq(1 .. MaxSeq), NEW n \in 0 .. MaxSeq, Ordered(s, n), NEW k \in 0 .. Len(s) - 1
  PROVE  /\ SubSeq(s, 1, k) \in Seq(1 .. MaxSeq) /\ Ordered(SubSeq(s, 1, k), n)
         /\ Top(s) = s[Len(s)] /\ Top(s) \in 1 .. MaxSeq
         /\ Top(SubSeq(s, 1, k)) \in 0 .. MaxSeq /\ Top(SubSeq(s, 1, k)) < Top(s)
<1>1. PICK l \in Nat : l = Len(s)
  OBVIOUS
<1>2. k \in 0 .. l - 1 /\ k \in Nat /\ 1 <= l /\ s # <<>> /\ MaxSeq \in Nat
  BY <1>1, TraceAssumption
<1>3. PICK u : u = SubSeq(s, 1, k)
  OBVIOUS
<1>4. u \in Seq(1 .. MaxSeq) /\ Len(u) = k /\ \A i \in 1 .. k : u[i] = s[i]
  BY <1>1, <1>2, <1>3
<1>5. \A i \in 1 .. k : i \in 1 .. l
  BY <1>2
<1>11. \A i \in 1 .. l : s[i] \in 1 .. MaxSeq
  BY <1>1, ElementOfSeq
<1>12. \A i \in 1 .. l : s[i] <= n
  BY <1>1 DEF Ordered
<1>6. \A i \in 1 .. l : s[i] \in 1 .. MaxSeq /\ s[i] <= n
  BY <1>11, <1>12
<1>7. \A i, j \in 1 .. l : i < j => s[i] < s[j]
  BY <1>1 DEF Ordered
<1>8. Ordered(u, n)
  BY <1>4, <1>5, <1>6, <1>7 DEF Ordered
<1>9. Top(s) = s[l] /\ s[l] \in 1 .. MaxSeq
  BY <1>1, <1>2, <1>6 DEF Top
<1>10. Top(u) \in 0 .. MaxSeq /\ Top(u) < s[l]
  <2>1. CASE k = 0
    <3>1. u = <<>>
      BY <1>4, <2>1
    <3>2. Top(u) = 0
      BY <3>1 DEF Top
    <3>. QED  BY <1>2, <1>9, <3>2
  <2>2. CASE k # 0
    <3>1. u # <<>> /\ k \in 1 .. k /\ k \in 1 .. l /\ l \in 1 .. l /\ k < l
      BY <1>2, <1>4, <2>2
    <3>2. Top(u) = s[k]
      BY <1>4, <3>1 DEF Top
    <3>. QED  BY <1>2, <1>6, <1>7, <3>1, <3>2
  <2>. QED  BY <2>1, <2>2
<1>. QED  BY <1>1, <1>3, <1>4, <1>8, <1>9, <1>10

\* No event is an event.
LEMMA NoEventIs == NoEvent \in Events /\ Len(NoEvent.spans) = 0
<1>1. 0 \in 0 .. MaxSeq /\ 0 \in 0 .. MaxCalls
  BY TraceAssumption
<1>. QED  BY <1>1, FreshEvent DEF NoEvent

\* ring_push keeps the ring and what was committed together, at the moment the
\* ring becomes full and when it wraps too.
LEMMA PushKeeps ==
  ASSUME TraceTypeOK, committed \in Seq(Events), RingHolds(committed), NEW e \in Events, Push(e)
  PROVE  /\ ring' \in [0 .. RingSize - 1 -> Events]
         /\ head' \in 0 .. RingSize - 1 /\ count' \in 0 .. RingSize
         /\ committed' \in Seq(Events) /\ Len(committed') = Len(committed) + 1
         /\ \A i \in 1 .. Len(committed) + 1 :
              committed'[i] = IF i = Len(committed) + 1 THEN e ELSE committed[i]
         /\ RingHolds(committed)'
<1>1. PICK R \in Nat \ {0} : R = RingSize
  BY TraceAssumption
<1>2. PICK c \in Seq(Events), n \in Nat : c = committed /\ n = Len(c)
  OBVIOUS
<1>3. head \in 0 .. R - 1 /\ count \in 0 .. R /\ ring \in [0 .. R - 1 -> Events]
  BY <1>1 DEF TraceTypeOK
<1>4. PICK d : d = Append(c, e)
  OBVIOUS
<1>5. d \in Seq(Events) /\ Len(d) = n + 1 /\ \A i \in 1 .. n + 1 : d[i] = IF i = n + 1 THEN e ELSE c[i]
  BY <1>2, <1>4
<1>6. committed' = d /\ ring' = [ring EXCEPT ![head] = e] /\ count' = (IF count < R THEN count + 1 ELSE count)
  BY <1>1, <1>2, <1>4 DEF Push
<1>7. head' = IF head + 1 = R THEN 0 ELSE head + 1
  <2>1. head + 1 \in Nat /\ head + 1 < R + R
    BY <1>3
  <2>2. head' = (head + 1) % R
    BY <1>1 DEF Push, PushedHead
  <2>3. PICK x \in Nat : x = head + 1
    BY <2>1
  <2>4. x % R = IF x < R THEN x ELSE x - R
    BY <2>1, <2>3, RoundOnce
  <2>5. head' = IF x < R THEN x ELSE x - R
    BY <2>2, <2>3, <2>4
  <2>. QED  BY <1>3, <2>3, <2>5
<1>8. /\ ring' \in [0 .. R - 1 -> Events] /\ ring'[head] = e
      /\ \A k \in 0 .. R - 1 : k # head => ring'[k] = ring[k]
  BY <1>3, <1>6
<1>9. head' \in 0 .. R - 1 /\ count' \in 0 .. R
  BY <1>3, <1>6, <1>7
<1>10. ASSUME count < R
       PROVE  RingHolds(committed)'
  <2>1. n = count /\ head = count /\ \A i \in 1 .. count : ring[i - 1] = c[i]
    BY <1>1, <1>2, <1>10 DEF RingHolds
  <2>2. \A i \in 1 .. count + 1 : ring'[i - 1] = d[i]
    <3>. TAKE i \in 1 .. count + 1
    <3>1. CASE i = count + 1
      BY <1>5, <1>8, <2>1, <3>1
    <3>2. CASE i # count + 1
      <4>1. i \in 1 .. count /\ i - 1 \in 0 .. R - 1 /\ i - 1 # head
        BY <1>3, <1>10, <2>1, <3>2
      <4>. QED  BY <1>5, <1>8, <2>1, <4>1
    <3>. QED  BY <3>1, <3>2
  <2>3. CASE count + 1 < R
    <3>1. count' = count + 1 /\ head' = count + 1 /\ count' < R /\ count' # R
      BY <1>3, <1>6, <1>7, <2>1, <2>3
    <3>. QED  BY <1>1, <1>5, <1>6, <2>1, <2>2, <3>1 DEF RingHolds
  <2>4. CASE count + 1 = R
    <3>1. count' = R /\ head' = 0 /\ ~(count' < R) /\ Len(d) = R
      BY <1>3, <1>5, <1>6, <1>7, <2>1, <2>4
    <3>2. \A i \in 1 .. R : ring'[i - 1] = d[Len(d) - R + i]
      BY SMTT(30), <2>2, <2>4, <3>1
    <3>3. \A i \in 1 .. R : 0 + i - 1 < R /\ 0 + i - 1 = i - 1
      OBVIOUS
    <3>. QED  BY <1>1, <1>6, <3>1, <3>2, <3>3 DEF RingHolds, Slot
  <2>. QED  BY <1>3, <1>10, <2>3, <2>4
<1>11. ASSUME count = R
       PROVE  RingHolds(committed)'
  <2>1. n >= R /\ \A i \in 1 .. R : ring[Slot(head, i)] = c[n - R + i]
    BY <1>1, <1>2, <1>11 DEF RingHolds
  <2>2. \A i \in 1 .. R : ring'[IF head' + i - 1 < R THEN head' + i - 1 ELSE head' + i - 1 - R] = d[n + 1 - R + i]
    <3>. TAKE i \in 1 .. R
    <3>1. CASE i = R
      <4>1. head = (IF head' + i - 1 < R THEN head' + i - 1 ELSE head' + i - 1 - R) /\ n + 1 - R + i = n + 1
        BY <1>3, <1>7, <3>1
      <4>. QED  BY <1>5, <1>8, <4>1
    <3>2. CASE i # R
      <4>1. i + 1 \in 1 .. R
        BY <3>2
      <4>2. PICK k \in 0 .. R - 1 : /\ k = IF head' + i - 1 < R THEN head' + i - 1 ELSE head' + i - 1 - R
                                    /\ k = (IF head + (i + 1) - 1 < R THEN head + (i + 1) - 1 ELSE head + (i + 1) - 1 - R)
                                    /\ k # head
        BY SMTT(30), <1>3, <1>7, <3>2
      <4>3. k = Slot(head, i + 1)
        BY <1>1, <4>2 DEF Slot
      <4>4. PICK j \in 1 .. n : j = n - R + (i + 1) /\ j = n + 1 - R + i
        BY <2>1, <3>2
      <4>5. ring'[k] = c[j]
        BY <1>8, <2>1, <4>1, <4>2, <4>3, <4>4
      <4>6. d[j] = c[j]
        BY <1>5, <4>4
      <4>. QED  BY <4>2, <4>4, <4>5, <4>6
    <3>. QED  BY <3>1, <3>2
  <2>3. count' = R /\ ~(count' < R) /\ Len(d) >= R
    BY <1>5, <1>6, <1>11, <2>1
  <2>4. \A i \in 1 .. R : ring'[Slot(head', i)] = d[Len(d) - R + i]
    BY <1>1, <1>5, <2>2 DEF Slot
  <2>5. \A i : Slot(head, i)' = Slot(head', i)
    BY DEF Slot
  <2>. QED  BY <1>1, <1>6, <2>3, <2>4, <2>5 DEF RingHolds
<1>12. count < R \/ count = R
  BY <1>3
<1>. QED  BY <1>1, <1>2, <1>5, <1>6, <1>8, <1>9, <1>10, <1>11, <1>12

\* A ring that has been cleared holds nothing.
LEMMA ClearKeeps ==
  ASSUME Clear
  PROVE  /\ ring' \in [0 .. RingSize - 1 -> Events]
         /\ head' \in 0 .. RingSize - 1 /\ count' \in 0 .. RingSize /\ seq' \in 0 .. MaxSeq
         /\ pending' \in Events /\ Len(pending'.spans) <= SpansMax
         /\ scopes' \in Seq(1 .. MaxSeq) /\ left' \in SUBSET (1 .. MaxSeq) /\ Ordered(scopes', seq')
         /\ committed' \in Seq(Events) /\ RingHolds(committed)' /\ Len(committed') = 0 /\ ~open'
<1>1. committed' = <<>> /\ <<>> \in Seq(Events) /\ Len(<<>>) = 0 /\ count' = 0 /\ head' = 0
  BY DEF Clear
<1>2. RingHolds(committed)'
  <2>1. 0 < RingSize /\ 0 # RingSize /\ 1 .. 0 = {}
    BY TraceAssumption
  <2>. QED  BY <1>1, <2>1 DEF RingHolds
<1>3. open' = FALSE
  BY DEF Clear
<1>4. pending' = NoEvent /\ seq' = 0 /\ scopes' = <<>> /\ left' = {} /\ ring' = [i \in 0 .. RingSize - 1 |-> NoEvent]
  BY DEF Clear
<1>5. pending' \in Events /\ Len(pending'.spans) <= SpansMax /\ ring' \in [0 .. RingSize - 1 -> Events]
  BY <1>4, NoEventIs, TraceAssumption
<1>6. 0 \in 0 .. RingSize - 1 /\ 0 \in 0 .. RingSize /\ 0 \in 0 .. MaxSeq
  BY TraceAssumption
<1>7. <<>> \in Seq(1 .. MaxSeq) /\ Ordered(<<>>, 0)
  BY DEF Ordered
<1>. QED  BY <1>1, <1>2, <1>3, <1>4, <1>5, <1>6, <1>7

\* An event that the call commits: the one that is open, or a new one.
LEMMA CommitKeeps ==
  ASSUME TraceInv, NEW e \in Events, Push(e), Own(e, left), call.kind = "check" => e.call = call.number,
         UNCHANGED <<call, left>>, seq' \in 0 .. MaxSeq, scopes' \in Seq(1 .. MaxSeq), Ordered(scopes', seq'),
         pending' = NoEvent, ~open', open' \in BOOLEAN
  PROVE  TraceInv'
<1>1. /\ ring' \in [0 .. RingSize - 1 -> Events]
      /\ head' \in 0 .. RingSize - 1 /\ count' \in 0 .. RingSize
      /\ committed' \in Seq(Events) /\ Len(committed') = Len(committed) + 1
      /\ \A i \in 1 .. Len(committed) + 1 :
           committed'[i] = IF i = Len(committed) + 1 THEN e ELSE committed[i]
      /\ RingHolds(committed)'
  BY PushKeeps DEF TraceInv
<1>2. PICK n \in Nat : n = Len(committed)
  BY DEF TraceInv
<1>3. \A i \in 1 .. n + 1 : i = n + 1 \/ i \in 1 .. n
  OBVIOUS
<1>4. pending' \in Events /\ Len(pending'.spans) <= SpansMax
  BY NoEventIs, TraceAssumption
<1>5. TraceTypeOK'
  BY <1>1, <1>4 DEF TraceInv, TraceTypeOK
<1>6. OfThisCall'
  <2>. SUFFICES ASSUME call.kind = "check", NEW i \in 1 .. n + 1
                PROVE  committed'[i].call = call.number
    BY <1>1, <1>2 DEF OfThisCall
  <2>1. \A j \in 1 .. n : committed[j].call = call.number
    BY <1>2 DEF TraceInv, OfThisCall
  <2>. QED  BY <1>1, <1>2, <1>3, <2>1
<1>7. OwnSpans'
  <2>. SUFFICES ASSUME NEW i \in 1 .. n + 1
                PROVE  Own(committed'[i], left)
    BY <1>1, <1>2 DEF OwnSpans
  <2>1. \A j \in 1 .. n : Own(committed[j], left)
    BY <1>2 DEF TraceInv, OwnSpans
  <2>. QED  BY <1>1, <1>2, <1>3, <2>1
<1>. QED  BY <1>1, <1>5, <1>6, <1>7 DEF TraceInv

\* What fits goes on fitting when more events have been left.
LEMMA OwnGrows ==
  ASSUME NEW e, NEW L, NEW M, L \subseteq M, Own(e, L)
  PROVE  Own(e, M)
BY DEF Own, Belongs

\* A step that only works on the open event, or lets functions end.
LEMMA PendingKeeps ==
  ASSUME TraceInv, UNCHANGED <<ring, head, count, call, committed>>,
         seq' \in 0 .. MaxSeq, scopes' \in Seq(1 .. MaxSeq), Ordered(scopes', seq'),
         left \subseteq left', left' \subseteq 1 .. MaxSeq, open' \in BOOLEAN,
         pending' \in Events, Len(pending'.spans) <= SpansMax,
         open' => /\ Own(pending', left') /\ Belongs(pending'.seq, Top(scopes'), left')
                  /\ call.kind = "check" => pending'.call = call.number
  PROVE  TraceInv'
<1>1. TraceTypeOK' /\ RingHolds(committed)' /\ committed' \in Seq(Events)
  BY DEF TraceInv, TraceTypeOK, RingHolds, Slot
<1>2. OfThisCall'
  BY DEF TraceInv, OfThisCall
<1>3. OwnSpans'
  <2>1. \A i \in 1 .. Len(committed) : Own(committed[i], left')
    BY OwnGrows DEF TraceInv, OwnSpans
  <2>. QED  BY <2>1 DEF OwnSpans
<1>. QED  BY <1>1, <1>2, <1>3 DEF TraceInv

\* A call begins with an empty ring, or goes on and is no check.
LEMMA CallKeeps ==
  ASSUME TraceInv, call' \in [number : 0 .. MaxCalls, kind : CallKinds, inside : BOOLEAN],
         \/ Clear
         \/ /\ UNCHANGED <<ring, head, count, seq, pending, open, scopes, left, committed>>
            /\ call'.kind = "check" => call.kind = "check" /\ call'.number = call.number
  PROVE  TraceInv'
<1>1. CASE Clear
  <2>1. open' = FALSE
    BY <1>1 DEF Clear
  <2>2. TraceTypeOK'
    BY <1>1, <2>1, ClearKeeps DEF TraceTypeOK
  <2>3. 1 .. Len(committed') = {}
    BY <1>1, ClearKeeps
  <2>4. OfThisCall' /\ OwnSpans'
    BY <2>1, <2>3 DEF OfThisCall, OwnSpans
  <2>. QED  BY <1>1, <2>2, <2>4, ClearKeeps DEF TraceInv
<1>2. CASE /\ UNCHANGED <<ring, head, count, seq, pending, open, scopes, left, committed>>
           /\ call'.kind = "check" => call.kind = "check" /\ call'.number = call.number
  <2>1. TraceTypeOK' /\ RingHolds(committed)' /\ committed' \in Seq(Events)
    BY <1>2 DEF TraceInv, TraceTypeOK, RingHolds, Slot
  <2>3. Ordered(scopes, seq)' /\ OwnSpans'
    BY <1>2 DEF TraceInv, OwnSpans
  <2>2. OfThisCall'
    BY <1>2 DEF TraceInv, OfThisCall
  <2>. QED  BY <2>1, <2>2, <2>3 DEF TraceInv
<1>. QED  BY <1>1, <1>2

\* Every step of the trace.
LEMMA TraceStep ==
  ASSUME TraceInv, TraceNext
  PROVE  TraceInv'
<1>1. /\ seq \in 0 .. MaxSeq /\ scopes \in Seq(1 .. MaxSeq) /\ left \subseteq 1 .. MaxSeq
      /\ Ordered(scopes, seq) /\ MaxSeq \in Nat /\ MaxCalls \in Nat /\ SpansMax \in Nat
      /\ pending \in Events /\ Len(pending.spans) <= SpansMax
      /\ call \in [number : 0 .. MaxCalls, kind : CallKinds, inside : BOOLEAN]
  BY TraceAssumption DEF TraceInv, TraceTypeOK
<1>2. call.number \in 0 .. MaxCalls
  BY <1>1
<1>3. CASE HostEvent \/ PackEvent
  <2>1. OneShot /\ UNCHANGED <<call, scopes, left>>
    BY <1>3 DEF HostEvent, PackEvent
  <2>2. seq < MaxSeq /\ seq' = seq + 1 /\ Push(Begin) /\ pending' = NoEvent
    BY <2>1 DEF OneShot
  <2>3. open' = FALSE
    BY <2>1 DEF OneShot
  <2>4. seq + 1 \in 0 .. MaxSeq
    BY <1>1, <2>2
  <2>5. Begin \in Events /\ Own(Begin, left) /\ Begin.call = call.number
    BY <1>2, <2>4, FreshEvent DEF Begin
  <2>6. scopes' \in Seq(1 .. MaxSeq) /\ seq' \in 0 .. MaxSeq
    BY <1>1, <2>1, <2>2, <2>4
  <2>7. Ordered(scopes', seq')
    <3>1. PICK l \in Nat : l = Len(scopes)
      BY <1>1
    <3>2. \A i \in 1 .. l : scopes[i] \in 1 .. MaxSeq /\ scopes[i] <= seq
      BY <1>1, <3>1 DEF Ordered
    <3>3. \A i \in 1 .. l : scopes[i] <= seq + 1
      BY <1>1, <3>2
    <3>. QED  BY <1>1, <2>1, <2>2, <3>1, <3>3 DEF Ordered
  <2>. QED  BY <2>1, <2>2, <2>3, <2>5, <2>6, <2>7, CommitKeeps
<1>4. CASE PackBegin
  <2>1. /\ seq < MaxSeq /\ seq' = seq + 1 /\ pending' = Begin /\ scopes' = Append(scopes, seq + 1)
        /\ UNCHANGED <<ring, head, count, call, left, committed>>
    BY <1>4 DEF PackBegin
  <2>2. open' = TRUE
    BY <1>4 DEF PackBegin
  <2>3. seq + 1 \in 0 .. MaxSeq
    BY <1>1, <2>1
  <2>4. /\ Begin \in Events /\ Own(Begin, left) /\ Len(Begin.spans) = 0
        /\ Begin.call = call.number /\ Begin.seq = seq + 1
    BY <1>2, <2>3, FreshEvent DEF Begin
  <2>5. Len(pending'.spans) <= SpansMax
    BY <1>1, <2>1, <2>4
  <2>6. scopes' \in Seq(1 .. MaxSeq) /\ Ordered(scopes', seq') /\ Top(scopes') = seq + 1 /\ seq' \in 0 .. MaxSeq
    BY <1>1, <2>1, <2>3, ScopeGrows
  <2>7. Belongs(pending'.seq, Top(scopes'), left')
    BY <2>1, <2>4, <2>6 DEF Belongs
  <2>. QED  BY <1>1, <2>1, <2>2, <2>4, <2>5, <2>6, <2>7, PendingKeeps
<1>5. CASE PackSpan
  <2>1. open /\ open' = open
    BY <1>5 DEF PackSpan
  <2>2. /\ Len(pending.spans) < SpansMax /\ pending' = [pending EXCEPT !.spans = Append(@, Meant)]
        /\ UNCHANGED <<ring, head, count, seq, call, scopes, left, committed>>
    BY <1>5 DEF PackSpan
  <2>12. Meant = Top(scopes) /\ Meant \in 0 .. MaxSeq
    <3>1. CASE scopes = <<>>
      BY <1>1, <3>1 DEF Meant, Top
    <3>2. CASE scopes # <<>>
      <4>1. PICK l \in Nat : l = Len(scopes) /\ l # 0
        BY <1>1, <3>2
      <4>2. scopes[l] \in 1 .. MaxSeq
        BY <1>1, <4>1
      <4>. QED  BY <1>1, <3>2, <4>1, <4>2 DEF Meant, Top
    <3>. QED  BY <3>1, <3>2
  <2>3. PICK t \in Seq(0 .. MaxSeq), m \in 0 .. MaxSeq : t = pending.spans /\ m = Meant
    BY <1>1, <2>12 DEF Events
  <2>4. PICK u : u = Append(t, m)
    OBVIOUS
  <2>5. u \in Seq(0 .. MaxSeq) /\ Len(u) = Len(t) + 1 /\ \A k \in 1 .. Len(u) : u[k] = IF k = Len(u) THEN m ELSE t[k]
    BY <2>4
  <2>6. /\ pending' \in Events /\ pending'.spans = u /\ pending'.seq = pending.seq
        /\ pending'.call = pending.call
    BY <1>1, <2>2, <2>3, <2>4, <2>5 DEF Events
  <2>7. Own(pending, left) /\ Belongs(pending.seq, Top(scopes), left)
    BY <2>1 DEF TraceInv, OwnSpans
  <2>8. call.kind = "check" => pending.call = call.number
    BY <2>1 DEF TraceInv, OfThisCall
  <2>9. Own(pending', left)
    <3>1. \A k \in 1 .. Len(t) : Belongs(pending.seq, t[k], left)
      BY <2>3, <2>7 DEF Own
    <3>2. \A k \in 1 .. Len(u) : Belongs(pending.seq, u[k], left)
      BY <2>3, <2>5, <2>7, <2>12, <3>1
    <3>. QED  BY <2>6, <3>2 DEF Own
  <2>10. Len(pending'.spans) <= SpansMax
    BY <1>1, <2>2, <2>3, <2>5, <2>6
  <2>11. open' \in BOOLEAN
    BY <2>1 DEF TraceInv, TraceTypeOK
  <2>. QED  BY <1>1, <2>2, <2>6, <2>7, <2>8, <2>9, <2>10, <2>11, PendingKeeps
<1>10. scopes # <<>> => Around \in Seq(1 .. MaxSeq) /\ Ordered(Around, seq)
  <2>. SUFFICES ASSUME scopes # <<>>
                PROVE  Around \in Seq(1 .. MaxSeq) /\ Ordered(Around, seq)
    OBVIOUS
  <2>1. Len(scopes) - 1 \in 0 .. Len(scopes) - 1
    BY <1>1
  <2>. QED  BY <1>1, <2>1, ScopeShrinks DEF Around
<1>11. scopes = <<>> => Around \in Seq(1 .. MaxSeq) /\ Ordered(Around, seq)
  BY DEF Around, Ordered
<1>6. CASE PackCommit
  <2>1. open /\ Push(pending) /\ pending' = NoEvent /\ scopes' = Around /\ UNCHANGED <<seq, call, left>>
    BY <1>6 DEF PackCommit
  <2>2. open' = FALSE
    BY <1>6 DEF PackCommit
  <2>3. Own(pending, left)
    BY <2>1 DEF TraceInv, OwnSpans
  <2>4. call.kind = "check" => pending.call = call.number
    BY <2>1 DEF TraceInv, OfThisCall
  <2>. QED  BY <1>1, <1>10, <1>11, <2>1, <2>2, <2>3, <2>4, CommitKeeps
<1>12. CASE PackCommitDropped
  <2>1. /\ scopes # <<>> /\ scopes' = Around
        /\ UNCHANGED <<ring, head, count, seq, pending, call, left, committed>>
    BY <1>12 DEF PackCommitDropped
  <2>2. ~open /\ open' = open
    BY <1>12 DEF PackCommitDropped
  <2>3. open' \in BOOLEAN /\ ~open'
    BY <2>2 DEF TraceInv, TraceTypeOK
  <2>. QED  BY <1>1, <1>10, <2>1, <2>3, PendingKeeps
<1>13. CASE PackLeaves
  <2>1. PICK k \in 0 .. Len(scopes) - 1 :
          /\ scopes' = SubSeq(scopes, 1, k)
          /\ left' = left \cup {scopes[i] : i \in k + 1 .. Len(scopes)}
    BY <1>13 DEF PackLeaves
  <2>2. UNCHANGED <<ring, head, count, seq, pending, call, committed>> /\ open' = open
    BY <1>13 DEF PackLeaves
  <2>3. /\ scopes' \in Seq(1 .. MaxSeq) /\ Ordered(scopes', seq)
        /\ Top(scopes) = scopes[Len(scopes)] /\ Top(scopes) \in 1 .. MaxSeq
        /\ Top(scopes') \in 0 .. MaxSeq /\ Top(scopes') < Top(scopes)
    BY <1>1, <2>1, ScopeShrinks
  <2>4. PICK l \in Nat : l = Len(scopes)
    BY <1>1
  <2>5. l \in k + 1 .. l /\ \A i \in k + 1 .. l : i \in 1 .. l
    BY <2>4
  <2>6. \A i \in k + 1 .. l : scopes[i] \in 1 .. MaxSeq
    BY <1>1, <2>4, <2>5
  <2>7. left \subseteq left' /\ left' \subseteq 1 .. MaxSeq /\ Top(scopes) \in left'
    BY <1>1, <2>1, <2>3, <2>4, <2>5, <2>6
  <2>8. open => Own(pending, left) /\ Belongs(pending.seq, Top(scopes), left)
    BY DEF TraceInv, OwnSpans
  <2>9. pending.seq \in 0 .. MaxSeq
    BY <1>1 DEF Events
  <2>10. open => Own(pending, left') /\ Belongs(pending.seq, Top(scopes'), left')
    <3>. SUFFICES ASSUME open
                  PROVE  Own(pending, left') /\ Belongs(pending.seq, Top(scopes'), left')
      OBVIOUS
    <3>1. Own(pending, left')
      BY <2>7, <2>8, OwnGrows
    <3>2. PICK a \in 0 .. MaxSeq, b \in 1 .. MaxSeq : a = Top(scopes') /\ b = Top(scopes) /\ a < b
      BY <2>3
    <3>3. b = pending.seq \/ (b < pending.seq /\ pending.seq \in left)
      BY <2>8, <3>2 DEF Belongs
    <3>4. a < pending.seq /\ pending.seq \in left'
      BY <1>1, <2>7, <2>9, <3>2, <3>3
    <3>. QED  BY <3>1, <3>2, <3>4 DEF Belongs
  <2>11. open => (call.kind = "check" => pending.call = call.number)
    BY DEF TraceInv, OfThisCall
  <2>12. open' \in BOOLEAN
    BY <2>2 DEF TraceInv, TraceTypeOK
  <2>. QED  BY <1>1, <2>2, <2>3, <2>7, <2>10, <2>11, <2>12, PendingKeeps
<1>7. CASE PdCheck \/ PdReloadPath
  <2>1. /\ call.number < MaxCalls
        /\ \/ Clear /\ call' = [number |-> call.number + 1, kind |-> "check", inside |-> TRUE]
           \/ /\ call' = [number |-> call.number + 1, kind |-> "reload", inside |-> TRUE]
              /\ UNCHANGED <<ring, head, count, seq, pending, open, scopes, left, committed>>
    BY <1>7 DEF PdCheck, PdReloadPath, Entered
  <2>2. call.number + 1 \in 0 .. MaxCalls
    BY <1>1, <1>2, <2>1
  <2>3. call' \in [number : 0 .. MaxCalls, kind : CallKinds, inside : BOOLEAN]
    <3>1. PICK c \in 0 .. MaxCalls : c = call.number + 1
      BY <2>2
    <3>2. \E k \in CallKinds : call' = [number |-> c, kind |-> k, inside |-> TRUE]
      BY <2>1, <3>1 DEF CallKinds
    <3>. QED  BY <3>2
  <2>4. call'.kind = "check" => Clear
    BY <2>1
  <2>. QED  BY <2>1, <2>3, <2>4, CallKeeps
<1>8. CASE PdReturns
  <2>1. call' = [call EXCEPT !.inside = FALSE] /\ UNCHANGED <<ring, head, count, seq, pending, open, scopes, left, committed>>
    BY <1>8 DEF PdReturns
  <2>2. call' \in [number : 0 .. MaxCalls, kind : CallKinds, inside : BOOLEAN] /\ call'.kind = call.kind /\ call'.number = call.number
    BY <1>1, <2>1
  <2>. QED  BY <2>1, <2>2, CallKeeps
<1>9. CASE PdTake
  <2>1. call' = [call EXCEPT !.kind = "none"] /\ Clear
    BY <1>9 DEF PdTake
  <2>2. call' \in [number : 0 .. MaxCalls, kind : CallKinds, inside : BOOLEAN]
    BY <1>1, <2>1 DEF CallKinds
  <2>. QED  BY <2>1, <2>2, CallKeeps
<1>. QED  BY <1>3, <1>4, <1>5, <1>6, <1>7, <1>8, <1>9, <1>12, <1>13 DEF TraceNext

\* The ring starts as if it had been cleared.
LEMMA TraceStart == TraceInit => TraceInv
<1>. SUFFICES ASSUME TraceInit
              PROVE  TraceInv
  OBVIOUS
<1>1. /\ committed = <<>> /\ count = 0 /\ head = 0 /\ seq = 0 /\ scopes = <<>> /\ left = {} /\ pending = NoEvent
      /\ ring = [i \in 0 .. RingSize - 1 |-> NoEvent]
  BY DEF TraceInit
<1>2. open = FALSE
  BY DEF TraceInit
<1>3. call = [number |-> 0, kind |-> "none", inside |-> FALSE]
  BY DEF TraceInit
<1>4. /\ 0 \in 0 .. RingSize - 1 /\ 0 \in 0 .. RingSize /\ 0 \in 0 .. MaxSeq /\ 0 \in 0 .. MaxCalls
      /\ 0 < RingSize /\ 0 # RingSize /\ 1 .. 0 = {} /\ 0 <= SpansMax
  BY TraceAssumption
<1>5. committed \in Seq(Events) /\ Len(committed) = 0
  BY <1>1
<1>6. RingHolds(committed)
  BY <1>1, <1>4, <1>5 DEF RingHolds
<1>7. call \in [number : 0 .. MaxCalls, kind : CallKinds, inside : BOOLEAN] /\ call.kind = "none"
  BY <1>3, <1>4 DEF CallKinds
<1>8. ring \in [0 .. RingSize - 1 -> Events] /\ pending \in Events /\ Len(pending.spans) <= SpansMax
  BY <1>1, <1>4, NoEventIs
<1>11. scopes \in Seq(1 .. MaxSeq) /\ Ordered(scopes, seq)
  BY <1>1 DEF Ordered
<1>9. TraceTypeOK
  BY <1>1, <1>2, <1>4, <1>7, <1>8, <1>11 DEF TraceTypeOK
<1>10. OfThisCall /\ OwnSpans
  BY <1>2, <1>4, <1>5, <1>7 DEF OfThisCall, OwnSpans
<1>. QED  BY <1>5, <1>6, <1>9, <1>10, <1>11 DEF TraceInv

\* The two records do not share state: where the log moves, the trace stays.
LEMMA TraceInvHolds == Spec => []TraceInv
<1>1. Init => TraceInv
  BY TraceStart DEF Init
<1>2. TraceInv /\ [LogMoves \/ TraceMoves]_vars => TraceInv'
  <2>. SUFFICES ASSUME TraceInv, [LogMoves \/ TraceMoves]_vars
                PROVE  TraceInv'
    OBVIOUS
  <2>1. CASE TraceMoves
    BY <2>1, TraceStep DEF TraceMoves
  <2>2. CASE UNCHANGED traceVars
    BY <2>2 DEF traceVars, TraceInv, TraceTypeOK, RingHolds, Slot, OfThisCall, OwnSpans, Ordered
  <2>. QED  BY <2>1, <2>2 DEF LogMoves, vars
<1>. QED  BY <1>1, <1>2, PTL DEF Spec

\* What the JSON shows are committed events.
LEMMA JsonIs ==
  ASSUME TraceInv
  PROVE  \E m \in Nat :
           /\ m + count = Len(committed)
           /\ m = IF Len(committed) > RingSize THEN Len(committed) - RingSize ELSE 0
           /\ DOMAIN ToJson = 1 .. count
           /\ \A i \in 1 .. count : ToJson[i] = committed[m + i]
<1>1. PICK R \in Nat \ {0} : R = RingSize
  BY TraceAssumption
<1>2. PICK n \in Nat : n = Len(committed)
  BY DEF TraceInv
<1>3. head \in 0 .. R - 1 /\ count \in 0 .. R
  BY <1>1 DEF TraceInv, TraceTypeOK
<1>4. DOMAIN ToJson = 1 .. count
  BY DEF ToJson
<1>5. \A i \in 1 .. count : ToJson[i] = ring[IF count = R THEN (head + i - 1) % R ELSE i - 1]
  BY <1>1 DEF ToJson
<1>6. CASE count < R
  <2>1. n = count /\ \A i \in 1 .. count : ring[i - 1] = committed[i]
    BY <1>1, <1>2, <1>6 DEF TraceInv, RingHolds
  <2>2. \A i \in 1 .. count : ToJson[i] = committed[0 + i]
    BY <1>3, <1>5, <1>6, <2>1
  <2>3. 0 + count = n /\ ~(n > R)
    BY <1>3, <1>6, <2>1
  <2>. QED  BY <1>1, <1>2, <1>4, <2>2, <2>3
<1>7. CASE count = R
  <2>1. n >= R /\ \A i \in 1 .. R : ring[Slot(head, i)] = committed[n - R + i]
    BY <1>1, <1>2, <1>7 DEF TraceInv, RingHolds
  <2>2. \A i \in 1 .. R : (head + i - 1) % R = Slot(head, i)
    <3>. TAKE i \in 1 .. R
    <3>1. PICK x \in Nat : x = head + i - 1 /\ x < R + R
      BY <1>3
    <3>2. x % R = IF x < R THEN x ELSE x - R
      BY <3>1, RoundOnce
    <3>3. (head + i - 1) % R = x % R
      BY <3>1
    <3>4. Slot(head, i) = IF x < R THEN x ELSE x - R
      BY <1>1, <1>3, <3>1 DEF Slot
    <3>. QED  BY <3>2, <3>3, <3>4
  <2>3. PICK m \in Nat : m = n - R
    BY <2>1
  <2>4. \A i \in 1 .. count : ToJson[i] = committed[m + i]
    BY <1>5, <1>7, <2>1, <2>2, <2>3
  <2>5. m + count = n /\ m = IF n > R THEN n - R ELSE 0
    BY <1>7, <2>1, <2>3
  <2>. QED  BY <1>1, <1>2, <1>4, <2>4, <2>5
<1>8. count < R \/ count = R
  BY <1>3
<1>. QED  BY <1>6, <1>7, <1>8

\* What pd_take_trace_json exports is the end of what was committed, in order
\* and without a gap, for every size of the ring and however often it wraps.
THEOREM JsonIsTheEndHolds == Spec => []JsonIsTheEnd
<1>1. TraceInv => JsonIsTheEnd
  <2>. SUFFICES ASSUME TraceInv
                PROVE  JsonIsTheEnd
    OBVIOUS
  <2>1. PICK c \in Seq(Events), n \in Nat : c = committed /\ n = Len(c)
    BY DEF TraceInv
  <2>2. PICK m \in Nat : /\ m + count = n /\ m = IF n > RingSize THEN n - RingSize ELSE 0
                         /\ DOMAIN ToJson = 1 .. count
                         /\ \A i \in 1 .. count : ToJson[i] = c[m + i]
    BY <2>1, JsonIs
  <2>3. PICK k \in Nat : k = count
    BY TraceAssumption DEF TraceInv, TraceTypeOK
  <2>4. ToJson = [i \in 1 .. k |-> c[m + i]]
    <3>1. ToJson = [i \in 1 .. k |-> ToJson[i]]
      BY <2>3 DEF ToJson
    <3>. QED  BY <2>2, <2>3, <3>1
  <2>5. (IF n > RingSize THEN n - RingSize + 1 ELSE 1) = m + 1
    BY <2>2, TraceAssumption
  <2>6. SubSeq(c, m + 1, n) = [i \in 1 .. k |-> c[m + i]]
    <3>1. n - (m + 1) + 1 = k
      BY <2>2, <2>3
    <3>2. SubSeq(c, m + 1, n) = [i \in 1 .. n - (m + 1) + 1 |-> c[i + (m + 1) - 1]]
      BY SubSeqProperties
    <3>. QED  BY <3>1, <3>2
  <2>. QED  BY <2>1, <2>4, <2>5, <2>6 DEF JsonIsTheEnd
<1>. QED  BY <1>1, TraceInvHolds, PTL

\* After a check every event that can be taken is of that check, whatever the
\* calls before it left behind: for any number of calls and events.
THEOREM JsonMatchesCallHolds == Spec => []JsonMatchesCall
<1>1. TraceInv => JsonMatchesCall
  <2>. SUFFICES ASSUME TraceInv, call.kind = "check", NEW i \in DOMAIN ToJson
                PROVE  ToJson[i].call = call.number
    BY DEF JsonMatchesCall
  <2>1. PICK j \in 1 .. Len(committed) : ToJson[i] = committed[j]
    <3>1. PICK n \in Nat, k \in Nat : n = Len(committed) /\ k = count
      BY TraceAssumption DEF TraceInv, TraceTypeOK
    <3>. QED  BY <3>1, JsonIs
  <2>. QED  BY <2>1 DEF TraceInv, OfThisCall
<1>. QED  BY <1>1, TraceInvHolds, PTL

\* A span of trace-span-argv is shown with the event that its function began,
\* or with a later one that was left without trace-commit, for every nesting
\* of functions and every event that takes the pending one away.
THEOREM SpansOfTheirEventHolds == Spec => []SpansOfTheirEvent
<1>1. TraceInv => SpansOfTheirEvent
  <2>. SUFFICES ASSUME TraceInv, NEW i \in DOMAIN ToJson, NEW k \in DOMAIN ToJson[i].spans
                PROVE  Belongs(ToJson[i].seq, ToJson[i].spans[k], left)
    BY DEF SpansOfTheirEvent, Belongs
  <2>1. PICK j \in 1 .. Len(committed) : ToJson[i] = committed[j]
    <3>1. PICK n \in Nat, m \in Nat : n = Len(committed) /\ m = count
      BY TraceAssumption DEF TraceInv, TraceTypeOK
    <3>. QED  BY <3>1, JsonIs
  <2>2. Own(committed[j], left) /\ committed[j] \in Events
    BY DEF TraceInv, OwnSpans
  <2>3. DOMAIN committed[j].spans = 1 .. Len(committed[j].spans)
    BY <2>2 DEF Events
  <2>. QED  BY <2>1, <2>2, <2>3 DEF Own
<1>. QED  BY <1>1, TraceInvHolds, PTL

-----------------------------------------------------------------------------
(* Lines of a file f: what stands between newlines. *)

Starts(f, b)   == b = 0 \/ f[b] = NL
Solid(f, i, j) == \A k \in i .. j : f[k] # NL
Blank(f, i, j) == \A k \in i .. j : f[k] = NL

\* l is the last line of the first off characters of f, unless that line is
\* longer than the buffer.
Knows(f, off, l) ==
  /\ Blank(f, 1, off) => l = NoLine
  /\ \A b \in 0 .. off, e \in 1 .. off + 1 :
       (/\ b + 1 < e /\ Starts(f, b) /\ Solid(f, b + 1, e - 1) /\ Blank(f, e, off)
        /\ e - 1 - b < Buf) => l = SubSeq(f, b + 1, e - 1)

\* A reader stops inside a line only where its buffer was full.
MidLine(f, off) ==
  \A b \in 0 .. off : (b < off /\ Starts(f, b) /\ Solid(f, b + 1, off)) => off - b >= Buf - 1

\* A piece that fgets may read from off up to e.
Fits(f, off, e) ==
  /\ e \in off + 1 .. Len(f) /\ e <= off + Buf - 1
  /\ Solid(f, off + 1, e - 1)
  /\ f[e] = NL \/ e = off + Buf - 1 \/ e = Len(f)

\* What the reader keeps of it.
Kept(f, off, e, l) ==
  IF f[e] # NL THEN SubSeq(f, off + 1, e)
  ELSE IF e = off + 1 THEN l ELSE SubSeq(f, off + 1, e - 1)

\* With one more piece the reader knows the last line up to there.
LEMMA ReadsLine ==
  ASSUME NEW S, NEW f \in Seq(S), NEW off \in Nat, NEW e \in Nat, Fits(f, off, e),
         NEW l, Knows(f, off, l), MidLine(f, off)
  PROVE  /\ Knows(f, e, Kept(f, off, e, l))
         /\ (f[e] = NL \/ e = off + Buf - 1) => MidLine(f, e)
<1>0. /\ off < e /\ e <= Len(f) /\ Len(f) \in Nat /\ Buf \in Nat /\ Buf >= 2 /\ e <= off + Buf - 1
      /\ \A k \in off + 1 .. e - 1 : f[k] # NL
  BY BufAssumption DEF Fits, Solid
<1>1. ASSUME Blank(f, 1, e)
      PROVE  Kept(f, off, e, l) = NoLine
  <2>1. f[e] = NL /\ \A k \in 1 .. off : f[k] = NL
    BY <1>0, <1>1 DEF Blank
  <2>2. e = off + 1
    <3>. SUFFICES ASSUME e # off + 1
                  PROVE  FALSE
      OBVIOUS
    <3>1. off + 1 \in off + 1 .. e - 1 /\ off + 1 \in 1 .. e
      BY <1>0
    <3>. QED  BY <1>0, <1>1, <3>1 DEF Blank
  <2>3. l = NoLine
    BY <2>1 DEF Knows, Blank
  <2>. QED  BY <2>1, <2>2, <2>3 DEF Kept
<1>2. ASSUME NEW b \in 0 .. e, NEW z \in 1 .. e + 1, b + 1 < z, Starts(f, b),
             Solid(f, b + 1, z - 1), Blank(f, z, e), z - 1 - b < Buf
      PROVE  Kept(f, off, e, l) = SubSeq(f, b + 1, z - 1)
  <2>1. CASE z <= off + 1
    <3>1. e \in z .. e /\ off + 1 \in z .. e
      BY <1>0, <2>1
    <3>2. f[e] = NL /\ f[off + 1] = NL
      BY <1>2, <3>1 DEF Blank
    <3>3. e = off + 1
      BY <1>0, <3>2
    <3>4. Blank(f, z, off)
      BY <1>0, <1>2, <3>3 DEF Blank
    <3>5. b \in 0 .. off /\ z \in 1 .. off + 1
      BY <1>2, <2>1
    <3>6. l = SubSeq(f, b + 1, z - 1)
      BY <1>2, <3>4, <3>5 DEF Knows
    <3>. QED  BY <3>2, <3>3, <3>6 DEF Kept
  <2>2. CASE z > off + 1
    <3>1. b <= off
      <4>. SUFFICES ASSUME b > off
                    PROVE  FALSE
        OBVIOUS
      <4>1. b \in off + 1 .. e - 1 /\ b # 0
        BY <1>0, <1>2
      <4>. QED  BY <1>0, <1>2, <4>1 DEF Starts
    <3>2. b = off
      <4>. SUFFICES ASSUME b < off
                    PROVE  FALSE
        BY <1>2, <3>1
      <4>1. Solid(f, b + 1, off)
        BY <1>2, <2>2 DEF Solid
      <4>2. off - b >= Buf - 1
        BY <1>2, <4>1, <3>1 DEF MidLine
      <4>. QED  BY <1>0, <1>2, <2>2, <4>2
    <3>3. z = e \/ z = e + 1
      <4>. SUFFICES ASSUME z < e
                    PROVE  FALSE
        BY <1>2
      <4>1. z \in off + 1 .. e - 1 /\ z \in z .. e
        BY <2>2
      <4>. QED  BY <1>0, <1>2, <4>1 DEF Blank
    <3>4. CASE z = e
      <4>1. f[e] = NL /\ e # off + 1
        BY <1>2, <2>2, <3>4 DEF Blank
      <4>. QED  BY <3>2, <3>4, <4>1 DEF Kept
    <3>5. CASE z = e + 1
      <4>1. e \in b + 1 .. z - 1 /\ z - 1 = e
        BY <1>0, <3>2, <3>5
      <4>2. f[e] # NL
        BY <1>2, <4>1 DEF Solid
      <4>. QED  BY <3>2, <4>1, <4>2 DEF Kept
    <3>. QED  BY <3>3, <3>4, <3>5
  <2>. QED  BY <1>0, <2>1, <2>2
<1>3. ASSUME f[e] = NL \/ e = off + Buf - 1
      PROVE  MidLine(f, e)
  <2>. SUFFICES ASSUME NEW b \in 0 .. e, b < e, Starts(f, b), Solid(f, b + 1, e)
                PROVE  e - b >= Buf - 1
    BY DEF MidLine
  <2>1. e \in b + 1 .. e
    OBVIOUS
  <2>2. f[e] # NL
    BY <2>1 DEF Solid
  <2>3. b <= off
    <3>. SUFFICES ASSUME b > off
                  PROVE  FALSE
      OBVIOUS
    <3>1. b \in off + 1 .. e - 1 /\ b # 0
      BY <1>0
    <3>. QED  BY <1>0, <3>1 DEF Starts
  <2>. QED  BY <1>0, <1>3, <2>2, <2>3
<1>. QED  BY <1>1, <1>2, <1>3 DEF Knows

\* The greatest number up to n in a set that has 0.
LEMMA GreatestUpTo ==
  ASSUME NEW n \in Nat, NEW T, 0 \in T
  PROVE  \E b \in 0 .. n : b \in T /\ \A k \in b + 1 .. n : k \notin T
<1> DEFINE D == {d \in 0 .. n : n - d \in T}
<1>1. D \in SUBSET Nat /\ n \in D
  OBVIOUS
<1>2. PICK d \in D : \A m \in D : d <= m
  <2>. HIDE DEF D
  <2>. QED  BY <1>1, LeastNat
<1>3. n - d \in 0 .. n /\ n - d \in T
  OBVIOUS
<1>4. ASSUME NEW k \in (n - d) + 1 .. n, k \in T
      PROVE  FALSE
  <2>1. n - k \in 0 .. n /\ n - (n - k) = k /\ n - k < d
    BY <1>3, <1>4
  <2>2. n - k \in D
    BY <1>4, <2>1
  <2>. QED  BY <1>2, <2>1, <2>2
<1>. QED  BY <1>3, <1>4

\* A line from b to e, which are the newlines around it or the ends of the file.
LEMMA LineIs ==
  ASSUME NEW S, file \in Seq(S), NEW b \in 0 .. Len(file), NEW e \in 1 .. Len(file) + 1,
         b + 1 < e, Starts(file, b), Solid(file, b + 1, e - 1), e = Len(file) + 1 \/ file[e] = NL
  PROVE  <<b, e>> \in Lines
<1>0. Len(file) \in Nat /\ DOMAIN file = 1 .. Len(file)
  OBVIOUS
<1>1. b \in Breaks /\ e \in Breaks
  BY <1>0 DEF Breaks, Starts
<1>2. ASSUME NEW k \in Breaks
      PROVE  k <= b \/ e <= k
  <2>. SUFFICES ASSUME ~(k <= b), ~(e <= k)
                PROVE  FALSE
    OBVIOUS
  <2>1. k \in Nat
    BY <1>0 DEF Breaks
  <2>2. k \in b + 1 .. e - 1 /\ k # 0 /\ k # Len(file) + 1
    BY <1>0, <2>1
  <2>. QED  BY <2>2 DEF Breaks, Solid
<1>3. <<b, e>>[1] = b /\ <<b, e>>[2] = e
  OBVIOUS
<1>. QED  BY <1>1, <1>2, <1>3 DEF Lines

\* Breaks are numbers up to the end of the file.
LEMMA BreaksAre ==
  ASSUME NEW S, file \in Seq(S)
  PROVE  /\ Breaks \subseteq 0 .. Len(file) + 1
         /\ \A l \in Lines : /\ l[1] \in Breaks /\ l[2] \in Breaks /\ l[1] + 1 < l[2]
                             /\ \A k \in Breaks : k <= l[1] \/ l[2] <= k
<1>0. Len(file) \in Nat /\ DOMAIN file = 1 .. Len(file)
  OBVIOUS
<1>1. Breaks \subseteq 0 .. Len(file) + 1
  BY <1>0 DEF Breaks
<1>2. \A l \in Lines : /\ l[1] \in Breaks /\ l[2] \in Breaks /\ l[1] + 1 < l[2]
                      /\ \A k \in Breaks : k <= l[1] \/ l[2] <= k
  BY DEF Lines
<1>. QED  BY <1>1, <1>2

\* Every line has a character that is no newline.
LEMMA LineHasText ==
  ASSUME NEW S, file \in Seq(S), NEW l \in Lines
  PROVE  l[1] + 1 \in 1 .. Len(file) /\ file[l[1] + 1] # NL
<1>0. Len(file) \in Nat /\ DOMAIN file = 1 .. Len(file)
  OBVIOUS
<1>1. /\ l[1] \in 0 .. Len(file) + 1 /\ l[2] \in 0 .. Len(file) + 1 /\ l[1] + 1 < l[2]
      /\ \A k \in Breaks : k <= l[1] \/ l[2] <= k
  BY BreaksAre
<1>2. PICK k \in 1 .. Len(file) : k = l[1] + 1
  BY <1>0, <1>1
<1>3. file[k] = NL => k \in Breaks
  BY <1>0 DEF Breaks
<1>4. ~(k <= l[1]) /\ ~(l[2] <= k)
  BY <1>0, <1>1, <1>2
<1>. QED  BY <1>1, <1>2, <1>3, <1>4

\* Who knows the last line up to the end of the file has the last line.
LEMMA KnownLast ==
  ASSUME NEW S, file \in Seq(S), NEW x, Knows(file, Len(file), x), Len(LastLine) < Buf
  PROVE  x = LastLine
<1>0. PICK n \in Nat : n = Len(file)
  OBVIOUS
<1>1. CASE Blank(file, 1, n)
  <2>1. Lines = {}
    BY <1>0, <1>1, LineHasText DEF Blank
  <2>. QED  BY <1>0, <1>1, <2>1 DEF LastLine, Knows
<1>2. CASE ~Blank(file, 1, n)
  <2> DEFINE T == {k \in 0 .. n : k = 0 \/ file[k] # NL}
             U == {k \in 0 .. n : Starts(file, k)}
  <2>1. PICK q \in 0 .. n : q \in T /\ \A k \in q + 1 .. n : k \notin T
    <3>1. 0 \in T
      OBVIOUS
    <3>. HIDE DEF T
    <3>. QED  BY <3>1, GreatestUpTo
  <2>2. Blank(file, q + 1, n)
    <3>1. \A k \in q + 1 .. n : k \in 0 .. n
      OBVIOUS
    <3>. QED  BY <2>1, <3>1 DEF Blank
  <2>3. q # 0 /\ file[q] # NL
    BY <1>2, <2>1, <2>2
  <2>4. PICK b \in 0 .. q : b \in U /\ \A k \in b + 1 .. q : k \notin U
    <3>1. 0 \in U
      BY DEF Starts
    <3>2. q \in Nat
      OBVIOUS
    <3>. HIDE DEF U
    <3>. QED  BY <3>1, <3>2, GreatestUpTo
  <2>5. Starts(file, b) /\ b # q /\ b < q
    BY <2>3, <2>4 DEF Starts
  <2>6. Solid(file, b + 1, q)
    <3>1. \A k \in b + 1 .. q : k \in 0 .. n
      OBVIOUS
    <3>. QED  BY <2>4, <3>1 DEF Solid, Starts
  <2>. HIDE DEF T, U
  <2>7. PICK e \in 1 .. n + 1 : e = q + 1
    OBVIOUS
  <2>8. e - 1 = q /\ b + 1 < e /\ b \in 0 .. n /\ (e = n + 1 \/ file[e] = NL)
    <3>1. q + 1 <= n => q + 1 \in q + 1 .. n
      OBVIOUS
    <3>. QED  BY <2>2, <2>5, <2>7, <3>1 DEF Blank
  <2>9. <<b, e>> \in Lines
    BY <1>0, <2>5, <2>6, <2>7, <2>8, LineIs
  <2>10. e \in Breaks
    BY <2>9, BreaksAre
  <2>11. ASSUME NEW m \in Lines
         PROVE  m[1] <= b
    <3>1. m[1] + 1 \in 1 .. n /\ file[m[1] + 1] # NL /\ m[1] \in Nat
      BY <1>0, <2>11, LineHasText, BreaksAre
    <3>2. m[1] + 1 <= q
      <4>. SUFFICES ASSUME ~(m[1] + 1 <= q)
                    PROVE  FALSE
        OBVIOUS
      <4>1. m[1] + 1 \in q + 1 .. n
        BY <3>1
      <4>. QED  BY <2>2, <3>1, <4>1 DEF Blank
    <3>3. m[1] \in Breaks
      BY <2>11, BreaksAre
    <3>4. m[1] <= <<b, e>>[1] \/ <<b, e>>[2] <= m[1]
      BY <2>9, <3>3, BreaksAre
    <3>5. m[1] <= b \/ e <= m[1]
      BY <3>4
    <3>. QED  BY <2>7, <3>1, <3>2, <3>5
  <2> DEFINE P(l) == \A m \in Lines : m[1] <= l[1]
  <2>12. PICK c : c = CHOOSE l \in Lines : P(l)
    OBVIOUS
  <2>13. P(<<b, e>>)
    BY <2>11
  <2>14. c \in Lines /\ P(c)
    <3>. HIDE DEF P
    <3>. QED  BY <2>9, <2>12, <2>13
  <2>15. c[1] = b
    <3>1. c[1] \in Nat /\ b <= c[1] /\ c[1] <= b
      BY <2>9, <2>11, <2>14, BreaksAre
    <3>. QED  BY <3>1
  <2>16. c[2] = e
    <3>1. c[2] \in Nat /\ c[2] \in Breaks /\ c[1] + 1 < c[2]
      BY <2>14, BreaksAre
    <3>2. e <= c[1] \/ c[2] <= e
      BY <2>10, <2>14, BreaksAre
    <3>3. c[2] <= <<b, e>>[1] \/ <<b, e>>[2] <= c[2]
      BY <2>9, <3>1, BreaksAre
    <3>. QED  BY <2>7, <2>8, <2>15, <3>1, <3>2, <3>3
  <2>17. LastLine = SubSeq(file, b + 1, e - 1)
    BY <2>9, <2>12, <2>15, <2>16 DEF LastLine, Text
  <2>18. e - 1 - b < Buf
    <3>1. PICK i \in 1 .. n, j \in 1 .. n : i = b + 1 /\ j = e - 1 /\ i <= j
      BY <2>5, <2>7
    <3>2. Len(SubSeq(file, i, j)) = j - i + 1
      BY <1>0, <3>1
    <3>. QED  BY <2>17, <3>1, <3>2
  <2>. QED  BY <1>0, <2>2, <2>5, <2>6, <2>7, <2>8, <2>17, <2>18 DEF Knows
<1>. QED  BY <1>1, <1>2

-----------------------------------------------------------------------------
(* The log. *)

Bytes == Char \cup {NL}

\* Record r, n characters long, stands in file f with a newline behind it, and
\* at the start of a line or after a record that was not accepted.
Placed(f, n, acc, r) ==
  \E p \in 0 .. Len(f) :
    /\ p + n + 1 <= Len(f)
    /\ \A k \in 1 .. n : f[p + k] = [rec |-> r, at |-> k]
    /\ f[p + n + 1] = NL
    /\ Starts(f, p) \/ r - 1 \notin acc

Ended == Len(records) \in accepted => Len(file) > 0 /\ file[Len(file)] = NL

LogInv ==
  /\ LogTypeOK
  /\ Ended
  /\ \A r \in accepted : Placed(file, records[r], accepted, r)
  /\ \A h \in Readers :
       reader[h].step = "read" =>
         Knows(file, reader[h].off, reader[h].last) /\ MidLine(file, reader[h].off)

\* A part of a sequence, index by index.
LEMMA SubSeqIs ==
  ASSUME NEW S, NEW f \in Seq(S), NEW i \in Nat \ {0}, NEW j \in 0 .. Len(f)
  PROVE  SubSeq(f, i, j) = [k \in 1 .. j - i + 1 |-> f[i + k - 1]]
OBVIOUS

\* What a reader knows of a file stays true when others append to it.
LEMMA Grows ==
  ASSUME NEW S, NEW f \in Seq(S), NEW g \in Seq(S), Len(f) <= Len(g),
         \A i \in 1 .. Len(f) : g[i] = f[i]
  PROVE  /\ \A off \in 0 .. Len(f) : \A l :
              /\ Knows(f, off, l) => Knows(g, off, l)
              /\ MidLine(f, off) => MidLine(g, off)
         /\ \A n \in Nat : \A acc, more, r :
              (Placed(f, n, acc, r) /\ r - 1 \notin more) => Placed(g, n, acc \cup more, r)
<1>0. PICK n \in Nat : n = Len(f)
  OBVIOUS
<1>1. ASSUME NEW off \in 0 .. n
      PROVE  /\ \A b \in 0 .. off : Starts(g, b) <=> Starts(f, b)
             /\ \A i \in 1 .. n + 1, j \in 0 .. off : Solid(g, i, j) <=> Solid(f, i, j)
             /\ \A i \in 1 .. n + 1, j \in 0 .. off : Blank(g, i, j) <=> Blank(f, i, j)
  BY SMTT(30), <1>0 DEF Starts, Solid, Blank
<1>2. ASSUME NEW i \in 1 .. n, NEW j \in 0 .. n
      PROVE  SubSeq(g, i, j) = SubSeq(f, i, j)
  <2>1. SubSeq(f, i, j) = [k \in 1 .. j - i + 1 |-> f[i + k - 1]]
    BY <1>0, SubSeqIs
  <2>2. SubSeq(g, i, j) = [k \in 1 .. j - i + 1 |-> g[i + k - 1]]
    <3>1. j \in 0 .. Len(g)
      BY <1>0
    <3>. QED  BY <3>1, SubSeqIs
  <2>3. \A k \in 1 .. j - i + 1 : i + k - 1 \in 1 .. n
    OBVIOUS
  <2>. QED  BY <1>0, <2>1, <2>2, <2>3
<1>3. ASSUME NEW off \in 0 .. n, NEW l, Knows(f, off, l)
      PROVE  Knows(g, off, l)
  <2>1. Blank(g, 1, off) => l = NoLine
    <3>1. 1 \in 1 .. n + 1 /\ off \in 0 .. off
      OBVIOUS
    <3>. QED  BY <1>1, <1>3, <3>1 DEF Knows
  <2>2. ASSUME NEW b \in 0 .. off, NEW e \in 1 .. off + 1, b + 1 < e, Starts(g, b),
               Solid(g, b + 1, e - 1), Blank(g, e, off), e - 1 - b < Buf
        PROVE  l = SubSeq(g, b + 1, e - 1)
    <3>1. /\ b + 1 \in 1 .. n + 1 /\ e - 1 \in 0 .. off /\ e \in 1 .. n + 1 /\ off \in 0 .. off
          /\ b + 1 \in 1 .. n /\ e - 1 \in 0 .. n
      BY <2>2
    <3>2. Starts(f, b) /\ Solid(f, b + 1, e - 1) /\ Blank(f, e, off)
      BY <1>1, <2>2, <3>1
    <3>3. l = SubSeq(f, b + 1, e - 1)
      BY <1>3, <2>2, <3>2 DEF Knows
    <3>. QED  BY <1>2, <3>1, <3>3
  <2>. QED  BY <2>1, <2>2 DEF Knows
<1>4. ASSUME NEW off \in 0 .. n, MidLine(f, off)
      PROVE  MidLine(g, off)
  <2>. SUFFICES ASSUME NEW b \in 0 .. off, b < off, Starts(g, b), Solid(g, b + 1, off)
                PROVE  off - b >= Buf - 1
    BY DEF MidLine
  <2>1. b + 1 \in 1 .. n + 1 /\ off \in 0 .. off
    OBVIOUS
  <2>2. Starts(f, b) /\ Solid(f, b + 1, off)
    BY <1>1, <2>1
  <2>. QED  BY <1>4, <2>2 DEF MidLine
<1>5. ASSUME NEW m \in Nat, NEW acc, NEW more, NEW r, Placed(f, m, acc, r), r - 1 \notin more
      PROVE  Placed(g, m, acc \cup more, r)
  <2>1. PICK p \in 0 .. n : /\ p + m + 1 <= n
                            /\ \A k \in 1 .. m : f[p + k] = [rec |-> r, at |-> k]
                            /\ f[p + m + 1] = NL
                            /\ Starts(f, p) \/ r - 1 \notin acc
    BY <1>0, <1>5 DEF Placed
  <2>2. p \in 0 .. Len(g) /\ p + m + 1 <= Len(g) /\ p + m + 1 \in 1 .. n /\ \A k \in 1 .. m : p + k \in 1 .. n
    BY <1>0, <2>1
  <2>3. Starts(g, p) <=> Starts(f, p)
    BY <1>0 DEF Starts
  <2>4. g[p + m + 1] = NL /\ \A k \in 1 .. m : g[p + k] = [rec |-> r, at |-> k]
    BY <1>0, <2>1, <2>2
  <2>. QED  BY <1>5, <2>1, <2>2, <2>3, <2>4 DEF Placed
<1>. QED  BY <1>0, <1>3, <1>4, <1>5

\* The characters of a line.
LEMMA LineChars ==
  ASSUME NEW r \in 1 .. MaxRecords, NEW n \in Nat
  PROVE  /\ Chars(r, n) \in Seq(Char) /\ Len(Chars(r, n)) = n
         /\ Line(r, n) \in Seq(Bytes) /\ Len(Line(r, n)) = n + 1 /\ Line(r, n)[n + 1] = NL
         /\ \A k \in 1 .. n : Chars(r, n)[k] = [rec |-> r, at |-> k] /\ Line(r, n)[k] = [rec |-> r, at |-> k]
<1>1. Chars(r, n) \in [1 .. n -> Char] /\ \A k \in 1 .. n : Chars(r, n)[k] = [rec |-> r, at |-> k]
  BY DEF Chars, Char
<1>2. PICK c : c = Chars(r, n)
  OBVIOUS
<1>3. c \in Seq(Char) /\ Len(c) = n
  BY <1>1, <1>2
<1>4. c \in Seq(Bytes) /\ NL \in Bytes
  BY <1>3, SeqMonotonic DEF Bytes
<1>5. PICK d : d = Append(c, NL)
  OBVIOUS
<1>6. d \in Seq(Bytes) /\ Len(d) = n + 1 /\ d[n + 1] = NL /\ \A k \in 1 .. n : d[k] = c[k]
  BY <1>3, <1>4, <1>5, AppendProperties
<1>. QED  BY <1>1, <1>2, <1>3, <1>5, <1>6 DEF Line

\* An append: whole, with the record accepted, or torn, and then it is not.
LEMMA AppendKeeps ==
  ASSUME LogInv, NEW r, r = Len(records) + 1, Len(records) < MaxRecords, NEW n \in Lengths,
         NEW t \in Seq(Bytes), NEW more \in SUBSET {r}, r \in more => t = Line(r, n),
         file' = file \o t, records' = Append(records, n), accepted' = accepted \cup more, reader' = reader
  PROVE  LogInv'
<1>1. PICK f \in Seq(Bytes), g \in Seq(Bytes), c \in Seq(Lengths) : f = file /\ g = f \o t /\ c = records
  <2>1. file \in Seq(Bytes) /\ records \in Seq(Lengths)
    BY DEF LogInv, LogTypeOK, Bytes
  <2>2. file \o t \in Seq(Bytes)
    BY <2>1
  <2>. QED  BY <2>1, <2>2
<1>2. PICK m \in Nat, d \in Nat, j \in Nat : m = Len(f) /\ d = Len(t) /\ j = Len(c)
  OBVIOUS
<1>3. /\ Len(g) = m + d /\ \A i \in 1 .. m : g[i] = f[i]
      /\ \A i \in 1 .. d : g[m + i] = t[i]
  BY <1>1, <1>2
<1>4. PICK e : e = Append(c, n)
  OBVIOUS
<1>5. e \in Seq(Lengths) /\ Len(e) = j + 1 /\ e[j + 1] = n /\ \A i \in 1 .. j : e[i] = c[i]
  BY <1>2, <1>4
<1>6. file' = g /\ records' = e /\ r = j + 1 /\ r \in 1 .. MaxRecords /\ n \in Nat \ {0} /\ MaxRecords \in Nat
  BY <1>1, <1>2, <1>4, LengthsAssumption, BufAssumption
<1>7. accepted \subseteq 1 .. j /\ Lengths \subseteq Nat
  <2>1. DOMAIN c = 1 .. j
    BY <1>2
  <2>. QED  BY <1>1, <2>1, LengthsAssumption DEF LogInv, LogTypeOK
<1>8. LogTypeOK'
  <2>1. file' \in Seq(Char \cup {NL}) /\ records' \in Seq(Lengths) /\ Len(records') <= MaxRecords
    BY <1>1, <1>2, <1>5, <1>6 DEF Bytes
  <2>2. accepted' \subseteq DOMAIN records'
    <3>1. DOMAIN e = 1 .. j + 1
      BY <1>5
    <3>. QED  BY <1>6, <1>7, <3>1
  <2>3. reader \in [Readers -> [step : {"idle", "read"}, off : 0 .. m, last : Seq(Char)]]
    BY <1>1, <1>2 DEF LogInv, LogTypeOK
  <2>4. 0 .. m \subseteq 0 .. Len(g)
    BY <1>3
  <2>5. reader' \in [Readers -> [step : {"idle", "read"}, off : 0 .. Len(file'), last : Seq(Char)]]
    <3>1. ASSUME NEW h \in Readers
          PROVE  reader[h] \in [step : {"idle", "read"}, off : 0 .. Len(g), last : Seq(Char)]
      BY <2>3, <2>4
    <3>. QED  BY <1>6, <2>3, <3>1
  <2>. QED  BY <2>1, <2>2, <2>5 DEF LogTypeOK
<1>9. r \in more => Len(t) = n + 1 /\ t[n + 1] = NL /\ \A k \in 1 .. n : t[k] = [rec |-> r, at |-> k]
  <2>1. /\ Len(Line(r, n)) = n + 1 /\ Line(r, n)[n + 1] = NL
        /\ \A k \in 1 .. n : Line(r, n)[k] = [rec |-> r, at |-> k]
    <3>1. n \in Nat /\ r \in 1 .. MaxRecords
      BY <1>6
    <3>. QED  BY <3>1, LineChars
  <2>. QED  BY <2>1
<1>10. Ended'
  <2>. SUFFICES ASSUME r \in accepted \cup more
                PROVE  Len(g) > 0 /\ g[Len(g)] = NL
    BY <1>5, <1>6 DEF Ended
  <2>1. r \in more
    BY <1>6, <1>7
  <2>2. d = n + 1 /\ t[d] = NL /\ d \in 1 .. d
    BY <1>2, <1>6, <1>9, <2>1
  <2>. QED  BY SMTT(30), <1>3, <2>2
<1>11. Len(f) <= Len(g) /\ \A i \in 1 .. Len(f) : g[i] = f[i]
  <2>1. Len(f) = m /\ Len(g) = m + d
    BY Zenon, <1>2, <1>3
  <2>2. \A x, y \in Nat : x <= x + y
    OBVIOUS
  <2>3. m <= m + d
    BY Zenon, <2>2
  <2>4. \A i \in 1 .. m : g[i] = f[i]
    BY Zenon, <1>3
  <2>. QED  BY Zenon, <2>1, <2>3, <2>4
<1>12. \A s \in accepted' : Placed(file', records'[s], accepted', s)
  <2>. SUFFICES ASSUME NEW s \in accepted \cup more
                PROVE  Placed(g, e[s], accepted \cup more, s)
    BY <1>6
  <2>1. CASE s \in accepted
    <3>1. s \in 1 .. j /\ e[s] = c[s] /\ c[s] \in Nat
      <4>1. s \in 1 .. j
        BY <1>7, <2>1
      <4>2. c[s] \in Lengths
        BY <1>2, <4>1
      <4>. QED  BY <1>5, <1>7, <4>1, <4>2
    <3>2. Placed(f, c[s], accepted, s)
      BY <1>1, <2>1 DEF LogInv
    <3>3. s - 1 \notin more
      BY <1>6, <3>1
    <3>. QED  BY <1>11, <3>1, <3>2, <3>3, Grows
  <2>2. CASE s \in more
    <3>1. s = r /\ e[s] = n /\ d = n + 1 /\ t[n + 1] = NL /\ \A k \in 1 .. n : t[k] = [rec |-> s, at |-> k]
      BY <1>2, <1>5, <1>6, <1>9, <2>2
    <3>2. m \in 0 .. Len(g) /\ m + n + 1 <= Len(g) /\ g[m + n + 1] = NL
      <4>1. n + 1 \in 1 .. d /\ m + (n + 1) = m + n + 1
        BY <1>6, <3>1
      <4>. QED  BY <1>3, <1>6, <3>1, <4>1
    <3>3. \A k \in 1 .. n : g[m + k] = [rec |-> s, at |-> k]
      <4>1. \A k \in 1 .. n : k \in 1 .. d
        BY <1>6, <3>1
      <4>. QED  BY <1>3, <3>1, <4>1
    <3>4. Starts(g, m) \/ s - 1 \notin accepted \cup more
      <4>. SUFFICES ASSUME s - 1 \in accepted \cup more
                    PROVE  Starts(g, m)
        OBVIOUS
      <4>1. s - 1 = j /\ j \in accepted
        BY <1>6, <3>1
      <4>2. m > 0 /\ f[m] = NL
        BY <1>1, <1>2, <4>1 DEF LogInv, Ended
      <4>3. m \in 1 .. m
        BY <4>2
      <4>. QED  BY <1>3, <4>2, <4>3 DEF Starts
    <3>. QED  BY <3>1, <3>2, <3>3, <3>4 DEF Placed
  <2>. QED  BY <2>1, <2>2
<1>13. ASSUME NEW h \in Readers, reader'[h].step = "read"
       PROVE  Knows(file', reader'[h].off, reader'[h].last) /\ MidLine(file', reader'[h].off)
  <2>1. Knows(f, reader[h].off, reader[h].last) /\ MidLine(f, reader[h].off)
    BY <1>1, <1>13 DEF LogInv
  <2>2. reader[h].off \in 0 .. m
    BY <1>1, <1>2 DEF LogInv, LogTypeOK
  <2>3. PICK off \in 0 .. Len(f) : off = reader[h].off
    BY <1>2, <2>2
  <2>4. PICK l : l = reader[h].last
    OBVIOUS
  <2>5. Knows(f, off, l) /\ MidLine(f, off)
    BY <2>1, <2>3, <2>4
  <2>6. Knows(g, off, l) /\ MidLine(g, off)
    BY <1>11, <2>5, Grows
  <2>. QED  BY <1>6, <2>3, <2>4, <2>6
<1>. QED  BY <1>8, <1>10, <1>12, <1>13 DEF LogInv

\* A step of one reader.
LEMMA ReaderMoves ==
  ASSUME LogInv, NEW h \in Readers, UNCHANGED <<file, records, accepted>>,
         NEW o \in [step : {"idle", "read"}, off : 0 .. Len(file), last : Seq(Char)],
         reader' = [reader EXCEPT ![h] = o],
         o.step = "read" => Knows(file, o.off, o.last) /\ MidLine(file, o.off)
  PROVE  LogInv'
<1>1. LogTypeOK' /\ Ended'
  BY DEF LogInv, LogTypeOK, Ended
<1>2. \A s \in accepted' : Placed(file', records'[s], accepted', s)
  BY DEF LogInv
<1>3. reader'[h] = o /\ \A k \in Readers : k # h => reader'[k] = reader[k]
  BY DEF LogInv, LogTypeOK
<1>4. ASSUME NEW k \in Readers, reader'[k].step = "read"
      PROVE  Knows(file', reader'[k].off, reader'[k].last) /\ MidLine(file', reader'[k].off)
  <2>1. CASE k = h
    BY <1>3, <1>4, <2>1
  <2>2. CASE k # h
    BY <1>3, <1>4, <2>2 DEF LogInv
  <2>. QED  BY <2>1, <2>2
<1>. QED  BY <1>1, <1>2, <1>4 DEF LogInv

\* fgets stops at the first newline, at the end of the file, or with a full
\* buffer.
LEMMA PieceIs ==
  ASSUME file \in Seq(Bytes), NEW off \in 0 .. Len(file), off < Len(file)
  PROVE  \E e \in Nat : Fits(file, off, e) /\ Piece(off) = SubSeq(file, off + 1, e)
<1>0. Len(file) \in Nat /\ Buf \in Nat /\ Buf >= 2
  BY BufAssumption
<1>1. Ends(off) \in SUBSET Nat /\ Len(file) \in Ends(off)
  BY <1>0 DEF Ends
<1> DEFINE P(e) == \A d \in Ends(off) : e <= d
<1>2. \E e \in Ends(off) : P(e)
  BY <1>1, LeastNat
<1>3. PICK e : e = CHOOSE x \in Ends(off) : P(x)
  OBVIOUS
<1>4. e \in Ends(off) /\ P(e)
  <2>. HIDE DEF P
  <2>. QED  BY <1>2, <1>3
<1>5. Piece(off) = SubSeq(file, off + 1, e)
  BY <1>3 DEF Piece
<1>6. e \in off + 1 .. Len(file) /\ (file[e] = NL \/ e = off + Buf - 1 \/ e = Len(file))
  BY <1>4 DEF Ends
<1>7. Solid(file, off + 1, e - 1)
  <2>. SUFFICES ASSUME NEW k \in off + 1 .. e - 1, file[k] = NL
                PROVE  FALSE
    BY DEF Solid
  <2>1. k \in Ends(off) /\ k < e
    BY <1>0, <1>6 DEF Ends
  <2>. QED  BY <1>0, <1>4, <1>6, <2>1
<1>8. e <= off + Buf - 1
  <2>. SUFFICES ASSUME off + Buf - 1 < e
                PROVE  FALSE
    BY <1>0, <1>6
  <2>1. off + Buf - 1 \in Ends(off)
    BY <1>0, <1>6 DEF Ends
  <2>. QED  BY <1>0, <1>4, <1>6, <2>1
<1>. QED  BY <1>5, <1>6, <1>7, <1>8 DEF Fits

\* What the loop keeps of a piece.
LEMMA KeepIs ==
  ASSUME file \in Seq(Bytes), NEW off \in Nat, NEW e \in Nat, Fits(file, off, e), NEW l \in Seq(Char),
         NEW piece \in Seq(Bytes), piece = SubSeq(file, off + 1, e)
  PROVE  /\ Len(piece) = e - off /\ Last(piece) = file[e]
         /\ Keep(l, piece) = Kept(file, off, e, l)
         /\ Keep(l, piece) \in Seq(Char)
<1>0. /\ Len(file) \in Nat /\ off < e /\ e <= Len(file)
      /\ \A k \in off + 1 .. e - 1 : file[k] # NL
  BY DEF Fits, Solid
<1>1. PICK n \in Nat \ {0} : n = e - off
  BY <1>0
<1>2. piece = [k \in 1 .. n |-> file[off + k]]
  <2>1. off + 1 \in Nat \ {0} /\ e \in 0 .. Len(file) /\ e - (off + 1) + 1 = n
    BY <1>0, <1>1
  <2>2. piece = [k \in 1 .. e - (off + 1) + 1 |-> file[(off + 1) + k - 1]]
    BY <2>1, SubSeqIs
  <2>3. \A k \in 1 .. n : (off + 1) + k - 1 = off + k
    OBVIOUS
  <2>. QED  BY <2>1, <2>2, <2>3
<1>3. \A k \in 1 .. n : off + k \in 1 .. Len(file) /\ file[off + k] \in Bytes
  BY <1>0, <1>1
<1>4. Len(piece) = n
  BY <1>2
<1>5. Last(piece) = file[e]
  BY <1>1, <1>2, <1>4 DEF Last
<1>6. \A k \in 1 .. n - 1 : file[off + k] \in Char
  <2>. SUFFICES ASSUME NEW k \in 1 .. n - 1
                PROVE  file[off + k] \in Char
    OBVIOUS
  <2>1. off + k \in off + 1 .. e - 1 /\ k \in 1 .. n
    BY <1>1
  <2>2. file[off + k] # NL /\ file[off + k] \in Bytes
    BY <1>0, <1>3, <2>1
  <2>. QED  BY <2>2 DEF Bytes
<1>7. CASE file[e] # NL
  <2>1. Trimmed(piece) = piece
    BY <1>5, <1>7 DEF Trimmed
  <2>2. piece # <<>>
    BY <1>4
  <2>3. piece \in Seq(Char)
    <3>1. ASSUME NEW k \in 1 .. n
          PROVE  file[off + k] \in Char
      <4>1. k \in 1 .. n - 1 \/ off + k = e
        BY <1>1
      <4>2. off + k = e => file[off + k] \in Char
        BY <1>3, <1>7 DEF Bytes
      <4>. QED  BY <1>6, <4>1, <4>2
    <3>2. PICK t : t = [k \in 1 .. n |-> file[off + k]]
      OBVIOUS
    <3>3. t \in [1 .. n -> Char]
      BY <3>1, <3>2
    <3>4. t \in Seq(Char)
      BY <3>3
    <3>. QED  BY <1>2, <3>2, <3>4
  <2>. QED  BY <1>1, <1>4, <1>5, <1>7, <2>1, <2>2, <2>3 DEF Keep, Kept
<1>8. CASE file[e] = NL
  <2>1. PICK m \in Nat : m = n - 1
    OBVIOUS
  <2>2. Trimmed(piece) = SubSeq(piece, 1, m)
    BY <1>4, <1>5, <1>8, <2>1 DEF Trimmed, Front
  <2>3. SubSeq(piece, 1, m) = [k \in 1 .. m |-> file[off + k]]
    <3>1. SubSeq(piece, 1, m) = [k \in 1 .. m - 1 + 1 |-> piece[1 + k - 1]]
      <4>1. m \in 0 .. Len(piece)
        BY <1>4, <2>1
      <4>. QED  BY <1>4, <4>1, SubSeqIs
    <3>2. m - 1 + 1 = m /\ \A k \in 1 .. m : 1 + k - 1 = k /\ k \in 1 .. n
      BY <2>1
    <3>. QED  BY SMTT(30), <1>2, <3>1, <3>2
  <2>4. Trimmed(piece) \in Seq(Char) /\ Len(Trimmed(piece)) = m
    <3>1. \A k \in 1 .. m : k \in 1 .. n - 1
      BY <2>1
    <3>2. PICK t : t = Trimmed(piece)
      OBVIOUS
    <3>3. t \in [1 .. m -> Char]
      BY <1>6, <2>2, <2>3, <3>1, <3>2
    <3>4. t \in Seq(Char) /\ Len(t) = m
      BY <3>3
    <3>. QED  BY <3>2, <3>4
  <2>5. CASE m = 0
    <3>1. Trimmed(piece) = <<>> /\ e = off + 1
      BY <1>1, <2>1, <2>4, <2>5
    <3>. QED  BY <1>1, <1>4, <1>5, <1>8, <3>1 DEF Keep, Kept
  <2>6. CASE m # 0
    <3>1. Trimmed(piece) # <<>> /\ e # off + 1 /\ e - 1 = off + m
      BY <1>1, <2>1, <2>4, <2>6
    <3>2. SubSeq(file, off + 1, e - 1) = [k \in 1 .. m |-> file[off + k]]
      <4>1. off + 1 \in Nat \ {0} /\ e - 1 \in 0 .. Len(file) /\ (e - 1) - (off + 1) + 1 = m
        BY <1>0, <1>1, <2>1, <3>1
      <4>2. SubSeq(file, off + 1, e - 1) = [k \in 1 .. (e - 1) - (off + 1) + 1 |-> file[(off + 1) + k - 1]]
        BY <4>1, SubSeqIs
      <4>3. \A k \in 1 .. m : (off + 1) + k - 1 = off + k
        OBVIOUS
      <4>. QED  BY <4>1, <4>2, <4>3
    <3>. QED  BY <1>1, <1>4, <1>5, <1>8, <2>2, <2>3, <2>4, <3>1, <3>2 DEF Keep, Kept
  <2>. QED  BY <2>5, <2>6
<1>. QED  BY <1>7, <1>8

-----------------------------------------------------------------------------
(* The steps of the log. *)

\* ReadPiece: the reader knows one more piece, or it has met the end.
LEMMA ReadKeeps ==
  ASSUME LogInv, NEW h \in Readers, ReadPiece(h)
  PROVE  /\ LogInv'
         /\ reader'[h].step = "idle" => Knows(file, Len(file), reader'[h].last)
<1>1. PICK n \in Nat : n = Len(file) /\ file \in Seq(Bytes)
  BY DEF LogInv, LogTypeOK, Bytes
<1>2. PICK off \in 0 .. n, last \in Seq(Char) : off = reader[h].off /\ last = reader[h].last
  BY <1>1 DEF LogInv, LogTypeOK
<1>3. Knows(file, off, last) /\ MidLine(file, off) /\ off < n
  BY <1>1, <1>2 DEF LogInv, ReadPiece
<1>4. PICK e \in Nat : Fits(file, off, e) /\ Piece(off) = SubSeq(file, off + 1, e)
  BY <1>1, <1>3, PieceIs
<1>5. /\ e \in off + 1 .. n /\ e <= off + Buf - 1 /\ Buf \in Nat
      /\ file[e] = NL \/ e = off + Buf - 1 \/ e = n
  BY <1>1, <1>4, BufAssumption DEF Fits
<1>6. PICK piece \in Seq(Bytes) : piece = SubSeq(file, off + 1, e) /\ piece = Piece(off)
  <2>1. SubSeq(file, off + 1, e) \in Seq(Bytes)
    <3>1. \A k \in off + 1 .. e : k \in 1 .. Len(file)
      BY <1>1, <1>5
    <3>. QED  BY <1>1, <1>5, <3>1
  <2>. QED  BY <1>4, <2>1
<1>7. /\ Len(piece) = e - off /\ Last(piece) = file[e]
      /\ Keep(last, piece) = Kept(file, off, e, last) /\ Keep(last, piece) \in Seq(Char)
  <2>1. off \in Nat /\ file \in Seq(Bytes) /\ Fits(file, off, e) /\ piece = SubSeq(file, off + 1, e)
    BY <1>1, <1>4, <1>6
  <2>. QED  BY <2>1, KeepIs
<1>8. PICK l \in Seq(Char) : l = Keep(last, piece) /\ l = Kept(file, off, e, last)
  BY <1>7
<1>9. Knows(file, e, l) /\ ((file[e] = NL \/ e = off + Buf - 1) => MidLine(file, e))
  BY <1>1, <1>3, <1>4, <1>8, ReadsLine
<1>10. MetEnd(off, piece) => e = n
  BY <1>1, <1>5, <1>7 DEF MetEnd
<1>11. ~MetEnd(off, piece) => file[e] = NL \/ e = off + Buf - 1
  BY <1>1, <1>5, <1>7 DEF MetEnd
<1>12. PICK o : o = IF MetEnd(off, piece) THEN Resting(l) ELSE [step |-> "read", off |-> e, last |-> l]
  OBVIOUS
<1>13. reader' = [reader EXCEPT ![h] = o] /\ UNCHANGED <<file, records, accepted>>
  <2>1. off + Len(piece) = e
    BY <1>5, <1>7
  <2>. QED  BY <1>2, <1>6, <1>8, <1>12, <2>1 DEF ReadPiece
<1>14. o \in [step : {"idle", "read"}, off : 0 .. Len(file), last : Seq(Char)]
  BY <1>1, <1>5, <1>12 DEF Resting
<1>15. o.step = "read" => Knows(file, o.off, o.last) /\ MidLine(file, o.off)
  BY <1>9, <1>11, <1>12 DEF Resting
<1>16. o.step = "idle" => Knows(file, n, o.last)
  BY <1>9, <1>10, <1>12 DEF Resting
<1>17. reader'[h] = o
  BY <1>13 DEF LogInv, LogTypeOK
<1>. QED  BY <1>1, <1>13, <1>14, <1>15, <1>16, <1>17, ReaderMoves

\* BeginLast: nothing is read yet.
LEMMA BeginKeeps ==
  ASSUME LogInv, NEW h \in Readers, BeginLast(h)
  PROVE  LogInv'
<1>1. PICK n \in Nat : n = Len(file)
  BY DEF LogInv, LogTypeOK
<1>2. PICK o : o = [step |-> "read", off |-> 0, last |-> NoLine]
  OBVIOUS
<1>3. NoLine \in Seq(Char)
  BY DEF NoLine
<1>4. o \in [step : {"idle", "read"}, off : 0 .. Len(file), last : Seq(Char)]
  BY <1>1, <1>2, <1>3
<1>5. Knows(file, 0, NoLine) /\ MidLine(file, 0)
  BY DEF Knows, MidLine
<1>. QED  BY <1>2, <1>4, <1>5, ReaderMoves DEF BeginLast

\* EndLast: what the reader knows of the whole file is returned.
LEMMA EndKeeps ==
  ASSUME LogInv, NEW h \in Readers, EndLast(h)
  PROVE  /\ LogInv'
         /\ Knows(file, Len(file), reader'[h].last)
<1>1. PICK n \in Nat : n = Len(file)
  BY DEF LogInv, LogTypeOK
<1>2. PICK last \in Seq(Char) : last = reader[h].last
  BY DEF LogInv, LogTypeOK
<1>3. PICK o : o = Resting(last)
  OBVIOUS
<1>4. o \in [step : {"idle", "read"}, off : 0 .. Len(file), last : Seq(Char)]
  BY <1>1, <1>3 DEF Resting
<1>5. reader' = [reader EXCEPT ![h] = o] /\ UNCHANGED <<file, records, accepted>>
  BY <1>2, <1>3 DEF EndLast
<1>6. o.step # "read" /\ o.last = last
  BY <1>3 DEF Resting
<1>7. LogInv'
  BY <1>4, <1>5, <1>6, ReaderMoves
<1>8. reader'[h] = o
  BY <1>5 DEF LogInv, LogTypeOK
<1>9. Knows(file, Len(file), last)
  BY <1>2 DEF LogInv, EndLast
<1>. QED  BY <1>6, <1>7, <1>8, <1>9

\* The two appends.
LEMMA AppendsKeep ==
  ASSUME LogInv, NEW n \in Lengths
  PROVE  /\ AppendRecord(n) => LogInv'
         /\ \A k \in 0 .. n : AppendTorn(n, k) => LogInv'
<1>1. n \in Nat /\ MaxRecords \in Nat
  BY LengthsAssumption, BufAssumption
<1>2. ASSUME Len(records) < MaxRecords
      PROVE  Len(records) + 1 \in 1 .. MaxRecords
  <2>1. Len(records) \in Nat
    BY DEF LogInv, LogTypeOK
  <2>. QED  BY <1>1, <1>2, <2>1
<1>3. ASSUME AppendRecord(n)
      PROVE  LogInv'
  <2>1. PICK r : r = Len(records) + 1
    OBVIOUS
  <2>2. r \in 1 .. MaxRecords /\ Len(records) < MaxRecords
    BY <1>2, <1>3, <2>1 DEF AppendRecord
  <2>3. PICK t \in Seq(Bytes) : t = Line(r, n)
    BY <1>1, <2>2, LineChars
  <2>4. PICK more \in SUBSET {r} : more = {r}
    OBVIOUS
  <2>5. /\ file' = file \o t /\ records' = Append(records, n) /\ accepted' = accepted \cup more
        /\ reader' = reader
    BY <1>3, <2>1, <2>3, <2>4 DEF AppendRecord
  <2>. QED  BY <2>1, <2>2, <2>3, <2>5, AppendKeeps
<1>4. ASSUME NEW k \in 0 .. n, AppendTorn(n, k)
      PROVE  LogInv'
  <2>1. PICK r : r = Len(records) + 1
    OBVIOUS
  <2>2. r \in 1 .. MaxRecords /\ Len(records) < MaxRecords
    BY <1>2, <1>4, <2>1 DEF AppendTorn
  <2>3. PICK u \in Seq(Bytes) : u = Line(r, n) /\ Len(u) = n + 1
    BY <1>1, <2>2, LineChars
  <2>4. SubSeq(u, 1, k) \in Seq(Bytes)
    <3>1. \A i \in 1 .. k : i \in 1 .. Len(u)
      BY <1>1, <2>3
    <3>. QED  BY <1>1, <2>3, <3>1
  <2>5. PICK t \in Seq(Bytes) : t = SubSeq(u, 1, k)
    BY <2>4
  <2>6. PICK more \in SUBSET {r} : more = {}
    OBVIOUS
  <2>7. /\ file' = file \o t /\ records' = Append(records, n) /\ accepted' = accepted \cup more
        /\ reader' = reader
    BY <1>4, <2>1, <2>3, <2>5, <2>6 DEF AppendTorn
  <2>8. r \notin more
    BY <2>6
  <2>. QED  BY <2>1, <2>2, <2>7, <2>8, AppendKeeps
<1>. QED  BY <1>3, <1>4

\* A step of the log.
LEMMA LogStep ==
  ASSUME LogInv, LogNext
  PROVE  LogInv'
<1>1. ASSUME NEW n \in Lengths, AppendRecord(n) \/ \E k \in 0 .. n : AppendTorn(n, k)
      PROVE  LogInv'
  BY <1>1, AppendsKeep
<1>2. ASSUME NEW h \in Readers, BeginLast(h) \/ ReadPiece(h) \/ EndLast(h)
      PROVE  LogInv'
  BY <1>2, BeginKeeps, ReadKeeps, EndKeeps
<1>. QED  BY <1>1, <1>2 DEF LogNext

\* An empty log.
LEMMA LogStart == LogInit => LogInv
<1>. SUFFICES ASSUME LogInit
              PROVE  LogInv
  OBVIOUS
<1>1. file \in Seq(Char \cup {NL}) /\ records \in Seq(Lengths) /\ accepted \subseteq DOMAIN records
  BY DEF LogInit
<1>2. Len(file) = 0 /\ Len(records) = 0 /\ accepted = {} /\ MaxRecords \in Nat
  BY BufAssumption DEF LogInit
<1>3. ASSUME NEW h \in Readers
      PROVE  /\ reader[h] \in [step : {"idle", "read"}, off : 0 .. 0, last : Seq(Char)]
             /\ reader[h].step # "read"
  <2>1. NoLine \in Seq(Char)
    BY DEF NoLine
  <2>. QED  BY <2>1 DEF LogInit, Resting
<1>4. reader \in [Readers -> [step : {"idle", "read"}, off : 0 .. 0, last : Seq(Char)]]
  BY <1>3 DEF LogInit
<1>5. LogTypeOK
  BY <1>1, <1>2, <1>4 DEF LogTypeOK
<1>. QED  BY <1>2, <1>3, <1>5 DEF LogInv, Ended

\* What the log keeps, and the trace does not move it.
LEMMA LogInvHolds == Spec => []LogInv
<1>1. Init => LogInv
  BY LogStart DEF Init
<1>2. LogInv /\ [LogMoves \/ TraceMoves]_vars => LogInv'
  <2>. SUFFICES ASSUME LogInv, [LogMoves \/ TraceMoves]_vars
                PROVE  LogInv'
    OBVIOUS
  <2>1. CASE LogMoves
    BY <2>1, LogStep DEF LogMoves
  <2>2. CASE UNCHANGED logVars
    BY <2>2 DEF logVars, LogInv, LogTypeOK, Ended
  <2>. QED  BY <2>1, <2>2 DEF TraceMoves, vars
<1>. QED  BY <1>1, <1>2, PTL DEF Spec

\* The log, its readers and the ring hold what their declarations say, in
\* every state of phronesis_action_log_append, phronesis_action_log_last and
\* the trace.
THEOREM RecordsTypeCorrect == Spec => []TypeOK
<1>1. LogInv /\ TraceInv => TypeOK
  BY DEF LogInv, TraceInv, TypeOK
<1>. QED  BY <1>1, LogInvHolds, TraceInvHolds, PTL

\* A sequence that the end of another agrees with is a suffix of it.
LEMMA SuffixIs ==
  ASSUME NEW S, NEW s \in Seq(S), NEW t \in Seq(S), Len(s) <= Len(t),
         \A k \in 1 .. Len(s) : t[Len(t) - Len(s) + k] = s[k]
  PROVE  IsSuffix(s, t)
<1>1. PICK m \in Nat, n \in Nat : m = Len(s) /\ n = Len(t) /\ m <= n
  OBVIOUS
<1>2. PICK u \in Seq(S), v \in Seq(S) :
        /\ u = Reverse(s) /\ Len(u) = m /\ \A i \in 1 .. m : u[i] = s[(m - i) + 1]
        /\ v = Reverse(t) /\ Len(v) = n /\ \A i \in 1 .. n : v[i] = t[(n - i) + 1]
  <2>1. /\ Reverse(s) \in [1 .. m -> S] /\ \A i \in 1 .. m : Reverse(s)[i] = s[(m - i) + 1]
        /\ Reverse(t) \in [1 .. n -> S] /\ \A i \in 1 .. n : Reverse(t)[i] = t[(n - i) + 1]
    <3>1. \A i \in 1 .. m : (m - i) + 1 \in 1 .. m
      OBVIOUS
    <3>2. \A i \in 1 .. n : (n - i) + 1 \in 1 .. n
      OBVIOUS
    <3>. QED  BY <1>1, <3>1, <3>2 DEF Reverse
  <2>2. PICK u, v : u = Reverse(s) /\ v = Reverse(t)
    OBVIOUS
  <2>3. u \in Seq(S) /\ Len(u) = m /\ v \in Seq(S) /\ Len(v) = n
    BY <2>1, <2>2
  <2>. QED  BY <2>1, <2>2, <2>3
<1>3. \A i \in 1 .. m : u[i] = v[i]
  <2>. TAKE i \in 1 .. m
  <2>1. (m - i) + 1 \in 1 .. m /\ i \in 1 .. n /\ n - m + ((m - i) + 1) = (n - i) + 1
    BY <1>1
  <2>. QED  BY <1>1, <1>2, <2>1
<1>4. SubSeq(u, 1, m) = SubSeq(v, 1, m)
  <2>1. SubSeq(u, 1, m) = [k \in 1 .. m - 1 + 1 |-> u[1 + k - 1]]
    <3>1. m \in 0 .. Len(u)
      BY <1>2
    <3>. QED  BY <3>1, SubSeqIs
  <2>2. SubSeq(v, 1, m) = [k \in 1 .. m - 1 + 1 |-> v[1 + k - 1]]
    <3>1. m \in 0 .. Len(v)
      BY <1>1, <1>2
    <3>. QED  BY <3>1, SubSeqIs
  <2>3. \A k \in 1 .. m - 1 + 1 : 1 + k - 1 = k /\ k \in 1 .. m
    OBVIOUS
  <2>. QED  BY <1>3, <2>1, <2>2, <2>3
<1>. QED  BY <1>1, <1>2, <1>4 DEF IsSuffix, IsPrefix

\* phronesis_action_log_append: a record that a call was told is in the log is
\* a line of its own, unless the write before it ran into a full disk; the
\* record after a torn line ends the line that the torn one began. The line of
\* record r begins at the last start of a line up to the place of r.
THEOREM TornSpoilsOneHolds == Spec => []TornSpoilsOne
<1>1. ASSUME LogInv, NEW r \in accepted
      PROVE  \E l \in Lines :
               \/ Text(l) = Chars(r, records[r])
               \/ r - 1 \notin accepted /\ IsSuffix(Chars(r, records[r]), Text(l))
  <2>1. PICK f \in Seq(Bytes), m \in Nat : f = file /\ m = Len(f)
    BY <1>1 DEF LogInv, LogTypeOK, Bytes
  <2>2. PICK n \in Nat : n = records[r] /\ n >= 1 /\ r \in 1 .. MaxRecords
    <3>1. r \in DOMAIN records /\ records \in Seq(Lengths) /\ Len(records) <= MaxRecords
      BY <1>1 DEF LogInv, LogTypeOK
    <3>2. PICK c \in Seq(Lengths), j \in Nat : c = records /\ j = Len(c)
      BY <3>1
    <3>3. r \in 1 .. j /\ j <= MaxRecords
      BY <3>1, <3>2
    <3>4. c[r] \in Nat \ {0}
      <4>1. c[r] \in Lengths
        BY <3>2, <3>3
      <4>. QED  BY <4>1, LengthsAssumption
    <3>5. r \in 1 .. MaxRecords
      BY <3>3, BufAssumption
    <3>6. PICK n \in Nat : n = c[r] /\ n >= 1
      BY <3>4
    <3>7. n = records[r]
      BY <3>2, <3>6
    <3>. QED  BY <3>5, <3>6, <3>7
  <2>3. Placed(f, n, accepted, r)
    BY <1>1, <2>1, <2>2 DEF LogInv
  <2>4. PICK p \in 0 .. m : /\ p + n + 1 <= m
                            /\ \A k \in 1 .. n : f[p + k] = [rec |-> r, at |-> k]
                            /\ f[p + n + 1] = NL
                            /\ Starts(f, p) \/ r - 1 \notin accepted
    BY <2>1, <2>3 DEF Placed
  <2> DEFINE T == {k \in 0 .. p : Starts(f, k)}
  <2>5. PICK b \in 0 .. p : b \in T /\ \A k \in b + 1 .. p : k \notin T
    <3>1. 0 \in T
      BY DEF Starts
    <3>2. p \in Nat
      OBVIOUS
    <3>. HIDE DEF T
    <3>. QED  BY <3>1, <3>2, GreatestUpTo
  <2>6. Starts(f, b) /\ \A k \in b + 1 .. p : f[k] # NL
    <3>1. \A k \in b + 1 .. p : k \in 0 .. p
      OBVIOUS
    <3>. QED  BY <2>5, <3>1 DEF Starts
  <2>. HIDE DEF T
  <2>7. PICK z \in Nat : z = p + n + 1
    OBVIOUS
  <2>8. ASSUME NEW k \in 1 .. n
        PROVE  f[p + k] # NL
    <3>1. [rec |-> r, at |-> k] \in Char
      BY <2>2 DEF Char
    <3>. QED  BY <2>4, <3>1, NewlineAssumption
  <2>9. Solid(f, b + 1, z - 1)
    <3>. SUFFICES ASSUME NEW k \in b + 1 .. z - 1
                  PROVE  f[k] # NL
      BY DEF Solid
    <3>1. CASE k <= p
      BY <2>6, <3>1
    <3>2. CASE k > p
      <4>1. PICK i \in 1 .. n : k = p + i
        <5>1. k - p \in 1 .. n /\ k = p + (k - p)
          BY <2>7, <3>2
        <5>. QED  BY <5>1
      <4>. QED  BY <2>8, <4>1
    <3>. QED  BY <3>1, <3>2
  <2>10. /\ b \in 0 .. Len(file) /\ z \in 1 .. Len(file) + 1 /\ b + 1 < z
         /\ Starts(file, b) /\ Solid(file, b + 1, z - 1) /\ file[z] = NL
    BY SMTT(30), <2>1, <2>2, <2>4, <2>6, <2>7, <2>9
  <2>11. <<b, z>> \in Lines
    <3>1. file \in Seq(Bytes)
      BY <2>1
    <3>. QED  BY <2>10, <3>1, LineIs
  <2>12. PICK x \in Seq(Bytes), d \in Nat :
           /\ x = Text(<<b, z>>) /\ d = p + n - b /\ Len(x) = d
           /\ \A k \in 1 .. d : x[k] = f[b + k]
    <3>1. PICK d \in Nat : d = p + n - b
      OBVIOUS
    <3>2. b + 1 \in Nat \ {0} /\ z - 1 \in 0 .. Len(f) /\ (z - 1) - (b + 1) + 1 = d
      BY <2>1, <2>4, <2>7, <3>1
    <3>3. SubSeq(f, b + 1, z - 1) = [k \in 1 .. (z - 1) - (b + 1) + 1 |-> f[(b + 1) + k - 1]]
      BY <3>2, SubSeqIs
    <3>4. \A k \in 1 .. d : (b + 1) + k - 1 = b + k /\ b + k \in 1 .. m
      BY <2>4, <3>1
    <3>5. PICK x : x = [k \in 1 .. d |-> f[b + k]]
      OBVIOUS
    <3>6. x \in [1 .. d -> Bytes]
      BY <2>1, <3>4, <3>5
    <3>7. x \in Seq(Bytes) /\ Len(x) = d
      BY <3>6
    <3>8. x = SubSeq(f, b + 1, z - 1)
      BY <3>2, <3>3, <3>4, <3>5
    <3>9. x = Text(<<b, z>>)
      BY <2>1, <3>8 DEF Text
    <3>. QED  BY <3>1, <3>5, <3>7, <3>9
  <2>13. PICK c \in Seq(Bytes) : /\ c = Chars(r, n) /\ Len(c) = n
                                 /\ \A k \in 1 .. n : c[k] = [rec |-> r, at |-> k]
    <3>1. Chars(r, n) \in Seq(Bytes)
      <4>1. Chars(r, n) \in Seq(Char)
        BY <2>2, LineChars
      <4>. QED  BY <4>1, SeqMonotonic DEF Bytes
    <3>2. Len(Chars(r, n)) = n /\ \A k \in 1 .. n : Chars(r, n)[k] = [rec |-> r, at |-> k]
      BY <2>2, LineChars
    <3>. QED  BY <3>1, <3>2
  <2>14. CASE b = p
    <3>1. d = n
      BY <2>12, <2>14
    <3>2. ASSUME NEW k \in 1 .. n
          PROVE  x[k] = c[k]
      <4>1. x[k] = f[p + k]
        BY <2>12, <2>14, <3>1
      <4>2. f[p + k] = [rec |-> r, at |-> k]
        BY <2>4
      <4>3. c[k] = [rec |-> r, at |-> k]
        BY <2>13
      <4>. QED  BY <4>1, <4>2, <4>3
    <3>3. Len(x) = n /\ Len(c) = n
      BY <2>12, <2>13, <3>1
    <3>4. x = c
      BY <3>2, <3>3, SeqEqual
    <3>. QED  BY <2>2, <2>11, <2>12, <2>13, <3>4
  <2>15. CASE b # p
    <3>1. r - 1 \notin accepted
      <4>1. p \in b + 1 .. p /\ p # 0
        BY <2>15
      <4>. QED  BY <2>4, <2>6, <4>1 DEF Starts
    <3>2. Len(c) <= Len(x)
      BY <2>12, <2>13
    <3>3. ASSUME NEW k \in 1 .. Len(c)
          PROVE  x[Len(x) - Len(c) + k] = c[k]
      <4>1. Len(x) = d /\ Len(c) = n /\ d = p + n - b
        BY <2>12, <2>13
      <4>2. k \in 1 .. n
        BY <4>1
      <4>3. PICK i \in 1 .. d : i = p - b + k
        BY <4>1, <4>2
      <4>4. Len(x) - Len(c) + k = i /\ b + i = p + k
        BY <4>1, <4>3
      <4>5. x[i] = f[p + k]
        BY <2>12, <4>4
      <4>6. f[p + k] = [rec |-> r, at |-> k]
        BY <2>4, <4>2
      <4>7. c[k] = [rec |-> r, at |-> k]
        BY <2>13, <4>2
      <4>. QED  BY <4>4, <4>5, <4>6, <4>7
    <3>4. IsSuffix(c, x)
      BY <3>2, <3>3, SuffixIs
    <3>. QED  BY <2>2, <2>11, <2>12, <2>13, <3>1, <3>4
  <2>. QED  BY <2>14, <2>15
<1>2. LogInv => TornSpoilsOne
  BY <1>1 DEF TornSpoilsOne
<1>. QED  BY <1>2, LogInvHolds, PTL

\* phronesis_action_log_last: a reader that returns has the last line of the
\* log as it is then, whatever was appended while it read, when the line fits
\* its buffer.
THEOREM LastIsLastLineHolds == Spec => LastIsLastLine
<1>1. ASSUME LogInv, [LogMoves \/ TraceMoves]_vars, NEW h \in Readers,
             reader[h].step = "read", reader'[h].step = "idle", Len(LastLine) < Buf
      PROVE  reader'[h].last = LastLine
  <2>1. LogNext /\ reader' # reader
    BY <1>1 DEF LogMoves, TraceMoves, vars, logVars
  <2>2. PICK g \in Readers : BeginLast(g) \/ ReadPiece(g) \/ EndLast(g)
    BY <2>1 DEF LogNext, AppendRecord, AppendTorn
  <2>3. g = h
    <3>1. PICK o : reader' = [reader EXCEPT ![g] = o]
      BY <2>2 DEF BeginLast, ReadPiece, EndLast
    <3>2. g # h => reader'[h] = reader[h]
      BY <1>1, <3>1 DEF LogInv, LogTypeOK
    <3>. QED  BY <1>1, <3>2
  <2>4. ~BeginLast(g)
    BY <1>1, <2>3 DEF BeginLast
  <2>5. PICK x : x = reader'[h].last /\ Knows(file, Len(file), x)
    BY <1>1, <2>2, <2>3, <2>4, ReadKeeps, EndKeeps
  <2>6. file \in Seq(Bytes)
    BY <1>1 DEF LogInv, LogTypeOK, Bytes
  <2>. QED  BY <1>1, <2>5, <2>6, KnownLast
<1> DEFINE Returns == \A h \in Readers :
                        (reader[h].step = "read" /\ reader'[h].step = "idle" /\ Len(LastLine) < Buf) =>
                          reader'[h].last = LastLine
<1>2. LogInv /\ [LogMoves \/ TraceMoves]_vars => [Returns]_logVars
  BY <1>1
<1>3. LastIsLastLine <=> [][Returns]_logVars
  BY DEF LastIsLastLine
<1>. HIDE DEF Returns
<1>. QED  BY <1>2, <1>3, LogInvHolds, PTL DEF Spec
=============================================================================

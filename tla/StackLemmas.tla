---------------------------- MODULE StackLemmas ----------------------------
(***************************************************************************)
(* Sequences used as stacks and as lists that are inserted into, and the   *)
(* largest and the least of a set of positions in one.                     *)
(***************************************************************************)
EXTENDS Integers, SequencesExt, FiniteSetsExt, SequenceTheorems, WellFoundedInduction, TLAPS

\* A nonempty stack has a top, and popping it shortens it by one.
LEMMA StackEnds ==
    ASSUME NEW S, NEW s \in Seq(S), s # << >>
    PROVE  /\ Len(s) \in Nat \ {0}
           /\ Last(s) \in S
           /\ Front(s) \in Seq(S)
           /\ Len(Front(s)) = Len(s) - 1
<1>1. Len(s) \in Nat \ {0}
  BY EmptySeq, LenProperties
<1>2. PICK n \in Nat : Len(s) = n + 1
  <2>1. \A k \in Nat \ {0} : k - 1 \in Nat /\ k = (k - 1) + 1
    OBVIOUS
  <2> QED BY <1>1, <2>1, Zenon
<1>3. Last(s) \in S
  BY <1>1, ElementOfSeq DEF Last
<1>4. Len(s) - 1 = n
  BY <1>2
<1>5. Front(s) = SubSeq(s, 1, n)
  BY <1>4, Zenon DEF Front
<1>6. \A i \in 1 .. n : s[i] \in S
  <2>1. \A i \in 1 .. n : i \in 1 .. n + 1
    OBVIOUS
  <2> QED BY <1>2, <2>1, ElementOfSeq, Zenon
<1>7. /\ SubSeq(s, 1, n) \in Seq(S)
      /\ Len(SubSeq(s, 1, n)) = IF 1 <= n THEN n - 1 + 1 ELSE 0
  <2>1. 1 \in Int /\ n \in Int
    OBVIOUS
  <2> QED BY <1>6, <2>1, SubSeqProperties
<1>8. (IF 1 <= n THEN n - 1 + 1 ELSE 0) = n
  OBVIOUS
<1>9. Front(s) \in Seq(S) /\ Len(Front(s)) = Len(s) - 1
  BY <1>4, <1>5, <1>7, <1>8, Zenon
<1> QED BY <1>1, <1>3, <1>9, Zenon

\* Pushing.
LEMMA StackPush ==
    ASSUME NEW S, NEW s \in Seq(S), NEW e \in S
    PROVE  /\ Append(s, e) \in Seq(S)
           /\ Append(s, e) # << >>
           /\ Len(Append(s, e)) = Len(s) + 1
           /\ Append(s, e)[Len(s) + 1] = e
           /\ \A i \in 1 .. Len(s) : Append(s, e)[i] = s[i]
BY AppendProperties, EmptySeq, LenProperties

\* Cutting a stack down to its first n elements.
LEMMA StackCut ==
    ASSUME NEW S, NEW s \in Seq(S), NEW n \in Nat, n <= Len(s)
    PROVE  /\ SubSeq(s, 1, n) \in Seq(S)
           /\ Len(SubSeq(s, 1, n)) = n
           /\ \A i \in 1 .. n : SubSeq(s, 1, n)[i] = s[i]
<1>1. \A i \in 1..n : s[i] \in S
  BY LenProperties, ElementOfSeq
<1>2. /\ SubSeq(s, 1, n) \in Seq(S)
      /\ Len(SubSeq(s, 1, n)) = IF 1 <= n THEN n - 1 + 1 ELSE 0
      /\ \A i \in 1 .. n - 1 + 1 : SubSeq(s, 1, n)[i] = s[1 + i - 1]
  <2>1. 1 \in Int /\ n \in Int
    OBVIOUS
  <2> QED BY <1>1, <2>1, SubSeqProperties
<1>3. /\ (IF 1 <= n THEN n - 1 + 1 ELSE 0) = n
      /\ n - 1 + 1 = n
      /\ \A i \in 1 .. n : 1 + i - 1 = i
  OBVIOUS
<1> QED BY <1>2, <1>3, Zenon

\* A nonempty set of positions has a largest one.
LEMMA MaxOfPositions ==
    ASSUME NEW n \in Nat, NEW P \in SUBSET (1..n), P # {}
    PROVE  Max(P) \in P /\ \A i \in P : i <= Max(P)
<1> DEFINE D == {n - i : i \in P}
<1>1. D \subseteq Nat /\ D # {}
  <2>1. \A i \in P : n - i \in Nat
    OBVIOUS
  <2> QED BY <2>1
<1>2. PICK d \in D : \A e \in D : ~(<<e, d>> \in OpToRel(<, Nat))
  BY <1>1, NatLessThanWellFounded, WFMin, Zenon
<1>3. PICK m \in P : d = n - m
  OBVIOUS
<1>4. \A i \in P : m >= i
  <2> SUFFICES ASSUME NEW i \in P PROVE m >= i
    OBVIOUS
  <2>1. n - i \in D /\ n - i \in Nat /\ d \in Nat
    BY <1>1
  <2>2. ~(n - i < d)
    BY <2>1, <1>2 DEF OpToRel
  <2> QED BY <2>1, <2>2, <1>3
<1> QED BY <1>4 DEF Max

\* A nonempty set of positions has a least one.
LEMMA MinOfPositions ==
    ASSUME NEW n \in Nat, NEW P \in SUBSET (1 .. n), P # {}
    PROVE  Min(P) \in P /\ \A i \in P : Min(P) <= i
<1>1. P \in SUBSET Nat
  OBVIOUS
<1>2. PICK m \in P : \A i \in P : ~(<<i, m>> \in OpToRel(<, Nat))
  BY <1>1, NatLessThanWellFounded, WFMin, Zenon
<1>3. \A i \in P : m <= i
  <2> SUFFICES ASSUME NEW i \in P PROVE m <= i
    OBVIOUS
  <2>1. ~(i < m)
    BY <1>1, <1>2 DEF OpToRel
  <2> QED BY <1>1, <2>1
<1> QED BY <1>3 DEF Min

\* u is t, of p + q elements, with e after the first p of them.
InsertedAfter(u, t, e, p, q) ==
    /\ Len(t) = p + q /\ Len(u) = p + q + 1
    /\ \A k \in 1 .. p : u[k] = t[k]
    /\ u[p + 1] = e
    /\ \A k \in p + 1 .. p + q : u[k + 1] = t[k]

\* Inserting: what comes before keeps its place, the rest moves by one.
LEMMA InsertAtShape ==
    ASSUME NEW S, NEW t \in Seq(S), NEW e \in S, NEW p \in Nat, NEW q \in Nat \ {0},
           Len(t) = p + q
    PROVE  /\ InsertAt(t, p + 1, e) \in Seq(S)
           /\ InsertedAfter(InsertAt(t, p + 1, e), t, e, p, q)
<1> DEFINE before == SubSeq(t, 1, p)
           after  == SubSeq(t, p + 1, p + q)
           front  == before \o << e >>
<1>1. \A k \in 1 .. p + q : t[k] \in S
  BY ElementOfSeq
<1>2. before \in Seq(S) /\ Len(before) = p /\ \A k \in 1 .. p : before[k] = t[k]
  <2>1. p <= p + q
    OBVIOUS
  <2> QED BY <2>1, StackCut
<1>3. after \in Seq(S) /\ Len(after) = q /\ \A k \in 1 .. q : after[k] = t[p + k]
  <2>1. p + 1 \in Int /\ p + q \in Int
    OBVIOUS
  <2>2. \A k \in p + 1 .. p + q : t[k] \in S
    <3>1. \A k \in p + 1 .. p + q : k \in 1 .. p + q
      OBVIOUS
    <3> QED BY <1>1, <3>1
  <2>3. /\ after \in Seq(S)
        /\ Len(after) = IF p + 1 <= p + q THEN p + q - (p + 1) + 1 ELSE 0
        /\ \A k \in 1 .. p + q - (p + 1) + 1 : after[k] = t[p + 1 + k - 1]
    BY <2>1, <2>2, SubSeqProperties
  <2>4. /\ (IF p + 1 <= p + q THEN p + q - (p + 1) + 1 ELSE 0) = q
        /\ p + q - (p + 1) + 1 = q
        /\ \A k \in 1 .. q : p + 1 + k - 1 = p + k
    OBVIOUS
  <2> QED BY <2>3, <2>4, Zenon
<1>4. << e >> \in Seq(S) /\ Len(<< e >>) = 1 /\ << e >>[1] = e
  OBVIOUS
<1> HIDE DEF before, after
<1>5. /\ front \in Seq(S) /\ Len(front) = p + 1
      /\ \A k \in 1 .. p + 1 : front[k] = IF k <= p THEN before[k] ELSE << e >>[k - p]
  BY <1>2, <1>4, ConcatProperties, Zenon
<1> HIDE DEF front
<1>6. /\ front \o after \in Seq(S)
      /\ Len(front \o after) = p + 1 + q
      /\ \A k \in 1 .. p + 1 + q :
            (front \o after)[k] = IF k <= p + 1 THEN front[k] ELSE after[k - (p + 1)]
  <2>1. front \in Seq(S) /\ Len(front) = p + 1
    BY <1>5
  <2>2. after \in Seq(S) /\ Len(after) = q
    BY <1>3
  <2>3. /\ front \o after \in Seq(S)
        /\ Len(front \o after) = Len(front) + Len(after)
        /\ \A k \in 1 .. Len(front) + Len(after) :
               (front \o after)[k] =
                   IF k <= Len(front) THEN front[k] ELSE after[k - Len(front)]
    BY <2>1, <2>2, ConcatProperties, Zenon
  <2> QED BY <2>1, <2>2, <2>3
<1>7. InsertAt(t, p + 1, e) = front \o after
  <2>1. InsertAt(t, p + 1, e) = SubSeq(t, 1, p + 1 - 1) \o << e >> \o SubSeq(t, p + 1, Len(t))
    BY DEF InsertAt
  <2>2. p + 1 - 1 = p
    OBVIOUS
  <2>3. front \o after = SubSeq(t, 1, p) \o << e >> \o SubSeq(t, p + 1, p + q)
    BY DEF front, before, after
  <2>4. SubSeq(t, 1, p + 1 - 1) = SubSeq(t, 1, p)
    BY <2>2
  <2> QED BY <2>1, <2>3, <2>4
<1> DEFINE u == front \o after
<1> HIDE DEF u
<1>8. u \in Seq(S) /\ Len(u) = p + 1 + q
  BY <1>6 DEF u
<1>9. \A k \in 1 .. p + 1 + q : u[k] = IF k <= p + 1 THEN front[k] ELSE after[k - (p + 1)]
  BY <1>6 DEF u
<1>10. ASSUME NEW k \in 1 .. p PROVE u[k] = t[k]
  <2>1. u[k] = front[k]
    BY <1>9
  <2>2. front[k] = before[k]
    BY <1>5
  <2> QED BY <1>2, <2>1, <2>2
<1>11. u[p + 1] = e
  <2>1. u[p + 1] = front[p + 1]
    BY <1>9
  <2>2. front[p + 1] = << e >>[p + 1 - p]
    BY <1>5
  <2>3. p + 1 - p = 1
    OBVIOUS
  <2> QED BY <1>4, <2>1, <2>2, <2>3
<1>12. ASSUME NEW k \in p + 1 .. p + q PROVE u[k + 1] = t[k]
  <2>1. u[k + 1] = after[k + 1 - (p + 1)]
    BY <1>9
  <2>2. PICK j \in 1 .. q : k = p + j
    <3>1. k - p \in 1 .. q /\ k = p + (k - p)
      OBVIOUS
    <3> QED BY <3>1
  <2>3. k + 1 - (p + 1) = j
    BY <2>2
  <2> QED BY <1>3, <2>1, <2>2, <2>3
<1>13. InsertAt(t, p + 1, e) = u
  BY <1>7 DEF u
<1>14. p + 1 + q = p + q + 1
  OBVIOUS
<1>15. InsertedAfter(u, t, e, p, q)
  BY <1>8, <1>10, <1>11, <1>12, <1>14 DEF InsertedAfter
<1> QED BY <1>8, <1>13, <1>15

\* A stack is what is under its top, and its top.
LEMMA StackSplits ==
    ASSUME NEW T, NEW s \in Seq(T), s # << >>
    PROVE  s = Append(Front(s), Last(s))
<1>1. PICK n \in Nat : Len(s) = n + 1
  <2>1. \A k \in Nat \ {0} : k - 1 \in Nat /\ k = (k - 1) + 1
    OBVIOUS
  <2> QED BY <2>1, StackEnds, Zenon
<1>2. Len(s) - 1 = n
  BY <1>1
<1>3. Front(s) = SubSeq(s, 1, n)
  BY <1>2, Zenon DEF Front
<1>4. Front(s) \in Seq(T) /\ Len(Front(s)) = n /\ \A i \in 1 .. n : Front(s)[i] = s[i]
  <2>1. n <= Len(s)
    BY <1>1
  <2> QED BY <1>3, <2>1, StackCut
<1>5. Last(s) \in T /\ Last(s) = s[n + 1]
  BY <1>1, StackEnds, Zenon DEF Last
<1> DEFINE t == Append(Front(s), Last(s))
<1>6. /\ t \in Seq(T) /\ Len(t) = n + 1
      /\ t[n + 1] = s[n + 1] /\ \A i \in 1 .. n : t[i] = s[i]
  BY <1>4, <1>5, StackPush
<1> HIDE DEF t
<1>7. \A i \in 1 .. n + 1 : t[i] = s[i]
  <2>1. \A i \in 1 .. n + 1 : i \in 1 .. n \/ i = n + 1
    OBVIOUS
  <2> QED BY <1>6, <2>1
<1>8. t = s
  BY <1>1, <1>6, <1>7, SeqEqual
<1> QED BY <1>8 DEF t

\* Popping what was pushed.
LEMMA StackPops ==
    ASSUME NEW T, NEW s \in Seq(T), NEW e \in T
    PROVE  Front(Append(s, e)) = s /\ Last(Append(s, e)) = e
<1> DEFINE t == Append(s, e)
<1>1. PICK n \in Nat : Len(s) = n
  BY LenProperties
<1>2. t \in Seq(T) /\ t # << >> /\ Len(t) = n + 1 /\ t[n + 1] = e
      /\ \A i \in 1 .. n : t[i] = s[i]
  BY <1>1, StackPush
<1> HIDE DEF t
<1>3. Last(t) = e
  BY <1>2, Zenon DEF Last
<1>4. Front(t) = SubSeq(t, 1, n)
  <2>1. Len(t) - 1 = n
    BY <1>2
  <2> QED BY <2>1, Zenon DEF Front
<1>5. Front(t) \in Seq(T) /\ Len(Front(t)) = n /\ \A i \in 1 .. n : Front(t)[i] = t[i]
  <2>1. n <= Len(t)
    BY <1>2
  <2> QED BY <1>2, <1>4, <2>1, StackCut
<1>6. \A i \in 1 .. n : Front(t)[i] = s[i]
  BY <1>2, <1>5
<1>7. Front(t) = s
  BY <1>1, <1>5, <1>6, SeqEqual
<1> QED BY <1>3, <1>7 DEF t

=============================================================================

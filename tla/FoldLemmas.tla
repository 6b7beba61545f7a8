----------------------------- MODULE FoldLemmas -----------------------------
(***************************************************************************)
(* What FoldLeft computes.  A module that folds takes these lemmas with    *)
(*     F == INSTANCE FoldLemmas WITH Step <- LAMBDA p, q, acc, x : ...     *)
(* where p and q stand for what the folded operator depends on besides the *)
(* accumulator and the element.                                            *)
(***************************************************************************)
EXTENDS Integers, Sequences, SequencesExt, WellFoundedInduction, TLAPS

CONSTANT Step(_, _, _, _)

Fold(p, q, base, s) == FoldLeft(LAMBDA acc, x : Step(p, q, acc, x), base, s)

-----------------------------------------------------------------------------
(***************************************************************************)
(* Induction over the natural numbers, for sets: a set that has the least  *)
(* numbers of what it lacks has all of them.                               *)
(***************************************************************************)
LEMMA LeastNumber ==
    ASSUME NEW T, T \subseteq Nat, T # {}
    PROVE  \E n \in T : \A m \in T : n <= m
<1> DEFINE R == OpToRel(<, Nat)
<1>1. \A m, n \in Nat : m < n => << m, n >> \in R
  BY DEF OpToRel
<1>2. IsWellFoundedOn(R, Nat)
  BY NatLessThanWellFounded
<1> HIDE DEF R
<1>3. PICK n \in T : \A m \in T : ~(<< m, n >> \in R)
  BY <1>2, WFMin
<1>4. \A m \in T : m \in Nat /\ n \in Nat /\ ~(m < n)
  BY <1>1, <1>3
<1> QED BY <1>4

\* A set that has zero, and the successor of every number it has, has every number.
LEMMA NatInduct ==
    ASSUME NEW T, 0 \in T, \A n \in Nat : n \in T => n + 1 \in T
    PROVE  Nat \subseteq T
<1> SUFFICES ASSUME Nat \ T # {} PROVE FALSE
  OBVIOUS
<1>1. PICK n \in Nat \ T : \A m \in Nat \ T : n <= m
  BY LeastNumber
<1>2. n # 0 /\ n - 1 \in Nat /\ n - 1 < n
  BY <1>1
<1>3. n - 1 \in T
  BY <1>1, <1>2
<1>4. (n - 1) + 1 \in T
  BY <1>2, <1>3
<1> QED BY <1>1, <1>4

-----------------------------------------------------------------------------
(***************************************************************************)
(* FoldLeft works through the set of indices, the greatest first.          *)
(***************************************************************************)
Body(g, p, q, base, s, n) ==
    [t \in SUBSET (1 .. n) |->
        IF t = {} THEN base ELSE Step(p, q, g[t \ {Max(t)}], s[Max(t)])]

\* The greatest of the indices up to n + 1, when n + 1 is one of them.
LEMMA MaxOfRange ==
    ASSUME NEW n \in Nat, NEW t \in SUBSET (1 .. n + 1), n + 1 \in t
    PROVE  Max(t) = n + 1
<1>1. \A y \in t : n + 1 >= y
  OBVIOUS
<1>2. \A x \in t : (\A y \in t : x >= y) => x = n + 1
  OBVIOUS
<1> QED BY <1>1, <1>2 DEF Max

\* The function that FoldLeft chooses exists, for every number of indices.
LEMMA BodyExists ==
    ASSUME NEW p, NEW q, NEW base, NEW s
    PROVE  \A n \in Nat : \E g : g = Body(g, p, q, base, s, n)
<1> DEFINE T == {n \in Nat : \E g : g = Body(g, p, q, base, s, n)}
<1>1. 0 \in T
  <2> DEFINE g == [t \in SUBSET (1 .. 0) |-> base]
  <2>1. \A t \in SUBSET (1 .. 0) : t = {}
    OBVIOUS
  <2>2. g = Body(g, p, q, base, s, 0)
    BY <2>1 DEF Body
  <2> QED BY <2>2
<1>2. ASSUME NEW n \in Nat, n \in T PROVE n + 1 \in T
  <2>1. PICK g : g = Body(g, p, q, base, s, n)
    BY <1>2
  <2> DEFINE h == [t \in SUBSET (1 .. n + 1) |->
                     IF t = {} THEN base
                     ELSE IF n + 1 \in t THEN Step(p, q, g[t \ {n + 1}], s[n + 1])
                     ELSE g[t]]
  <2>2. \A t \in SUBSET (1 .. n) : t \in SUBSET (1 .. n + 1) /\ n + 1 \notin t
    OBVIOUS
  <2>3. \A t \in SUBSET (1 .. n) : g[t] = IF t = {} THEN base
                                           ELSE Step(p, q, g[t \ {Max(t)}], s[Max(t)])
    BY <2>1 DEF Body
  <2>4. \A t \in SUBSET (1 .. n) : h[t] = g[t]
    BY <2>2, <2>3
  <2>5. ASSUME NEW t \in SUBSET (1 .. n + 1)
        PROVE  h[t] = IF t = {} THEN base ELSE Step(p, q, h[t \ {Max(t)}], s[Max(t)])
    <3>1. CASE t = {}
      BY <3>1
    <3>2. CASE t # {} /\ n + 1 \in t
      <4>1. Max(t) = n + 1
        BY <3>2, MaxOfRange
      <4>2. t \ {n + 1} \in SUBSET (1 .. n)
        OBVIOUS
      <4>3. h[t] = Step(p, q, g[t \ {n + 1}], s[n + 1])
        BY <3>2
      <4>4. h[t \ {n + 1}] = g[t \ {n + 1}]
        BY <2>4, <4>2
      <4> HIDE DEF h
      <4> QED BY <3>2, <4>1, <4>3, <4>4
    <3>3. CASE t # {} /\ n + 1 \notin t
      <4>1. t \in SUBSET (1 .. n)
        BY <3>3
      <4>2. t \ {Max(t)} \in SUBSET (1 .. n)
        BY <4>1
      <4> HIDE DEF h
      <4> QED BY <3>3, <2>3, <2>4, <4>1, <4>2
    <3> QED BY <3>1, <3>2, <3>3
  <2>6. h = [t \in SUBSET (1 .. n + 1) |-> h[t]]
    OBVIOUS
  <2> HIDE DEF h
  <2>7. h = Body(h, p, q, base, s, n + 1)
    BY <2>5, <2>6 DEF Body
  <2> QED BY <2>7
<1> HIDE DEF T
<1>3. Nat \subseteq T
  BY <1>1, <1>2, NatInduct
<1> QED BY <1>3 DEF T

(***************************************************************************)
(* The values the fold passes through, one for each prefix of s.           *)
(***************************************************************************)
Passes(f, p, q, base, s, n) ==
    /\ f[0] = base
    /\ \A i \in 1 .. n : f[i] = Step(p, q, f[i - 1], s[i])

\* A fold is the last of the values it passes through.
LEMMA FoldPasses ==
    ASSUME NEW p, NEW q, NEW base, NEW s, NEW n \in Nat, DOMAIN s = 1 .. n
    PROVE  \E f : Passes(f, p, q, base, s, n) /\ Fold(p, q, base, s) = f[n]
<1> DEFINE iter == CHOOSE g : g = Body(g, p, q, base, s, n)
<1>1. Fold(p, q, base, s) = iter[1 .. n]
  BY DEF Fold, FoldLeft, MapThenFoldSet, Body
<1>2. iter = Body(iter, p, q, base, s, n)
  BY BodyExists
<1> HIDE DEF iter
<1> DEFINE f == [i \in 0 .. n |-> iter[1 .. i]]
<1>3. f[0] = base
  <2>1. 1 .. 0 = {} /\ 1 .. 0 \in SUBSET (1 .. n)
    OBVIOUS
  <2> QED BY <1>2, <2>1 DEF Body
<1>4. ASSUME NEW i \in 1 .. n PROVE f[i] = Step(p, q, f[i - 1], s[i])
  <2>1. i - 1 \in Nat /\ (i - 1) + 1 = i /\ i - 1 \in 0 .. n /\ i \in 0 .. n
    OBVIOUS
  <2>2. 1 .. i \in SUBSET (1 .. n) /\ 1 .. i # {}
    OBVIOUS
  <2>3. Max(1 .. i) = i
    <3>1. 1 .. i \in SUBSET (1 .. (i - 1) + 1) /\ (i - 1) + 1 \in 1 .. i
      BY <2>1
    <3>2. Max(1 .. i) = (i - 1) + 1
      BY <2>1, <3>1, MaxOfRange
    <3> QED BY <2>1, <3>2
  <2>4. (1 .. i) \ {i} = 1 .. (i - 1)
    OBVIOUS
  <2>5. iter[1 .. i] = Step(p, q, iter[1 .. (i - 1)], s[i])
    BY <1>2, <2>2, <2>3, <2>4 DEF Body
  <2> QED BY <2>1, <2>5
<1>5. f[n] = iter[1 .. n]
  OBVIOUS
<1> HIDE DEF f
<1> QED BY <1>1, <1>3, <1>4, <1>5 DEF Passes

\* There is one way through the prefixes of s.
LEMMA PassesUnique ==
    ASSUME NEW p, NEW q, NEW base, NEW s, NEW n \in Nat, NEW f, NEW g,
           Passes(f, p, q, base, s, n), Passes(g, p, q, base, s, n)
    PROVE  \A i \in 0 .. n : f[i] = g[i]
<1> DEFINE T == {i \in Nat : i <= n => f[i] = g[i]}
<1>1. 0 \in T
  BY DEF Passes
<1>2. ASSUME NEW i \in Nat, i \in T PROVE i + 1 \in T
  <2>1. CASE i + 1 <= n
    <3>1. i + 1 \in 1 .. n /\ (i + 1) - 1 = i /\ f[i] = g[i]
      BY <1>2, <2>1
    <3> QED BY <3>1 DEF Passes
  <2>2. CASE ~(i + 1 <= n)
    BY <2>2
  <2> QED BY <2>1, <2>2
<1> HIDE DEF T
<1>3. Nat \subseteq T
  BY <1>1, <1>2, NatInduct
<1> QED BY <1>3 DEF T

-----------------------------------------------------------------------------
(***************************************************************************)
(* The lemmas to cite: of no element, of one more element, of one element, *)
(* and what holds of base and of every step.                               *)
(***************************************************************************)
LEMMA FoldEmpty ==
    ASSUME NEW p, NEW q, NEW base
    PROVE  Fold(p, q, base, << >>) = base
<1>1. DOMAIN << >> = 1 .. 0
  OBVIOUS
<1>2. PICK f : Passes(f, p, q, base, << >>, 0) /\ Fold(p, q, base, << >>) = f[0]
  BY <1>1, FoldPasses
<1> QED BY <1>2 DEF Passes

\* A fold over one more element takes one more step.
LEMMA FoldAppend ==
    ASSUME NEW p, NEW q, NEW base, NEW S, NEW s \in Seq(S), NEW x \in S
    PROVE  Fold(p, q, base, Append(s, x)) = Step(p, q, Fold(p, q, base, s), x)
<1>1. PICK n \in Nat : n = Len(s)
  OBVIOUS
<1>2. DOMAIN s = 1 .. n
  BY <1>1
<1> DEFINE t == Append(s, x)
<1>3. DOMAIN t = 1 .. n + 1 /\ t[n + 1] = x /\ \A i \in 1 .. n : t[i] = s[i]
  BY <1>1
<1> HIDE DEF t
<1>4. PICK f : Passes(f, p, q, base, s, n) /\ Fold(p, q, base, s) = f[n]
  BY <1>2, FoldPasses
<1>5. PICK g : Passes(g, p, q, base, t, n + 1) /\ Fold(p, q, base, t) = g[n + 1]
  BY <1>3, FoldPasses
<1>6. Passes(g, p, q, base, s, n)
  BY <1>3, <1>5 DEF Passes
<1>7. n \in 0 .. n
  BY <1>1
<1>8. f[n] = g[n]
  BY <1>4, <1>6, <1>7, PassesUnique
<1>9. n + 1 \in 1 .. n + 1 /\ (n + 1) - 1 = n
  BY <1>1
<1>10. g[n + 1] = Step(p, q, g[n], x)
  BY <1>3, <1>5, <1>9 DEF Passes
<1> QED BY <1>4, <1>5, <1>8, <1>10 DEF t

\* What holds before the first step, and after a step when it held before it, holds of the fold:
\* I[i] is what is said of the accumulator after i steps.
LEMMA FoldFollows ==
    ASSUME NEW p, NEW q, NEW base, NEW s, NEW n \in Nat, DOMAIN s = 1 .. n, NEW I,
           base \in I[0],
           \A i \in 1 .. n : \A acc \in I[i - 1] : Step(p, q, acc, s[i]) \in I[i]
    PROVE  Fold(p, q, base, s) \in I[n]
<1>1. PICK f : Passes(f, p, q, base, s, n) /\ Fold(p, q, base, s) = f[n]
  BY FoldPasses
<1> DEFINE T == {i \in Nat : i <= n => f[i] \in I[i]}
<1>2. 0 \in T
  BY <1>1 DEF Passes
<1>3. ASSUME NEW i \in Nat, i \in T PROVE i + 1 \in T
  <2>1. CASE i + 1 <= n
    <3>1. i + 1 \in 1 .. n /\ (i + 1) - 1 = i /\ f[i] \in I[i]
      BY <1>3, <2>1
    <3> QED BY <1>1, <3>1 DEF Passes
  <2>2. CASE ~(i + 1 <= n)
    BY <2>2
  <2> QED BY <2>1, <2>2
<1> HIDE DEF T
<1>4. Nat \subseteq T
  BY <1>2, <1>3, NatInduct
<1> QED BY <1>1, <1>4 DEF T

\* The same, when it is one and the same set all the way.
LEMMA FoldKeeps ==
    ASSUME NEW p, NEW q, NEW base, NEW s, NEW n \in Nat, DOMAIN s = 1 .. n, NEW I,
           base \in I,
           \A i \in 1 .. n : \A acc \in I : Step(p, q, acc, s[i]) \in I
    PROVE  Fold(p, q, base, s) \in I
<1> DEFINE J == [i \in 0 .. n |-> I]
<1>1. base \in J[0] /\ \A i \in 1 .. n : \A acc \in J[i - 1] : Step(p, q, acc, s[i]) \in J[i]
  OBVIOUS
<1>2. J[n] = I
  OBVIOUS
<1> HIDE DEF J
<1> QED BY <1>1, <1>2, FoldFollows

=============================================================================

-------------------------- MODULE OpEmitterProofs ---------------------------
(***************************************************************************)
(* The methods of OpEmitter do to the machine's stack what they do to the  *)
(* operand stack, for operands of one to four elements, whatever elements  *)
(* each of them stands for and whatever is on the machine's stack below.   *)
(*                                                                         *)
(* A stack is seen as a concatenation of pieces, Flat lists the elements   *)
(* of its operands, Leads says what a sequence of instructions makes of    *)
(* the machine's stack, and Faithful is the set of emitters whose two      *)
(* stacks agree: every method leads from Faithful to Faithful.             *)
(***************************************************************************)
EXTENDS OpEmitter, SequenceTheorems, TLAPS

-----------------------------------------------------------------------------
(* Pieces of stacks, and what the moves make of them.                      *)

\* A concatenation, with the lengths of its parts named.
LEMMA Joined ==
    ASSUME NEW S, NEW a \in Seq(S), NEW b \in Seq(S), NEW n \in Nat, NEW m \in Nat,
           Len(a) = n, Len(b) = m
    PROVE  /\ a \o b \in Seq(S) /\ Len(a \o b) = n + m
           /\ \A i \in 1 .. n + m : (a \o b)[i] = IF i <= n THEN a[i] ELSE b[i - n]
BY ConcatProperties

\* A sequence of one element.
LEMMA Single ==
    ASSUME NEW S, NEW x \in S
    PROVE  << x >> \in Seq(S) /\ Len(<< x >>) = 1 /\ << x >>[1] = x
OBVIOUS

\* The two parts of a concatenation.
LEMMA Parts ==
    ASSUME NEW S, NEW a \in Seq(S), NEW b \in Seq(S), NEW n \in Nat, Len(a) = n
    PROVE  /\ a \o b \in Seq(S)
           /\ SubSeq(a \o b, 1, n) = a
           /\ SubSeq(a \o b, n + 1, Len(a \o b)) = b
           /\ Len(a \o b) = n + Len(b)
<1> DEFINE s == a \o b
<1>1. PICK m \in Nat : m = Len(b)
  BY LenProperties
<1>2. /\ s \in Seq(S) /\ Len(s) = n + m
      /\ \A i \in 1 .. n + m : s[i] = IF i <= n THEN a[i] ELSE b[i - n]
  BY <1>1, ConcatProperties
<1> HIDE DEF s
<1>3. \A i \in 1 .. n + m : s[i] \in S
  BY <1>2, ElementOfSeq
<1>4. SubSeq(s, 1, n) = a
  <2>1. \A i \in 1 .. n : s[i] \in S
    BY <1>3
  <2>2. /\ SubSeq(s, 1, n) \in Seq(S)
        /\ Len(SubSeq(s, 1, n)) = n
        /\ \A i \in 1 .. n - 1 + 1 : SubSeq(s, 1, n)[i] = s[1 + i - 1]
    BY <2>1, SubSeqProperties
  <2>3. \A i \in 1 .. n : SubSeq(s, 1, n)[i] = a[i]
    BY <1>2, <2>2
  <2> QED BY <2>2, <2>3, SeqEqual
<1>5. SubSeq(s, n + 1, n + m) = b
  <2>1. \A i \in n + 1 .. n + m : s[i] \in S
    BY <1>3
  <2>2. /\ SubSeq(s, n + 1, n + m) \in Seq(S)
        /\ Len(SubSeq(s, n + 1, n + m)) = m
        /\ \A i \in 1 .. (n + m) - (n + 1) + 1 : SubSeq(s, n + 1, n + m)[i] = s[(n + 1) + i - 1]
    BY <2>1, SubSeqProperties
  <2>3. \A i \in 1 .. m : SubSeq(s, n + 1, n + m)[i] = b[i]
    <3> SUFFICES ASSUME NEW i \in 1 .. m PROVE SubSeq(s, n + 1, n + m)[i] = b[i]
      OBVIOUS
    <3>1. SubSeq(s, n + 1, n + m)[i] = s[n + i]
      BY <2>2
    <3>2. n + i \in 1 .. n + m /\ ~(n + i <= n) /\ (n + i) - n = i
      OBVIOUS
    <3> QED BY <1>2, <3>1, <3>2
  <2> QED BY <1>1, <2>2, <2>3, SeqEqual
<1> QED BY <1>1, <1>2, <1>4, <1>5 DEF s

\* A sequence can be cut anywhere.
LEMMA Cut ==
    ASSUME NEW S, NEW s \in Seq(S), NEW n \in Nat, NEW m \in Nat, Len(s) = m, n <= m
    PROVE  /\ s = SubSeq(s, 1, n) \o SubSeq(s, n + 1, m)
           /\ SubSeq(s, 1, n) \in Seq(S) /\ Len(SubSeq(s, 1, n)) = n
           /\ SubSeq(s, n + 1, m) \in Seq(S) /\ Len(SubSeq(s, n + 1, m)) = m - n
<1>1. \A i \in 1 .. m : s[i] \in S
  BY ElementOfSeq
<1>2. SubSeq(s, 1, n) \in Seq(S) /\ Len(SubSeq(s, 1, n)) = n
  <2>1. \A i \in 1 .. n : s[i] \in S
    BY <1>1
  <2> QED BY <2>1, SubSeqProperties
<1>3. SubSeq(s, n + 1, m) \in Seq(S) /\ Len(SubSeq(s, n + 1, m)) = m - n
  <2>1. \A i \in n + 1 .. m : s[i] \in S
    BY <1>1
  <2> QED BY <2>1, SubSeqProperties
<1>4. SubSeq(s, 1, n) \o SubSeq(s, n + 1, m) = SubSeq(s, 1, m)
  BY ConcatAdjacentSubSeq
<1>5. SubSeq(s, 1, m) = s
  BY SubSeqFull
<1> QED BY <1>2, <1>3, <1>4, <1>5

\* A stack in three pieces, and the same with the second piece on top.
Between(S, a, x, b, v) ==
    a \in Seq(S) /\ x \in S /\ b \in Seq(S) /\ v = a \o (<< x >> \o b)
Above(S, a, x, b, v) ==
    a \in Seq(S) /\ x \in S /\ b \in Seq(S) /\ v = << x >> \o (a \o b)
OnTopOf(S, x, v, w) ==
    x \in S /\ v \in Seq(S) /\ w = << x >> \o v

\* And one of its elements taken out.
LEMMA CutAt ==
    ASSUME NEW S, NEW s \in Seq(S), NEW n \in Nat, NEW m \in Nat, Len(s) = m, n < m
    PROVE  /\ Between(S, SubSeq(s, 1, n), s[n + 1], SubSeq(s, n + 2, m), s)
           /\ Len(SubSeq(s, 1, n)) = n
<1>1. PICK k \in Nat : k = n + 1 /\ k <= m /\ n <= m
  OBVIOUS
<1>2. /\ s = SubSeq(s, 1, n) \o SubSeq(s, n + 1, m)
      /\ SubSeq(s, 1, n) \in Seq(S) /\ Len(SubSeq(s, 1, n)) = n
  BY <1>1, Cut
<1>3. SubSeq(s, k + 1, m) \in Seq(S) /\ Len(SubSeq(s, k + 1, m)) = m - k
  BY <1>1, Cut
<1>4. k + 1 = n + 2
  BY <1>1
<1>5. k \in 1 .. Len(s) /\ m \in k .. Len(s)
  BY <1>1
<1>6. SubSeq(s, k, m) = << s[k] >> \o SubSeq(s, k + 1, m)
  BY <1>5, SubSeqRecursiveFirst
<1>7. s[k] \in S
  BY <1>5, ElementOfSeq
<1> QED BY <1>1, <1>2, <1>3, <1>4, <1>6, <1>7 DEF Between

\* The element after the first piece.
LEMMA After ==
    ASSUME NEW S, NEW a \in Seq(S), NEW x \in S, NEW b \in Seq(S), NEW n \in Nat, Len(a) = n
    PROVE  /\ a \o (<< x >> \o b) \in Seq(S)
           /\ (a \o (<< x >> \o b))[n + 1] = x
           /\ Len(a \o (<< x >> \o b)) = n + (1 + Len(b))
           /\ SubSeq(a \o (<< x >> \o b), 1, n) = a
           /\ SubSeq(a \o (<< x >> \o b), n + 2, Len(a \o (<< x >> \o b))) = b
<1>1. PICK m \in Nat : m = Len(b)
  BY LenProperties
<1>2. << x >> \in Seq(S) /\ Len(<< x >>) = 1 /\ << x >>[1] = x
  BY Single
<1>3. PICK t : t = << x >> \o b
  OBVIOUS
<1>4. t \in Seq(S) /\ Len(t) = 1 + m /\ t[1] = x
  <2>1. /\ << x >> \o b \in Seq(S) /\ Len(<< x >> \o b) = 1 + m
        /\ \A i \in 1 .. 1 + m : (<< x >> \o b)[i] = IF i <= 1 THEN << x >>[i] ELSE b[i - 1]
    BY <1>1, <1>2, Joined
  <2>2. 1 \in 1 .. 1 + m
    OBVIOUS
  <2> QED BY <1>2, <1>3, <2>1, <2>2
<1>5. a \o << x >> \in Seq(S) /\ Len(a \o << x >>) = n + 1
  BY <1>2, Joined
<1>6. (a \o << x >>) \o b = a \o t
  BY <1>2, <1>3, ConcatAssociative
<1>7. /\ a \o t \in Seq(S) /\ Len(a \o t) = n + (1 + m)
      /\ \A i \in 1 .. n + (1 + m) : (a \o t)[i] = IF i <= n THEN a[i] ELSE t[i - n]
  <2>1. PICK k \in Nat : k = 1 + m
    OBVIOUS
  <2> QED BY <1>4, <2>1, Joined
<1>8. (a \o t)[n + 1] = x
  <2>1. n + 1 \in 1 .. n + (1 + m) /\ ~(n + 1 <= n) /\ (n + 1) - n = 1
    OBVIOUS
  <2> QED BY <1>4, <1>7, <2>1
<1>9. SubSeq(a \o t, 1, n) = a
  BY <1>4, Parts
<1>10. SubSeq(a \o t, n + 2, Len(a \o t)) = b
  <2>1. PICK k \in Nat : k = n + 1
    OBVIOUS
  <2>2. SubSeq((a \o << x >>) \o b, k + 1, Len((a \o << x >>) \o b)) = b
    BY <1>5, <2>1, Parts
  <2>3. k + 1 = n + 2
    BY <2>1
  <2> QED BY <1>6, <2>2, <2>3
<1> QED BY <1>1, <1>3, <1>7, <1>8, <1>9, <1>10

\* An element put before a sequence is its head, and the sequence is its tail.
LEMMA HeadAndRest ==
    ASSUME NEW S, NEW x \in S, NEW b \in Seq(S)
    PROVE  /\ << x >> \o b \in Seq(S) /\ << x >> \o b # << >>
           /\ Head(<< x >> \o b) = x /\ Tail(<< x >> \o b) = b
           /\ (<< x >> \o b)[1] = x
           /\ Len(<< x >> \o b) = Len(b) + 1
<1>1. PICK m \in Nat : m = Len(b)
  BY LenProperties
<1> DEFINE s == << x >> \o b
<1>2. /\ s \in Seq(S) /\ Len(s) = m + 1
      /\ \A i \in 1 .. 1 + m : s[i] = IF i <= 1 THEN << x >>[i] ELSE b[i - 1]
  BY <1>1, Single, ConcatProperties
<1> HIDE DEF s
<1>3. s # << >> /\ s[1] = x
  BY <1>2
<1>4. Head(s) = x
  BY <1>2, <1>3
<1>5. Tail(s) = b
  <2>1. /\ Tail(s) \in Seq(S) /\ Len(Tail(s)) = m
        /\ \A i \in 1 .. m : Tail(s)[i] = s[i + 1]
    BY <1>2, <1>3, HeadTailProperties
  <2>2. \A i \in 1 .. m : Tail(s)[i] = b[i]
    BY <1>2, <2>1
  <2> QED BY <1>1, <2>1, <2>2, SeqEqual
<1> QED BY <1>1, <1>2, <1>3, <1>4, <1>5 DEF s

\* The same of a named concatenation, part by part.
Joins(S, a, n, b, m, w) ==
    /\ a \in Seq(S) /\ n \in Nat /\ Len(a) = n
    /\ b \in Seq(S) /\ m \in Nat /\ Len(b) = m
    /\ w = a \o b

\* It is as long as the two together, and its elements are theirs.
LEMMA JoinedParts ==
    ASSUME NEW S, NEW a, NEW n, NEW b, NEW m, NEW w, Joins(S, a, n, b, m, w)
    PROVE  /\ w \in Seq(S) /\ Len(w) = n + m
           /\ \A i \in 1 .. n : w[i] = a[i]
           /\ \A i \in 1 .. m : w[n + i] = b[i]
<1>1. /\ a \in Seq(S) /\ n \in Nat /\ Len(a) = n
      /\ b \in Seq(S) /\ m \in Nat /\ Len(b) = m /\ w = a \o b
  BY DEF Joins
<1>2. /\ w \in Seq(S) /\ Len(w) = n + m
      /\ \A i \in 1 .. n + m : w[i] = IF i <= n THEN a[i] ELSE b[i - n]
  BY <1>1, ConcatProperties
<1>3. n \in Nat /\ m \in Nat
  BY DEF Joins
<1>4. \A i \in 1 .. m : n + i \in 1 .. n + m /\ ~(n + i <= n) /\ (n + i) - n = i
  BY <1>3
<1> QED BY <1>2, <1>3, <1>4

\* Where the elements of a stack in four pieces are.
InFour(S, u, a, n, v, b, m, w) ==
    /\ u \in S /\ v \in S
    /\ a \in Seq(S) /\ n \in Nat /\ Len(a) = n
    /\ b \in Seq(S) /\ m \in Nat /\ Len(b) = m
    /\ w = << u >> \o (a \o (<< v >> \o b))

\* The position of each piece, and of each element in it.
LEMMA FourPieces ==
    ASSUME NEW S, NEW u, NEW a, NEW n, NEW v, NEW b, NEW m, NEW w, InFour(S, u, a, n, v, b, m, w)
    PROVE  /\ w \in Seq(S) /\ Len(w) = 1 + (n + (1 + m))
           /\ w[1] = u
           /\ \A i \in 1 .. n : w[1 + i] = a[i]
           /\ w[1 + (n + 1)] = v
           /\ \A i \in 1 .. m : w[1 + (n + (1 + i))] = b[i]
<1>1. /\ a \in Seq(S) /\ n \in Nat /\ Len(a) = n
      /\ b \in Seq(S) /\ m \in Nat /\ Len(b) = m
      /\ u \in S /\ v \in S
  BY DEF InFour
<1>2. PICK o : o = 1
  OBVIOUS
<1>3. PICK su : su = << u >>
  OBVIOUS
<1>4. PICK sv : sv = << v >>
  OBVIOUS
<1>5. PICK r : r = sv \o b
  OBVIOUS
<1>6. PICK q : q = a \o r
  OBVIOUS
<1>7. w = su \o q
  BY <1>3, <1>4, <1>5, <1>6 DEF InFour
<1>8. /\ su \in Seq(S) /\ sv \in Seq(S) /\ o \in Nat
      /\ Len(su) = o /\ Len(sv) = o /\ su[1] = u /\ sv[1] = v
  BY <1>1, <1>2, <1>3, <1>4, Single
<1>9. /\ r \in Seq(S) /\ Len(r) = o + m
      /\ \A i \in 1 .. o : r[i] = sv[i]
      /\ \A i \in 1 .. m : r[o + i] = b[i]
  <2>1. Joins(S, sv, o, b, m, r)
    BY <1>1, <1>5, <1>8 DEF Joins
  <2> QED BY <2>1, JoinedParts
<1>10. PICK k : k = o + m
  OBVIOUS
<1>11. k \in Nat /\ Len(r) = k
  BY <1>1, <1>2, <1>9, <1>10
<1>12. /\ q \in Seq(S) /\ Len(q) = n + k
       /\ \A i \in 1 .. n : q[i] = a[i]
       /\ \A i \in 1 .. k : q[n + i] = r[i]
  <2>1. Joins(S, a, n, r, k, q)
    BY <1>1, <1>6, <1>9, <1>11 DEF Joins
  <2> QED BY <2>1, JoinedParts
<1>13. PICK j : j = n + k
  OBVIOUS
<1>14. j \in Nat /\ Len(q) = j
  BY <1>1, <1>11, <1>12, <1>13
<1>15. /\ w \in Seq(S) /\ Len(w) = o + j
       /\ \A i \in 1 .. o : w[i] = su[i]
       /\ \A i \in 1 .. j : w[o + i] = q[i]
  <2>1. Joins(S, su, o, q, j, w)
    BY <1>7, <1>8, <1>12, <1>14 DEF Joins
  <2> QED BY <2>1, JoinedParts
<1>16. w[1] = u
  BY <1>2, <1>8, <1>15
<1>17. \A i \in 1 .. n : w[1 + i] = a[i]
  BY <1>1, <1>2, <1>11, <1>12, <1>13, <1>15
<1>18. w[1 + (n + 1)] = v
  <2>1. w[1 + (n + 1)] = q[n + 1]
    <3>1. n + 1 \in 1 .. j
      BY <1>1, <1>2, <1>10, <1>13
    <3> QED BY <1>1, <1>2, <1>15, <3>1
  <2>2. q[n + 1] = r[1]
    <3>1. 1 \in 1 .. k
      BY <1>1, <1>2, <1>10
    <3> QED BY <1>1, <1>12, <3>1
  <2>3. r[1] = v
    BY <1>2, <1>8, <1>9
  <2> QED BY <2>1, <2>2, <2>3
<1>19. ASSUME NEW i \in 1 .. m PROVE w[1 + (n + (1 + i))] = b[i]
  <2>1. w[1 + (n + (1 + i))] = q[n + (1 + i)]
    <3>1. n + (1 + i) \in 1 .. j
      BY <1>1, <1>2, <1>10, <1>13
    <3> QED BY <1>1, <1>2, <1>15, <3>1
  <2>2. q[n + (1 + i)] = r[1 + i]
    <3>1. 1 + i \in 1 .. k
      BY <1>1, <1>2, <1>10
    <3> QED BY <1>1, <1>12, <3>1
  <2>3. r[1 + i] = b[i]
    BY <1>1, <1>2, <1>9
  <2> QED BY <2>1, <2>2, <2>3
<1> QED BY <1>1, <1>2, <1>10, <1>13, <1>15, <1>16, <1>17, <1>18, <1>19

\* Such a stack with its first and third piece exchanged is what SwapTop makes of it.
LEMMA SwapPieces ==
    ASSUME NEW S, NEW x, NEW a, NEW n, NEW y, NEW b, NEW m, NEW s, NEW t,
           InFour(S, x, a, n, y, b, m, s), InFour(S, y, a, n, x, b, m, t)
    PROVE  SwapTop(s, n + 1) = t
<1>1. n \in Nat /\ m \in Nat /\ x \in S /\ y \in S
  BY DEF InFour
<1>2. /\ s \in Seq(S) /\ Len(s) = 1 + (n + (1 + m))
      /\ s[1] = x
      /\ \A i \in 1 .. n : s[1 + i] = a[i]
      /\ s[1 + (n + 1)] = y
      /\ \A i \in 1 .. m : s[1 + (n + (1 + i))] = b[i]
  BY FourPieces
<1>3. /\ t \in Seq(S) /\ Len(t) = 1 + (n + (1 + m))
      /\ t[1] = y
      /\ \A i \in 1 .. n : t[1 + i] = a[i]
      /\ t[1 + (n + 1)] = x
      /\ \A i \in 1 .. m : t[1 + (n + (1 + i))] = b[i]
  BY FourPieces
<1>4. PICK k : k = 1 + (n + (1 + m))
  OBVIOUS
<1>5. /\ k \in Nat /\ s \in [1 .. k -> S] /\ DOMAIN s = 1 .. k
      /\ t \in [1 .. k -> S] /\ DOMAIN t = 1 .. k
  BY <1>1, <1>2, <1>3, <1>4, LenProperties
<1>6. 1 + (n + 1) = (n + 1) + 1
  BY <1>1
<1>7. SwapTop(s, n + 1) = [s EXCEPT ![1] = y, ![1 + (n + 1)] = x]
  BY <1>2, <1>6 DEF SwapTop, Nth
<1>8. \A i \in 1 .. k : i # 1 /\ i # 1 + (n + 1) => SwapTop(s, n + 1)[i] = s[i]
  BY <1>5, <1>7
<1>9. SwapTop(s, n + 1) \in [1 .. k -> S] /\ DOMAIN SwapTop(s, n + 1) = 1 .. k
  BY <1>1, <1>5, <1>7
<1>10. ASSUME NEW i \in 1 .. k PROVE SwapTop(s, n + 1)[i] = t[i]
  <2>1. CASE i = 1
    BY <2>1, <1>1, <1>3, <1>4, <1>5, <1>7
  <2>2. CASE i = 1 + (n + 1)
    BY <2>2, <1>1, <1>3, <1>4, <1>5, <1>7
  <2>3. CASE i \in 2 .. 1 + n
    <3>1. PICK e \in 1 .. n : i = 1 + e
      BY <2>3, <1>1
    <3>2. s[i] = t[i]
      BY <1>2, <1>3, <3>1
    <3>3. SwapTop(s, n + 1)[i] = s[i]
      BY <1>1, <1>8, <2>3
    <3> QED BY <3>2, <3>3
  <2>4. CASE i \in 1 + (n + 2) .. k
    <3>1. PICK e \in 1 .. m : i = 1 + (n + (1 + e))
      BY <2>4, <1>1, <1>4
    <3>2. s[i] = t[i]
      BY <1>2, <1>3, <3>1
    <3>3. SwapTop(s, n + 1)[i] = s[i]
      BY <1>1, <1>8, <2>4
    <3> QED BY <3>2, <3>3
  <2> QED BY <2>1, <2>2, <2>3, <2>4, <1>1, <1>4
<1>11. SwapTop(s, n + 1) = t
  BY <1>5, <1>9, <1>10
<1> QED BY <1>11

\* What is left without the first piece.
LEMMA WithoutShape ==
    ASSUME NEW S, NEW a \in Seq(S), NEW b \in Seq(S)
    PROVE  Without(a \o b, Len(a)) = b
<1> PICK n \in Nat : n = Len(a)
  BY LenProperties
<1>1. SubSeq(a \o b, n + 1, Len(a \o b)) = b
  BY Parts
<1> QED BY <1>1 DEF Without

-----------------------------------------------------------------------------
(* The same, of named stacks.                                              *)

\* DupTop puts a copy of the middle piece on top.
LEMMA DupOf ==
    ASSUME NEW S, NEW a, NEW x, NEW b, NEW v, NEW w, NEW n,
           Between(S, a, x, b, v), OnTopOf(S, x, v, w), n = Len(a)
    PROVE  DupTop(v, n) = w
<1>1. a \in Seq(S) /\ x \in S /\ b \in Seq(S) /\ n \in Nat
  BY LenProperties DEF Between
<1>2. v = a \o (<< x >> \o b) /\ w = << x >> \o v
  BY DEF Between, OnTopOf
<1>3. v[n + 1] = x
  <2>1. (a \o (<< x >> \o b))[n + 1] = x
    BY <1>1, After
  <2> QED BY <1>2, <2>1, Zenon
<1> QED BY <1>2, <1>3 DEF DupTop, Nth

\* MoveUp takes the middle piece to the top.
LEMMA MoveUpOf ==
    ASSUME NEW S, NEW a, NEW x, NEW b, NEW v, NEW w, NEW n,
           Between(S, a, x, b, v), Above(S, a, x, b, w), n = Len(a)
    PROVE  MoveUp(v, n) = w
<1>1. a \in Seq(S) /\ x \in S /\ b \in Seq(S) /\ n \in Nat
  BY LenProperties DEF Between
<1>2. v = a \o (<< x >> \o b) /\ w = << x >> \o (a \o b)
  BY DEF Between, Above
<1>3. v[n + 1] = x /\ SubSeq(v, 1, n) = a /\ SubSeq(v, n + 2, Len(v)) = b
  <2>1. (a \o (<< x >> \o b))[n + 1] = x
    BY <1>1, After
  <2>2. SubSeq(a \o (<< x >> \o b), 1, n) = a
    BY <1>1, After
  <2>3. SubSeq(a \o (<< x >> \o b), n + 2, Len(a \o (<< x >> \o b))) = b
    BY <1>1, After
  <2> QED BY <1>2, <2>1, <2>2, <2>3, Zenon
<1>4. (n + 1) - 1 = n /\ (n + 1) + 1 = n + 2
  BY <1>1
<1>5. RemoveAt(v, n + 1) = a \o b
  BY <1>3, <1>4 DEF RemoveAt
<1> QED BY <1>2, <1>3, <1>5 DEF MoveUp, Nth

\* MoveDown takes the top back to the middle.
LEMMA MoveDownOf ==
    ASSUME NEW S, NEW a, NEW x, NEW b, NEW v, NEW w, NEW n,
           Between(S, a, x, b, v), Above(S, a, x, b, w), n = Len(a)
    PROVE  MoveDown(w, n) = v
<1>1. a \in Seq(S) /\ x \in S /\ b \in Seq(S) /\ n \in Nat
  BY LenProperties DEF Between
<1>2. v = a \o (<< x >> \o b) /\ w = << x >> \o (a \o b)
  BY DEF Between, Above
<1>3. PICK t : t = a \o b
  OBVIOUS
<1>4. t \in Seq(S) /\ SubSeq(t, 1, n) = a /\ SubSeq(t, n + 1, Len(t)) = b
  BY <1>1, <1>3, Parts
<1>5. Head(<< x >> \o t) = x /\ Tail(<< x >> \o t) = t
  BY <1>1, <1>4, HeadAndRest
<1>6. (n + 1) - 1 = n
  BY <1>1
<1>7. MoveDown(w, n) = InsertAt(t, n + 1, x)
  BY <1>2, <1>3, <1>5 DEF MoveDown
<1>8. InsertAt(t, n + 1, x) = a \o << x >> \o b
  BY <1>4, <1>6 DEF InsertAt
<1>9. a \o << x >> \o b = a \o (<< x >> \o b)
  BY <1>1, Single, ConcatAssociative
<1> QED BY <1>2, <1>7, <1>8, <1>9

X == INSTANCE FoldLemmas WITH Step <- LAMBDA p, q, e, op : Execute(e, op)
F == INSTANCE FoldLemmas WITH Step <- LAMBDA p, q, es, operand : es \o p[operand]
R == INSTANCE FoldLemmas WITH Step <- LAMBDA p, q, sum, operand : sum + operand.size

Flat(M, s) == FoldLeft(LAMBDA es, operand : es \o M[operand], << >>, s)

-----------------------------------------------------------------------------
\* Flat, RawLen and Emit are folds, to which the lemmas of FoldLemmas apply.
LEMMA FlatIsFold ==
    ASSUME NEW M, NEW s
    PROVE  Flat(M, s) = F!Fold(M, 0, << >>, s)
BY DEF Flat, F!Fold, FoldLeft, MapThenFoldSet, F!FoldLeft, F!MapThenFoldSet, Max, F!Max

\* The length of a stack in elements.
LEMMA RawLenIsFold ==
    ASSUME NEW s
    PROVE  RawLen(s) = R!Fold(0, 0, 0, s)
BY DEF RawLen, R!Fold, FoldLeft, MapThenFoldSet, R!FoldLeft, R!MapThenFoldSet, Max, R!Max

\* Instructions are emitted one after the other.
LEMMA EmitIsFold ==
    ASSUME NEW e, NEW ops
    PROVE  Emit(e, ops) = X!Fold(0, 0, e, ops)
BY DEF Emit, X!Fold, FoldLeft, MapThenFoldSet, X!FoldLeft, X!MapThenFoldSet, Max, X!Max

\* A set of sequences that has the empty one, and each that is one longer than one it has, has
\* them all.
LEMMA SeqInduct ==
    ASSUME NEW S, NEW T, << >> \in T,
           \A s \in Seq(S) : \A x \in S : s \in T => Append(s, x) \in T
    PROVE  \A s \in Seq(S) : s \in T
<1> DEFINE N == {n \in Nat : \A s \in Seq(S) : Len(s) = n => s \in T}
<1>1. 0 \in N
  <2>1. \A s \in Seq(S) : Len(s) = 0 => s = << >>
    BY EmptySeq
  <2> QED BY <2>1
<1>2. ASSUME NEW n \in Nat, n \in N PROVE n + 1 \in N
  <2>1. ASSUME NEW s \in Seq(S), Len(s) = n + 1 PROVE s \in T
    <3>1. s # << >>
      BY <2>1, EmptySeq
    <3>2. PICK t \in Seq(S), x \in S : s = Append(t, x)
      BY <3>1, SequenceEmptyOrAppend
    <3>3. PICK m \in Nat : m = Len(t)
      BY LenProperties
    <3>4. Len(s) = m + 1
      BY <3>2, <3>3, AppendProperties
    <3>5. m = n
      BY <2>1, <3>4
    <3>6. t \in T
      BY <1>2, <3>3, <3>5
    <3> QED BY <3>2, <3>6
  <2> QED BY <2>1
<1> HIDE DEF N
<1>3. Nat \subseteq N
  BY <1>1, <1>2, X!NatInduct
<1>4. ASSUME NEW s \in Seq(S) PROVE s \in T
  <2>1. Len(s) \in N
    BY <1>3, LenProperties
  <2> QED BY <2>1 DEF N
<1> QED BY <1>4

-----------------------------------------------------------------------------
(* What a stack of operands stands for, when an operand o of O stands for  *)
(* the elements M[o], of S.                                                *)
Expands(M, O, S) ==
    /\ M \in [O -> Seq(S)]
    /\ \A o \in O : o.size \in 1 .. WordSize /\ Len(M[o]) = o.size

\* No operands, no elements.
LEMMA FlatEmpty == ASSUME NEW M PROVE Flat(M, << >>) = << >>
BY FlatIsFold, F!FoldEmpty

\* One more operand at the bottom, and its elements after the others.
LEMMA FlatAppend ==
    ASSUME NEW M, NEW O, NEW s \in Seq(O), NEW o \in O
    PROVE  Flat(M, Append(s, o)) = Flat(M, s) \o M[o]
<1>1. F!Fold(M, 0, << >>, Append(s, o)) = F!Fold(M, 0, << >>, s) \o M[o]
  BY F!FoldAppend
<1> QED BY <1>1, FlatIsFold

\* No operands are no elements long.
LEMMA RawLenEmpty == RawLen(<< >>) = 0
BY RawLenIsFold, R!FoldEmpty

\* One more operand is as much longer as its size.
LEMMA RawLenAppend ==
    ASSUME NEW O, NEW s \in Seq(O), NEW o \in O
    PROVE  RawLen(Append(s, o)) = RawLen(s) + o.size
<1>1. R!Fold(0, 0, 0, Append(s, o)) = R!Fold(0, 0, 0, s) + o.size
  BY R!FoldAppend
<1> QED BY <1>1, RawLenIsFold

\* A stack of operands is as long, in elements, as RawLen says.
LEMMA FlatType ==
    ASSUME NEW M, NEW O, NEW S, Expands(M, O, S), NEW s \in Seq(O)
    PROVE  /\ Flat(M, s) \in Seq(S)
           /\ RawLen(s) \in Nat
           /\ Len(Flat(M, s)) = RawLen(s)
<1> DEFINE T == {t \in Seq(O) : \E f \in Seq(S) : \E n \in Nat :
                                    f = Flat(M, t) /\ n = RawLen(t) /\ n = Len(f)}
<1>1. << >> \in T
  <2>1. Flat(M, << >>) = << >> /\ RawLen(<< >>) = 0
    BY FlatEmpty, RawLenEmpty
  <2>2. << >> \in Seq(O) /\ << >> \in Seq(S) /\ Len(<< >>) = 0 /\ 0 \in Nat
    BY EmptySeq
  <2> QED BY <2>1, <2>2
<1>2. ASSUME NEW t \in Seq(O), NEW o \in O, t \in T PROVE Append(t, o) \in T
  <2>1. Append(t, o) \in Seq(O)
    BY AppendProperties
  <2>2. PICK f \in Seq(S), n \in Nat : f = Flat(M, t) /\ n = RawLen(t) /\ n = Len(f)
    BY <1>2
  <2>3. PICK g \in Seq(S), m \in Nat : g = M[o] /\ m = o.size /\ m = Len(g)
    BY DEF Expands, WordSize
  <2>4. f \o g \in Seq(S) /\ Len(f \o g) = n + m /\ n + m \in Nat
    BY <2>2, <2>3, ConcatProperties
  <2>5. Flat(M, Append(t, o)) = f \o g /\ RawLen(Append(t, o)) = n + m
    BY <2>2, <2>3, FlatAppend, RawLenAppend
  <2> QED BY <2>1, <2>4, <2>5
<1> HIDE DEF T
<1>3. s \in T
  BY <1>1, <1>2, SeqInduct
<1> QED BY <1>3 DEF T

\* The elements of two stacks, one on the other.
LEMMA FlatConcat ==
    ASSUME NEW M, NEW O, NEW S, Expands(M, O, S), NEW a \in Seq(O), NEW b \in Seq(O)
    PROVE  Flat(M, a \o b) = Flat(M, a) \o Flat(M, b)
<1> DEFINE T == {t \in Seq(O) : Flat(M, a \o t) = Flat(M, a) \o Flat(M, t)}
<1>1. Flat(M, a) \in Seq(S)
  BY FlatType
<1>2. << >> \in T
  <2>1. a \o << >> = a /\ Flat(M, a) \o << >> = Flat(M, a)
    BY <1>1, ConcatEmptySeq
  <2> QED BY <2>1, FlatEmpty, EmptySeq
<1>3. ASSUME NEW t \in Seq(O), NEW o \in O, t \in T PROVE Append(t, o) \in T
  <2>1. Append(t, o) \in Seq(O) /\ a \o t \in Seq(O)
    BY AppendProperties, ConcatProperties
  <2>2. M[o] \in Seq(S)
    BY DEF Expands
  <2>3. Flat(M, t) \in Seq(S)
    BY FlatType
  <2>4. a \o Append(t, o) = Append(a \o t, o)
    <3>1. Append(t, o) = t \o << o >> /\ Append(a \o t, o) = (a \o t) \o << o >>
      BY <2>1, AppendIsConcat
    <3> QED BY <3>1, Single, ConcatAssociative
  <2>5. Flat(M, Append(a \o t, o)) = Flat(M, a \o t) \o M[o]
    BY <2>1, FlatAppend
  <2>6. Flat(M, a \o t) = Flat(M, a) \o Flat(M, t)
    BY <1>3
  <2>7. (Flat(M, a) \o Flat(M, t)) \o M[o] = Flat(M, a) \o (Flat(M, t) \o M[o])
    <3>1. PICK x : x = Flat(M, a)
      OBVIOUS
    <3>2. PICK y : y = Flat(M, t)
      OBVIOUS
    <3>3. PICK z : z = M[o]
      OBVIOUS
    <3>4. x \in Seq(S) /\ y \in Seq(S) /\ z \in Seq(S)
      BY <1>1, <2>2, <2>3, <3>1, <3>2, <3>3
    <3>5. (x \o y) \o z = x \o (y \o z)
      BY <3>4, ConcatAssociative
    <3> QED BY <3>1, <3>2, <3>3, <3>5
  <2>8. Flat(M, Append(t, o)) = Flat(M, t) \o M[o]
    BY FlatAppend
  <2> QED BY <2>1, <2>4, <2>5, <2>6, <2>7, <2>8
<1> HIDE DEF T
<1>4. b \in T
  BY <1>2, <1>3, SeqInduct
<1> QED BY <1>4 DEF T

\* The elements of a stack of one operand.
LEMMA FlatSingle ==
    ASSUME NEW M, NEW O, NEW S, Expands(M, O, S), NEW o \in O
    PROVE  Flat(M, << o >>) = M[o]
<1>1. << o >> = Append(<< >>, o)
  OBVIOUS
<1>2. Flat(M, Append(<< >>, o)) = Flat(M, << >>) \o M[o]
  BY EmptySeq, FlatAppend
<1>3. M[o] \in Seq(S)
  BY DEF Expands
<1> QED BY <1>1, <1>2, <1>3, FlatEmpty, ConcatEmptySeq

-----------------------------------------------------------------------------
(* Emitted instructions, and what they make of the machine's stack.        *)
Instr == [name : {"dup", "swap", "movup", "movdn", "drop", "dropw"}, at : Nat]

Emitters(O, S) == [stack : Seq(O), code : Seq(Instr), vm : Seq(S),
                   outcome : {"ok", "panic", "fault"}, far : BOOLEAN]

Steps(S, op, x, y) == /\ x \in Seq(S) /\ y \in Seq(S) /\ op \in Instr
                      /\ Runnable(op, x) /\ Run(op, x) = y

\* One after the other, the instructions ops lead from x to y.
Path(S, ops, n, f) == /\ ops \in Seq(Instr) /\ Len(ops) = n
                      /\ \A k \in 1 .. n : Steps(S, ops[k], f[k - 1], f[k])

Leads(S, ops, x, y) ==
    \E n \in Nat : \E f : Path(S, ops, n, f) /\ f[0] = x /\ f[n] = y

\* No instructions lead nowhere.
LEMMA LeadsNowhere == ASSUME NEW S, NEW x PROVE Leads(S, << >>, x, x)
<1> DEFINE f == [k \in {0} |-> x]
<1>1. 0 \in Nat /\ f[0] = x
  OBVIOUS
<1>2. Path(S, << >>, 0, f)
  BY EmptySeq DEF Path
<1> QED BY <1>1, <1>2 DEF Leads

\* A single instruction leads as far as it steps.
LEMMA LeadsOne ==
    ASSUME NEW S, NEW op, NEW x, NEW y, Steps(S, op, x, y)
    PROVE  Leads(S, << op >>, x, y)
<1> DEFINE f == [k \in {0, 1} |-> IF k = 0 THEN x ELSE y]
<1>1. f[0] = x /\ f[1] = y
  OBVIOUS
<1> HIDE DEF f
<1>2. << op >> \in Seq(Instr) /\ Len(<< op >>) = 1 /\ << op >>[1] = op
  BY Single DEF Steps
<1>3. \A k \in 1 .. 1 : k = 1 /\ k - 1 = 0
  OBVIOUS
<1>4. Path(S, << op >>, 1, f)
  BY <1>1, <1>2, <1>3 DEF Path
<1> QED BY <1>1, <1>4 DEF Leads

\* Instructions that lead on from where others led to.
LEMMA LeadsOn ==
    ASSUME NEW S, NEW ops, NEW more, NEW x, NEW y, NEW z,
           Leads(S, ops, x, y), Leads(S, more, y, z)
    PROVE  Leads(S, ops \o more, x, z)
<1>1. PICK n \in Nat : \E f : Path(S, ops, n, f) /\ f[0] = x /\ f[n] = y
  BY DEF Leads
<1>2. PICK f : Path(S, ops, n, f) /\ f[0] = x /\ f[n] = y
  BY <1>1
<1>3. PICK m \in Nat : \E g : Path(S, more, m, g) /\ g[0] = y /\ g[m] = z
  BY DEF Leads
<1>4. PICK g : Path(S, more, m, g) /\ g[0] = y /\ g[m] = z
  BY <1>3
<1> DEFINE h == [k \in 0 .. n + m |-> IF k <= n THEN f[k] ELSE g[k - n]]
           all == ops \o more
<1>5. /\ ops \in Seq(Instr) /\ Len(ops) = n
      /\ more \in Seq(Instr) /\ Len(more) = m
  BY <1>2, <1>4 DEF Path
<1>6. /\ all \in Seq(Instr) /\ Len(all) = n + m
      /\ \A i \in 1 .. n + m : all[i] = IF i <= n THEN ops[i] ELSE more[i - n]
  BY <1>5, ConcatProperties
<1> HIDE DEF all
<1>7. h[0] = x /\ h[n + m] = z
  <2>1. CASE m = 0
    BY <2>1, <1>2, <1>4
  <2>2. CASE m > 0
    BY <2>2, <1>2, <1>4
  <2> QED BY <2>1, <2>2
<1>8. ASSUME NEW k \in 1 .. n + m PROVE Steps(S, all[k], h[k - 1], h[k])
  <2>1. CASE k <= n
    <3>1. k \in 1 .. n /\ h[k] = f[k] /\ h[k - 1] = f[k - 1] /\ all[k] = ops[k]
      BY <1>6, <2>1
    <3>2. Steps(S, ops[k], f[k - 1], f[k])
      BY <1>2, <3>1 DEF Path
    <3> QED BY <3>1, <3>2
  <2>2. CASE k > n
    <3>1. PICK i \in 1 .. m : k = n + i /\ k - n = i
      BY <2>2
    <3>2. h[k] = g[i] /\ all[k] = more[i]
      BY <1>6, <2>2, <3>1
    <3>3. h[k - 1] = g[i - 1]
      <4>1. CASE i = 1
        BY <4>1, <3>1, <1>2, <1>4
      <4>2. CASE i > 1
        BY <4>2, <3>1
      <4> QED BY <4>1, <4>2
    <3>4. Steps(S, more[i], g[i - 1], g[i])
      BY <1>4, <3>1 DEF Path
    <3> QED BY <3>2, <3>3, <3>4
  <2> QED BY <2>1, <2>2
<1> HIDE DEF h
<1>9. Path(S, all, n + m, h)
  BY <1>6, <1>8 DEF Path
<1>10. n + m \in Nat
  OBVIOUS
<1> QED BY <1>7, <1>9, <1>10 DEF Leads, all

\* What is emitted is run.
LEMMA EmitLeads ==
    ASSUME NEW O, NEW S, NEW e \in Emitters(O, S), e.outcome = "ok", NEW ops, NEW y,
           Leads(S, ops, e.vm, y)
    PROVE  /\ Emit(e, ops) \in Emitters(O, S)
           /\ Emit(e, ops).outcome = "ok"
           /\ Emit(e, ops).stack = e.stack
           /\ Emit(e, ops).vm = y
<1>1. PICK n \in Nat : \E f : Path(S, ops, n, f) /\ f[0] = e.vm /\ f[n] = y
  BY DEF Leads
<1>2. PICK f : Path(S, ops, n, f) /\ f[0] = e.vm /\ f[n] = y
  BY <1>1
<1> DEFINE At(k) == {acc \in Emitters(O, S) :
                        acc.outcome = "ok" /\ acc.stack = e.stack /\ acc.vm = f[k]}
           I == [k \in 0 .. n |-> At(k)]
<1>3. ops \in Seq(Instr) /\ DOMAIN ops = 1 .. n
  BY <1>2, LenProperties DEF Path
<1>4. e \in I[0]
  BY <1>2
<1>5. ASSUME NEW k \in 1 .. n, NEW acc \in I[k - 1] PROVE Execute(acc, ops[k]) \in I[k]
  <2>1. acc \in Emitters(O, S) /\ acc.outcome = "ok" /\ acc.stack = e.stack /\ acc.vm = f[k - 1]
    BY <1>5
  <2>2. Steps(S, ops[k], f[k - 1], f[k])
    BY <1>2 DEF Path
  <2>3. PICK op \in Instr : op = ops[k]
    BY <2>2 DEF Steps
  <2>4. PICK v \in Seq(S) : v = f[k]
    BY <2>2 DEF Steps
  <2>5. Runnable(op, acc.vm) /\ Run(op, acc.vm) = v
    BY <2>1, <2>2, <2>3, <2>4 DEF Steps
  <2>6. Execute(acc, op) = [acc EXCEPT !.vm = v, !.far = acc.far \/ op.at >= Reach,
                                       !.code = Append(@, op)]
    BY <2>1, <2>5 DEF Execute
  <2>7. Append(acc.code, op) \in Seq(Instr)
    BY <2>1, AppendProperties DEF Emitters
  <2>8. /\ Execute(acc, op) \in Emitters(O, S)
        /\ Execute(acc, op).outcome = "ok" /\ Execute(acc, op).stack = e.stack
        /\ Execute(acc, op).vm = v
    BY <2>1, <2>6, <2>7 DEF Emitters
  <2> QED BY <2>3, <2>4, <2>8
<1> HIDE DEF I
<1>6. X!Fold(0, 0, e, ops) \in I[n]
  BY <1>3, <1>4, <1>5, X!FoldFollows
<1>7. Emit(e, ops) \in At(n)
  BY <1>6, EmitIsFold DEF I
<1> QED BY <1>2, <1>7

-----------------------------------------------------------------------------
(* The same instruction several times over.                                *)
LEMMA CopiesType ==
    ASSUME NEW n \in Nat, NEW op \in Instr
    PROVE  /\ Copies(n, op) \in Seq(Instr) /\ Len(Copies(n, op)) = n
           /\ \A k \in 1 .. n : Copies(n, op)[k] = op
BY DEF Copies

\* No copies of an instruction.
LEMMA NoCopies == ASSUME NEW op PROVE Copies(0, op) = << >>
BY DEF Copies

\* Copies followed by copies.
LEMMA CopiesJoin ==
    ASSUME NEW n \in Nat, NEW m \in Nat, NEW op \in Instr
    PROVE  Copies(n, op) \o Copies(m, op) = Copies(n + m, op)
<1>1. PICK a \in Seq(Instr) : a = Copies(n, op) /\ Len(a) = n /\ \A k \in 1 .. n : a[k] = op
  BY CopiesType
<1>2. PICK b \in Seq(Instr) : b = Copies(m, op) /\ Len(b) = m /\ \A k \in 1 .. m : b[k] = op
  BY CopiesType
<1>3. PICK k \in Nat : k = n + m
  OBVIOUS
<1>4. PICK c \in Seq(Instr) : c = Copies(k, op) /\ Len(c) = k /\ \A i \in 1 .. k : c[i] = op
  BY CopiesType
<1>5. /\ a \o b \in Seq(Instr) /\ Len(a \o b) = n + m
      /\ \A i \in 1 .. n + m : (a \o b)[i] = IF i <= n THEN a[i] ELSE b[i - n]
  <2>1. Len(a) = n /\ Len(b) = m
    BY <1>1, <1>2
  <2> QED BY <2>1, ConcatProperties
<1>6. \A i \in 1 .. k : (a \o b)[i] = op
  BY <1>1, <1>2, <1>3, <1>5
<1>7. a \o b = c
  BY <1>3, <1>4, <1>5, <1>6, SeqEqual
<1> QED BY <1>1, <1>2, <1>3, <1>4, <1>7

\* One copy of an instruction.
LEMMA OneCopy == ASSUME NEW op \in Instr PROVE Copies(1, op) = << op >>
BY DEF Copies

\* One more copy, run first.
LEMMA CopiesFirst ==
    ASSUME NEW S, NEW n \in Nat, NEW op, NEW x, NEW y, NEW z,
           Steps(S, op, x, y), Leads(S, Copies(n, op), y, z)
    PROVE  Leads(S, Copies(n + 1, op), x, z)
<1>1. op \in Instr /\ 1 \in Nat /\ 1 + n = n + 1
  BY DEF Steps
<1>2. << op >> \o Copies(n, op) = Copies(n + 1, op)
  BY <1>1, OneCopy, CopiesJoin
<1>3. Leads(S, << op >>, x, y)
  BY LeadsOne
<1> QED BY <1>2, <1>3, LeadsOn

\* One more copy, run last.
LEMMA CopiesLast ==
    ASSUME NEW S, NEW n \in Nat, NEW op, NEW x, NEW y, NEW z,
           Leads(S, Copies(n, op), x, y), Steps(S, op, y, z)
    PROVE  Leads(S, Copies(n + 1, op), x, z)
<1>1. op \in Instr /\ 1 \in Nat
  BY DEF Steps
<1>2. Copies(n, op) \o << op >> = Copies(n + 1, op)
  BY <1>1, OneCopy, CopiesJoin
<1>3. Leads(S, << op >>, y, z)
  BY LeadsOne
<1> QED BY <1>2, <1>3, LeadsOn

-----------------------------------------------------------------------------
(* Single instructions, on a stack in pieces.                              *)

\* There are enough elements.
LEMMA LongEnough ==
    ASSUME NEW S, NEW a \in Seq(S), NEW x \in S, NEW b \in Seq(S), NEW n \in Nat, Len(a) = n
    PROVE  /\ a \o (<< x >> \o b) \in Seq(S)
           /\ n < Len(a \o (<< x >> \o b))
<1>1. PICK m \in Nat : m = Len(b)
  BY LenProperties
<1>2. PICK k \in Nat : k = n + (1 + m)
  OBVIOUS
<1>3. a \o (<< x >> \o b) \in Seq(S) /\ Len(a \o (<< x >> \o b)) = k
  BY <1>1, <1>2, After
<1> QED BY <1>2, <1>3

\* dup.n copies the element below the first n.
LEMMA StepDup ==
    ASSUME NEW S, NEW a \in Seq(S), NEW x \in S, NEW b \in Seq(S), NEW n \in Nat, Len(a) = n,
           n < Reach
    PROVE  Steps(S, Op("dup", n), a \o (<< x >> \o b), << x >> \o (a \o (<< x >> \o b)))
<1> DEFINE v == a \o (<< x >> \o b)
<1>1. v \in Seq(S) /\ n < Len(v)
  BY LongEnough
<1>2. DupTop(v, n) = << x >> \o v
  <2>1. Between(S, a, x, b, v)
    BY DEF Between
  <2>2. PICK u : u = << x >> \o v
    OBVIOUS
  <2>3. OnTopOf(S, x, v, u)
    BY <1>1, <2>2 DEF OnTopOf
  <2>4. DupTop(v, n) = u
    BY <2>1, <2>3, DupOf
  <2> QED BY <2>2, <2>4
<1> HIDE DEF v
<1>3. << x >> \o v \in Seq(S)
  BY <1>1, HeadAndRest
<1>4. Steps(S, Op("dup", n), v, << x >> \o v)
  BY <1>1, <1>2, <1>3 DEF Steps, Op, Instr, Runnable, Run
<1> QED BY <1>4 DEF v

\* movup.n moves the element below the first n to the top.
LEMMA StepMovup ==
    ASSUME NEW S, NEW a \in Seq(S), NEW x \in S, NEW b \in Seq(S), NEW n \in Nat \ {0}, Len(a) = n
    PROVE  Steps(S, Op("movup", n), a \o (<< x >> \o b), << x >> \o (a \o b))
<1> DEFINE v == a \o (<< x >> \o b)
           w == << x >> \o (a \o b)
<1>1. v \in Seq(S) /\ n < Len(v)
  BY LongEnough
<1>2. MoveUp(v, n) = w
  <2>1. Between(S, a, x, b, v) /\ Above(S, a, x, b, w)
    BY DEF Between, Above
  <2> HIDE DEF v, w
  <2> QED BY <2>1, MoveUpOf
<1>3. w \in Seq(S)
  BY ConcatProperties, HeadAndRest
<1> HIDE DEF v, w
<1>4. Steps(S, Op("movup", n), v, w)
  BY <1>1, <1>2, <1>3 DEF Steps, Op, Instr, Runnable, Run, CanMove
<1> QED BY <1>4 DEF v, w

\* movdn.n moves the top element below the next n.
LEMMA StepMovdn ==
    ASSUME NEW S, NEW a \in Seq(S), NEW x \in S, NEW b \in Seq(S), NEW n \in Nat \ {0}, Len(a) = n
    PROVE  Steps(S, Op("movdn", n), << x >> \o (a \o b), a \o (<< x >> \o b))
<1> DEFINE v == a \o (<< x >> \o b)
           w == << x >> \o (a \o b)
<1>1. v \in Seq(S)
  BY LongEnough
<1>2. MoveDown(w, n) = v
  <2>1. Between(S, a, x, b, v) /\ Above(S, a, x, b, w)
    BY DEF Between, Above
  <2> HIDE DEF v, w
  <2> QED BY <2>1, MoveDownOf
<1>3. w \in Seq(S) /\ n < Len(w)
  <2>1. PICK m \in Nat : m = Len(b)
    BY LenProperties
  <2>2. PICK t : t = a \o b
    OBVIOUS
  <2>3. t \in Seq(S) /\ Len(t) = n + m
    BY <2>1, <2>2, ConcatProperties
  <2>4. PICK k \in Nat : k = n + m
    OBVIOUS
  <2>5. Len(t) = k
    BY <2>3, <2>4
  <2>6. << x >> \o t \in Seq(S) /\ Len(<< x >> \o t) = k + 1
    BY <2>3, <2>5, HeadAndRest
  <2> QED BY <2>2, <2>4, <2>6
<1> HIDE DEF v, w
<1>4. Steps(S, Op("movdn", n), w, v)
  BY <1>1, <1>2, <1>3 DEF Steps, Op, Instr, Runnable, Run, CanMove
<1> QED BY <1>4 DEF v, w

\* swap.n exchanges the top element with the one n below it.
LEMMA StepSwap ==
    ASSUME NEW S, NEW x \in S, NEW a \in Seq(S), NEW y \in S, NEW b \in Seq(S),
           NEW n \in Nat, Len(a) = n
    PROVE  Steps(S, Op("swap", n + 1), << x >> \o (a \o (<< y >> \o b)),
                                       << y >> \o (a \o (<< x >> \o b)))
<1> DEFINE v == << x >> \o (a \o (<< y >> \o b))
           w == << y >> \o (a \o (<< x >> \o b))
<1>1. PICK m \in Nat : m = Len(b)
  BY LenProperties
<1>2. SwapTop(v, n + 1) = w
  <2>1. InFour(S, x, a, n, y, b, m, v) /\ InFour(S, y, a, n, x, b, m, w)
    BY <1>1 DEF InFour
  <2> HIDE DEF v, w
  <2> QED BY <2>1, SwapPieces
<1>3. PICK k \in Nat : k = n + (1 + m)
  OBVIOUS
<1>4. ASSUME NEW t \in S, NEW u \in S
      PROVE  /\ << t >> \o (a \o (<< u >> \o b)) \in Seq(S)
             /\ Len(<< t >> \o (a \o (<< u >> \o b))) = k + 1
  <2>1. a \o (<< u >> \o b) \in Seq(S) /\ Len(a \o (<< u >> \o b)) = k
    BY <1>1, <1>3, After
  <2>2. PICK r \in Seq(S) : r = a \o (<< u >> \o b) /\ Len(r) = k
    BY <2>1
  <2>3. << t >> \o r \in Seq(S) /\ Len(<< t >> \o r) = k + 1
    BY <2>2, HeadAndRest
  <2> QED BY <2>2, <2>3
<1>5. v \in Seq(S) /\ w \in Seq(S) /\ Len(v) = k + 1
  BY <1>4
<1> HIDE DEF v, w
<1>6. n + 1 # 0 /\ n + 1 < k + 1 /\ n + 1 \in Nat
  BY <1>3
<1>7. CanMove(v, n + 1)
  BY <1>5, <1>6 DEF CanMove
<1>8. Steps(S, Op("swap", n + 1), v, w)
  BY <1>2, <1>5, <1>6, <1>7 DEF Steps, Op, Instr, Runnable, Run
<1> QED BY <1>8 DEF v, w

\* drop takes the top element off.
LEMMA StepDrop ==
    ASSUME NEW S, NEW x \in S, NEW b \in Seq(S)
    PROVE  Steps(S, Op("drop", 0), << x >> \o b, b)
<1> DEFINE v == << x >> \o b
<1>1. PICK m \in Nat : m = Len(b)
  BY LenProperties
<1>2. v \in Seq(S) /\ Len(v) = m + 1
  BY <1>1, HeadAndRest
<1>3. Without(v, 1) = b
  BY Single, WithoutShape
<1> HIDE DEF v
<1>4. Steps(S, Op("drop", 0), v, b)
  BY <1>2, <1>3 DEF Steps, Op, Instr, Runnable, Run
<1> QED BY <1>4 DEF v

\* dropw takes the word on top off.
LEMMA StepDropw ==
    ASSUME NEW S, NEW a \in Seq(S), NEW b \in Seq(S), Len(a) = WordSize
    PROVE  Steps(S, Op("dropw", 0), a \o b, b)
<1> DEFINE v == a \o b
<1>1. PICK m \in Nat : m = Len(b)
  BY LenProperties
<1>2. PICK w \in Nat : w = WordSize /\ Len(a) = w
  BY DEF WordSize
<1>3. v \in Seq(S) /\ Len(v) = w + m
  BY <1>1, <1>2, Joined
<1>4. Without(v, w) = b
  BY <1>2, WithoutShape
<1> HIDE DEF v
<1>5. Steps(S, Op("dropw", 0), v, b)
  BY <1>2, <1>3, <1>4 DEF Steps, Op, Instr, Runnable, Run
<1> QED BY <1>5 DEF v

-----------------------------------------------------------------------------
(* Operands of several elements.                                           *)

\* Four pieces, the middle ones together or apart.
InParts(S, a, b, c, d, v, w) ==
    /\ a \in Seq(S) /\ b \in Seq(S) /\ c \in Seq(S) /\ d \in Seq(S)
    /\ v = a \o ((b \o c) \o d) /\ w = (a \o b) \o (c \o d)

\* It is the same stack.
LEMMA Four ==
    ASSUME NEW S, NEW a, NEW b, NEW c, NEW d, NEW v, NEW w, InParts(S, a, b, c, d, v, w)
    PROVE  v = w
<1>1. a \in Seq(S) /\ b \in Seq(S) /\ c \in Seq(S) /\ d \in Seq(S) 
  BY DEF InParts
<1>2. b \o c \in Seq(S) /\ c \o d \in Seq(S)
  BY <1>1, ConcatProperties
<1>3. (b \o c) \o d = b \o (c \o d)
  BY <1>1, ConcatAssociative
<1>4. (a \o b) \o (c \o d) = a \o (b \o (c \o d))
  BY <1>1, <1>2, ConcatAssociative
<1> QED BY <1>1, <1>3, <1>4 DEF InParts

\* The length of two pieces.
Pair(S, a, n, b, m, k, w) ==
    /\ a \in Seq(S) /\ n \in Nat /\ Len(a) = n
    /\ b \in Seq(S) /\ m \in Nat /\ Len(b) = m
    /\ k = n + m /\ w = a \o b

\* It is as long as the two together.
LEMMA PairLength ==
    ASSUME NEW S, NEW a, NEW n, NEW b, NEW m, NEW k, NEW w, Pair(S, a, n, b, m, k, w)
    PROVE  w \in Seq(S) /\ k \in Nat /\ Len(w) = k
<1>1. Joins(S, a, n, b, m, w) /\ k = n + m /\ n \in Nat /\ m \in Nat
  BY DEF Pair, Joins
<1>2. w \in Seq(S) /\ Len(w) = n + m
  BY <1>1, JoinedParts
<1> QED BY <1>1, <1>2

\* A sequence cut in two.
Halves(S, s, n, m) == \E a, b : /\ a \in Seq(S) /\ b \in Seq(S) /\ s = a \o b
                                /\ Len(a) = n /\ Len(b) = m - n

\* At any position.
LEMMA CutInTwo ==
    ASSUME NEW S, NEW s \in Seq(S), NEW n \in Nat, NEW m \in Nat, Len(s) = m, n <= m
    PROVE  Halves(S, s, n, m)
<1>1. PICK a : a = SubSeq(s, 1, n)
  OBVIOUS
<1>2. PICK b : b = SubSeq(s, n + 1, m)
  OBVIOUS
<1>3. /\ s = SubSeq(s, 1, n) \o SubSeq(s, n + 1, m)
      /\ SubSeq(s, 1, n) \in Seq(S) /\ Len(SubSeq(s, 1, n)) = n
      /\ SubSeq(s, n + 1, m) \in Seq(S) /\ Len(SubSeq(s, n + 1, m)) = m - n
  BY Cut
<1> QED BY <1>1, <1>2, <1>3 DEF Halves

\* The operand at `at` of a stack is brought to the top, element by element.
Rises(S, x) ==
    \A a \in Seq(S), b \in Seq(S), at \in Nat \ {0} :
        Len(a) + Len(x) = at + 1 =>
            Leads(S, Copies(Len(x), Op("movup", at)), a \o (x \o b), x \o (a \o b))

\* As many movup as the operand has elements, one index for all of them.
LEMMA CopiesMovup == ASSUME NEW S PROVE \A x \in Seq(S) : Rises(S, x)
<1> DEFINE T == {x \in Seq(S) : Rises(S, x)}
<1>1. << >> \in T
  <2>1. << >> \in Seq(S) /\ Len(<< >>) = 0
    BY EmptySeq
  <2>2. ASSUME NEW a \in Seq(S), NEW b \in Seq(S), NEW at \in Nat
        PROVE  Leads(S, Copies(Len(<< >>), Op("movup", at)), a \o (<< >> \o b), << >> \o (a \o b))
    <3>1. PICK w : w = a \o b
      OBVIOUS
    <3>2. w \in Seq(S)
      BY <3>1, ConcatProperties
    <3>3. << >> \o b = b /\ << >> \o w = w
      BY <3>2, ConcatEmptySeq
    <3>4. Leads(S, << >>, w, w)
      BY LeadsNowhere
    <3>5. Copies(Len(<< >>), Op("movup", at)) = << >>
      BY <2>1, NoCopies
    <3> QED BY <3>1, <3>3, <3>4, <3>5
  <2> QED BY <2>1, <2>2 DEF Rises
<1>2. ASSUME NEW x \in Seq(S), NEW y \in S, x \in T PROVE Append(x, y) \in T
  <2>1. PICK q : q = << y >>
    OBVIOUS
  <2>2. q \in Seq(S) /\ Len(q) = 1
    BY <2>1, Single
  <2>3. PICK n \in Nat : n = Len(x)
    BY LenProperties
  <2>4. Append(x, y) = x \o q /\ Append(x, y) \in Seq(S) /\ Len(Append(x, y)) = n + 1
    BY <2>1, <2>3, AppendIsConcat, AppendProperties
  <2>5. ASSUME NEW a \in Seq(S), NEW b \in Seq(S), NEW at \in Nat \ {0},
               Len(a) + Len(Append(x, y)) = at + 1
        PROVE  Leads(S, Copies(Len(Append(x, y)), Op("movup", at)), a \o (Append(x, y) \o b),
                     Append(x, y) \o (a \o b))
    <3>1. PICK l \in Nat : l = Len(a)
      BY LenProperties
    <3>2. l + (n + 1) = at + 1
      BY <2>4, <2>5, <3>1
    <3>3. PICK qa : qa = q \o a
      OBVIOUS
    <3>4. qa \in Seq(S) /\ Len(qa) = l + 1
      <4>1. Pair(S, q, 1, a, l, 1 + l, qa)
        BY <2>2, <3>1, <3>3 DEF Pair
      <4> QED BY <4>1, PairLength
    <3>5. PICK ax : ax = a \o x
      OBVIOUS
    <3>6. ax \in Seq(S) /\ Len(ax) = at
      <4>1. Pair(S, a, l, x, n, at, ax)
        BY <2>3, <3>1, <3>2, <3>5 DEF Pair
      <4> QED BY <4>1, PairLength
    <3>7. Steps(S, Op("movup", at), ax \o (q \o b), q \o (ax \o b))
      BY <2>1, <3>6, StepMovup
    <3>8. a \o ((x \o q) \o b) = ax \o (q \o b)
      <4>1. InParts(S, a, x, q, b, a \o ((x \o q) \o b), ax \o (q \o b))
        BY <2>2, <3>5 DEF InParts
      <4> QED BY <4>1, Four
    <3>9. q \o (ax \o b) = qa \o (x \o b)
      <4>1. InParts(S, q, a, x, b, q \o (ax \o b), qa \o (x \o b))
        BY <2>2, <3>3, <3>5 DEF InParts
      <4> QED BY <4>1, Four
    <3>10. x \o (qa \o b) = (x \o q) \o (a \o b)
      <4>1. InParts(S, x, q, a, b, x \o (qa \o b), (x \o q) \o (a \o b))
        BY <2>2, <3>3 DEF InParts
      <4> QED BY <4>1, Four
    <3>11. Leads(S, Copies(n, Op("movup", at)), qa \o (x \o b), x \o (qa \o b))
      <4>1. Len(qa) + Len(x) = at + 1
        BY <2>3, <3>2, <3>4
      <4> QED BY <1>2, <2>3, <3>4, <4>1 DEF Rises
    <3>12. Leads(S, Copies(n + 1, Op("movup", at)), ax \o (q \o b), x \o (qa \o b))
      <4>1. Steps(S, Op("movup", at), ax \o (q \o b), qa \o (x \o b))
        BY <3>7, <3>9
      <4> QED BY <3>11, <4>1, CopiesFirst
    <3> QED BY <2>4, <3>8, <3>10, <3>12
  <2> QED BY <2>4, <2>5 DEF Rises
<1> HIDE DEF T
<1>3. \A x \in Seq(S) : x \in T
  BY <1>1, <1>2, SeqInduct
<1> QED BY <1>3 DEF T

\* The top operand is put below, element by element.
Sinks(S, x) ==
    \A c \in Seq(S), d \in Seq(S), at \in Nat \ {0} :
        Len(c) + Len(x) = at + 1 =>
            Leads(S, Copies(Len(x), Op("movdn", at)), x \o (c \o d), c \o (x \o d))

\* As many movdn as the operand has elements.
LEMMA CopiesMovdn == ASSUME NEW S PROVE \A x \in Seq(S) : Sinks(S, x)
<1> DEFINE T == {x \in Seq(S) : Sinks(S, x)}
<1>1. << >> \in T
  <2>1. << >> \in Seq(S) /\ Len(<< >>) = 0
    BY EmptySeq
  <2>2. ASSUME NEW a \in Seq(S), NEW b \in Seq(S), NEW at \in Nat
        PROVE  Leads(S, Copies(Len(<< >>), Op("movdn", at)), << >> \o (a \o b), a \o (<< >> \o b))
    <3>1. PICK w : w = a \o b
      OBVIOUS
    <3>2. w \in Seq(S)
      BY <3>1, ConcatProperties
    <3>3. << >> \o b = b /\ << >> \o w = w
      BY <3>2, ConcatEmptySeq
    <3>4. Leads(S, << >>, w, w)
      BY LeadsNowhere
    <3>5. Copies(Len(<< >>), Op("movdn", at)) = << >>
      BY <2>1, NoCopies
    <3> QED BY <3>1, <3>3, <3>4, <3>5
  <2> QED BY <2>1, <2>2 DEF Sinks
<1>2. ASSUME NEW x \in Seq(S), NEW y \in S, x \in T PROVE Append(x, y) \in T
  <2>1. PICK q : q = << y >>
    OBVIOUS
  <2>2. q \in Seq(S) /\ Len(q) = 1
    BY <2>1, Single
  <2>3. PICK n \in Nat : n = Len(x)
    BY LenProperties
  <2>4. Append(x, y) = x \o q /\ Append(x, y) \in Seq(S) /\ Len(Append(x, y)) = n + 1
    BY <2>1, <2>3, AppendIsConcat, AppendProperties
  <2>5. ASSUME NEW c \in Seq(S), NEW d \in Seq(S), NEW at \in Nat \ {0},
               Len(c) + Len(Append(x, y)) = at + 1
        PROVE  Leads(S, Copies(Len(Append(x, y)), Op("movdn", at)), Append(x, y) \o (c \o d),
                     c \o (Append(x, y) \o d))
    <3>1. PICK l \in Nat : l = Len(c)
      BY LenProperties
    <3>2. l + (n + 1) = at + 1
      BY <2>4, <2>5, <3>1
    <3>3. PICK qc : qc = q \o c
      OBVIOUS
    <3>4. qc \in Seq(S) /\ Len(qc) = l + 1
      <4>1. Pair(S, q, 1, c, l, 1 + l, qc)
        BY <2>2, <3>1, <3>3 DEF Pair
      <4> QED BY <4>1, PairLength
    <3>5. PICK cx : cx = c \o x
      OBVIOUS
    <3>6. cx \in Seq(S) /\ Len(cx) = at
      <4>1. Pair(S, c, l, x, n, at, cx)
        BY <2>3, <3>1, <3>2, <3>5 DEF Pair
      <4> QED BY <4>1, PairLength
    <3>7. Steps(S, Op("movdn", at), q \o (cx \o d), cx \o (q \o d))
      BY <2>1, <3>6, StepMovdn
    <3>8. (x \o q) \o (c \o d) = x \o (qc \o d)
      <4>1. InParts(S, x, q, c, d, x \o (qc \o d), (x \o q) \o (c \o d))
        BY <2>2, <3>3 DEF InParts
      <4> QED BY <4>1, Four
    <3>9. q \o (cx \o d) = qc \o (x \o d)
      <4>1. InParts(S, q, c, x, d, q \o (cx \o d), qc \o (x \o d))
        BY <2>2, <3>3, <3>5 DEF InParts
      <4> QED BY <4>1, Four
    <3>10. cx \o (q \o d) = c \o ((x \o q) \o d)
      <4>1. InParts(S, c, x, q, d, c \o ((x \o q) \o d), cx \o (q \o d))
        BY <2>2, <3>5 DEF InParts
      <4> QED BY <4>1, Four
    <3>11. Leads(S, Copies(n, Op("movdn", at)), x \o (qc \o d), qc \o (x \o d))
      <4>1. Len(qc) + Len(x) = at + 1
        BY <2>3, <3>2, <3>4
      <4> QED BY <1>2, <2>3, <3>4, <4>1 DEF Sinks
    <3>12. Leads(S, Copies(n + 1, Op("movdn", at)), x \o (qc \o d), cx \o (q \o d))
      <4>1. Steps(S, Op("movdn", at), qc \o (x \o d), cx \o (q \o d))
        BY <3>7, <3>9
      <4> QED BY <3>11, <4>1, CopiesLast
    <3> QED BY <2>4, <3>8, <3>10, <3>12
  <2> QED BY <2>4, <2>5 DEF Sinks
<1> HIDE DEF T
<1>3. \A x \in Seq(S) : x \in T
  BY <1>1, <1>2, SeqInduct
<1> QED BY <1>3 DEF T

\* A copy of an operand is put on top, element by element.
Doubles(S, x) ==
    \A a \in Seq(S), b \in Seq(S), at \in Nat :
        at < Reach /\ Len(a) + Len(x) = at + 1 =>
            Leads(S, Copies(Len(x), Op("dup", at)), a \o (x \o b), x \o (a \o (x \o b)))

\* As many dup as the operand has elements.
LEMMA CopiesDup == ASSUME NEW S PROVE \A x \in Seq(S) : Doubles(S, x)
<1> DEFINE T == {x \in Seq(S) : Doubles(S, x)}
<1>1. << >> \in T
  <2>1. << >> \in Seq(S) /\ Len(<< >>) = 0
    BY EmptySeq
  <2>2. ASSUME NEW a \in Seq(S), NEW b \in Seq(S), NEW at \in Nat
        PROVE  Leads(S, Copies(Len(<< >>), Op("dup", at)), a \o (<< >> \o b),
                     << >> \o (a \o (<< >> \o b)))
    <3>1. PICK w : w = a \o b
      OBVIOUS
    <3>2. w \in Seq(S)
      BY <3>1, ConcatProperties
    <3>3. << >> \o b = b /\ << >> \o w = w
      BY <3>2, ConcatEmptySeq
    <3>4. Leads(S, << >>, w, w)
      BY LeadsNowhere
    <3>5. Copies(Len(<< >>), Op("dup", at)) = << >>
      BY <2>1, NoCopies
    <3> QED BY <3>1, <3>3, <3>4, <3>5
  <2> QED BY <2>1, <2>2 DEF Doubles
<1>2. ASSUME NEW x \in Seq(S), NEW y \in S, x \in T PROVE Append(x, y) \in T
  <2>1. PICK q : q = << y >>
    OBVIOUS
  <2>2. q \in Seq(S) /\ Len(q) = 1
    BY <2>1, Single
  <2>3. PICK n \in Nat : n = Len(x)
    BY LenProperties
  <2>4. Append(x, y) = x \o q /\ Append(x, y) \in Seq(S) /\ Len(Append(x, y)) = n + 1
    BY <2>1, <2>3, AppendIsConcat, AppendProperties
  <2>5. ASSUME NEW a \in Seq(S), NEW b \in Seq(S), NEW at \in Nat, at < Reach,
               Len(a) + Len(Append(x, y)) = at + 1
        PROVE  Leads(S, Copies(Len(Append(x, y)), Op("dup", at)), a \o (Append(x, y) \o b),
                     Append(x, y) \o (a \o (Append(x, y) \o b)))
    <3>1. PICK l \in Nat : l = Len(a)
      BY LenProperties
    <3>2. l + (n + 1) = at + 1
      BY <2>4, <2>5, <3>1
    <3>3. PICK qa : qa = q \o a
      OBVIOUS
    <3>4. qa \in Seq(S) /\ Len(qa) = l + 1
      <4>1. Pair(S, q, 1, a, l, 1 + l, qa)
        BY <2>2, <3>1, <3>3 DEF Pair
      <4> QED BY <4>1, PairLength
    <3>5. PICK ax : ax = a \o x
      OBVIOUS
    <3>6. ax \in Seq(S) /\ Len(ax) = at
      <4>1. Pair(S, a, l, x, n, at, ax)
        BY <2>3, <3>1, <3>2, <3>5 DEF Pair
      <4> QED BY <4>1, PairLength
    <3>7. PICK d : d = q \o b
      OBVIOUS
    <3>8. d \in Seq(S)
      BY <2>2, <3>7, ConcatProperties
    <3>9. PICK xd : xd = x \o d
      OBVIOUS
    <3>10. xd \in Seq(S) /\ xd = (x \o q) \o b
      <4>1. xd \in Seq(S)
        BY <3>8, <3>9, ConcatProperties
      <4>2. (x \o q) \o b = x \o (q \o b)
        BY <2>2, ConcatAssociative
      <4> QED BY <3>7, <3>9, <4>1, <4>2
    <3>11. Steps(S, Op("dup", at), ax \o d, q \o (ax \o d))
      BY <2>1, <2>5, <3>6, <3>7, StepDup
    <3>12. ax \o d = a \o xd
      BY <3>5, <3>8, <3>9, ConcatAssociative
    <3>13. q \o (ax \o d) = qa \o xd
      <4>1. InParts(S, q, a, x, d, q \o (ax \o d), qa \o xd)
        BY <2>2, <3>3, <3>5, <3>8, <3>9 DEF InParts
      <4> QED BY <4>1, Four
    <3>14. x \o (qa \o xd) = (x \o q) \o (a \o xd)
      <4>1. InParts(S, x, q, a, xd, x \o (qa \o xd), (x \o q) \o (a \o xd))
        BY <2>2, <3>3, <3>10 DEF InParts
      <4> QED BY <4>1, Four
    <3>15. Leads(S, Copies(n, Op("dup", at)), qa \o xd, x \o (qa \o xd))
      <4>1. Len(qa) + Len(x) = at + 1
        BY <2>3, <3>2, <3>4
      <4> QED BY <1>2, <2>3, <2>5, <3>4, <3>8, <3>9, <4>1 DEF Doubles
    <3>16. Leads(S, Copies(n + 1, Op("dup", at)), a \o xd, x \o (qa \o xd))
      <4>1. Steps(S, Op("dup", at), a \o xd, qa \o xd)
        BY <3>11, <3>12, <3>13
      <4> QED BY <3>15, <4>1, CopiesFirst
    <3> QED BY <2>4, <3>10, <3>14, <3>16
  <2> QED BY <2>4, <2>5 DEF Doubles
<1> HIDE DEF T
<1>3. \A x \in Seq(S) : x \in T
  BY <1>1, <1>2, SeqInduct
<1> QED BY <1>3 DEF T

\* The elements on top are dropped, one by one.
Goes(S, x) ==
    \A b \in Seq(S) : Leads(S, Copies(Len(x), Op("drop", 0)), x \o b, b)

\* As many drop as there are elements.
LEMMA CopiesDrop == ASSUME NEW S PROVE \A x \in Seq(S) : Goes(S, x)
<1> DEFINE T == {x \in Seq(S) : Goes(S, x)}
<1>1. << >> \in T
  <2>1. << >> \in Seq(S) /\ Len(<< >>) = 0
    BY EmptySeq
  <2>2. ASSUME NEW b \in Seq(S)
        PROVE  Leads(S, Copies(Len(<< >>), Op("drop", 0)), << >> \o b, b)
    <3>1. << >> \o b = b
      BY ConcatEmptySeq
    <3>2. Copies(Len(<< >>), Op("drop", 0)) = << >>
      BY <2>1, NoCopies
    <3> QED BY <3>1, <3>2, LeadsNowhere
  <2> QED BY <2>1, <2>2 DEF Goes
<1>2. ASSUME NEW x \in Seq(S), NEW y \in S, x \in T PROVE Append(x, y) \in T
  <2>1. PICK q : q = << y >>
    OBVIOUS
  <2>2. q \in Seq(S) /\ Len(q) = 1
    BY <2>1, Single
  <2>3. PICK n \in Nat : n = Len(x)
    BY LenProperties
  <2>4. Append(x, y) = x \o q /\ Append(x, y) \in Seq(S) /\ Len(Append(x, y)) = n + 1
    BY <2>1, <2>3, AppendIsConcat, AppendProperties
  <2>5. ASSUME NEW b \in Seq(S)
        PROVE  Leads(S, Copies(Len(Append(x, y)), Op("drop", 0)), Append(x, y) \o b, b)
    <3>1. q \o b \in Seq(S) /\ (x \o q) \o b = x \o (q \o b)
      BY <2>2, ConcatProperties, ConcatAssociative
    <3>2. Steps(S, Op("drop", 0), q \o b, b)
      BY <2>1, StepDrop
    <3>3. Leads(S, Copies(n, Op("drop", 0)), x \o (q \o b), q \o b)
      BY <1>2, <2>3, <3>1 DEF Goes
    <3>4. Leads(S, Copies(n + 1, Op("drop", 0)), x \o (q \o b), b)
      BY <3>2, <3>3, CopiesLast
    <3> QED BY <2>4, <3>1, <3>4
  <2> QED BY <2>4, <2>5 DEF Goes
<1> HIDE DEF T
<1>3. \A x \in Seq(S) : x \in T
  BY <1>1, <1>2, SeqInduct
<1> QED BY <1>3 DEF T

\* Or word by word.
GoesByWords(S, n) ==
    \A x \in Seq(S), b \in Seq(S) :
        Len(x) = n * WordSize => Leads(S, Copies(n, Op("dropw", 0)), x \o b, b)

\* As many dropw as there are words.
LEMMA CopiesDropw == ASSUME NEW S PROVE \A n \in Nat : GoesByWords(S, n)
<1> DEFINE T == {n \in Nat : GoesByWords(S, n)}
<1>1. 0 \in T
  <2>1. ASSUME NEW x \in Seq(S), NEW b \in Seq(S), Len(x) = 0 * WordSize
        PROVE  Leads(S, Copies(0, Op("dropw", 0)), x \o b, b)
    <3>1. x = << >>
      BY <2>1, EmptySeq DEF WordSize
    <3>2. x \o b = b
      BY <3>1, ConcatEmptySeq
    <3>3. Copies(0, Op("dropw", 0)) = << >>
      BY NoCopies
    <3> QED BY <3>2, <3>3, LeadsNowhere
  <2> QED BY <2>1 DEF GoesByWords
<1>2. ASSUME NEW n \in Nat, n \in T PROVE n + 1 \in T
  <2>1. ASSUME NEW x \in Seq(S), NEW b \in Seq(S), Len(x) = (n + 1) * WordSize
        PROVE  Leads(S, Copies(n + 1, Op("dropw", 0)), x \o b, b)
    <3>1. PICK m \in Nat : m = Len(x) /\ m = (n + 1) * 4
      BY <2>1 DEF WordSize
    <3>2. PICK k \in Nat : k = n * 4 /\ k <= m /\ m - k = 4
      BY <3>1
    <3>3. Halves(S, x, k, m)
      BY <3>1, <3>2, CutInTwo
    <3>4. PICK p, w : p \in Seq(S) /\ w \in Seq(S) /\ x = p \o w /\ Len(p) = k /\ Len(w) = m - k
      BY <3>3 DEF Halves
    <3>5. w \o b \in Seq(S) /\ (p \o w) \o b = p \o (w \o b)
      BY <3>4, ConcatProperties, ConcatAssociative
    <3>6. Leads(S, Copies(n, Op("dropw", 0)), p \o (w \o b), w \o b)
      BY <1>2, <3>2, <3>4, <3>5 DEF GoesByWords, WordSize
    <3>7. Steps(S, Op("dropw", 0), w \o b, b)
      BY <3>2, <3>4, StepDropw DEF WordSize
    <3>8. Leads(S, Copies(n + 1, Op("dropw", 0)), p \o (w \o b), b)
      BY <3>6, <3>7, CopiesLast
    <3> QED BY <3>4, <3>5, <3>8
  <2> QED BY <2>1 DEF GoesByWords
<1> HIDE DEF T
<1>3. Nat \subseteq T
  BY <1>1, <1>2, X!NatInduct
<1> QED BY <1>3 DEF T

\* Together, as many of each as it takes.
LEMMA DropOpsLeads ==
    ASSUME NEW S, NEW x \in Seq(S), NEW b \in Seq(S), NEW n \in Nat, Len(x) = n
    PROVE  Leads(S, DropOps(n), x \o b, b)
<1>1. PICK q \in Nat, r \in Nat : q = n \div 4 /\ r = n % 4 /\ n = q * 4 + r
  OBVIOUS
<1>2. PICK k \in Nat : k = q * 4 /\ k <= n /\ n - k = r
  BY <1>1
<1>3. Halves(S, x, k, n)
  BY <1>2, CutInTwo
<1>4. PICK p, w : p \in Seq(S) /\ w \in Seq(S) /\ x = p \o w /\ Len(p) = k /\ Len(w) = n - k
  BY <1>3 DEF Halves
<1>5. w \o b \in Seq(S) /\ (p \o w) \o b = p \o (w \o b)
  BY <1>4, ConcatProperties, ConcatAssociative
<1>6. Leads(S, Copies(q, Op("dropw", 0)), p \o (w \o b), w \o b)
  BY <1>2, <1>4, <1>5, CopiesDropw DEF GoesByWords, WordSize
<1>7. Leads(S, Copies(r, Op("drop", 0)), w \o b, b)
  BY <1>2, <1>4, CopiesDrop DEF Goes
<1>8. DropOps(n) = Copies(q, Op("dropw", 0)) \o Copies(r, Op("drop", 0))
  BY <1>1 DEF DropOps, WordSize
<1> QED BY <1>4, <1>5, <1>6, <1>7, <1>8, LeadsOn

\* A sequence of length one has one element.
LEMMA OnlyOne ==
    ASSUME NEW S, NEW s \in Seq(S), Len(s) = 1
    PROVE  s[1] \in S /\ s = << s[1] >>
<1>1. s[1] \in S
  BY ElementOfSeq
<1>2. << s[1] >> \in Seq(S) /\ Len(<< s[1] >>) = 1 /\ << s[1] >>[1] = s[1]
  BY <1>1, Single
<1>3. \A i \in 1 .. 1 : s[i] = << s[1] >>[i]
  BY <1>2
<1>4. s = << s[1] >>
  BY <1>2, <1>3, SeqEqual
<1> QED BY <1>1, <1>4

\* Two operands of a stack trade places, l elements apart.
Exchanged(S, x, c, y, d, n, l, m, v, w) ==
    /\ x \in Seq(S) /\ c \in Seq(S) /\ y \in Seq(S) /\ d \in Seq(S)
    /\ n \in Nat \ {0} /\ l \in Nat /\ m \in Nat \ {0}
    /\ Len(x) = n /\ Len(c) = l /\ Len(y) = m
    /\ v = x \o (c \o (y \o d)) /\ w = y \o (c \o (x \o d))

\* SwapOps exchanges the elements of the two operands, whichever is the larger.
LEMMA SwapOpsLeads ==
    ASSUME NEW S, NEW x, NEW c, NEW y, NEW d, NEW n, NEW l, NEW m, NEW v, NEW w,
           Exchanged(S, x, c, y, d, n, l, m, v, w)
    PROVE  Leads(S, SwapOps(n, m, n + l), v, w)
<1>1. /\ x \in Seq(S) /\ c \in Seq(S) /\ y \in Seq(S) /\ d \in Seq(S)
      /\ n \in Nat \ {0} /\ l \in Nat /\ m \in Nat \ {0}
      /\ Len(x) = n /\ Len(c) = l /\ Len(y) = m
  BY DEF Exchanged
<1>2. v = x \o (c \o (y \o d)) /\ w = y \o (c \o (x \o d))
  BY DEF Exchanged
<1>3. x \o d \in Seq(S) /\ y \o d \in Seq(S)
  BY <1>1, ConcatProperties
<1>4. l = 0 => c \o (x \o d) = x \o d /\ c \o (y \o d) = y \o d
  <2>1. l = 0 => c = << >>
    BY <1>1, EmptySeq
  <2> QED BY <1>3, <2>1, ConcatEmptySeq
<1>5. CASE n = 1 /\ m = 1
  <2>1. x = << x[1] >> /\ x[1] \in S /\ y = << y[1] >> /\ y[1] \in S
    BY <1>1, <1>5, OnlyOne
  <2>2. Steps(S, Op("swap", l + 1), << x[1] >> \o (c \o (<< y[1] >> \o d)),
                                    << y[1] >> \o (c \o (<< x[1] >> \o d)))
    BY <1>1, <2>1, StepSwap
  <2>3. Steps(S, Op("swap", l + 1), v, w)
    BY <1>2, <2>1, <2>2
  <2>4. SwapOps(n, m, n + l) = << Op("swap", l + 1) >>
    BY <1>1, <1>5 DEF SwapOps
  <2> QED BY <2>3, <2>4, LeadsOne
<1>6. CASE l = 0 /\ m = 1 /\ n > 1
  <2>1. y = << y[1] >> /\ y[1] \in S
    BY <1>1, <1>6, OnlyOne
  <2>2. Steps(S, Op("movup", n), x \o (<< y[1] >> \o d), << y[1] >> \o (x \o d))
    BY <1>1, <2>1, StepMovup
  <2>3. Steps(S, Op("movup", n), v, w)
    BY <1>2, <1>4, <1>6, <2>1, <2>2
  <2>4. SwapOps(n, m, n + l) = << Op("movup", n) >>
    <3>1. ~(n = 1 /\ m = 1) /\ n + l = n /\ m = 1 /\ n > 1
      BY <1>1, <1>6
    <3> QED BY <3>1 DEF SwapOps
  <2> QED BY <2>3, <2>4, LeadsOne
<1>7. CASE l = 0 /\ m > 1
  <2>1. PICK at \in Nat \ {0} : at = n + m - 1
    BY <1>1
  <2>2. Leads(S, Copies(n, Op("movdn", at)), x \o (y \o d), y \o (x \o d))
    <3>1. Sinks(S, x)
      BY <1>1, CopiesMovdn
    <3>2. Len(y) + Len(x) = at + 1
      BY <1>1, <2>1
    <3> QED BY <1>1, <3>1, <3>2 DEF Sinks
  <2>3. SwapOps(n, m, n + l) = Copies(n, Op("movdn", at))
    BY <1>1, <1>7, <2>1 DEF SwapOps
  <2> QED BY <1>2, <1>4, <1>7, <2>2, <2>3
<1>8. CASE l > 0 /\ ~(n = 1 /\ m = 1)
  <2>1. PICK at \in Nat \ {0} : at = n + l + m - 1
    BY <1>1
  <2>2. PICK to \in Nat \ {0} : to = l + m - 1
    BY <1>1, <1>8
  <2>3. PICK cy : cy = c \o y
    OBVIOUS
  <2>4. cy \in Seq(S) /\ Len(cy) = to + 1
    <3>1. Pair(S, c, l, y, m, to + 1, cy)
      BY <1>1, <2>2, <2>3 DEF Pair
    <3> QED BY <3>1, PairLength
  <2>5. Leads(S, Copies(n, Op("movdn", at)), x \o (cy \o d), cy \o (x \o d))
    <3>1. Sinks(S, x)
      BY <1>1, CopiesMovdn
    <3>2. Len(cy) + Len(x) = at + 1
      BY <1>1, <2>1, <2>2, <2>4
    <3> QED BY <1>1, <2>4, <3>1, <3>2 DEF Sinks
  <2>6. cy \o d = c \o (y \o d) /\ cy \o (x \o d) = c \o (y \o (x \o d))
    <3>1. ASSUME NEW e \in Seq(S) PROVE (c \o y) \o e = c \o (y \o e)
      BY <1>1, ConcatAssociative
    <3>2. (c \o y) \o d = c \o (y \o d)
      BY <1>1, <3>1
    <3>3. (c \o y) \o (x \o d) = c \o (y \o (x \o d))
      BY <1>3, <3>1
    <3> QED BY <2>3, <3>2, <3>3
  <2>7. PICK b : b = x \o d
    OBVIOUS
  <2>8. Leads(S, IF to = 1 THEN << Op("swap", 1) >> ELSE Copies(m, Op("movup", to)),
              c \o (y \o b), y \o (c \o b))
    <3>1. CASE to = 1
      <4>1. l = 1 /\ m = 1
        BY <1>1, <1>8, <2>2, <3>1
      <4>2. PICK t \in S, u \in S : c = << t >> /\ y = << u >>
        BY <1>1, <4>1, OnlyOne
      <4>3. PICK none \in Seq(S), zero \in Nat : none = << >> /\ Len(none) = zero /\ zero = 0
        BY EmptySeq
      <4>4. b \in Seq(S)
        BY <1>3, <2>7
      <4>5. Steps(S, Op("swap", zero + 1), << t >> \o (none \o (<< u >> \o b)),
                                           << u >> \o (none \o (<< t >> \o b)))
        BY <4>3, <4>4, StepSwap
      <4>6. none \o (y \o b) = y \o b /\ none \o (c \o b) = c \o b
        <5>1. y \o b \in Seq(S) /\ c \o b \in Seq(S)
          BY <1>1, <4>4, ConcatProperties
        <5> QED BY <4>3, <5>1, ConcatEmptySeq
      <4>7. Steps(S, Op("swap", 1), c \o (y \o b), y \o (c \o b))
        <5>1. zero + 1 = 1
          BY <4>3
        <5>2. Steps(S, Op("swap", 1), c \o (none \o (y \o b)), y \o (none \o (c \o b)))
          BY <4>2, <4>5, <5>1
        <5> QED BY <4>6, <5>2
      <4> QED BY <3>1, <4>7, LeadsOne
    <3>2. CASE to # 1
      <4>1. Rises(S, y)
        BY <1>1, CopiesMovup
      <4>2. Len(c) + Len(y) = to + 1
        BY <1>1, <2>2
      <4>3. Leads(S, Copies(m, Op("movup", to)), c \o (y \o b), y \o (c \o b))
        BY <1>1, <1>3, <2>7, <4>1, <4>2 DEF Rises
      <4> QED BY <3>2, <4>3
    <3> QED BY <3>1, <3>2
  <2>9. SwapOps(n, m, n + l) =
            Copies(n, Op("movdn", at)) \o
                (IF to = 1 THEN << Op("swap", 1) >> ELSE Copies(m, Op("movup", to)))
    <3>1. /\ ~(n + l = n) /\ n + l + m - 1 = at
          /\ (n + l + m - n = 2) = (to = 1) /\ n + l + m - n - 1 = to
      BY <1>1, <1>8, <2>1, <2>2
    <3> QED BY <1>8, <3>1 DEF SwapOps
  <2> QED BY <1>2, <2>5, <2>6, <2>7, <2>8, <2>9, LeadsOn
<1> QED BY <1>1, <1>5, <1>6, <1>7, <1>8

-----------------------------------------------------------------------------
(* The machine's stack, when what is below the operands is floor.          *)

Image(M, s, floor) == Flat(M, s) \o floor

Setting(M, O, S, floor) == Expands(M, O, S) /\ floor \in Seq(S)

Cat(O, a, b, w) == a \in Seq(O) /\ b \in Seq(O) /\ w = a \o b

\* The image of a stack on another one.
LEMMA ImageConcat ==
    ASSUME NEW M, NEW O, NEW S, NEW floor, Setting(M, O, S, floor),
           NEW a, NEW b, NEW w, Cat(O, a, b, w)
    PROVE  /\ w \in Seq(O)
           /\ Flat(M, a) \in Seq(S) /\ Image(M, b, floor) \in Seq(S)
           /\ Image(M, w, floor) = Flat(M, a) \o Image(M, b, floor)
<1>1. Expands(M, O, S) /\ floor \in Seq(S) /\ a \in Seq(O) /\ b \in Seq(O) /\ w = a \o b
  BY DEF Setting, Cat
<1>2. PICK x : x = Flat(M, a)
  OBVIOUS
<1>3. PICK y : y = Flat(M, b)
  OBVIOUS
<1>4. x \in Seq(S) /\ y \in Seq(S)
  BY <1>1, <1>2, <1>3, FlatType
<1>5. Flat(M, a \o b) = x \o y
  BY <1>1, <1>2, <1>3, FlatConcat
<1>6. (x \o y) \o floor = x \o (y \o floor)
  BY <1>1, <1>4, ConcatAssociative
<1>7. a \o b \in Seq(O) /\ y \o floor \in Seq(S)
  BY <1>1, <1>4, ConcatProperties
<1> QED BY <1>1, <1>2, <1>3, <1>4, <1>5, <1>6, <1>7 DEF Image

\* The elements of one operand.
Held(M, o) == M[o]

\* An operand has at least one element, and at most a word.
LEMMA HeldType ==
    ASSUME NEW M, NEW O, NEW S, Expands(M, O, S), NEW o \in O
    PROVE  /\ Held(M, o) \in Seq(S) /\ Len(Held(M, o)) = o.size
           /\ o.size \in Nat \ {0} /\ o.size <= 4
BY DEF Expands, Held, WordSize

\* The image of a stack with an operand on top.
LEMMA ImageTop ==
    ASSUME NEW M, NEW O, NEW S, NEW floor, Setting(M, O, S, floor),
           NEW o, NEW b, NEW s, OnTopOf(O, o, b, s)
    PROVE  /\ s \in Seq(O)
           /\ Image(M, s, floor) = Held(M, o) \o Image(M, b, floor)
<1>1. Expands(M, O, S) /\ o \in O /\ b \in Seq(O)
  BY DEF Setting, OnTopOf
<1>2. << o >> \in Seq(O) /\ Flat(M, << o >>) = Held(M, o)
  BY <1>1, Single, FlatSingle DEF Held
<1>3. PICK q \in Seq(O) : q = << o >>
  BY <1>2
<1>4. Cat(O, q, b, s)
  BY <1>1, <1>3 DEF OnTopOf, Cat
<1>5. Flat(M, q) = Held(M, o)
  BY <1>2, <1>3
<1>6. s \in Seq(O) /\ Image(M, s, floor) = Flat(M, q) \o Image(M, b, floor)
  BY <1>4, ImageConcat
<1>7. Image(M, s, floor) = Held(M, o) \o Image(M, b, floor)
  BY <1>5, <1>6
<1> QED BY <1>6, <1>7

\* The image of a stack with an operand between others.
LEMMA ImageBetween ==
    ASSUME NEW M, NEW O, NEW S, NEW floor, Setting(M, O, S, floor),
           NEW a, NEW o, NEW b, NEW s, Between(O, a, o, b, s)
    PROVE  /\ s \in Seq(O) /\ Flat(M, a) \in Seq(S) /\ Image(M, b, floor) \in Seq(S)
           /\ Image(M, s, floor) = Flat(M, a) \o (Held(M, o) \o Image(M, b, floor))
<1>1. Expands(M, O, S) /\ a \in Seq(O) /\ o \in O /\ b \in Seq(O)
  BY DEF Setting, Between
<1>2. PICK t : t = << o >> \o b
  OBVIOUS
<1>3. OnTopOf(O, o, b, t) /\ s = a \o t
  BY <1>1, <1>2 DEF OnTopOf, Between
<1>4. t \in Seq(O) /\ Image(M, t, floor) = Held(M, o) \o Image(M, b, floor)
  BY <1>3, ImageTop
<1>5. Cat(O, a, t, s)
  BY <1>1, <1>3, <1>4 DEF Cat
<1>6. s \in Seq(O) /\ Image(M, s, floor) = Flat(M, a) \o Image(M, t, floor)
  BY <1>5, ImageConcat
<1>7. Flat(M, a) \in Seq(S) /\ Image(M, b, floor) \in Seq(S)
  <2>1. Image(M, b, floor) = Flat(M, b) \o floor /\ floor \in Seq(S)
    BY DEF Image, Setting
  <2>2. Flat(M, b) \in Seq(S)
    BY <1>1, FlatType
  <2>3. Flat(M, a) \in Seq(S)
    BY <1>1, FlatType
  <2>4. PICK y \in Seq(S) : y = Flat(M, b)
    BY <2>2
  <2>5. y \o floor \in Seq(S)
    BY <2>1, ConcatProperties
  <2> QED BY <2>1, <2>3, <2>4, <2>5
<1> QED BY <1>4, <1>6, <1>7

\* The image of a stack with an operand above others.
LEMMA ImageAbove ==
    ASSUME NEW M, NEW O, NEW S, NEW floor, Setting(M, O, S, floor),
           NEW a, NEW o, NEW b, NEW s, Above(O, a, o, b, s)
    PROVE  /\ s \in Seq(O)
           /\ Image(M, s, floor) = Held(M, o) \o (Flat(M, a) \o Image(M, b, floor))
<1>1. Expands(M, O, S) /\ a \in Seq(O) /\ o \in O /\ b \in Seq(O)
  BY DEF Setting, Above
<1>2. PICK t : t = a \o b
  OBVIOUS
<1>3. Cat(O, a, b, t)
  BY <1>1, <1>2 DEF Cat
<1>4. t \in Seq(O) /\ Image(M, t, floor) = Flat(M, a) \o Image(M, b, floor)
  BY <1>3, ImageConcat
<1>5. OnTopOf(O, o, t, s)
  BY <1>1, <1>2, <1>4 DEF OnTopOf, Above
<1>6. s \in Seq(O) /\ Image(M, s, floor) = Held(M, o) \o Image(M, t, floor)
  BY <1>5, ImageTop
<1> QED BY <1>4, <1>6

-----------------------------------------------------------------------------
(* Where an operand and its elements are.                                  *)

At(M, O, s, i, a, o, b, l) ==
    /\ Between(O, a, o, b, s) /\ Len(a) = i /\ o = Nth(s, i)
    /\ l \in Nat /\ l = Len(Flat(M, a)) /\ l >= i
    /\ EffectiveIndex(s, i) = l /\ EffectiveIndexInclusive(s, i) = l + o.size - 1

Located(M, O, s, i) == \E a, o, b, l : At(M, O, s, i, a, o, b, l)

\* Every operand takes at least one element.
LEMMA RawLenAtLeast ==
    ASSUME NEW M, NEW O, NEW S, Expands(M, O, S), NEW s \in Seq(O)
    PROVE  RawLen(s) \in Nat /\ Len(s) <= RawLen(s)
<1> DEFINE T == {t \in Seq(O) : \E n \in Nat : \E r \in Nat : n = Len(t) /\ r = RawLen(t) /\ n <= r}
<1>1. << >> \in T
  <2>1. PICK e \in Seq(O), z \in Nat : e = << >> /\ z = Len(e) /\ z = RawLen(e)
    BY RawLenEmpty, EmptySeq
  <2>2. z <= z
    OBVIOUS
  <2>3. e \in T
    BY <2>1, <2>2
  <2> QED BY <2>1, <2>3
<1>2. ASSUME NEW t \in Seq(O), NEW o \in O, t \in T PROVE Append(t, o) \in T
  <2>1. PICK n \in Nat, r \in Nat : n = Len(t) /\ r = RawLen(t) /\ n <= r
    BY <1>2
  <2>2. PICK k \in Nat : k = o.size /\ k >= 1
    BY DEF Expands
  <2>3. Append(t, o) \in Seq(O) /\ Len(Append(t, o)) = n + 1
    BY <2>1, AppendProperties
  <2>4. RawLen(Append(t, o)) = r + k
    BY <2>1, <2>2, RawLenAppend
  <2>5. n + 1 \in Nat /\ r + k \in Nat /\ n + 1 <= r + k
    BY <2>1, <2>2
  <2> QED BY <2>3, <2>4, <2>5
<1> HIDE DEF T
<1>3. s \in T
  BY <1>1, <1>2, SeqInduct
<1> QED BY <1>3 DEF T

\* Every operand of a stack is located: EffectiveIndex is the index of its first element, and
\* EffectiveIndexInclusive that of its last.
LEMMA Locate ==
    ASSUME NEW M, NEW O, NEW S, Expands(M, O, S), NEW s \in Seq(O), NEW i \in Nat, i < Len(s)
    PROVE  Located(M, O, s, i)
<1>1. PICK m \in Nat : m = Len(s)
  BY LenProperties
<1>2. PICK a : a = SubSeq(s, 1, i)
  OBVIOUS
<1>3. PICK b : b = SubSeq(s, i + 2, m)
  OBVIOUS
<1>4. PICK o : o = s[i + 1]
  OBVIOUS
<1>5. /\ s = a \o (<< o >> \o b) /\ o \in O
      /\ a \in Seq(O) /\ Len(a) = i /\ b \in Seq(O)
  <2>1. Len(s) = m /\ i < m
    BY <1>1
  <2>2. Between(O, SubSeq(s, 1, i), s[i + 1], SubSeq(s, i + 2, m), s)
    BY <2>1, CutAt
  <2>3. Len(SubSeq(s, 1, i)) = i
    BY <2>1, CutAt
  <2> QED BY <1>2, <1>3, <1>4, <2>2, <2>3 DEF Between
<1>6. Between(O, a, o, b, s) /\ o = Nth(s, i)
  BY <1>4, <1>5 DEF Between, Nth
<1>7. PICK l \in Nat : l = Len(Flat(M, a)) /\ l = RawLen(a) /\ l >= i
  BY <1>5, FlatType, RawLenAtLeast
<1>8. EffectiveIndex(s, i) = l
  BY <1>2, <1>7 DEF EffectiveIndex
<1>9. SubSeq(s, 1, i + 1) = Append(a, o)
  <2>1. PICK k \in Nat : k = i + 1 /\ 1 \in 1 .. Len(s) /\ k \in 1 .. Len(s) /\ k - 1 = i
    BY <1>1
  <2>2. SubSeq(s, 1, k) = SubSeq(s, 1, k - 1) \o << s[k] >>
    BY <2>1, SubSeqRecursiveSecond
  <2>3. Append(a, o) = a \o << o >>
    BY <1>5, AppendIsConcat
  <2> QED BY <1>2, <1>4, <2>1, <2>2, <2>3
<1>10. RawLen(Append(a, o)) = l + o.size
  BY <1>5, <1>7, RawLenAppend
<1>11. EffectiveIndexInclusive(s, i) = l + o.size - 1
  <2>1. PICK r : r = RawLen(Append(a, o)) /\ r = l + o.size
    BY <1>10
  <2>2. RawLen(SubSeq(s, 1, i + 1)) = r
    BY <1>9, <2>1
  <2>3. EffectiveIndexInclusive(s, i) = r - 1
    BY <2>2 DEF EffectiveIndexInclusive
  <2>4. o.size \in Nat
    BY <1>5 DEF Expands
  <2> QED BY <2>1, <2>3, <2>4
<1>12. At(M, O, s, i, a, o, b, l)
  BY <1>5, <1>6, <1>7, <1>8, <1>11 DEF At
<1> QED BY <1>12 DEF Located

-----------------------------------------------------------------------------
(* Emitters whose operands stand for what is on the machine's stack.       *)

Faithful(M, O, S, floor) ==
    {e \in Emitters(O, S) : /\ e.outcome # "fault"
                            /\ e.outcome = "ok" => e.vm = Image(M, e.stack, floor)}

\* f is made from e, and has s on its stack unless the compiler gave up.
Yields(G, e, f, s) ==
    f \in G /\ (f.outcome = "ok" => e.outcome = "ok" /\ f.stack = s)

\* What is required and then done keeps an emitter faithful, if doing it does.
LEMMA Required ==
    ASSUME NEW M, NEW O, NEW S, NEW floor, NEW e \in Faithful(M, O, S, floor),
           NEW condition, NEW next, NEW s,
           e.outcome = "ok" /\ condition => Yields(Faithful(M, O, S, floor), e, next, s)
    PROVE  /\ Yields(Faithful(M, O, S, floor), e, Require(e, condition, next), s)
           /\ Require(e, condition, next).outcome = "ok" => condition
<1> DEFINE panic == [e EXCEPT !.outcome = "panic"]
<1>1. panic \in Faithful(M, O, S, floor) /\ panic.outcome = "panic"
  BY DEF Faithful, Emitters
<1>2. CASE e.outcome # "ok"
  BY <1>2 DEF Require, Yields
<1>3. CASE e.outcome = "ok" /\ condition
  BY <1>3 DEF Require, Yields
<1>4. CASE e.outcome = "ok" /\ ~condition
  <2>1. Require(e, condition, next) = panic
    BY <1>4 DEF Require
  <2> HIDE DEF panic
  <2> QED BY <1>1, <2>1 DEF Yields
<1> QED BY <1>2, <1>3, <1>4

\* Emitting instructions that lead from the image of one stack to that of another keeps an
\* emitter faithful.
LEMMA Emitted ==
    ASSUME NEW M, NEW O, NEW S, NEW floor, NEW e \in Faithful(M, O, S, floor),
           e.outcome = "ok", NEW s \in Seq(O), NEW ops,
           Leads(S, ops, Image(M, e.stack, floor), Image(M, s, floor))
    PROVE  Yields(Faithful(M, O, S, floor), e, Becomes(e, s, ops), s)
<1> DEFINE f == [e EXCEPT !.stack = s]
<1>1. /\ f \in Emitters(O, S) /\ f.outcome = "ok" /\ f.stack = s
      /\ f.vm = Image(M, e.stack, floor)
  BY DEF Faithful, Emitters
<1> HIDE DEF f
<1>2. PICK y : y = Image(M, s, floor)
  OBVIOUS
<1>3. Leads(S, ops, f.vm, y)
  BY <1>1, <1>2
<1>4. /\ Emit(f, ops) \in Emitters(O, S) /\ Emit(f, ops).outcome = "ok"
      /\ Emit(f, ops).stack = f.stack /\ Emit(f, ops).vm = y
  BY <1>1, <1>3, EmitLeads
<1>5. Becomes(e, s, ops) = Emit(f, ops)
  BY DEF Becomes, f
<1> QED BY <1>1, <1>2, <1>4, <1>5 DEF Yields, Faithful

\* What the methods are given.
Given(M, O, S, floor, e) == Setting(M, O, S, floor) /\ e \in Faithful(M, O, S, floor)

\* What is given, spelt out.
LEMMA GivenStack ==
    ASSUME NEW M, NEW O, NEW S, NEW floor, NEW e, Given(M, O, S, floor, e)
    PROVE  /\ e.stack \in Seq(O) /\ Expands(M, O, S) /\ Setting(M, O, S, floor)
           /\ e \in Faithful(M, O, S, floor) /\ floor \in Seq(S)
BY DEF Given, Setting, Faithful, Emitters

-----------------------------------------------------------------------------
(* The methods.                                                            *)

\* dup copies the operand at i to the top of both stacks.
LEMMA DupFaithful ==
    ASSUME NEW M, NEW O, NEW S, NEW floor, NEW e, Given(M, O, S, floor, e), NEW i \in Nat
    PROVE  /\ Yields(Faithful(M, O, S, floor), e, Dup(e, i), DupTop(e.stack, i))
           /\ Dup(e, i).outcome = "ok" => i < Len(e.stack)
<1> DEFINE G == Faithful(M, O, S, floor)
           size == Nth(e.stack, i).size
           place == EffectiveIndex(e.stack, i) + size - 1
           ops == Copies(size, Op("dup", place))
           next == Becomes(e, DupTop(e.stack, i), ops)
           condition == i < Reach /\ Indexable(e.stack, i)
<1>1. /\ e.stack \in Seq(O) /\ Expands(M, O, S) /\ Setting(M, O, S, floor)
      /\ e \in G /\ floor \in Seq(S)
  BY GivenStack
<1>2. ASSUME e.outcome = "ok", condition PROVE Yields(G, e, next, DupTop(e.stack, i))
  <2>1. i < Len(e.stack) /\ EffectiveIndexInclusive(e.stack, i) < Reach
    BY <1>2 DEF Indexable
  <2>2. PICK a, o, b, l : At(M, O, e.stack, i, a, o, b, l)
    BY <1>1, <2>1, Locate DEF Located
  <2>3. PICK v : v = e.stack
    OBVIOUS
  <2>4. Between(O, a, o, b, v) /\ Len(a) = i /\ o = Nth(v, i) /\ l \in Nat /\ l = Len(Flat(M, a))
    BY <2>2, <2>3 DEF At
  <2>5. PICK w : w = << o >> \o v
    OBVIOUS
  <2>6. OnTopOf(O, o, v, w)
    BY <1>1, <2>3, <2>4, <2>5 DEF OnTopOf, Between
  <2>7. DupTop(v, i) = w
    BY <2>4, <2>6, DupOf
  <2>8. o \in O
    BY <2>4 DEF Between
  <2>9. PICK x : x = Held(M, o)
    OBVIOUS
  <2>10. PICK n : n = o.size
    OBVIOUS
  <2>11. x \in Seq(S) /\ Len(x) = n /\ n \in Nat \ {0} /\ x = Held(M, o) /\ n = o.size
    BY <1>1, <2>8, <2>9, <2>10, HeldType
  <2>12. PICK fa : fa = Flat(M, a)
    OBVIOUS
  <2>13. PICK y : y = Image(M, b, floor)
    OBVIOUS
  <2>14. /\ v \in Seq(O) /\ fa \in Seq(S) /\ y \in Seq(S)
         /\ Image(M, v, floor) = fa \o (x \o y)
    <3>1. Between(O, a, o, b, v) /\ Setting(M, O, S, floor)
      BY <1>1, <2>4
    <3>2. /\ v \in Seq(O) /\ Flat(M, a) \in Seq(S) /\ Image(M, b, floor) \in Seq(S)
          /\ Image(M, v, floor) = Flat(M, a) \o (Held(M, o) \o Image(M, b, floor))
      BY <3>1, ImageBetween
    <3> QED BY <2>9, <2>12, <2>13, <3>2
  <2>15. /\ w \in Seq(O) /\ x \in Seq(S)
         /\ Image(M, w, floor) = x \o (fa \o (x \o y))
    <3>1. OnTopOf(O, o, v, w) /\ Setting(M, O, S, floor)
      BY <1>1, <2>6
    <3>2. w \in Seq(O) /\ Image(M, w, floor) = Held(M, o) \o Image(M, v, floor)
      BY <3>1, ImageTop
    <3> QED BY <2>11, <2>14, <3>2
  <2>16. PICK to \in Nat : to = l + n - 1
    BY <2>4, <2>11
  <2>17. size = n /\ place = to /\ to < Reach
    BY <2>1, <2>2, <2>3, <2>4, <2>11, <2>16 DEF At
  <2>18. Leads(S, Copies(n, Op("dup", to)), fa \o (x \o y), x \o (fa \o (x \o y)))
    <3>1. Len(fa) + Len(x) = to + 1
      BY <2>4, <2>11, <2>12, <2>16
    <3>2. Doubles(S, x)
      BY <2>15, CopiesDup
    <3> QED BY <2>11, <2>14, <2>17, <3>1, <3>2 DEF Doubles
  <2>19. Leads(S, Copies(n, Op("dup", to)), Image(M, e.stack, floor), Image(M, w, floor))
    BY <2>3, <2>14, <2>15, <2>18
  <2>20. ops = Copies(n, Op("dup", to)) /\ DupTop(e.stack, i) = w
    BY <2>3, <2>7, <2>17
  <2> HIDE DEF ops, G
  <2>21. Yields(G, e, Becomes(e, w, ops), w)
    BY <1>1, <1>2, <2>15, <2>19, <2>20, Emitted DEF G
  <2> QED BY <2>20, <2>21
<1>3. Dup(e, i) = Require(e, condition, next)
  BY DEF Dup
<1> HIDE DEF condition, next
<1>4. /\ Yields(G, e, Require(e, condition, next), DupTop(e.stack, i))
      /\ Require(e, condition, next).outcome = "ok" => condition
  BY <1>1, <1>2, Required
<1> QED BY <1>3, <1>4 DEF condition, Indexable

\* movup moves the operand at i to the top of both stacks.
LEMMA MovupFaithful ==
    ASSUME NEW M, NEW O, NEW S, NEW floor, NEW e, Given(M, O, S, floor, e), NEW i \in Nat
    PROVE  /\ Yields(Faithful(M, O, S, floor), e, Movup(e, i), MoveUp(e.stack, i))
           /\ Movup(e, i).outcome = "ok" => i # 0 /\ i < Len(e.stack)
<1> DEFINE G == Faithful(M, O, S, floor)
           size == Nth(e.stack, i).size
           place == EffectiveIndex(e.stack, i) + size - 1
           ops == Copies(size, Op("movup", place))
           next == Becomes(e, MoveUp(e.stack, i), ops)
           condition == i < Reach /\ CanMove(e.stack, i)
<1>1. /\ e.stack \in Seq(O) /\ Expands(M, O, S) /\ Setting(M, O, S, floor)
      /\ e \in G /\ floor \in Seq(S)
  BY GivenStack
<1>2. ASSUME e.outcome = "ok", condition PROVE Yields(G, e, next, MoveUp(e.stack, i))
  <2>1. i < Len(e.stack) /\ i # 0
    BY <1>2 DEF CanMove
  <2>2. PICK a, o, b, l : At(M, O, e.stack, i, a, o, b, l)
    BY <1>1, <2>1, Locate DEF Located
  <2>3. PICK v : v = e.stack
    OBVIOUS
  <2>4. /\ Between(O, a, o, b, v) /\ Len(a) = i /\ o = Nth(v, i)
        /\ l \in Nat /\ l = Len(Flat(M, a)) /\ l >= i
    BY <2>2, <2>3 DEF At
  <2>5. PICK w : w = << o >> \o (a \o b)
    OBVIOUS
  <2>6. Above(O, a, o, b, w)
    BY <2>4, <2>5 DEF Above, Between
  <2>7. MoveUp(v, i) = w
    BY <2>4, <2>6, MoveUpOf
  <2>8. o \in O
    BY <2>4 DEF Between
  <2>9. PICK x, n, fa, y : /\ x = Held(M, o) /\ n = o.size /\ fa = Flat(M, a)
                           /\ y = Image(M, b, floor)
    OBVIOUS
  <2>10. x \in Seq(S) /\ Len(x) = n /\ n \in Nat \ {0}
    BY <1>1, <2>8, <2>9, HeldType
  <2>11. /\ v \in Seq(O) /\ fa \in Seq(S) /\ y \in Seq(S)
         /\ Image(M, v, floor) = fa \o (x \o y)
    <3>1. Between(O, a, o, b, v) /\ Setting(M, O, S, floor)
      BY <1>1, <2>4
    <3>2. /\ v \in Seq(O) /\ Flat(M, a) \in Seq(S) /\ Image(M, b, floor) \in Seq(S)
          /\ Image(M, v, floor) = Flat(M, a) \o (Held(M, o) \o Image(M, b, floor))
      BY <3>1, ImageBetween
    <3> QED BY <2>9, <3>2
  <2>12. w \in Seq(O) /\ Image(M, w, floor) = x \o (fa \o y)
    <3>1. Above(O, a, o, b, w) /\ Setting(M, O, S, floor)
      BY <1>1, <2>6
    <3>2. /\ w \in Seq(O)
          /\ Image(M, w, floor) = Held(M, o) \o (Flat(M, a) \o Image(M, b, floor))
      BY <3>1, ImageAbove
    <3> QED BY <2>9, <3>2
  <2>13. PICK to \in Nat \ {0} : to = l + n - 1
    <3>1. l \in Nat /\ l >= i /\ i # 0 /\ n \in Nat \ {0}
      BY <2>1, <2>4, <2>10
    <3>2. l + n - 1 \in Nat \ {0}
      BY <3>1
    <3> QED BY <3>2
  <2>14. size = n /\ place = to
    BY <2>2, <2>3, <2>4, <2>9, <2>10, <2>13 DEF At
  <2>15. Leads(S, Copies(n, Op("movup", to)), fa \o (x \o y), x \o (fa \o y))
    <3>1. Len(fa) + Len(x) = to + 1
      BY <2>4, <2>9, <2>10, <2>13
    <3>2. Rises(S, x)
      BY <2>10, CopiesMovup
    <3> QED BY <2>10, <2>11, <3>1, <3>2 DEF Rises
  <2>16. Leads(S, Copies(n, Op("movup", to)), Image(M, e.stack, floor), Image(M, w, floor))
    BY <2>3, <2>11, <2>12, <2>15
  <2>17. ops = Copies(n, Op("movup", to)) /\ MoveUp(e.stack, i) = w
    BY <2>3, <2>7, <2>14
  <2> HIDE DEF ops, G
  <2>18. Yields(G, e, Becomes(e, w, ops), w)
    BY <1>1, <1>2, <2>12, <2>16, <2>17, Emitted DEF G
  <2> QED BY <2>17, <2>18
<1>3. Movup(e, i) = Require(e, condition, next)
  BY DEF Movup
<1> HIDE DEF condition, next
<1>4. /\ Yields(G, e, Require(e, condition, next), MoveUp(e.stack, i))
      /\ Require(e, condition, next).outcome = "ok" => condition
  BY <1>1, <1>2, Required
<1> QED BY <1>3, <1>4 DEF condition, CanMove

-----------------------------------------------------------------------------
(* The operand on top.                                                     *)
LEMMA TopAndRest ==
    ASSUME NEW O, NEW s \in Seq(O), s # << >>
    PROVE  OnTopOf(O, s[1], Tail(s), s)
<1>1. PICK m \in Nat : m = Len(s) /\ m >= 1
  <2>1. Len(s) \in Nat /\ Len(s) # 0
    BY EmptySeq, LenProperties
  <2> QED BY <2>1
<1>2. 1 \in 1 .. Len(s) /\ m \in 1 .. Len(s)
  BY <1>1
<1>3. SubSeq(s, 1, m) = << s[1] >> \o SubSeq(s, 1 + 1, m)
  BY <1>2, SubSeqRecursiveFirst
<1>4. SubSeq(s, 1, m) = s
  BY <1>1, SubSeqFull
<1>5. Tail(s) = SubSeq(s, 2, m) /\ Tail(s) \in Seq(O)
  BY <1>1, TailIsSubSeq, HeadTailProperties
<1>6. s[1] \in O
  BY <1>2, ElementOfSeq
<1> QED BY <1>3, <1>4, <1>5, <1>6 DEF OnTopOf

\* The length of a stack with an operand on top.
LEMMA RawLenTop ==
    ASSUME NEW M, NEW O, NEW S, Expands(M, O, S), NEW o, NEW b, NEW s, OnTopOf(O, o, b, s)
    PROVE  /\ s \in Seq(O) /\ RawLen(b) \in Nat
           /\ RawLen(s) = o.size + RawLen(b)
<1>1. PICK none : none = << >>
  OBVIOUS
<1>2. none \in Seq(S)
  BY <1>1, EmptySeq
<1>3. Setting(M, O, S, none)
  BY <1>2 DEF Setting
<1>4. s \in Seq(O) /\ Image(M, s, none) = Held(M, o) \o Image(M, b, none)
  BY <1>3, ImageTop
<1>5. b \in Seq(O) /\ o \in O
  BY DEF OnTopOf
<1>6. PICK f, g, x, n, k, r : /\ f = Flat(M, s) /\ g = Flat(M, b) /\ x = Held(M, o) /\ n = o.size
                              /\ k = RawLen(b) /\ r = RawLen(s)
  OBVIOUS
<1>7. f \in Seq(S) /\ Len(f) = r /\ r \in Nat
  BY <1>4, <1>6, FlatType
<1>8. g \in Seq(S) /\ Len(g) = k /\ k \in Nat
  BY <1>5, <1>6, FlatType
<1>9. x \in Seq(S) /\ Len(x) = n /\ n \in Nat
  BY <1>5, <1>6, HeldType
<1>10. Image(M, s, none) = f /\ Image(M, b, none) = g
  BY <1>1, <1>6, <1>7, <1>8, ConcatEmptySeq DEF Image
<1>11. f = x \o g
  BY <1>4, <1>6, <1>10
<1>12. Len(x \o g) = n + k
  BY <1>8, <1>9, ConcatProperties
<1> QED BY <1>4, <1>6, <1>7, <1>8, <1>11, <1>12

\* The operand on top and another one.
TwoAt(M, O, s, i, u, a, o, b, n, l) ==
    /\ u \in O /\ a \in Seq(O) /\ o \in O /\ b \in Seq(O)
    /\ s = << u >> \o (a \o (<< o >> \o b))
    /\ u = s[1] /\ o = Nth(s, i) /\ Len(a) + 1 = i
    /\ l \in Nat /\ l = RawLen(a) /\ n \in Nat \ {0} /\ n = u.size
    /\ EffectiveIndex(s, i) = n + l /\ EffectiveIndexInclusive(s, i) = n + l + o.size - 1

LocatedTwo(M, O, s, i) == \E u, a, o, b, n, l : TwoAt(M, O, s, i, u, a, o, b, n, l)

\* Every operand below the top is located, with the top and what is between.
LEMMA LocateTwo ==
    ASSUME NEW M, NEW O, NEW S, Expands(M, O, S), NEW s \in Seq(O), NEW i \in Nat, i # 0, i < Len(s)
    PROVE  LocatedTwo(M, O, s, i)
<1>1. PICK p, o, b, l : At(M, O, s, i, p, o, b, l)
  BY Locate DEF Located
<1>2. /\ p \in Seq(O) /\ o \in O /\ b \in Seq(O) /\ Len(p) = i /\ o = Nth(s, i)
      /\ s = p \o (<< o >> \o b)
      /\ l \in Nat /\ l = Len(Flat(M, p))
      /\ EffectiveIndex(s, i) = l /\ EffectiveIndexInclusive(s, i) = l + o.size - 1
  BY <1>1 DEF At, Between
<1>3. p # << >>
  BY <1>2, EmptySeq
<1>4. PICK u : u = p[1]
  OBVIOUS
<1>5. PICK a : a = Tail(p)
  OBVIOUS
<1>6. OnTopOf(O, u, a, p)
  BY <1>2, <1>3, <1>4, <1>5, TopAndRest
<1>7. u \in O /\ a \in Seq(O) /\ p = << u >> \o a
  BY <1>6 DEF OnTopOf
<1>8. Len(a) + 1 = i
  BY <1>2, <1>7, HeadAndRest
<1>9. PICK t : t = << o >> \o b
  OBVIOUS
<1>10. t \in Seq(O)
  BY <1>2, <1>9, HeadAndRest
<1>11. s = << u >> \o (a \o t)
  <2>1. PICK q \in Seq(O) : q = << u >>
    BY <1>7, Single
  <2>2. (q \o a) \o t = q \o (a \o t)
    BY <1>7, <1>10, <2>1, ConcatAssociative
  <2> QED BY <1>2, <1>7, <1>9, <2>1, <2>2
<1>12. s[1] = u
  <2>1. a \o t \in Seq(O)
    BY <1>7, <1>10, ConcatProperties
  <2> QED BY <1>7, <1>11, <2>1, HeadAndRest
<1>13. PICK n, k : n = u.size /\ k = RawLen(a)
  OBVIOUS
<1>14. n \in Nat \ {0}
  BY <1>7, <1>13, HeldType
<1>15. l = n + k /\ k \in Nat
  <2>1. RawLen(p) = n + k /\ k \in Nat
    BY <1>6, <1>13, RawLenTop
  <2>2. l = RawLen(p)
    BY <1>2, FlatType
  <2> QED BY <2>1, <2>2
<1>16. TwoAt(M, O, s, i, u, a, o, b, n, k)
  BY <1>2, <1>7, <1>8, <1>9, <1>11, <1>12, <1>13, <1>14, <1>15 DEF TwoAt
<1> QED BY <1>16 DEF LocatedTwo

-----------------------------------------------------------------------------
\* movdn moves the top operand to index i of both stacks.
LEMMA MovdnFaithful ==
    ASSUME NEW M, NEW O, NEW S, NEW floor, NEW e, Given(M, O, S, floor, e), NEW i \in Nat
    PROVE  /\ Yields(Faithful(M, O, S, floor), e, Movdn(e, i), MoveDown(e.stack, i))
           /\ Movdn(e, i).outcome = "ok" => i # 0 /\ i < Len(e.stack)
<1> DEFINE G == Faithful(M, O, S, floor)
           place == EffectiveIndexInclusive(e.stack, i)
           ops == Copies(e.stack[1].size, Op("movdn", place))
           next == Becomes(e, MoveDown(e.stack, i), ops)
           condition == i < Reach /\ CanMove(e.stack, i)
<1>1. /\ e.stack \in Seq(O) /\ Expands(M, O, S) /\ Setting(M, O, S, floor)
      /\ e \in G /\ floor \in Seq(S)
  BY GivenStack
<1>2. ASSUME e.outcome = "ok", condition PROVE Yields(G, e, next, MoveDown(e.stack, i))
  <2>1. i < Len(e.stack) /\ i # 0
    BY <1>2 DEF CanMove
  <2>2. PICK u, c, o, b, n, k : TwoAt(M, O, e.stack, i, u, c, o, b, n, k)
    BY <1>1, <2>1, LocateTwo DEF LocatedTwo
  <2>3. PICK v : v = e.stack
    OBVIOUS
  <2>4. /\ u \in O /\ c \in Seq(O) /\ o \in O /\ b \in Seq(O)
        /\ v = << u >> \o (c \o (<< o >> \o b)) /\ u = v[1]
        /\ Len(c) + 1 = i /\ k \in Nat /\ k = RawLen(c) /\ n \in Nat \ {0} /\ n = u.size
        /\ place = n + k + o.size - 1
    BY <2>2, <2>3 DEF TwoAt
  <2>5. PICK a : a = Append(c, o)
    OBVIOUS
  <2>6. a \in Seq(O) /\ Len(a) = i
    <3>1. Append(c, o) \in Seq(O) /\ Len(Append(c, o)) = Len(c) + 1
      BY <2>4, AppendProperties
    <3> QED BY <2>4, <2>5, <3>1
  <2>7. PICK l, m : l = RawLen(a) /\ m = o.size
    OBVIOUS
  <2>8. l = k + m /\ m \in Nat \ {0} /\ l \in Nat
    <3>1. RawLen(Append(c, o)) = RawLen(c) + o.size
      BY <2>4, RawLenAppend
    <3>2. m \in Nat \ {0}
      BY <1>1, <2>4, <2>7, HeldType
    <3> QED BY <2>4, <2>5, <2>7, <3>1, <3>2
  <2>9. c \o (<< o >> \o b) = a \o b
    <3>1. PICK q \in Seq(O) : q = << o >>
      BY <2>4, Single
    <3>2. c \in Seq(O) /\ b \in Seq(O)
      BY <2>4
    <3>3. (c \o q) \o b = c \o (q \o b)
      BY <3>2, ConcatAssociative
    <3>4. a = c \o q
      BY <2>4, <2>5, <3>1, AppendIsConcat
    <3> QED BY <3>1, <3>3, <3>4
  <2>10. Above(O, a, u, b, v)
    BY <2>4, <2>6, <2>9 DEF Above
  <2>11. PICK w : w = a \o (<< u >> \o b)
    OBVIOUS
  <2>12. Between(O, a, u, b, w)
    BY <2>4, <2>6, <2>11 DEF Between
  <2>13. MoveDown(v, i) = w
    BY <2>6, <2>10, <2>12, MoveDownOf
  <2>14. PICK x, fa, y : /\ x = Held(M, u) /\ fa = Flat(M, a) /\ y = Image(M, b, floor)
    OBVIOUS
  <2>15. x \in Seq(S) /\ Len(x) = n
    BY <1>1, <2>4, <2>14, HeldType
  <2>16. /\ w \in Seq(O) /\ fa \in Seq(S) /\ y \in Seq(S)
         /\ Image(M, w, floor) = fa \o (x \o y)
    <3>1. Between(O, a, u, b, w) /\ Setting(M, O, S, floor)
      BY <1>1, <2>12
    <3>2. /\ w \in Seq(O) /\ Flat(M, a) \in Seq(S) /\ Image(M, b, floor) \in Seq(S)
          /\ Image(M, w, floor) = Flat(M, a) \o (Held(M, u) \o Image(M, b, floor))
      BY <3>1, ImageBetween
    <3> QED BY <2>14, <3>2
  <2>17. Image(M, v, floor) = x \o (fa \o y)
    <3>1. Above(O, a, u, b, v) /\ Setting(M, O, S, floor)
      BY <1>1, <2>10
    <3>2. Image(M, v, floor) = Held(M, u) \o (Flat(M, a) \o Image(M, b, floor))
      BY <3>1, ImageAbove
    <3> QED BY <2>14, <3>2
  <2>18. PICK to \in Nat \ {0} : to = n + l - 1 /\ to = n + k + m - 1
    <3>1. n + k + m - 1 = n + l - 1 /\ n + l - 1 \in Nat \ {0}
      BY <2>4, <2>8
    <3> QED BY <3>1
  <2>19. e.stack[1].size = n /\ place = to
    BY <2>3, <2>4, <2>7, <2>18
  <2>20. Leads(S, Copies(n, Op("movdn", to)), x \o (fa \o y), fa \o (x \o y))
    <3>1. Len(fa) = l
      BY <1>1, <2>6, <2>7, <2>14, FlatType
    <3>2. Len(fa) + Len(x) = to + 1
      <4>1. n \in Nat /\ l \in Nat
        BY <2>4, <2>8
      <4>2. l + n = (n + l - 1) + 1
        BY <4>1
      <4> QED BY <2>15, <2>18, <3>1, <4>2
    <3>3. Sinks(S, x)
      BY <2>15, CopiesMovdn
    <3> QED BY <2>15, <2>16, <3>2, <3>3 DEF Sinks
  <2>21. Leads(S, Copies(n, Op("movdn", to)), Image(M, e.stack, floor), Image(M, w, floor))
    BY <2>3, <2>16, <2>17, <2>20
  <2>22. ops = Copies(n, Op("movdn", to)) /\ MoveDown(e.stack, i) = w
    BY <2>3, <2>13, <2>19
  <2> HIDE DEF ops, G
  <2>23. Yields(G, e, Becomes(e, w, ops), w)
    BY <1>1, <1>2, <2>16, <2>21, <2>22, Emitted DEF G
  <2> QED BY <2>22, <2>23
<1>3. Movdn(e, i) = Require(e, condition, next)
  BY DEF Movdn
<1> HIDE DEF condition, next
<1>4. /\ Yields(G, e, Require(e, condition, next), MoveDown(e.stack, i))
      /\ Require(e, condition, next).outcome = "ok" => condition
  BY <1>1, <1>2, Required
<1> QED BY <1>3, <1>4 DEF condition, CanMove

-----------------------------------------------------------------------------
\* swap exchanges the top operand with the one at i, on both stacks.
LEMMA SwapFaithful ==
    ASSUME NEW M, NEW O, NEW S, NEW floor, NEW e, Given(M, O, S, floor, e), NEW i \in Nat
    PROVE  /\ Yields(Faithful(M, O, S, floor), e, Swap(e, i), SwapTop(e.stack, i))
           /\ Swap(e, i).outcome = "ok" => i # 0 /\ i < Len(e.stack)
<1> DEFINE G == Faithful(M, O, S, floor)
           n == e.stack[1].size
           m == Nth(e.stack, i).size
           place == EffectiveIndex(e.stack, i)
           generic == place # n /\ ~(n = 1 /\ m = 1)
           ops == SwapOps(n, m, place)
           next == Becomes(e, SwapTop(e.stack, i), ops)
           condition == /\ 0 < i /\ i < Reach /\ Indexable(e.stack, 0) /\ Indexable(e.stack, i)
                        /\ generic => (place >= n /\ (place + m - n = 2 => m = 1))
<1>1. /\ e.stack \in Seq(O) /\ Expands(M, O, S) /\ Setting(M, O, S, floor)
      /\ e \in G /\ floor \in Seq(S)
  BY GivenStack
<1>2. ASSUME e.outcome = "ok", condition PROVE Yields(G, e, next, SwapTop(e.stack, i))
  <2>1. i < Len(e.stack) /\ i # 0
    BY <1>2 DEF Indexable
  <2>2. PICK u, a, o, b, n2, k : TwoAt(M, O, e.stack, i, u, a, o, b, n2, k)
    BY <1>1, <2>1, LocateTwo DEF LocatedTwo
  <2>3. PICK v : v = e.stack
    OBVIOUS
  <2>4. /\ u \in O /\ a \in Seq(O) /\ o \in O /\ b \in Seq(O)
        /\ v = << u >> \o (a \o (<< o >> \o b)) /\ u = v[1] /\ o = Nth(v, i)
        /\ Len(a) + 1 = i /\ k \in Nat /\ k = RawLen(a) /\ n2 \in Nat \ {0} /\ n2 = u.size
        /\ place = n2 + k
    BY <2>2, <2>3 DEF TwoAt
  <2>5. PICK w : w = << o >> \o (a \o (<< u >> \o b))
    OBVIOUS
  <2>6. SwapTop(v, i) = w
    <3>1. PICK la, lb : la = Len(a) /\ lb = Len(b) /\ la \in Nat /\ lb \in Nat
      BY <2>4, LenProperties
    <3>2. InFour(O, u, a, la, o, b, lb, v) /\ InFour(O, o, a, la, u, b, lb, w)
      BY <2>4, <2>5, <3>1 DEF InFour
    <3>3. SwapTop(v, la + 1) = w
      BY <3>2, SwapPieces
    <3>4. la + 1 = i
      BY <2>4, <3>1
    <3> QED BY <3>3, <3>4
  <2>7. PICK s, t : s = << o >> \o b /\ t = << u >> \o b
    OBVIOUS
  <2>8. OnTopOf(O, o, b, s) /\ OnTopOf(O, u, b, t)
    BY <2>4, <2>7 DEF OnTopOf
  <2>9. s \in Seq(O) /\ t \in Seq(O)
    BY <1>1, <2>8, ImageTop
  <2>10. Above(O, a, u, s, v) /\ Above(O, a, o, t, w)
    BY <2>4, <2>5, <2>7, <2>9 DEF Above
  <2>11. PICK x, c, y, d, m2 : /\ x = Held(M, u) /\ c = Flat(M, a) /\ y = Held(M, o)
                               /\ d = Image(M, b, floor) /\ m2 = o.size
    OBVIOUS
  <2>12. Image(M, s, floor) = y \o d /\ Image(M, t, floor) = x \o d
    <3>1. Image(M, s, floor) = Held(M, o) \o Image(M, b, floor)
      BY <1>1, <2>8, ImageTop
    <3>2. Image(M, t, floor) = Held(M, u) \o Image(M, b, floor)
      BY <1>1, <2>8, ImageTop
    <3> QED BY <2>11, <3>1, <3>2
  <2>13. Image(M, v, floor) = x \o (c \o (y \o d))
    <3>1. Image(M, v, floor) = Held(M, u) \o (Flat(M, a) \o Image(M, s, floor))
      BY <1>1, <2>10, ImageAbove
    <3> QED BY <2>11, <2>12, <3>1
  <2>14. w \in Seq(O) /\ Image(M, w, floor) = y \o (c \o (x \o d))
    <3>1. /\ w \in Seq(O)
          /\ Image(M, w, floor) = Held(M, o) \o (Flat(M, a) \o Image(M, t, floor))
      BY <1>1, <2>10, ImageAbove
    <3> QED BY <2>11, <2>12, <3>1
  <2>15. x \in Seq(S) /\ Len(x) = n2
    BY <1>1, <2>4, <2>11, HeldType
  <2>16. y \in Seq(S) /\ Len(y) = m2 /\ m2 \in Nat \ {0}
    BY <1>1, <2>4, <2>11, HeldType
  <2>17. c \in Seq(S) /\ Len(c) = k
    BY <1>1, <2>4, <2>11, FlatType
  <2>18. d \in Seq(S)
    <3>1. Between(O, a, o, b, a \o s)
      BY <2>4, <2>7 DEF Between
    <3>2. Image(M, b, floor) \in Seq(S)
      BY <1>1, <3>1, ImageBetween
    <3> QED BY <2>11, <3>2
  <2>19. PICK iv, iw : iv = Image(M, e.stack, floor) /\ iw = Image(M, w, floor)
    OBVIOUS
  <2>20. Exchanged(S, x, c, y, d, n2, k, m2, iv, iw)
    BY <2>3, <2>4, <2>13, <2>14, <2>15, <2>16, <2>17, <2>18, <2>19 DEF Exchanged
  <2>21. Leads(S, SwapOps(n2, m2, n2 + k), iv, iw)
    BY <2>20, SwapOpsLeads
  <2>22. ops = SwapOps(n2, m2, n2 + k) /\ SwapTop(e.stack, i) = w
    BY <2>3, <2>4, <2>6, <2>11
  <2> HIDE DEF ops, G
  <2>23. Yields(G, e, Becomes(e, w, ops), w)
    BY <1>1, <1>2, <2>14, <2>19, <2>21, <2>22, Emitted DEF G
  <2> QED BY <2>22, <2>23
<1>3. Swap(e, i) = Require(e, condition, next)
  BY DEF Swap
<1> HIDE DEF condition, next
<1>4. /\ Yields(G, e, Require(e, condition, next), SwapTop(e.stack, i))
      /\ Require(e, condition, next).outcome = "ok" => condition
  BY <1>1, <1>2, Required
<1>5. condition => i # 0 /\ i < Len(e.stack)
  <2>1. 0 < i => i # 0
    OBVIOUS
  <2>2. condition => 0 < i /\ i < Len(e.stack)
    BY DEF condition, Indexable
  <2> QED BY <2>1, <2>2
<1> QED BY <1>3, <1>4, <1>5

-----------------------------------------------------------------------------
(* Dropping operands.                                                      *)

\* drop takes the top operand off both stacks.
LEMMA DropFaithful ==
    ASSUME NEW M, NEW O, NEW S, NEW floor, NEW e, Given(M, O, S, floor, e)
    PROVE  /\ Yields(Faithful(M, O, S, floor), e, Drop(e), Tail(e.stack))
           /\ Drop(e).outcome = "ok" => e.stack # << >>
<1> DEFINE G == Faithful(M, O, S, floor)
           ops == DropOps(e.stack[1].size)
           next == Becomes(e, Tail(e.stack), ops)
           condition == e.stack # << >>
<1>1. /\ e.stack \in Seq(O) /\ Expands(M, O, S) /\ Setting(M, O, S, floor)
      /\ e \in G /\ floor \in Seq(S)
  BY GivenStack
<1>2. ASSUME e.outcome = "ok", condition PROVE Yields(G, e, next, Tail(e.stack))
  <2>1. PICK v, o, b : v = e.stack /\ o = v[1] /\ b = Tail(v)
    OBVIOUS
  <2>2. OnTopOf(O, o, b, v)
    BY <1>1, <1>2, <2>1, TopAndRest
  <2>3. PICK x, y, n : x = Held(M, o) /\ y = Image(M, b, floor) /\ n = o.size
    OBVIOUS
  <2>4. b \in Seq(O) /\ o \in O
    BY <2>2 DEF OnTopOf
  <2>5. x \in Seq(S) /\ Len(x) = n /\ n \in Nat
    BY <1>1, <2>3, <2>4, HeldType
  <2>6. Image(M, v, floor) = x \o y
    <3>1. Image(M, v, floor) = Held(M, o) \o Image(M, b, floor)
      BY <1>1, <2>2, ImageTop
    <3> QED BY <2>3, <3>1
  <2>7. y \in Seq(S)
    <3>1. PICK none \in Seq(O) : none = << >>
      BY EmptySeq
    <3>2. Between(O, none, o, b, none \o v)
      BY <2>2, <2>4, <3>1 DEF Between, OnTopOf
    <3>3. Image(M, b, floor) \in Seq(S)
      BY <1>1, <3>2, ImageBetween
    <3> QED BY <2>3, <3>3
  <2>8. Leads(S, DropOps(n), x \o y, y)
    BY <2>5, <2>7, DropOpsLeads
  <2>9. Leads(S, ops, Image(M, e.stack, floor), Image(M, b, floor))
    BY <2>1, <2>3, <2>6, <2>8
  <2>10. b = Tail(e.stack)
    BY <2>1
  <2> HIDE DEF ops, G
  <2>11. Yields(G, e, Becomes(e, b, ops), b)
    BY <1>1, <1>2, <2>4, <2>9, Emitted DEF G
  <2> QED BY <2>10, <2>11
<1>3. Drop(e) = Require(e, condition, next)
  BY DEF Drop
<1> HIDE DEF condition, next
<1>4. /\ Yields(G, e, Require(e, condition, next), Tail(e.stack))
      /\ Require(e, condition, next).outcome = "ok" => condition
  BY <1>1, <1>2, Required
<1> QED BY <1>3, <1>4 DEF condition

\* dropn takes the first n operands off both stacks.
LEMMA DropnFaithful ==
    ASSUME NEW M, NEW O, NEW S, NEW floor, NEW e, Given(M, O, S, floor, e), NEW n \in Nat
    PROVE  Yields(Faithful(M, O, S, floor), e, Dropn(e, n), Without(e.stack, n))
<1> DEFINE G == Faithful(M, O, S, floor)
           ops == DropOps(EffectiveIndex(e.stack, n))
           next == Becomes(e, Without(e.stack, n), ops)
           condition == n # 0 /\ n <= Len(e.stack)
<1>1. /\ e.stack \in Seq(O) /\ Expands(M, O, S) /\ Setting(M, O, S, floor)
      /\ e \in G /\ floor \in Seq(S)
  BY GivenStack
<1>2. ASSUME e.outcome = "ok", condition PROVE Yields(G, e, next, Without(e.stack, n))
  <2>1. PICK v, m : v = e.stack /\ m = Len(v) /\ m \in Nat
    BY <1>1, LenProperties
  <2>2. v \in Seq(O) /\ Len(v) = m /\ n <= m /\ m \in Nat
    BY <1>1, <1>2, <2>1
  <2>3. PICK a, b : a = SubSeq(v, 1, n) /\ b = SubSeq(v, n + 1, m)
    OBVIOUS
  <2>4. a \in Seq(O) /\ b \in Seq(O) /\ v = a \o b
    <3>1. /\ v = SubSeq(v, 1, n) \o SubSeq(v, n + 1, m)
          /\ SubSeq(v, 1, n) \in Seq(O) /\ SubSeq(v, n + 1, m) \in Seq(O)
      BY <2>2, Cut
    <3> QED BY <2>3, <3>1
  <2>5. Cat(O, a, b, v)
    BY <2>4 DEF Cat
  <2>6. PICK fa, y, l : fa = Flat(M, a) /\ y = Image(M, b, floor) /\ l = RawLen(a)
    OBVIOUS
  <2>7. fa \in Seq(S) /\ Len(fa) = l /\ l \in Nat
    BY <1>1, <2>4, <2>6, FlatType
  <2>8. y \in Seq(S) /\ Image(M, v, floor) = fa \o y
    <3>1. Image(M, b, floor) \in Seq(S) /\ Image(M, v, floor) = Flat(M, a) \o Image(M, b, floor)
      BY <1>1, <2>5, ImageConcat
    <3> QED BY <2>6, <3>1
  <2>9. Leads(S, DropOps(l), fa \o y, y)
    BY <2>7, <2>8, DropOpsLeads
  <2>10. EffectiveIndex(e.stack, n) = l
    BY <2>1, <2>3, <2>6 DEF EffectiveIndex
  <2>11. Leads(S, ops, Image(M, e.stack, floor), Image(M, b, floor))
    BY <2>1, <2>6, <2>8, <2>9, <2>10
  <2>12. b = Without(e.stack, n)
    BY <2>1, <2>3 DEF Without
  <2> HIDE DEF ops, G
  <2>13. Yields(G, e, Becomes(e, b, ops), b)
    BY <1>1, <1>2, <2>4, <2>11, Emitted DEF G
  <2> QED BY <2>12, <2>13
<1>3. Dropn(e, n) = Require(e, condition, next)
  BY DEF Dropn
<1> HIDE DEF condition, next
<1>4. Yields(G, e, Require(e, condition, next), Without(e.stack, n))
  BY <1>1, <1>2, Required
<1> QED BY <1>3, <1>4

-----------------------------------------------------------------------------
(* Methods made of others.                                                 *)

\* f is made from e, and the compiler did not give up before.
Follows(G, e, f) == f \in G /\ (f.outcome = "ok" => e.outcome = "ok")

\* A method that yields a stack is one of those.
LEMMA FollowsFrom ==
    ASSUME NEW G, NEW e, NEW f, NEW s, Yields(G, e, f, s)
    PROVE  Follows(G, e, f)
BY DEF Yields, Follows

\* What such a method makes can be given to the next one.
LEMMA GivenAgain ==
    ASSUME NEW M, NEW O, NEW S, NEW floor, NEW e, Given(M, O, S, floor, e),
           NEW f, Follows(Faithful(M, O, S, floor), e, f)
    PROVE  Given(M, O, S, floor, f)
BY DEF Given, Follows

\* Dropping the operand at n, whichever instructions are chosen for it.
LEMMA DropOperandAtFaithful ==
    ASSUME NEW M, NEW O, NEW S, NEW floor, NEW e, Given(M, O, S, floor, e), NEW n \in Nat
    PROVE  Follows(Faithful(M, O, S, floor), e, DropOperandAt(e, n))
<1> DEFINE G == Faithful(M, O, S, floor)
<1>1. ASSUME NEW f, Given(M, O, S, floor, f) PROVE Follows(G, f, Drop(f))
  <2>1. Yields(G, f, Drop(f), Tail(f.stack))
    BY <1>1, DropFaithful
  <2> HIDE DEF G
  <2> QED BY <2>1, FollowsFrom
<1>2. CASE n = 0
  BY <1>1, <1>2 DEF DropOperandAt
<1>3. CASE n = 1
  <2>1. PICK f, one : f = Swap(e, one) /\ one = 1 /\ one \in Nat
    OBVIOUS
  <2>2. Yields(G, e, f, SwapTop(e.stack, one))
    BY <2>1, SwapFaithful
  <2>3. Follows(G, e, f)
    BY <2>2, FollowsFrom
  <2>4. Given(M, O, S, floor, f)
    BY <2>3, GivenAgain
  <2>5. Follows(G, f, Drop(f))
    BY <1>1, <2>4
  <2>6. DropOperandAt(e, n) = Drop(f)
    BY <1>3, <2>1 DEF DropOperandAt
  <2> QED BY <2>3, <2>5, <2>6 DEF Follows
<1>4. CASE n > 1
  <2>1. PICK f : f = Movup(e, n)
    OBVIOUS
  <2>2. Yields(G, e, f, MoveUp(e.stack, n))
    BY <2>1, MovupFaithful
  <2>3. Follows(G, e, f)
    BY <2>2, FollowsFrom
  <2>4. Given(M, O, S, floor, f)
    BY <2>3, GivenAgain
  <2>5. Follows(G, f, Drop(f))
    BY <1>1, <2>4
  <2>6. DropOperandAt(e, n) = Drop(f)
    BY <1>4, <2>1 DEF DropOperandAt
  <2> QED BY <2>3, <2>5, <2>6 DEF Follows
<1> QED BY <1>2, <1>3, <1>4

DA == INSTANCE FoldLemmas WITH Step <- LAMBDA p, q, e, n : DropOperandAt(e, n)

\* Truncating the stack to one operand or more.
LEMMA TruncateToSome ==
    ASSUME NEW M, NEW O, NEW S, NEW floor, NEW e, Given(M, O, S, floor, e), NEW n \in Nat, n # 0
    PROVE  Follows(Faithful(M, O, S, floor), e, TruncateStack(e, n))
<1> DEFINE G == Faithful(M, O, S, floor)
           size == Len(e.stack)
           at == [k \in 1 .. size - n |-> size - k]
           next == FoldLeft(DropOperandAt, e, at)
<1>1. /\ e.stack \in Seq(O) /\ Expands(M, O, S) /\ Setting(M, O, S, floor)
      /\ e \in G /\ floor \in Seq(S)
  BY GivenStack
<1>2. ASSUME e.outcome = "ok", n <= size PROVE next \in G
  <2>1. PICK l \in Nat : l = size - n /\ size = l + n
    <3>1. size \in Nat
      BY <1>1, LenProperties
    <3> QED BY <1>2, <3>1
  <2>2. DOMAIN at = 1 .. l /\ \A k \in 1 .. l : at[k] \in Nat
    BY <2>1
  <2> HIDE DEF at
  <2>3. next = DA!Fold(0, 0, e, at)
    BY DEF next, DA!Fold, FoldLeft, MapThenFoldSet, DA!FoldLeft, DA!MapThenFoldSet, Max, DA!Max
  <2>4. ASSUME NEW k \in 1 .. l, NEW acc \in G PROVE DropOperandAt(acc, at[k]) \in G
    <3>1. Given(M, O, S, floor, acc)
      BY <1>1, <2>4 DEF Given
    <3>2. PICK i \in Nat : i = at[k]
      BY <2>2
    <3>3. Follows(G, acc, DropOperandAt(acc, i))
      BY <3>1, DropOperandAtFaithful
    <3> QED BY <3>2, <3>3 DEF Follows
  <2> HIDE DEF G
  <2>5. DA!Fold(0, 0, e, at) \in G
    BY <1>1, <2>2, <2>4, DA!FoldKeeps
  <2> QED BY <2>3, <2>5
<1>3. TruncateStack(e, n) = Require(e, n <= size, next)
  BY DEF TruncateStack
<1> HIDE DEF next
<1>4. ASSUME e.outcome = "ok", n <= size PROVE Yields(G, e, next, next.stack)
  BY <1>2, <1>4 DEF Yields
<1>5. Yields(G, e, Require(e, n <= size, next), next.stack)
  <2>1. PICK c : c = (n <= size)
    OBVIOUS
  <2>2. e.outcome = "ok" /\ c => Yields(G, e, next, next.stack)
    BY <1>4, <2>1
  <2>3. Yields(G, e, Require(e, c, next), next.stack)
    BY <1>1, <2>2, Required
  <2> QED BY <2>1, <2>3
<1> QED BY <1>3, <1>5 DEF Yields, Follows

\* Emptying the stack, when what is left is a whole number of words.
LEMMA TruncateToNone ==
    ASSUME NEW M, NEW O, NEW S, NEW floor, NEW e, Given(M, O, S, floor, e), e.outcome = "ok",
           RawLen(e.stack) % WordSize = 0
    PROVE  Yields(Faithful(M, O, S, floor), e, TruncateStack(e, 0), << >>)
<1> DEFINE raw == RawLen(e.stack)
           ops == Copies((raw \div WordSize) + (raw % WordSize), Op("dropw", 0))
<1>1. /\ e.stack \in Seq(O) /\ Expands(M, O, S) /\ Setting(M, O, S, floor)
      /\ e \in Faithful(M, O, S, floor) /\ floor \in Seq(S)
  BY GivenStack
<1>2. PICK f, l : f = Flat(M, e.stack) /\ l = raw
  OBVIOUS
<1>3. f \in Seq(S) /\ l \in Nat /\ Len(f) = l /\ l = raw /\ f = Flat(M, e.stack)
  BY <1>1, <1>2, FlatType
<1>4. PICK k \in Nat : k = l \div 4 /\ l % 4 = 0 /\ l = k * 4
  BY <1>3 DEF WordSize
<1>5. ops = Copies(k, Op("dropw", 0))
  BY <1>3, <1>4 DEF WordSize
<1>6. Leads(S, Copies(k, Op("dropw", 0)), f \o floor, floor)
  BY <1>1, <1>3, <1>4, CopiesDropw DEF GoesByWords, WordSize
<1>7. PICK none \in Seq(O) : none = << >>
  BY EmptySeq
<1>8. Image(M, e.stack, floor) = f \o floor /\ Image(M, none, floor) = floor
  BY <1>1, <1>3, <1>7, FlatEmpty, ConcatEmptySeq DEF Image
<1> HIDE DEF ops
<1>9. Leads(S, ops, Image(M, e.stack, floor), Image(M, none, floor))
  BY <1>5, <1>6, <1>8
<1>10. Yields(Faithful(M, O, S, floor), e, Becomes(e, none, ops), none)
  BY <1>1, <1>9, Emitted
<1>11. TruncateStack(e, 0) = Becomes(e, none, ops)
  BY <1>7 DEF TruncateStack, ops
<1> QED BY <1>7, <1>10, <1>11

-----------------------------------------------------------------------------
(* Moving an operand.                                                      *)

Moved(s, n, m, commutative) ==
    CASE n = m                                  -> s
      [] {n, m} = {0, 1} /\ commutative         -> s
      [] {n, m} = {0, 1} /\ ~commutative        -> SwapTop(s, 1)
      [] n > 1 /\ m = 0                         -> MoveUp(s, n)
      [] n > 1 /\ m = 1                         -> SwapTop(MoveUp(s, n), 1)
      [] n # m /\ m > 1                         -> MoveDown(MoveUp(s, n), m)

\* move_operand_to_position does so to both stacks.
LEMMA MoveFaithful ==
    ASSUME NEW M, NEW O, NEW S, NEW floor, NEW e, Given(M, O, S, floor, e),
           NEW n \in Nat, NEW m \in Nat, NEW commutative \in BOOLEAN
    PROVE  Yields(Faithful(M, O, S, floor), e, MoveOperandToPosition(e, n, m, commutative),
                  Moved(e.stack, n, m, commutative))
<1>1. PICK G, v : G = Faithful(M, O, S, floor) /\ v = e.stack
  OBVIOUS
<1>2. e \in G /\ Yields(G, e, e, v)
  <2>1. e \in G
    BY <1>1, GivenStack
  <2> QED BY <1>1, <2>1 DEF Yields
<1>3. PICK one : one = 1 /\ one \in Nat
  OBVIOUS
<1>4. PICK f, g, h, k : /\ f = Movup(e, n) /\ g = Swap(e, 1) /\ h = Swap(f, 1)
                        /\ k = Movdn(f, m)
  OBVIOUS
<1>5. Yields(G, e, f, MoveUp(v, n))
  <2>1. Yields(Faithful(M, O, S, floor), e, Movup(e, n), MoveUp(e.stack, n))
    BY MovupFaithful
  <2> QED BY <1>1, <1>4, <2>1
<1>6. Given(M, O, S, floor, f)
  <2>1. Follows(G, e, f)
    BY <1>5, FollowsFrom
  <2> QED BY <1>1, <2>1, GivenAgain
<1>7. Yields(G, e, g, SwapTop(v, 1))
  <2>1. Yields(Faithful(M, O, S, floor), e, Swap(e, one), SwapTop(e.stack, one))
    BY <1>3, SwapFaithful
  <2> QED BY <1>1, <1>3, <1>4, <2>1
<1>8. Yields(G, f, h, SwapTop(f.stack, 1))
  <2>1. Yields(Faithful(M, O, S, floor), f, Swap(f, one), SwapTop(f.stack, one))
    BY <1>3, <1>6, SwapFaithful
  <2> QED BY <1>1, <1>3, <1>4, <2>1
<1>9. Yields(G, f, k, MoveDown(f.stack, m))
  <2>1. Yields(Faithful(M, O, S, floor), f, Movdn(f, m), MoveDown(f.stack, m))
    BY <1>6, MovdnFaithful
  <2> QED BY <1>1, <1>4, <2>1
<1>10. Yields(G, e, h, SwapTop(MoveUp(v, n), 1))
  BY <1>5, <1>8 DEF Yields
<1>11. Yields(G, e, k, MoveDown(MoveUp(v, n), m))
  BY <1>5, <1>9 DEF Yields
<1>12. PICK move, s : /\ move = MoveOperandToPosition(e, n, m, commutative)
                      /\ s = Moved(v, n, m, commutative)
  OBVIOUS
<1>13. CASE n = m
  <2>1. move = e /\ s = v
    BY <1>13, <1>12 DEF MoveOperandToPosition, Moved
  <2> QED BY <1>1, <1>2, <1>12, <2>1
<1>14. CASE n # m /\ {n, m} = {0, 1}
  <2>1. ~(n > 1) /\ ~(m > 1)
    BY <1>14
  <2>2. \/ move = e /\ s = v
        \/ move = g /\ s = SwapTop(v, 1)
    <3>1. CASE commutative
      <4>1. move = e
        BY <1>14, <1>12, <3>1 DEF MoveOperandToPosition
      <4>2. s = v
        BY <1>14, <1>12, <3>1 DEF Moved
      <4> QED BY <4>1, <4>2
    <3>2. CASE ~commutative
      <4>1. move = g
        BY <1>4, <1>14, <1>12, <2>1, <3>2 DEF MoveOperandToPosition
      <4>2. s = SwapTop(v, 1)
        BY <1>14, <1>12, <2>1, <3>2 DEF Moved
      <4> QED BY <4>1, <4>2
    <3> QED BY <3>1, <3>2
  <2> QED BY <1>1, <1>2, <1>12, <1>7, <2>2
<1>15. CASE n > 1 /\ m = 0
  <2>1. n # m /\ {n, m} # {0, 1} /\ m # 1 /\ ~(m > 1)
    BY <1>15
  <2>2. move = f
    BY <1>4, <1>12, <1>15, <2>1 DEF MoveOperandToPosition
  <2>3. s = MoveUp(v, n)
    BY <1>12, <1>15, <2>1 DEF Moved
  <2> QED BY <1>1, <1>5, <1>12, <2>2, <2>3
<1>16. CASE n > 1 /\ m = 1
  <2>1. n # m /\ {n, m} # {0, 1} /\ m # 0 /\ ~(m > 1)
    BY <1>16
  <2>2. move = h
    BY <1>4, <1>12, <1>16, <2>1 DEF MoveOperandToPosition
  <2>3. s = SwapTop(MoveUp(v, n), 1)
    BY <1>12, <1>16, <2>1 DEF Moved
  <2> QED BY <1>1, <1>10, <1>12, <2>2, <2>3
<1>17. CASE n # m /\ m > 1
  <2>1. {n, m} # {0, 1} /\ m # 0 /\ m # 1
    BY <1>17
  <2>2. move = k
    BY <1>4, <1>12, <1>17, <2>1 DEF MoveOperandToPosition
  <2>3. s = MoveDown(MoveUp(v, n), m)
    BY <1>12, <1>17, <2>1 DEF Moved
  <2> QED BY <1>1, <1>11, <1>12, <2>2, <2>3
<1>18. \/ n = m
       \/ n # m /\ {n, m} = {0, 1}
       \/ n > 1 /\ m = 0
       \/ n > 1 /\ m = 1
       \/ n # m /\ m > 1
  OBVIOUS
<1> QED BY <1>13, <1>14, <1>15, <1>16, <1>17, <1>18

-----------------------------------------------------------------------------
(* Where the operands go.                                                  *)

\* What is where after MoveUp.
LEMMA MoveUpPoints ==
    ASSUME NEW O, NEW s \in Seq(O), NEW n \in Nat, n < Len(s)
    PROVE  /\ MoveUp(s, n) \in Seq(O) /\ Len(MoveUp(s, n)) = Len(s)
           /\ MoveUp(s, n)[1] = s[n + 1]
           /\ \A j \in 1 .. n : MoveUp(s, n)[j + 1] = s[j]
<1>1. PICK m : m = Len(s) /\ m \in Nat
  BY LenProperties
<1>2. PICK a, o, b : a = SubSeq(s, 1, n) /\ o = s[n + 1] /\ b = SubSeq(s, n + 2, m)
  OBVIOUS
<1>3. Between(O, a, o, b, s) /\ Len(a) = n
  <2>1. Between(O, SubSeq(s, 1, n), s[n + 1], SubSeq(s, n + 2, m), s) /\ Len(SubSeq(s, 1, n)) = n
    BY <1>1, CutAt
  <2> QED BY <1>2, <2>1
<1>4. a \in Seq(O) /\ o \in O /\ b \in Seq(O) /\ s = a \o (<< o >> \o b)
  BY <1>3 DEF Between
<1>5. PICK t : t = << o >> \o (a \o b)
  OBVIOUS
<1>6. Above(O, a, o, b, t)
  BY <1>4, <1>5 DEF Above
<1>7. MoveUp(s, n) = t
  BY <1>3, <1>6, MoveUpOf
<1>8. PICK k : k = Len(b) /\ k \in Nat
  BY <1>4, LenProperties
<1>9. PICK q, one : q = << o >> /\ one = 1 /\ one \in Nat
  <2>1. << o >> = << o >> /\ 1 = 1 /\ 1 \in Nat
    OBVIOUS
  <2> QED BY <2>1
<1>10. q \in Seq(O) /\ Len(q) = one /\ q[1] = o
  BY <1>4, <1>9, Single
<1>11. PICK d, c, r : d = q \o b /\ c = a \o b /\ r = one + k
  OBVIOUS
<1>12. d \in Seq(O) /\ Len(d) = r /\ r \in Nat
  <2>1. Joins(O, q, one, b, k, d)
    BY <1>4, <1>8, <1>9, <1>10, <1>11 DEF Joins
  <2>2. d \in Seq(O) /\ Len(d) = one + k
    BY <2>1, JoinedParts
  <2> QED BY <1>8, <1>9, <1>11, <2>2
<1>13. Len(s) = n + r /\ \A j \in 1 .. n : s[j] = a[j]
  <2>1. Joins(O, a, n, d, r, s)
    BY <1>3, <1>4, <1>9, <1>11, <1>12 DEF Joins
  <2> QED BY <2>1, JoinedParts
<1>14. PICK l : l = n + k /\ l \in Nat
  BY <1>8
<1>15. c \in Seq(O) /\ Len(c) = l /\ \A j \in 1 .. n : c[j] = a[j]
  <2>1. Joins(O, a, n, b, k, c)
    BY <1>3, <1>4, <1>8, <1>11 DEF Joins
  <2>2. c \in Seq(O) /\ Len(c) = n + k /\ \A j \in 1 .. n : c[j] = a[j]
    BY <2>1, JoinedParts
  <2> QED BY <1>14, <2>2
<1>16. /\ t \in Seq(O) /\ Len(t) = one + l
       /\ \A j \in 1 .. one : t[j] = q[j]
       /\ \A j \in 1 .. l : t[one + j] = c[j]
  <2>1. Joins(O, q, one, c, l, t)
    BY <1>5, <1>9, <1>10, <1>11, <1>14, <1>15 DEF Joins
  <2> QED BY <2>1, JoinedParts
<1>17. Len(t) = Len(s)
  BY <1>8, <1>9, <1>11, <1>13, <1>14, <1>16
<1>18. t[1] = o
  BY <1>9, <1>10, <1>16
<1>19. \A j \in 1 .. n : t[j + 1] = s[j]
  <2>1. ASSUME NEW j \in 1 .. n PROVE t[j + 1] = s[j]
    <3>1. j \in 1 .. l /\ one + j = j + 1
      BY <1>8, <1>9, <1>14
    <3> QED BY <1>13, <1>15, <1>16, <3>1
  <2> QED BY <2>1
<1> QED BY <1>2, <1>7, <1>16, <1>17, <1>18, <1>19

\* What is where after MoveDown.
LEMMA MoveDownPoints ==
    ASSUME NEW O, NEW s \in Seq(O), NEW n \in Nat, n < Len(s)
    PROVE  /\ MoveDown(s, n) \in Seq(O) /\ Len(MoveDown(s, n)) = Len(s)
           /\ MoveDown(s, n)[n + 1] = s[1]
           /\ \A j \in 1 .. n : MoveDown(s, n)[j] = s[j + 1]
<1>1. PICK m : m = Len(s) /\ m \in Nat
  BY LenProperties
<1>2. PICK o, c : o = s[1] /\ c = Tail(s)
  OBVIOUS
<1>3. s # << >>
  BY <1>1, EmptySeq
<1>4. OnTopOf(O, o, c, s)
  BY <1>2, <1>3, TopAndRest
<1>5. o \in O /\ c \in Seq(O) /\ s = << o >> \o c
  BY <1>4 DEF OnTopOf
<1>6. PICK l : l = Len(c) /\ l \in Nat
  BY <1>5, LenProperties
<1>7. PICK q, one : q = << o >> /\ one = 1 /\ one \in Nat
  <2>1. << o >> = << o >> /\ 1 = 1 /\ 1 \in Nat
    OBVIOUS
  <2> QED BY <2>1
<1>8. q \in Seq(O) /\ Len(q) = one /\ q[1] = o
  BY <1>5, <1>7, Single
<1>9. Len(s) = one + l /\ \A j \in 1 .. l : s[one + j] = c[j]
  <2>1. Joins(O, q, one, c, l, s)
    BY <1>5, <1>6, <1>7, <1>8 DEF Joins
  <2> QED BY <2>1, JoinedParts
<1>10. n <= l
  BY <1>1, <1>6, <1>7, <1>9
<1>11. Halves(O, c, n, l)
  BY <1>5, <1>6, <1>10, CutInTwo
<1>12. PICK a, b : /\ a \in Seq(O) /\ b \in Seq(O) /\ c = a \o b
                   /\ Len(a) = n /\ Len(b) = l - n
  BY <1>11 DEF Halves
<1>13. PICK k : k = l - n /\ k \in Nat /\ Len(b) = k
  BY <1>6, <1>10, <1>12
<1>14. \A j \in 1 .. n : c[j] = a[j]
  <2>1. Joins(O, a, n, b, k, c)
    BY <1>12, <1>13 DEF Joins
  <2> QED BY <2>1, JoinedParts
<1>15. PICK d, t : d = q \o b /\ t = a \o d
  OBVIOUS
<1>16. Above(O, a, o, b, s) /\ Between(O, a, o, b, t)
  BY <1>5, <1>7, <1>12, <1>15 DEF Above, Between
<1>17. MoveDown(s, n) = t
  BY <1>12, <1>16, MoveDownOf
<1>18. PICK r : r = one + k /\ r \in Nat
  BY <1>7, <1>13
<1>19. d \in Seq(O) /\ Len(d) = r /\ d[1] = o
  <2>1. Joins(O, q, one, b, k, d)
    BY <1>7, <1>8, <1>12, <1>13, <1>15 DEF Joins
  <2>2. /\ d \in Seq(O) /\ Len(d) = one + k
        /\ \A j \in 1 .. one : d[j] = q[j]
    BY <2>1, JoinedParts
  <2>3. 1 \in 1 .. one
    BY <1>7
  <2> QED BY <1>8, <1>18, <2>2, <2>3
<1>20. /\ t \in Seq(O) /\ Len(t) = n + r
       /\ \A j \in 1 .. n : t[j] = a[j]
       /\ \A j \in 1 .. r : t[n + j] = d[j]
  <2>1. Joins(O, a, n, d, r, t)
    BY <1>12, <1>15, <1>18, <1>19 DEF Joins
  <2> QED BY <2>1, JoinedParts
<1>21. Len(t) = Len(s)
  BY <1>6, <1>7, <1>9, <1>13, <1>18, <1>20
<1>22. t[n + 1] = o
  <2>1. 1 \in 1 .. r
    BY <1>7, <1>13, <1>18
  <2> QED BY <1>19, <1>20, <2>1
<1>23. \A j \in 1 .. n : t[j] = s[j + 1]
  <2>1. ASSUME NEW j \in 1 .. n PROVE t[j] = s[j + 1]
    <3>1. j \in 1 .. l /\ one + j = j + 1
      BY <1>6, <1>7, <1>10
    <3> QED BY <1>9, <1>14, <1>20, <3>1
  <2> QED BY <2>1
<1> QED BY <1>2, <1>17, <1>20, <1>21, <1>22, <1>23

\* What is where after the first two trade places.
LEMMA SwapTopPoints ==
    ASSUME NEW O, NEW s \in Seq(O), 1 < Len(s)
    PROVE  /\ SwapTop(s, 1) \in Seq(O) /\ Len(SwapTop(s, 1)) = Len(s)
           /\ SwapTop(s, 1)[1] = s[2] /\ SwapTop(s, 1)[2] = s[1]
<1>1. PICK m : m = Len(s) /\ m \in Nat
  BY LenProperties
<1>2. s \in [1 .. m -> O] /\ 1 \in 1 .. m /\ 2 \in 1 .. m /\ 1 + 1 = 2
  BY <1>1, LenProperties
<1>3. SwapTop(s, 1) = [s EXCEPT ![1] = s[2], ![2] = s[1]]
  BY <1>2 DEF SwapTop, Nth
<1>4. SwapTop(s, 1) \in [1 .. m -> O]
  BY <1>2, <1>3
<1>5. SwapTop(s, 1) \in Seq(O) /\ Len(SwapTop(s, 1)) = m
  BY <1>1, <1>4
<1>6. SwapTop(s, 1)[1] = s[2] /\ SwapTop(s, 1)[2] = s[1]
  BY <1>2, <1>3
<1> QED BY <1>1, <1>5, <1>6

\* An operand at m or below is moved to m, and what is above m stays.
LEMMA MovedPoints ==
    ASSUME NEW O, NEW s \in Seq(O), NEW n \in Nat, NEW m \in Nat, m <= n, n < Len(s)
    PROVE  /\ Moved(s, n, m, FALSE) \in Seq(O) /\ Len(Moved(s, n, m, FALSE)) = Len(s)
           /\ Moved(s, n, m, FALSE)[m + 1] = s[n + 1]
           /\ \A j \in 1 .. m : Moved(s, n, m, FALSE)[j] = s[j]
<1>1. PICK l : l = Len(s) /\ l \in Nat
  BY LenProperties
<1>2. CASE n = m
  <2>1. Moved(s, n, m, FALSE) = s
    BY <1>2 DEF Moved
  <2> QED BY <1>2, <2>1
<1>3. CASE n = 1 /\ m = 0
  <2>1. Moved(s, n, m, FALSE) = SwapTop(s, 1)
    <3>1. n # m /\ {n, m} = {0, 1} /\ ~(n > 1) /\ ~(m > 1)
      BY <1>3
    <3> QED BY <3>1 DEF Moved
  <2>2. n + 1 = 2 /\ m + 1 = 1 /\ 1 .. m = {} /\ 1 < Len(s)
    BY <1>3
  <2>3. /\ SwapTop(s, 1) \in Seq(O) /\ Len(SwapTop(s, 1)) = Len(s)
        /\ SwapTop(s, 1)[1] = s[2]
    BY <2>2, SwapTopPoints
  <2> QED BY <2>1, <2>2, <2>3
<1>4. PICK t : t = MoveUp(s, n)
  OBVIOUS
<1>5. /\ t \in Seq(O) /\ Len(t) = l /\ t[1] = s[n + 1]
      /\ \A j \in 1 .. n : t[j + 1] = s[j]
  BY <1>1, <1>4, MoveUpPoints
<1>6. CASE n > 1 /\ m = 0
  <2>1. Moved(s, n, m, FALSE) = t
    <3>1. n # m /\ {n, m} # {0, 1}
      BY <1>6
    <3> QED BY <1>4, <1>6, <3>1 DEF Moved
  <2>2. m + 1 = 1 /\ 1 .. m = {}
    BY <1>6
  <2> QED BY <1>1, <1>5, <2>1, <2>2
<1>7. CASE n > 1 /\ m = 1
  <2>1. Moved(s, n, m, FALSE) = SwapTop(t, 1)
    <3>1. n # m /\ {n, m} # {0, 1} /\ m # 0
      BY <1>7
    <3> QED BY <1>4, <1>7, <3>1 DEF Moved
  <2>2. m + 1 = 2 /\ 1 < l /\ 1 \in 1 .. n /\ 1 + 1 = 2 /\ \A j \in 1 .. m : j = 1
    BY <1>1, <1>7
  <2>3. /\ SwapTop(t, 1) \in Seq(O) /\ Len(SwapTop(t, 1)) = l
        /\ SwapTop(t, 1)[1] = t[2] /\ SwapTop(t, 1)[2] = t[1]
    BY <1>5, <2>2, SwapTopPoints
  <2>4. t[2] = s[1]
    BY <1>5, <2>2
  <2> QED BY <1>1, <1>5, <2>1, <2>2, <2>3, <2>4
<1>8. CASE n # m /\ m > 1
  <2>1. PICK u : u = MoveDown(t, m)
    OBVIOUS
  <2>2. Moved(s, n, m, FALSE) = u
    <3>1. {n, m} # {0, 1} /\ m # 0 /\ m # 1
      BY <1>8
    <3> QED BY <1>4, <1>8, <2>1, <3>1 DEF Moved
  <2>3. m < Len(t)
    BY <1>1, <1>5
  <2>4. /\ u \in Seq(O) /\ Len(u) = l /\ u[m + 1] = t[1]
        /\ \A j \in 1 .. m : u[j] = t[j + 1]
    BY <1>5, <2>1, <2>3, MoveDownPoints
  <2>5. \A j \in 1 .. m : j \in 1 .. n
    OBVIOUS
  <2> QED BY <1>1, <1>5, <2>2, <2>4, <2>5
<1>9. \/ n = m
      \/ n = 1 /\ m = 0
      \/ n > 1 /\ m = 0
      \/ n > 1 /\ m = 1
      \/ n # m /\ m > 1
  OBVIOUS
<1> QED BY <1>2, <1>3, <1>6, <1>7, <1>8, <1>9

-----------------------------------------------------------------------------
(* Finding a value on the stack.                                           *)

Stands(o, v) == o.kind = "value" /\ o.value = v

Topmost(s, v, n) ==
    /\ n \in Nat /\ n < Len(s) /\ Stands(s[n + 1], v)
    /\ \A j \in 1 .. n : ~Stands(s[j], v)

\* Find returns the index of the topmost operand that stands for the value.
LEMMA FindIs ==
    ASSUME NEW O, NEW s \in Seq(O), NEW v, OnStack(s, v)
    PROVE  Topmost(s, v, Find(s, v))
<1>1. PICK m : m = Len(s) /\ m \in Nat /\ DOMAIN s = 1 .. m
  BY LenProperties
<1> DEFINE T == {i \in 1 .. m : Stands(s[i], v)}
           Least(i) == Stands(s[i], v) /\ \A j \in 1 .. i - 1 : ~Stands(s[j], v)
<1>2. T \subseteq Nat /\ T # {}
  BY <1>1 DEF OnStack, Stands
<1>3. PICK i \in T : \A j \in T : i <= j
  BY <1>2, X!LeastNumber
<1>4. i \in 1 .. m /\ Least(i)
  <2>1. ASSUME NEW j \in 1 .. i - 1 PROVE ~Stands(s[j], v)
    <3>1. j \in 1 .. m /\ ~(i <= j)
      BY <1>1, <1>3
    <3> QED BY <1>3, <3>1
  <2> QED BY <1>3, <2>1
<1>5. Find(s, v) = (CHOOSE k \in 1 .. m : Least(k)) - 1
  BY <1>1 DEF Find, Stands
<1> HIDE DEF Least
<1>6. PICK k : k = (CHOOSE j \in 1 .. m : Least(j))
  OBVIOUS
<1>7. k \in 1 .. m /\ Least(k)
  BY <1>4, <1>6
<1>8. PICK n : n = k - 1 /\ n \in Nat /\ n < m /\ k = n + 1
  BY <1>1, <1>7
<1>9. Find(s, v) = n
  BY <1>5, <1>6, <1>8
<1>10. Stands(s[n + 1], v) /\ \A j \in 1 .. n : ~Stands(s[j], v)
  <2>1. Stands(s[k], v) /\ \A j \in 1 .. k - 1 : ~Stands(s[j], v)
    BY <1>7 DEF Least
  <2> QED BY <1>8, <2>1
<1> QED BY <1>1, <1>8, <1>9, <1>10 DEF Topmost

-----------------------------------------------------------------------------
(* Bringing arguments to the top.                                          *)

\* An argument is moved.
LEMMA MoveFollows ==
    ASSUME NEW M, NEW O, NEW S, NEW floor, NEW e, Given(M, O, S, floor, e),
           NEW n \in Nat, NEW m \in Nat, NEW commutative \in BOOLEAN
    PROVE  Follows(Faithful(M, O, S, floor), e, MoveOperandToPosition(e, n, m, commutative))
<1>1. PICK G, f, s : /\ G = Faithful(M, O, S, floor)
                     /\ f = MoveOperandToPosition(e, n, m, commutative)
                     /\ s = Moved(e.stack, n, m, commutative)
  OBVIOUS
<1>2. Yields(Faithful(M, O, S, floor), e, MoveOperandToPosition(e, n, m, commutative),
             Moved(e.stack, n, m, commutative))
  BY MoveFaithful
<1>3. Yields(G, e, f, s)
  BY <1>1, <1>2
<1>4. Follows(G, e, f)
  BY <1>3, FollowsFrom
<1> QED BY <1>1, <1>4

\* An argument is copied.
LEMMA CopyFollows ==
    ASSUME NEW M, NEW O, NEW S, NEW floor, NEW e, Given(M, O, S, floor, e),
           NEW n \in Nat, NEW commutative \in BOOLEAN
    PROVE  Follows(Faithful(M, O, S, floor), e, CopyOperandToPosition(e, n, 0, commutative))
<1>1. PICK G, f, s : G = Faithful(M, O, S, floor) /\ f = Dup(e, n) /\ s = DupTop(e.stack, n)
  OBVIOUS
<1>2. Yields(Faithful(M, O, S, floor), e, Dup(e, n), DupTop(e.stack, n))
  BY DupFaithful
<1>3. Yields(G, e, f, s)
  BY <1>1, <1>2
<1>4. Follows(G, e, f)
  BY <1>3, FollowsFrom
<1>5. CopyOperandToPosition(e, n, 0, commutative) = f
  BY <1>1 DEF CopyOperandToPosition
<1> QED BY <1>1, <1>4, <1>5

\* What is required, and what follows from it.
LEMMA RequiredFollows ==
    ASSUME NEW M, NEW O, NEW S, NEW floor, NEW e \in Faithful(M, O, S, floor),
           NEW condition, NEW next,
           e.outcome = "ok" /\ condition => Follows(Faithful(M, O, S, floor), e, next)
    PROVE  /\ Follows(Faithful(M, O, S, floor), e, Require(e, condition, next))
           /\ Require(e, condition, next).outcome = "ok" =>
                  condition /\ Require(e, condition, next) = next
<1>1. PICK G, s, f : G = Faithful(M, O, S, floor) /\ s = next.stack /\ f = Require(e, condition, next)
  OBVIOUS
<1>2. e.outcome = "ok" /\ condition => Yields(G, e, next, s)
  BY <1>1 DEF Follows, Yields
<1>3. Yields(G, e, f, s) /\ (f.outcome = "ok" => condition)
  <2>1. e.outcome = "ok" /\ condition => Yields(Faithful(M, O, S, floor), e, next, s)
    BY <1>1, <1>2
  <2>2. /\ Yields(Faithful(M, O, S, floor), e, Require(e, condition, next), s)
        /\ Require(e, condition, next).outcome = "ok" => condition
    BY <2>1, Required
  <2> QED BY <1>1, <2>2
<1>4. Follows(G, e, f)
  BY <1>3, FollowsFrom
<1>5. f.outcome = "ok" => f = next
  <2> SUFFICES ASSUME f.outcome = "ok" PROVE f = next
    OBVIOUS
  <2>1. e.outcome = "ok" /\ condition
    BY <1>3 DEF Yields
  <2> QED BY <1>1, <2>1 DEF Require
<1> QED BY <1>1, <1>3, <1>4, <1>5

\* The topmost operand that stands for v is moved to m, and it is not above m.
Brings(e, v, m, f) ==
    /\ e.outcome = "ok" /\ OnStack(e.stack, v) /\ m \in Nat
    /\ \A j \in 1 .. m : ~Stands(e.stack[j], v)
    /\ f = MoveOperandToPosition(e, Find(e.stack, v), m, FALSE)

\* It ends up at m, below the same operands.
LEMMA FoundMoves ==
    ASSUME NEW M, NEW O, NEW S, NEW floor, NEW e, Given(M, O, S, floor, e), NEW v, NEW m, NEW f, Brings(e, v, m, f)
    PROVE  /\ Follows(Faithful(M, O, S, floor), e, f)
           /\ f.outcome = "ok" => /\ m < Len(f.stack) /\ Stands(f.stack[m + 1], v)
                                  /\ \A j \in 1 .. m : f.stack[j] = e.stack[j]
<1>1. /\ e.outcome = "ok" /\ OnStack(e.stack, v) /\ m \in Nat
      /\ \A j \in 1 .. m : ~Stands(e.stack[j], v)
      /\ f = MoveOperandToPosition(e, Find(e.stack, v), m, FALSE)
  BY DEF Brings
<1>2. PICK G, s, n, t : /\ G = Faithful(M, O, S, floor) /\ s = e.stack /\ n = Find(s, v)
                        /\ t = Moved(s, n, m, FALSE)
  OBVIOUS
<1>3. s \in Seq(O)
  BY <1>2, GivenStack
<1>4. n \in Nat /\ n < Len(s) /\ Stands(s[n + 1], v) /\ \A j \in 1 .. n : ~Stands(s[j], v)
  <2>1. Topmost(s, v, Find(s, v))
    BY <1>1, <1>2, <1>3, FindIs
  <2> QED BY <1>2, <2>1 DEF Topmost
<1>5. m <= n
  <2> SUFFICES ASSUME ~(m <= n) PROVE FALSE
    OBVIOUS
  <2>1. n + 1 \in 1 .. m
    BY <1>1, <1>4
  <2> QED BY <1>1, <1>2, <1>4, <2>1
<1>6. Yields(G, e, f, t)
  <2>1. FALSE \in BOOLEAN
    OBVIOUS
  <2>2. Yields(Faithful(M, O, S, floor), e, MoveOperandToPosition(e, n, m, FALSE),
               Moved(e.stack, n, m, FALSE))
    BY <1>1, <1>4, <2>1, MoveFaithful
  <2> QED BY <1>1, <1>2, <2>2
<1>7. Follows(G, e, f)
  BY <1>6, FollowsFrom
<1>8. /\ t \in Seq(O) /\ Len(t) = Len(s) /\ t[m + 1] = s[n + 1]
      /\ \A j \in 1 .. m : t[j] = s[j]
  <2>1. s \in Seq(O) /\ n \in Nat /\ m <= n /\ n < Len(s)
    BY <1>3, <1>4, <1>5
  <2>2. m \in Nat
    BY <1>1
  <2>3. /\ Moved(s, n, m, FALSE) \in Seq(O) /\ Len(Moved(s, n, m, FALSE)) = Len(s)
        /\ Moved(s, n, m, FALSE)[m + 1] = s[n + 1]
        /\ \A j \in 1 .. m : Moved(s, n, m, FALSE)[j] = s[j]
    BY <2>1, <2>2, MovedPoints
  <2> QED BY <1>2, <2>3
<1>9. m < Len(t)
  <2>1. PICK l : l = Len(s) /\ l \in Nat
    BY <1>3, LenProperties
  <2> QED BY <1>1, <1>4, <1>5, <1>8, <2>1
<1>10. f.outcome = "ok" => f.stack = t
  BY <1>6 DEF Yields
<1> QED BY <1>2, <1>4, <1>7, <1>8, <1>9, <1>10

-----------------------------------------------------------------------------
(* How the stack is left to a successor.                                   *)

DU == INSTANCE FoldLemmas WITH Step <- LAMBDA p, q, acc, operand : KeepOrDrop(p, acc, operand)
PA == INSTANCE FoldLemmas WITH Step <- LAMBDA p, q, f, i : PlaceArgument(f, p, i)
RO == INSTANCE FoldLemmas WITH Step <- LAMBDA p, q, f, i : RenameOperand(f, i - 1, p[i])

\* The operands that are not used later are dropped, wherever they are.
LEMMA DropUnusedFollows ==
    ASSUME NEW M, NEW O, NEW S, NEW floor, NEW e, Given(M, O, S, floor, e), NEW used, NEW live
    PROVE  Follows(Faithful(M, O, S, floor), e, DropUnused(e, used, live))
<1>1. PICK G, s, kept, base : /\ G = Faithful(M, O, S, floor) /\ s = e.stack
                              /\ kept = used \union live /\ base = [e |-> e, index |-> 0]
  OBVIOUS
<1>2. s \in Seq(O) /\ e \in G /\ Setting(M, O, S, floor)
  BY <1>1, GivenStack
<1>3. PICK n \in Nat : DOMAIN s = 1 .. n
  BY <1>2, LenProperties
<1> DEFINE H == {f \in G : Follows(G, e, f)}
           I == [e : H, index : Nat]
<1>4. base \in I
  BY <1>1, <1>2 DEF Follows
<1>5. ASSUME NEW i \in 1 .. n, NEW acc \in I PROVE KeepOrDrop(kept, acc, s[i]) \in I
  <2>1. PICK f, at : f = acc.e /\ at = acc.index /\ at \in Nat /\ at + 1 \in Nat /\ f \in G /\ Follows(G, e, f)
    BY <1>5
  <2>2. Given(M, O, S, floor, f)
    BY <1>1, <1>2, <2>1 DEF Given
  <2>3. PICK c, d, g, h : /\ c = Indexable(f.stack, at) /\ d = DropOperandAt(f, at)
                          /\ g = Require(f, c, f) /\ h = Require(f, c, d)
    OBVIOUS
  <2>4. Follows(G, f, f)
    BY <2>1 DEF Follows
  <2>5. Follows(G, f, d)
    BY <1>1, <2>1, <2>2, <2>3, DropOperandAtFaithful
  <2>6. Follows(G, f, g)
    <3>1. f \in Faithful(M, O, S, floor) /\ Follows(Faithful(M, O, S, floor), f, f)
      BY <1>1, <2>1, <2>4
    <3>2. Follows(Faithful(M, O, S, floor), f, Require(f, c, f))
      BY <3>1, RequiredFollows
    <3> QED BY <1>1, <2>3, <3>2
  <2>7. Follows(G, f, h)
    <3>1. f \in Faithful(M, O, S, floor) /\ Follows(Faithful(M, O, S, floor), f, d)
      BY <1>1, <2>1, <2>5
    <3>2. Follows(Faithful(M, O, S, floor), f, Require(f, c, d))
      BY <3>1, RequiredFollows
    <3> QED BY <1>1, <2>3, <3>2
  <2>8. g \in H /\ h \in H
    BY <2>1, <2>6, <2>7 DEF Follows
  <2>9. KeepOrDrop(kept, acc, s[i]) \in {[e |-> g, index |-> at + 1], [e |-> h, index |-> at]}
    BY <2>1, <2>3 DEF KeepOrDrop
  <2> HIDE DEF H
  <2> QED BY <2>1, <2>8, <2>9
<1> HIDE DEF I
<1>6. DU!Fold(kept, 0, base, s) \in I
  BY <1>3, <1>4, <1>5, DU!FoldKeeps
<1>7. DropUnused(e, used, live) = DU!Fold(kept, 0, base, s).e
  BY <1>1 DEF DropUnused, DU!Fold, FoldLeft, MapThenFoldSet, DU!FoldLeft, DU!MapThenFoldSet, Max, DU!Max
<1> QED BY <1>1, <1>6, <1>7 DEF I

-----------------------------------------------------------------------------
(* The arguments are placed one after the other.                           *)

Placed(args, s, i) == i <= Len(s) /\ \A j \in 1 .. i : Stands(s[j], args[j])

Distinct(args) == \A i, j \in 1 .. Len(args) : args[i] = args[j] => i = j

\* The i-th argument is placed below those before it: the search starts at the top, and finds
\* none of these because the arguments are distinct.
LEMMA PlaceFollows ==
    ASSUME NEW M, NEW O, NEW S, NEW floor, NEW e, Given(M, O, S, floor, e),
           NEW V, NEW args \in Seq(V), Distinct(args), NEW i \in 1 .. Len(args),
           e.outcome = "ok" => Placed(args, e.stack, i - 1)
    PROVE  /\ Follows(Faithful(M, O, S, floor), e, PlaceArgument(e, args, i))
           /\ PlaceArgument(e, args, i).outcome = "ok" =>
                  Placed(args, PlaceArgument(e, args, i).stack, i)
<1>1. PICK G, v, m, c, f, g : /\ G = Faithful(M, O, S, floor) /\ v = args[i] /\ m = i - 1
                              /\ c = OnStack(e.stack, v)
                              /\ f = MoveOperandToPosition(e, Find(e.stack, v), m, FALSE)
                              /\ g = Require(e, c, f)
  OBVIOUS
<1>2. PICK l : l = Len(args) /\ l \in Nat
  BY LenProperties
<1>3. m \in Nat /\ m + 1 = i /\ i \in Nat
  BY <1>1, <1>2
<1>4. PlaceArgument(e, args, i) = g
  <2>1. IsLastUse(args, i)
    <3>1. ASSUME NEW j \in i + 1 .. Len(args), args[j] = args[i] PROVE FALSE
      <4>1. j \in 1 .. Len(args) /\ j # i
        BY <1>2, <1>3
      <4> QED BY <3>1, <4>1 DEF Distinct
    <3> QED BY <3>1 DEF IsLastUse
  <2> QED BY <1>1, <2>1 DEF PlaceArgument
<1>5. ASSUME e.outcome = "ok", c
      PROVE  Follows(G, e, f) /\ (f.outcome = "ok" => Placed(args, f.stack, i))
  <2>1. m <= Len(e.stack) /\ \A j \in 1 .. m : Stands(e.stack[j], args[j])
    BY <1>1, <1>5 DEF Placed
  <2>2. \A j \in 1 .. m : ~Stands(e.stack[j], v)
    <3>1. ASSUME NEW j \in 1 .. m, Stands(e.stack[j], v) PROVE FALSE
      <4>1. j \in 1 .. Len(args) /\ j # i
        BY <1>1, <1>2
      <4>2. Stands(e.stack[j], args[j])
        BY <2>1
      <4>3. args[j] = args[i]
        BY <1>1, <3>1, <4>2 DEF Stands
      <4> QED BY <4>1, <4>3 DEF Distinct
    <3> QED BY <3>1
  <2>3. OnStack(e.stack, v) /\ e.outcome = "ok"
    BY <1>1, <1>5
  <2>4. /\ Follows(Faithful(M, O, S, floor), e, f)
        /\ f.outcome = "ok" => /\ m < Len(f.stack) /\ Stands(f.stack[m + 1], v)
                               /\ \A j \in 1 .. m : f.stack[j] = e.stack[j]
    <3>1. Brings(e, v, m, f)
      BY <1>1, <1>3, <2>2, <2>3 DEF Brings
    <3> QED BY <3>1, FoundMoves
  <2>5. ASSUME f.outcome = "ok" PROVE Placed(args, f.stack, i)
    <3>1. f.stack \in Seq(O)
      BY <1>1, <2>4 DEF Follows, Faithful, Emitters
    <3>2. PICK k : k = Len(f.stack) /\ k \in Nat
      BY <3>1, LenProperties
    <3>3. i <= k
      BY <1>3, <2>4, <2>5, <3>2
    <3>4. ASSUME NEW j \in 1 .. i PROVE Stands(f.stack[j], args[j])
      <4>1. j = m + 1 \/ j \in 1 .. m
        BY <1>3
      <4>2. CASE j = m + 1
        BY <1>1, <1>3, <2>4, <2>5, <4>2
      <4>3. CASE j \in 1 .. m
        BY <2>1, <2>4, <2>5, <4>3
      <4> QED BY <4>1, <4>2, <4>3
    <3> QED BY <3>2, <3>3, <3>4 DEF Placed
  <2> QED BY <1>1, <2>4, <2>5
<1>6. Follows(G, e, g) /\ (g.outcome = "ok" => c /\ g = f)
  <2>1. e \in Faithful(M, O, S, floor)
    BY GivenStack
  <2>2. e.outcome = "ok" /\ c => Follows(Faithful(M, O, S, floor), e, f)
    BY <1>1, <1>5
  <2>3. /\ Follows(Faithful(M, O, S, floor), e, Require(e, c, f))
        /\ Require(e, c, f).outcome = "ok" => c /\ Require(e, c, f) = f
    BY <2>1, <2>2, RequiredFollows
  <2> QED BY <1>1, <2>3
<1>7. g.outcome = "ok" => e.outcome = "ok"
  BY <1>6 DEF Follows
<1> QED BY <1>1, <1>4, <1>5, <1>6, <1>7

-----------------------------------------------------------------------------
(* The arguments are renamed to the parameters.                            *)

RenamedTo(s, params, n) ==
    [j \in 1 .. Len(s) |->
        IF j <= n THEN [kind |-> "value", value |-> params[j], size |-> s[j].size] ELSE s[j]]

\* What a successor is left with.
Prepared(M, O, floor, args, params, f, s) ==
    /\ s \in Seq(O) /\ Placed(args, s, Len(args))
    /\ f.vm = Image(M, s, floor) /\ f.stack = RenamedTo(s, params, Len(args))

\* Placed one after the other, all the arguments are on top.
LEMMA AllPlaced ==
    ASSUME NEW M, NEW O, NEW S, NEW floor, NEW e, Given(M, O, S, floor, e),
           NEW V, NEW args \in Seq(V), Distinct(args), NEW n \in Nat, n = Len(args)
    PROVE  /\ PA!Fold(args, 0, e, [i \in 1 .. n |-> i]) \in Faithful(M, O, S, floor)
           /\ PA!Fold(args, 0, e, [i \in 1 .. n |-> i]).outcome = "ok" =>
                  Placed(args, PA!Fold(args, 0, e, [i \in 1 .. n |-> i]).stack, n)
<1>1. PICK G, is : G = Faithful(M, O, S, floor) /\ is = [i \in 1 .. n |-> i]
  OBVIOUS
<1> DEFINE I == [i \in 0 .. n |-> {f \in G : f.outcome = "ok" => Placed(args, f.stack, i)}]
<1>2. e \in I[0]
  <2>1. e \in G /\ e.stack \in Seq(O)
    BY <1>1, GivenStack
  <2>2. Placed(args, e.stack, 0)
    BY <2>1, LenProperties DEF Placed
  <2> QED BY <2>1, <2>2
<1>3. ASSUME NEW i \in 1 .. n, NEW f \in I[i - 1] PROVE PlaceArgument(f, args, is[i]) \in I[i]
  <2>1. f \in G /\ (f.outcome = "ok" => Placed(args, f.stack, i - 1))
    BY <1>3
  <2>2. Given(M, O, S, floor, f)
    BY <1>1, <2>1 DEF Given
  <2>3. i \in 1 .. Len(args)
    OBVIOUS
  <2>4. PICK g : g = PlaceArgument(f, args, i)
    OBVIOUS
  <2>5. /\ Follows(Faithful(M, O, S, floor), f, PlaceArgument(f, args, i))
        /\ PlaceArgument(f, args, i).outcome = "ok" =>
               Placed(args, PlaceArgument(f, args, i).stack, i)
    BY <2>1, <2>2, <2>3, PlaceFollows
  <2>6. g \in G /\ (g.outcome = "ok" => Placed(args, g.stack, i))
    BY <1>1, <2>4, <2>5 DEF Follows
  <2>7. is[i] = i /\ g \in I[i]
    BY <1>1, <2>6
  <2> QED BY <2>4, <2>7
<1>4. DOMAIN is = 1 .. n
  BY <1>1
<1> HIDE DEF I
<1>5. PA!Fold(args, 0, e, is) \in I[n]
  BY <1>2, <1>3, <1>4, PA!FoldFollows
<1> QED BY <1>1, <1>5 DEF I

\* The renamed operands.
Named(params) == [kind : {"value"}, value : {params[j] : j \in DOMAIN params}, size : 1 .. WordSize]

\* A sequence over a set is one over a larger set.
LEMMA Wider ==
    ASSUME NEW O, NEW Q, NEW s \in Seq(O)
    PROVE  s \in Seq(O \union Q)
<1>1. PICK n : n = Len(s) /\ n \in Nat /\ s \in [1 .. n -> O]
  BY LenProperties
<1>2. s \in [1 .. n -> O \union Q]
  BY <1>1
<1> QED BY <1>1, <1>2, SeqDef

\* One more of the operands is renamed.
LEMMA RenameNext ==
    ASSUME NEW O, NEW s \in Seq(O), NEW params, NEW i \in Nat, NEW m \in Nat,
           i = m + 1, i <= Len(s)
    PROVE  Rename(RenamedTo(s, params, m), m, params[i]) = RenamedTo(s, params, i)
<1>1. PICK l : l = Len(s) /\ l \in Nat
  BY LenProperties
<1>2. PICK t : t = RenamedTo(s, params, m)
  OBVIOUS
<1>3. t = [j \in 1 .. l |->
             IF j <= m THEN [kind |-> "value", value |-> params[j], size |-> s[j].size] ELSE s[j]]
  BY <1>1, <1>2 DEF RenamedTo
<1>4. DOMAIN t = 1 .. l /\ i \in 1 .. l /\ ~(i <= m)
  BY <1>1, <1>3
<1>5. t[i] = s[i]
  BY <1>3, <1>4
<1>6. PICK o : o = [kind |-> "value", value |-> params[i], size |-> s[i].size]
  OBVIOUS
<1>7. Rename(t, m, params[i]) = [t EXCEPT ![i] = o]
  BY <1>5, <1>6 DEF Rename
<1>8. PICK u : u = RenamedTo(s, params, i)
  OBVIOUS
<1>9. u = [j \in 1 .. l |->
             IF j <= i THEN [kind |-> "value", value |-> params[j], size |-> s[j].size] ELSE s[j]]
  BY <1>1, <1>8 DEF RenamedTo
<1>10. \A j \in 1 .. l : u[j] = IF j = i THEN o ELSE t[j]
  <2>1. ASSUME NEW j \in 1 .. l PROVE u[j] = IF j = i THEN o ELSE t[j]
    <3>1. CASE j = i
      BY <1>4, <1>6, <1>9, <3>1
    <3>2. CASE j # i
      <4>1. j <= i <=> j <= m
        BY <3>2
      <4> QED BY <1>3, <1>9, <3>2, <4>1
    <3> QED BY <3>1, <3>2
  <2> QED BY <2>1
<1>11. [t EXCEPT ![i] = o] = [j \in 1 .. l |-> IF j = i THEN o ELSE t[j]]
  BY <1>4
<1>12. u = [j \in 1 .. l |-> u[j]]
  BY <1>9
<1>13. u = [t EXCEPT ![i] = o]
  BY <1>10, <1>11, <1>12
<1> QED BY <1>2, <1>7, <1>8, <1>13

\* f has the first n operands of what e has on its stack renamed.
Renames(O, S, e, params, n, f) ==
    /\ e \in Emitters(O, S) /\ e.outcome # "fault"
    /\ n \in Nat /\ 1 .. n \subseteq DOMAIN params
    /\ \A o \in O : o.size \in 1 .. WordSize
    /\ e.outcome = "ok" => n <= Len(e.stack)
    /\ f = RO!Fold(params, 0, e, [i \in 1 .. n |-> i])

\* All the arguments are renamed, and the machine's stack is left alone.
LEMMA AllRenamed ==
    ASSUME NEW O, NEW S, NEW e, NEW params, NEW n, NEW f, Renames(O, S, e, params, n, f)
    PROVE  /\ f.outcome \in {"ok", "panic"}
           /\ f.outcome = "ok" => /\ e.outcome = "ok" /\ f.vm = e.vm
                                  /\ f.stack = RenamedTo(e.stack, params, n)
<1>1. /\ e \in Emitters(O, S) /\ e.outcome # "fault"
      /\ n \in Nat /\ 1 .. n \subseteq DOMAIN params
      /\ \A o \in O : o.size \in 1 .. WordSize
      /\ e.outcome = "ok" => n <= Len(e.stack)
      /\ f = RO!Fold(params, 0, e, [i \in 1 .. n |-> i])
  BY DEF Renames
<1>2. PICK Q, is, s : Q = O \union Named(params) /\ is = [i \in 1 .. n |-> i] /\ s = e.stack
  OBVIOUS
<1>3. s \in Seq(O) /\ s \in Seq(Q)
  BY <1>1, <1>2, Wider DEF Emitters
<1>4. PICK l : l = Len(s) /\ l \in Nat
  BY <1>3, LenProperties
<1> DEFINE I == [i \in 0 .. n |->
                   {g \in Emitters(Q, S) :
                       /\ g.outcome # "fault"
                       /\ g.outcome = "ok" => /\ e.outcome = "ok" /\ g.vm = e.vm
                                              /\ g.stack = RenamedTo(s, params, i)}]
<1>5. e \in I[0]
  <2>1. e \in Emitters(Q, S)
    BY <1>1, <1>2, <1>3 DEF Emitters
  <2>2. RenamedTo(s, params, 0) = s
    <3>1. s = [j \in 1 .. l |-> s[j]] /\ \A j \in 1 .. l : ~(j <= 0)
      BY <1>3, <1>4, LenProperties
    <3> QED BY <1>4, <3>1 DEF RenamedTo
  <2> QED BY <1>1, <1>2, <2>1, <2>2
<1>6. ASSUME NEW i \in 1 .. n, NEW g \in I[i - 1]
      PROVE  RenameOperand(g, is[i] - 1, params[is[i]]) \in I[i]
  <2>1. /\ g \in Emitters(Q, S) /\ g.outcome # "fault"
        /\ g.outcome = "ok" => /\ e.outcome = "ok" /\ g.vm = e.vm
                               /\ g.stack = RenamedTo(s, params, i - 1)
    BY <1>1, <1>6
  <2>2. PICK m : m = i - 1 /\ m \in Nat /\ i \in Nat /\ i = m + 1 /\ is[i] = i
    BY <1>1, <1>2
  <2>3. PICK c, h, panic, r, t : /\ c = Indexable(g.stack, m)
                                 /\ t = Rename(g.stack, m, params[i])
                                 /\ h = [g EXCEPT !.stack = t]
                                 /\ panic = [g EXCEPT !.outcome = "panic"]
                                 /\ r = RenameOperand(g, m, params[i])
    OBVIOUS
  <2>4. r = Require(g, c, h)
    BY <2>3 DEF RenameOperand
  <2>5. CASE g.outcome # "ok"
    <3>1. r = g
      BY <2>4, <2>5 DEF Require
    <3> QED BY <2>1, <2>2, <2>3, <2>5, <3>1
  <2>6. CASE g.outcome = "ok" /\ ~c
    <3>1. r = panic
      BY <2>3, <2>4, <2>6 DEF Require
    <3>2. panic \in Emitters(Q, S) /\ panic.outcome = "panic"
      BY <2>1, <2>3 DEF Emitters
    <3>3. panic \in I[i]
      BY <3>2
    <3> QED BY <2>2, <2>3, <3>1, <3>3
  <2>7. CASE g.outcome = "ok" /\ c
    <3>1. r = h
      BY <2>4, <2>7 DEF Require
    <3>2. e.outcome = "ok" /\ g.vm = e.vm /\ g.stack = RenamedTo(s, params, m)
      BY <2>1, <2>2, <2>7
    <3>3. i <= Len(s)
      BY <1>1, <1>2, <1>4, <3>2
    <3>4. t = RenamedTo(s, params, i)
      BY <1>3, <2>2, <2>3, <3>2, <3>3, RenameNext
    <3>5. t \in Seq(Q)
      <4>1. ASSUME NEW j \in 1 .. l
            PROVE  (IF j <= i THEN [kind |-> "value", value |-> params[j], size |-> s[j].size]
                              ELSE s[j]) \in Q
        <5>1. s[j] \in O
          BY <1>3, <1>4, LenProperties
        <5>2. CASE j <= i
          <6>1. j \in DOMAIN params /\ s[j].size \in 1 .. WordSize
            BY <1>1, <5>1, <5>2
          <6>2. [kind |-> "value", value |-> params[j], size |-> s[j].size] \in Named(params)
            BY <6>1 DEF Named
          <6> QED BY <1>2, <5>2, <6>2
        <5>3. CASE ~(j <= i)
          BY <1>2, <5>1, <5>3
        <5> QED BY <5>2, <5>3
      <4>2. t \in [1 .. l -> Q]
        BY <1>4, <3>4, <4>1 DEF RenamedTo
      <4> QED BY <1>4, <4>2, SeqDef
    <3>6. h \in Emitters(Q, S) /\ h.outcome = "ok" /\ h.vm = g.vm /\ h.stack = t
      BY <2>1, <2>3, <2>7, <3>5 DEF Emitters
    <3>7. h \in I[i]
      BY <3>2, <3>4, <3>6
    <3> QED BY <2>2, <2>3, <3>1, <3>7
  <2> QED BY <2>5, <2>6, <2>7
<1>7. DOMAIN is = 1 .. n
  BY <1>1, <1>2
<1> HIDE DEF I
<1>8. RO!Fold(params, 0, e, is) \in I[n]
  BY <1>1, <1>5, <1>6, <1>7, RO!FoldFollows
<1>9. f \in I[n]
  BY <1>1, <1>2, <1>8
<1> QED BY <1>1, <1>2, <1>9 DEF I, Emitters

-----------------------------------------------------------------------------
IsPrepared(M, O, floor, args, params, f) ==
    /\ f.outcome \in {"ok", "panic"}
    /\ f.outcome = "ok" => \E s : Prepared(M, O, floor, args, params, f, s)

\* prepare_stack_arguments leaves the successor its arguments, renamed, on both stacks.
LEMMA PrepareStackArgumentsFaithful ==
    ASSUME NEW M, NEW O, NEW S, NEW floor, NEW e, Given(M, O, S, floor, e),
           NEW V, NEW args \in Seq(V), Distinct(args),
           NEW W, NEW params \in Seq(W), Len(args) <= Len(params)
    PROVE  IsPrepared(M, O, floor, args, params, PrepareStackArguments(e, args, params))
<1>1. PICK n : n = Len(args) /\ n \in Nat
  BY LenProperties
<1>2. PICK is, p, f : /\ is = [i \in 1 .. n |-> i] /\ p = PA!Fold(args, 0, e, is)
                      /\ f = RO!Fold(params, 0, p, is)
  OBVIOUS
<1>3. PrepareStackArguments(e, args, params) = f
  BY <1>1, <1>2 DEF PrepareStackArguments, PA!Fold, RO!Fold, FoldLeft, MapThenFoldSet, Max,
                    PA!FoldLeft, PA!MapThenFoldSet, PA!Max, RO!FoldLeft, RO!MapThenFoldSet, RO!Max
<1>4. /\ p \in Faithful(M, O, S, floor)
      /\ p.outcome = "ok" => Placed(args, p.stack, n)
  BY <1>1, <1>2, AllPlaced
<1>5. p \in Emitters(O, S) /\ p.outcome # "fault" /\ (p.outcome = "ok" => n <= Len(p.stack))
  BY <1>4 DEF Faithful, Placed
<1>6. 1 .. n \subseteq DOMAIN params
  <2>1. PICK k : k = Len(params) /\ k \in Nat /\ DOMAIN params = 1 .. k
    BY LenProperties
  <2> QED BY <1>1, <2>1
<1>7. \A o \in O : o.size \in 1 .. WordSize
  BY GivenStack DEF Expands
<1>8. /\ f.outcome \in {"ok", "panic"}
      /\ f.outcome = "ok" => /\ p.outcome = "ok" /\ f.vm = p.vm
                             /\ f.stack = RenamedTo(p.stack, params, n)
  <2>1. Renames(O, S, p, params, n, f)
    BY <1>1, <1>2, <1>5, <1>6, <1>7 DEF Renames
  <2> QED BY <2>1, AllRenamed
<1>9. f.outcome = "ok" => Prepared(M, O, floor, args, params, f, p.stack)
  BY <1>1, <1>4, <1>8 DEF Prepared, Faithful, Emitters
<1> QED BY <1>3, <1>8, <1>9 DEF IsPrepared

\* So does a branch, when it drops what the successor does not use before that.
LEMMA LeaveToFaithful ==
    ASSUME NEW M, NEW O, NEW S, NEW floor, NEW e, Given(M, O, S, floor, e),
           NEW V, NEW args \in Seq(V), Distinct(args), NEW live, NEW drops \in BOOLEAN,
           NEW W, NEW params \in Seq(W), Len(args) <= Len(params)
    PROVE  IsPrepared(M, O, floor, args, params, LeaveTo(e, args, params, live, drops))
<1>1. PICK G, f, used : /\ G = Faithful(M, O, S, floor) /\ used = ToSet(args)
                        /\ f = IF drops THEN DropUnused(e, used, live) ELSE e
  OBVIOUS
<1>2. e \in G /\ Setting(M, O, S, floor)
  BY <1>1, GivenStack
<1>3. f \in G
  <2>1. Follows(G, e, DropUnused(e, used, live))
    BY <1>1, DropUnusedFollows
  <2> QED BY <1>1, <1>2, <2>1 DEF Follows
<1>4. Given(M, O, S, floor, f)
  BY <1>1, <1>2, <1>3 DEF Given
<1>5. IsPrepared(M, O, floor, args, params, PrepareStackArguments(f, args, params))
  BY <1>4, PrepareStackArgumentsFaithful
<1>6. LeaveTo(e, args, params, live, drops) = PrepareStackArguments(f, args, params)
  BY <1>1 DEF LeaveTo
<1> QED BY <1>5, <1>6

=============================================================================

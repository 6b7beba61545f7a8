---------------------------- MODULE LinkerProofs ----------------------------
(***************************************************************************)
(* Proofs about the linker, whatever modules are added and in whatever     *)
(* order: the program's data segments are disjoint, and every added        *)
(* module's are among them; its globals are laid out one after the other;  *)
(* references to globals still mean what they meant in the module they     *)
(* came from; a program that links is closed; and the graph of calls that  *)
(* link reads is of the modules there are.                                 *)
(***************************************************************************)
EXTENDS Linker, StackLemmas

-----------------------------------------------------------------------------
(***************************************************************************)
(* The table of segments.                                                  *)
(***************************************************************************)
\* A segment ends no sooner than it begins.
LEMMA SegmentParts ==
    ASSUME NEW s \in Segment
    PROVE  s.offset \in Nat /\ End(s) \in Nat /\ s.offset <= End(s)
<1>1. s.offset \in Nat /\ s.size \in Nat
  BY DEF Segment
<1> QED BY <1>1 DEF End

\* A segment that insert walks past ends before the new one begins.
LEMMA PassedSegment ==
    ASSUME NEW table \in Seq(Segment), NEW s \in Segment, NEW k \in 1 .. Len(table),
           k \notin Stops(table, s)
    PROVE  End(table[k]) <= s.offset
<1>1. table[k] \in Segment
  BY ElementOfSeq
<1>2. table[k].offset \in Nat /\ End(table[k]) \in Nat /\ s.offset \in Nat /\ End(s) \in Nat
  BY <1>1, SegmentParts
<1>3. DOMAIN table = 1 .. Len(table)
  BY LenProperties
<1>4. ~(table[k].offset >= End(s)) /\ ~Conflicts(table[k], s)
  BY <1>3 DEF Stops
<1> QED BY <1>2, <1>4 DEF Conflicts

\* The first p segments end before s begins, the others begin after s ends.
Fits(table, s, p, q) ==
    /\ \A k \in 1 .. p : End(table[k]) <= s.offset
    /\ \A k \in p + 1 .. p + q : End(s) <= table[k].offset

\* Putting a segment after the p segments that end before it, and before the others.
LEMMA InsertionOrdered ==
    ASSUME NEW table \in Seq(Segment), SegmentsOrdered(table), NEW s \in Segment,
           NEW p \in Nat, NEW q \in Nat, Fits(table, s, p, q),
           NEW u \in Seq(Segment), InsertedAfter(u, table, s, p, q)
    PROVE  /\ SegmentsOrdered(u)
           /\ Range(table) \subseteq Range(u)
           /\ s \in Range(u)
<1> USE DEF Fits, InsertedAfter
<1>1. DOMAIN table = 1 .. p + q /\ DOMAIN u = 1 .. p + q + 1
  BY LenProperties
<1>2. \A i \in 1 .. p + q + 1 :
          \/ i \in 1 .. p
          \/ i = p + 1
          \/ \E k \in p + 1 .. p + q : i = k + 1
  <2> SUFFICES ASSUME NEW i \in 1 .. p + q + 1, i \notin 1 .. p, i # p + 1
               PROVE  \E k \in p + 1 .. p + q : i = k + 1
    OBVIOUS
  <2>1. i - 1 \in p + 1 .. p + q /\ i = (i - 1) + 1
    OBVIOUS
  <2> QED BY <2>1
<1>3. \A i, j \in 1 .. p + q : i < j => End(table[i]) <= table[j].offset
  BY <1>1 DEF SegmentsOrdered
<1>4. ASSUME NEW i \in 1 .. p + q + 1, NEW j \in 1 .. p + q + 1, i < j
      PROVE  End(u[i]) <= u[j].offset
  <2>1. CASE i \in 1 .. p /\ j \in 1 .. p
    <3>1. i \in 1 .. p + q /\ j \in 1 .. p + q
      BY <2>1
    <3> QED BY <1>3, <1>4, <2>1, <3>1
  <2>2. CASE i \in 1 .. p /\ j = p + 1
    BY <2>2
  <2>3. CASE i \in 1 .. p /\ \E k \in p + 1 .. p + q : j = k + 1
    <3>1. PICK k \in p + 1 .. p + q : j = k + 1
      BY <2>3
    <3>2. i \in 1 .. p + q /\ k \in 1 .. p + q /\ i < k
      BY <2>3, <3>1
    <3>3. End(table[i]) <= table[k].offset
      BY <1>3, <3>2
    <3> QED BY <2>3, <3>1, <3>3
  <2>4. CASE i = p + 1 /\ \E k \in p + 1 .. p + q : j = k + 1
    BY <2>4
  <2>5. CASE /\ \E k \in p + 1 .. p + q : i = k + 1
             /\ \E k \in p + 1 .. p + q : j = k + 1
    <3>1. PICK k \in p + 1 .. p + q : i = k + 1
      BY <2>5
    <3>2. PICK l \in p + 1 .. p + q : j = l + 1
      BY <2>5
    <3>3. k \in 1 .. p + q /\ l \in 1 .. p + q /\ k < l
      BY <1>4, <3>1, <3>2
    <3>4. End(table[k]) <= table[l].offset
      BY <1>3, <3>3
    <3> QED BY <3>1, <3>2, <3>4
  <2>6. /\ i = p + 1 => j \notin 1 .. p /\ j # p + 1
        /\ \A k \in p + 1 .. p + q : i = k + 1 => j \notin 1 .. p /\ j # p + 1
    BY <1>4
  <2> QED BY <1>2, <2>1, <2>2, <2>3, <2>4, <2>5, <2>6
<1>5. SegmentsOrdered(u)
  BY <1>1, <1>4 DEF SegmentsOrdered
<1>6. ASSUME NEW k \in 1 .. p + q PROVE table[k] \in Range(u)
  <2>1. CASE k \in 1 .. p
    <3>1. k \in DOMAIN u /\ u[k] = table[k]
      BY <1>1, <2>1
    <3> QED BY <3>1 DEF Range
  <2>2. CASE k \in p + 1 .. p + q
    <3>1. k + 1 \in DOMAIN u /\ u[k + 1] = table[k]
      BY <1>1, <2>2
    <3> QED BY <3>1 DEF Range
  <2>3. k \in 1 .. p \/ k \in p + 1 .. p + q
    OBVIOUS
  <2> QED BY <2>1, <2>2, <2>3
<1>7. Range(table) \subseteq Range(u)
  BY <1>1, <1>6 DEF Range
<1>8. p + 1 \in DOMAIN u
  BY <1>1
<1>9. s \in Range(u)
  BY <1>8 DEF Range
<1> QED BY <1>5, <1>7, <1>9

\* insert keeps the table in order and forgets nothing; when it succeeds, the segment is there.
LEMMA InsertedOrdered ==
    ASSUME NEW table \in Seq(Segment), SegmentsOrdered(table), NEW s \in Segment
    PROVE  /\ Inserted(table, s).table \in Seq(Segment)
           /\ SegmentsOrdered(Inserted(table, s).table)
           /\ Range(table) \subseteq Range(Inserted(table, s).table)
           /\ Inserted(table, s).result = "Ok" => s \in Range(Inserted(table, s).table)
<1>1. PICK n \in Nat : Len(table) = n
  BY LenProperties
<1>2. DOMAIN table = 1 .. n
  BY <1>1, LenProperties
<1>3. CASE Stops(table, s) = {}
  <2> DEFINE u == Append(table, s)
  <2>1. Inserted(table, s) = [result |-> "Ok", table |-> u]
    BY <1>3 DEF Inserted
  <2>2. /\ u \in Seq(Segment) /\ Len(u) = n + 1
        /\ \A k \in 1 .. n : u[k] = table[k]
        /\ u[n + 1] = s
    BY <1>1, AppendProperties
  <2>3. \A k \in 1 .. n : End(table[k]) <= s.offset
    BY <1>1, <1>3, PassedSegment
  <2> HIDE DEF u
  <2>4. Fits(table, s, n, 0) /\ InsertedAfter(u, table, s, n, 0)
    <3>1. n + 0 = n /\ n + 0 + 1 = n + 1 /\ n + 1 .. n + 0 = {}
      OBVIOUS
    <3> QED BY <1>1, <2>2, <2>3, <3>1 DEF Fits, InsertedAfter
  <2>5. SegmentsOrdered(u) /\ Range(table) \subseteq Range(u) /\ s \in Range(u)
    BY <2>2, <2>4, InsertionOrdered
  <2> QED BY <2>1, <2>2, <2>5
<1>4. CASE Stops(table, s) # {}
  <2>1. Stops(table, s) \in SUBSET (1 .. n)
    BY <1>2 DEF Stops
  <2> DEFINE i == Min(Stops(table, s))
  <2>2. i \in Stops(table, s) /\ \A k \in Stops(table, s) : i <= k
    BY <1>4, <2>1, MinOfPositions
  <2>3. Inserted(table, s) =
            [result |-> IF ~Conflicts(table[i], s) \/ table[i] = s THEN "Ok"
                        ELSE IF table[i].offset = s.offset THEN "Mismatch"
                        ELSE "OverlappingSegments",
             table  |-> IF Conflicts(table[i], s) THEN table ELSE InsertAt(table, i, s)]
    BY <1>4 DEF Inserted
  <2> HIDE DEF i
  <2>4. i \in 1 .. n
    BY <2>1, <2>2
  <2>5. CASE Conflicts(table[i], s)
    <3>1. Inserted(table, s).table = table
      BY <2>3, <2>5
    <3>2. Inserted(table, s).result = "Ok" => table[i] = s
      BY <2>3, <2>5
    <3>3. table[i] \in Range(table)
      BY <1>2, <2>4 DEF Range
    <3> QED BY <3>1, <3>2, <3>3
  <2>6. CASE ~Conflicts(table[i], s)
    <3>1. Inserted(table, s).table = InsertAt(table, i, s)
      BY <2>3, <2>6
    <3>2. End(s) <= table[i].offset
      <4>1. table[i].offset >= End(s)
        BY <2>2, <2>6 DEF Stops
      <4>2. table[i] \in Segment
        BY <1>1, <2>4, ElementOfSeq
      <4>3. table[i].offset \in Nat /\ End(s) \in Nat
        BY <4>2, SegmentParts
      <4> QED BY <4>1, <4>3
    <3>3. PICK p \in Nat, q \in Nat \ {0} : i = p + 1 /\ n = p + q
      <4>1. i - 1 \in Nat /\ n - (i - 1) \in Nat \ {0} /\ i = (i - 1) + 1
            /\ n = (i - 1) + (n - (i - 1))
        BY <2>4
      <4> QED BY <4>1
    <3>4. ASSUME NEW k \in 1 .. p PROVE End(table[k]) <= s.offset
      <4>1. k \in 1 .. Len(table) /\ ~(i <= k)
        BY <1>1, <3>3
      <4> QED BY <2>2, <4>1, PassedSegment
    <3>5. ASSUME NEW k \in p + 1 .. p + q PROVE End(s) <= table[k].offset
      <4>1. CASE k = i
        BY <3>2, <4>1
      <4>2. CASE k # i
        <5>1. k \in 1 .. n /\ i < k
          BY <3>3, <4>2
        <5>2. End(table[i]) <= table[k].offset
          BY <1>2, <2>4, <5>1 DEF SegmentsOrdered
        <5>3. table[i] \in Segment /\ table[k] \in Segment
          BY <1>1, <2>4, <5>1, ElementOfSeq
        <5>4. /\ table[i].offset \in Nat /\ End(table[i]) \in Nat /\ table[k].offset \in Nat
              /\ End(s) \in Nat /\ table[i].offset <= End(table[i])
          BY <5>3, SegmentParts
        <5> QED BY <3>2, <5>2, <5>4
      <4> QED BY <4>1, <4>2
    <3> DEFINE u == InsertAt(table, p + 1, s)
    <3>6. u \in Seq(Segment) /\ InsertedAfter(u, table, s, p, q)
      <4>1. Len(table) = p + q
        BY <1>1, <3>3
      <4> QED BY <4>1, InsertAtShape
    <3>7. Inserted(table, s).table = u
      BY <3>1, <3>3
    <3> HIDE DEF u
    <3>8. Fits(table, s, p, q)
      BY <3>4, <3>5 DEF Fits
    <3>9. SegmentsOrdered(u) /\ Range(table) \subseteq Range(u) /\ s \in Range(u)
      BY <3>3, <3>6, <3>8, InsertionOrdered
    <3> QED BY <3>6, <3>7, <3>9
  <2> QED BY <2>5, <2>6
<1> QED BY <1>3, <1>4

-----------------------------------------------------------------------------
(***************************************************************************)
(* The table of globals.                                                   *)
(***************************************************************************)
\* The size of a table of globals is a fold over its variables.
Sizes == INSTANCE FoldLemmas WITH Step <- LAMBDA p, q, sum, g : sum + PaddedSize(g)

\* No two variables of a table have one name.
NamesUnique(table) ==
    \A i, j \in DOMAIN table : table[i].name = table[j].name => i = j

\* The variable h may stand for g, declared in a module.
StandsFor(h, g) ==
    /\ h.ty = g.ty /\ h.linkage = g.linkage
    /\ g.init = NoInit \/ h.init = g.init

Represents(table, g, name) ==
    \E i \in DOMAIN table : table[i].name = name /\ StandsFor(table[i], g)

\* The variables of the table are still there in u, at most with an initializer more; new are live.
Extends(u, table) ==
    /\ \A i \in DOMAIN table :
           /\ i \in DOMAIN u
           /\ u[i].name = table[i].name /\ u[i].ty = table[i].ty
           /\ u[i].linkage = table[i].linkage /\ u[i].live = table[i].live
           /\ table[i].init = NoInit \/ u[i].init = table[i].init
    /\ \A i \in DOMAIN u : i \in DOMAIN table \/ u[i].live

\* A list of numbers has a bound.
LEMMA NumbersBounded ==
    ASSUME NEW n \in Nat, NEW f \in [1 .. n -> Nat]
    PROVE  \E b \in Nat : \A i \in 1 .. n : f[i] <= b
<1> DEFINE T == {k \in Nat : k <= n => \E b \in Nat : \A i \in 1 .. k : f[i] <= b}
<1>1. 0 \in T
  BY 0 \in Nat
<1>2. ASSUME NEW k \in Nat, k \in T PROVE k + 1 \in T
  <2>1. CASE k + 1 <= n
    <3>1. PICK b \in Nat : \A i \in 1 .. k : f[i] <= b
      BY <1>2, <2>1
    <3>2. PICK x \in Nat : f[k + 1] = x
      BY <2>1
    <3>3. PICK c \in Nat : b <= c /\ x <= c
      BY b \in Nat, x \in Nat, b <= x \/ x <= b
    <3>4. ASSUME NEW i \in 1 .. k + 1 PROVE f[i] <= c
      <4>1. CASE i = k + 1
        BY <3>2, <3>3, <4>1
      <4>2. CASE i \in 1 .. k
        <5>1. i \in 1 .. n
          BY <2>1, <4>2
        <5>2. f[i] \in Nat /\ f[i] <= b
          BY <3>1, <4>2, <5>1
        <5> QED BY <3>3, <5>2
      <4> QED BY <4>1, <4>2
    <3> QED BY <3>4
  <2>2. CASE ~(k + 1 <= n)
    BY <2>2
  <2> QED BY <2>1, <2>2
<1> HIDE DEF T
<1>3. Nat \subseteq T
  BY <1>1, <1>2, Sizes!NatInduct
<1>4. n \in T /\ n <= n
  BY <1>3
<1> QED BY <1>4 DEF T

\* A nonempty set of numbers up to b has a largest one.
LEMMA MaxOfNumbers ==
    ASSUME NEW b \in Nat, NEW P \in SUBSET (0 .. b), P # {}
    PROVE  Max(P) \in P /\ \A i \in P : i <= Max(P)
<1> DEFINE D == {b - i : i \in P}
<1>1. D \subseteq Nat /\ D # {}
  <2>1. \A i \in P : b - i \in Nat
    OBVIOUS
  <2> QED BY <2>1
<1>2. PICK d \in D : \A e \in D : d <= e
  BY <1>1, Sizes!LeastNumber
<1>3. PICK m \in P : d = b - m
  OBVIOUS
<1>4. ASSUME NEW i \in P PROVE m >= i
  <2>1. b - i \in D /\ b - m <= b - i
    BY <1>2, <1>3
  <2> QED BY <2>1
<1> QED BY <1>4 DEF Max

\* The suffix of a renaming is greater than any in the table.
LEMMA UnusedSuffix ==
    ASSUME NEW table \in Seq(Global), NEW symbol
    PROVE  /\ Unused(table, symbol) \in Nat \ {0}
           /\ \A i \in DOMAIN table : table[i].name.suffix # Unused(table, symbol)
<1>1. PICK n \in Nat : n = Len(table)
  BY LenProperties
<1>2. DOMAIN table = 1 .. n
  BY <1>1, LenProperties
<1>3. \A i \in 1 .. n : table[i].name.suffix \in Nat
  <2>1. \A i \in 1 .. n : table[i] \in Global
    BY <1>1, ElementOfSeq
  <2> QED BY <2>1 DEF Global, Name
<1> DEFINE f == [i \in 1 .. n |-> table[i].name.suffix]
           P == {0} \cup {table[i].name.suffix : i \in DOMAIN table}
<1>4. f \in [1 .. n -> Nat]
  BY <1>3
<1>5. PICK b \in Nat : \A i \in 1 .. n : f[i] <= b
  BY <1>4, NumbersBounded
<1>6. \A i \in 1 .. n : table[i].name.suffix \in 0 .. b
  BY <1>3, <1>5
<1>7. P \in SUBSET (0 .. b) /\ P # {}
  BY <1>2, <1>6
<1>8. \A i \in 1 .. n : table[i].name.suffix \in P
  BY <1>2
<1>9. Unused(table, symbol) = 1 + Max(P)
  BY DEF Unused
<1> HIDE DEF P
<1>10. Max(P) \in P /\ \A i \in P : i <= Max(P)
  BY <1>7, MaxOfNumbers
<1>11. PICK x \in 0 .. b : Max(P) = x
  BY <1>7, <1>10
<1>12. ASSUME NEW i \in 1 .. n PROVE table[i].name.suffix # 1 + x
  <2>1. table[i].name.suffix \in Nat /\ table[i].name.suffix <= x
    BY <1>3, <1>8, <1>10, <1>11
  <2> QED BY <2>1
<1> QED BY <1>2, <1>9, <1>11, <1>12

\* The entry of a name that the table has.
LEMMA FoundGlobal ==
    ASSUME NEW table, NEW name, Exists(table, name)
    PROVE  /\ FindGlobal(table, name) \in DOMAIN table
           /\ table[FindGlobal(table, name)].name = name
<1>1. FindGlobal(table, name) \in Entries(table, name)
  BY DEF FindGlobal, Exists
<1> QED BY <1>1 DEF Entries

\* What a declaration that does not conflict does to the table.
Declared(u, table, g) ==
    /\ u \in Seq(Global)
    /\ NamesUnique(u)
    /\ Extends(u, table)
    /\ Represents(u, g, g.name)
    /\ \A name : name # g.name => Entries(u, name) = Entries(table, name)
    /\ \A i \in DOMAIN table : table[i].name # g.name => u[i] = table[i]

LEMMA DeclareDeclares ==
    ASSUME NEW table \in Seq(Global), NamesUnique(table), NEW g \in Global, g.live,
           ~DeclareConflicts(table, g)
    PROVE  Declared(Declare(table, g), table, g)
<1>1. PICK n \in Nat : n = Len(table)
  BY LenProperties
<1>2. DOMAIN table = 1 .. n /\ table \in [1 .. n -> Global]
  BY <1>1, LenProperties
<1>3. CASE ~Exists(table, g.name)
  <2> DEFINE u == Append(table, g)
  <2>1. Declare(table, g) = u
    BY <1>3 DEF Declare
  <2>2. /\ u \in Seq(Global) /\ Len(u) = n + 1
        /\ \A k \in 1 .. n : u[k] = table[k]
        /\ u[n + 1] = g
    BY <1>1, AppendProperties
  <2> HIDE DEF u
  <2>3. DOMAIN u = 1 .. n + 1
    BY <2>2, LenProperties
  <2>4. \A i \in 1 .. n + 1 : i \in 1 .. n \/ i = n + 1
    OBVIOUS
  <2>5. \A i \in 1 .. n : i \in 1 .. n + 1
    OBVIOUS
  <2>6. \A i \in 1 .. n : table[i].name # g.name
    BY <1>2, <1>3 DEF Exists, Entries
  <2>7. NamesUnique(u)
    <3> SUFFICES ASSUME NEW i \in 1 .. n + 1, NEW j \in 1 .. n + 1, u[i].name = u[j].name
                 PROVE  i = j
      BY <2>3 DEF NamesUnique
    <3>1. CASE i \in 1 .. n /\ j \in 1 .. n
      BY <1>2, <2>2, <3>1 DEF NamesUnique
    <3>2. CASE i = n + 1 \/ j = n + 1
      BY <2>2, <2>4, <2>6, <3>2
    <3> QED BY <2>4, <3>1, <3>2
  <2>8. Extends(u, table)
    BY <1>2, <2>2, <2>3, <2>4, <2>5 DEF Extends
  <2>9. Represents(u, g, g.name)
    <3>1. n + 1 \in DOMAIN u
      BY <2>3
    <3> QED BY <2>2, <3>1 DEF Represents, StandsFor
  <2>10. ASSUME NEW name, name # g.name PROVE Entries(u, name) = Entries(table, name)
    BY <1>2, <2>2, <2>3, <2>4, <2>5, <2>10 DEF Entries
  <2> QED BY <1>2, <2>1, <2>2, <2>7, <2>8, <2>9, <2>10 DEF Declared
<1>4. CASE Exists(table, g.name)
  <2> DEFINE i == FindGlobal(table, g.name)
  <2>1. i \in 1 .. n /\ table[i].name = g.name
    BY <1>2, <1>4, FoundGlobal
  <2>2. IsCompatible(g, table[i])
    BY <1>4 DEF DeclareConflicts
  <2>3. Declare(table, g) = IF g.init = NoInit THEN table ELSE [table EXCEPT ![i].init = g.init]
    BY <1>4 DEF Declare, Merge
  <2> HIDE DEF i
  <2>4. CASE g.init = NoInit
    <3>1. Declare(table, g) = table
      BY <2>3, <2>4
    <3>2. Represents(table, g, g.name)
      BY <1>2, <2>1, <2>2, <2>4 DEF Represents, StandsFor, IsCompatible
    <3>3. Extends(table, table)
      BY DEF Extends
    <3> QED BY <3>1, <3>2, <3>3 DEF Declared
  <2>5. CASE g.init # NoInit
    <3> DEFINE h == [table[i] EXCEPT !.init = g.init]
               u == [table EXCEPT ![i] = h]
    <3>1. Declare(table, g) = u
      BY <2>3, <2>5
    <3>2. table[i] \in Global /\ g.init \in Initializer
      BY <1>2, <2>1 DEF Global
    <3>3. /\ h \in Global
          /\ h.name = table[i].name /\ h.ty = table[i].ty /\ h.linkage = table[i].linkage
          /\ h.live = table[i].live /\ h.init = g.init
      BY <3>2 DEF Global
    <3> HIDE DEF h
    <3>4. /\ DOMAIN u = 1 .. n /\ u[i] = h
          /\ \A k \in 1 .. n : k # i => u[k] = table[k]
          /\ u \in Seq(Global)
      <4>1. u \in [1 .. n -> Global]
        BY <1>2, <2>1, <3>3
      <4>2. u \in Seq(Global)
        BY <4>1, IsASeq
      <4> QED BY <1>2, <2>1, <4>2
    <3> HIDE DEF u
    <3>5. \A k \in 1 .. n : u[k].name = table[k].name
      BY <3>3, <3>4
    <3>6. NamesUnique(u)
      BY <1>2, <3>4, <3>5 DEF NamesUnique
    <3>7. table[i].init = NoInit \/ h.init = table[i].init
      BY <2>2, <2>5, <3>3 DEF IsCompatible
    <3>8. Extends(u, table)
      BY <1>2, <3>3, <3>4, <3>7 DEF Extends
    <3>9. Represents(u, g, g.name)
      BY <2>1, <2>2, <3>3, <3>4 DEF Represents, StandsFor, IsCompatible
    <3>10. \A name : Entries(u, name) = Entries(table, name)
      BY <1>2, <3>4, <3>5 DEF Entries
    <3>11. \A k \in DOMAIN table : table[k].name # g.name => u[k] = table[k]
      BY <1>2, <2>1, <3>4
    <3> QED BY <3>1, <3>4, <3>6, <3>8, <3>9, <3>10, <3>11 DEF Declared
  <2> QED BY <2>4, <2>5
<1> QED BY <1>3, <1>4

\* A name that a declaration does not use conflicts afterwards as it did before.
LEMMA DeclareElsewhere ==
    ASSUME NEW table, NEW g, NEW u, Declared(u, table, g), NEW h, h.name # g.name
    PROVE  DeclareConflicts(u, h) = DeclareConflicts(table, h)
<1>1. Entries(u, h.name) = Entries(table, h.name)
  BY DEF Declared
<1>2. Exists(u, h.name) = Exists(table, h.name)
  BY <1>1 DEF Exists
<1>3. FindGlobal(u, h.name) = FindGlobal(table, h.name)
  BY <1>1 DEF FindGlobal
<1>4. ASSUME Exists(table, h.name)
      PROVE  u[FindGlobal(table, h.name)] = table[FindGlobal(table, h.name)]
  BY <1>4, FoundGlobal DEF Declared
<1> QED BY <1>2, <1>3, <1>4 DEF DeclareConflicts

\* What stood for a variable stands for it in the table that came of it.
LEMMA ExtendsRepresents ==
    ASSUME NEW u, NEW table, Extends(u, table), NEW g, NEW name, Represents(table, g, name)
    PROVE  Represents(u, g, name)
<1>1. PICK i \in DOMAIN table : table[i].name = name /\ StandsFor(table[i], g)
  BY DEF Represents
<1>2. i \in DOMAIN u /\ u[i].name = name /\ StandsFor(u[i], g)
  BY <1>1 DEF Extends, StandsFor
<1> QED BY <1>2 DEF Represents

LEMMA ExtendsTransitive ==
    ASSUME NEW u, NEW v, NEW w, Extends(v, u), Extends(w, v)
    PROVE  Extends(w, u)
<1>1. ASSUME NEW i \in DOMAIN u
      PROVE  /\ i \in DOMAIN w
             /\ w[i].name = u[i].name /\ w[i].ty = u[i].ty
             /\ w[i].linkage = u[i].linkage /\ w[i].live = u[i].live
             /\ u[i].init = NoInit \/ w[i].init = u[i].init
  BY DEF Extends
<1>2. ASSUME NEW i \in DOMAIN w PROVE i \in DOMAIN u \/ w[i].live
  BY DEF Extends
<1> QED BY <1>1, <1>2 DEF Extends

\* An insertion that is no error: the variable is there, by the name it was given.
LEMMA TryInsertDeclares ==
    ASSUME NEW table \in Seq(Global), NamesUnique(table), NEW g \in Global, g.live,
           ~TryInsertConflicts(table, g)
    PROVE  /\ TryInsert(table, g) \in Seq(Global)
           /\ NamesUnique(TryInsert(table, g))
           /\ Extends(TryInsert(table, g), table)
           /\ Represents(TryInsert(table, g), g, InsertedName(table, g))
<1> DEFINE name == InsertedName(table, g)
           h == [g EXCEPT !.name = name]
<1>1. name \in Name /\ ~DeclareConflicts(table, [g EXCEPT !.name = name])
  <2>1. CASE DeclareConflicts(table, g)
    <3> DEFINE s == Unused(table, g.name.symbol)
    <3>1. s \in Nat /\ \A i \in DOMAIN table : table[i].name.suffix # s
      BY UnusedSuffix
    <3>2. name = [g.name EXCEPT !.suffix = s]
      BY <2>1 DEF InsertedName
    <3> HIDE DEF s
    <3>3. g.name \in Name
      BY DEF Global
    <3>4. name \in Name /\ name.suffix = s
      BY <3>1, <3>2, <3>3 DEF Name
    <3>5. ~Exists(table, name)
      BY <3>1, <3>4 DEF Exists, Entries
    <3>6. h.name = name
      BY DEF Global
    <3> QED BY <3>4, <3>5, <3>6 DEF DeclareConflicts
  <2>2. CASE ~DeclareConflicts(table, g)
    <3>1. name = g.name
      BY <2>2 DEF InsertedName
    <3> HIDE DEF name
    <3>2. h = g /\ g.name \in Name
      BY <3>1 DEF Global
    <3> QED BY <2>2, <3>1, <3>2
  <2> QED BY <2>1, <2>2
<1>2. TryInsert(table, g) = Declare(table, h)
  BY DEF TryInsert
<1> HIDE DEF name
<1>3. /\ h \in Global /\ h.live /\ h.name = name
      /\ h.ty = g.ty /\ h.linkage = g.linkage /\ h.init = g.init
  BY <1>1 DEF Global
<1>4. ~DeclareConflicts(table, h)
  BY <1>1
<1> HIDE DEF h
<1>5. Declared(Declare(table, h), table, h)
  BY <1>3, <1>4, DeclareDeclares
<1>6. Represents(Declare(table, h), g, name)
  BY <1>3, <1>5 DEF Declared, Represents, StandsFor
<1> QED BY <1>2, <1>5, <1>6 DEF Declared, name

-----------------------------------------------------------------------------
(***************************************************************************)
(* The layout of a table.                                                  *)
(***************************************************************************)
\* A variable takes up its size after its padding, or nothing.
LEMMA PaddedParts ==
    ASSUME NEW g \in Global
    PROVE  /\ g.ty.size \in Nat /\ Padding(g) \in Nat
           /\ PaddedSize(g) = IF g.live THEN Padding(g) + g.ty.size ELSE 0
           /\ PaddedSize(g) \in Nat
<1>1. g.ty \in [size : Nat, align : Nat \ {0}]
  BY TypeAssumption DEF Global
<1>2. g.ty.size \in Nat /\ g.ty.align \in Nat \ {0}
  BY <1>1
<1>3. \A n \in Nat : \A align \in Nat \ {0} : AlignOffset(n, align) \in Nat
  BY DEF AlignOffset
<1>4. Padding(g) \in Nat
  BY <1>2, <1>3 DEF Padding
<1>5. PaddedSize(g) = IF g.live THEN Padding(g) + g.ty.size ELSE 0
  BY DEF PaddedSize
<1> QED BY <1>2, <1>4, <1>5

\* The size up to a variable is the size before it and its own.
LEMMA SizeSteps ==
    ASSUME NEW table \in Seq(Global), NEW n \in Nat, n = Len(table)
    PROVE  /\ SizeUpTo(table, 0) = 0
           /\ \A i \in 1 .. n :
                  SizeUpTo(table, i) = SizeUpTo(table, i - 1) + PaddedSize(table[i])
<1>1. \A i : SizeUpTo(table, i) = Sizes!Fold(0, 0, 0, SubSeq(table, 1, i))
  BY DEF SizeUpTo, Sizes!Fold, FoldLeft, MapThenFoldSet, Sizes!FoldLeft, Sizes!MapThenFoldSet,
         Max, Sizes!Max
<1>2. SubSeq(table, 1, 0) = << >>
  BY SubSeqEmpty
<1>3. SizeUpTo(table, 0) = 0
  <2>1. SizeUpTo(table, 0) = Sizes!Fold(0, 0, 0, << >>)
    BY <1>1, <1>2
  <2>2. Sizes!Fold(0, 0, 0, << >>) = 0
    BY Sizes!FoldEmpty
  <2> QED BY <2>1, <2>2
<1>4. ASSUME NEW i \in 1 .. n
      PROVE  SizeUpTo(table, i) = SizeUpTo(table, i - 1) + PaddedSize(table[i])
  <2>1. PICK k \in Nat : i = k + 1 /\ k <= n /\ k + 1 <= n
    <3>1. i - 1 \in Nat /\ i = (i - 1) + 1 /\ i - 1 <= n
      OBVIOUS
    <3> QED BY <3>1
  <2> DEFINE before == SubSeq(table, 1, k)
             upTo   == SubSeq(table, 1, k + 1)
  <2>2. before \in Seq(Global) /\ Len(before) = k /\ \A j \in 1 .. k : before[j] = table[j]
    BY <2>1, StackCut
  <2>3. /\ upTo \in Seq(Global) /\ Len(upTo) = k + 1
        /\ \A j \in 1 .. k + 1 : upTo[j] = table[j]
    <3>1. k + 1 \in Nat
      BY <2>1
    <3> QED BY <2>1, <3>1, StackCut
  <2>4. table[k + 1] \in Global
    <3>1. k + 1 \in 1 .. Len(table)
      BY <2>1
    <3> QED BY <3>1, ElementOfSeq
  <2> HIDE DEF before, upTo
  <2>5. /\ Append(before, table[k + 1]) \in Seq(Global)
        /\ Len(Append(before, table[k + 1])) = k + 1
        /\ \A j \in 1 .. k : Append(before, table[k + 1])[j] = before[j]
        /\ Append(before, table[k + 1])[k + 1] = table[k + 1]
    BY <2>2, <2>4, AppendProperties
  <2>6. upTo = Append(before, table[k + 1])
    <3>1. \A j \in 1 .. k + 1 : upTo[j] = Append(before, table[k + 1])[j]
      <4>1. \A j \in 1 .. k + 1 : j \in 1 .. k \/ j = k + 1
        OBVIOUS
      <4> QED BY <2>2, <2>3, <2>5, <4>1
    <3> QED BY <2>3, <2>5, <3>1, SeqEqual
  <2>7. /\ Sizes!Fold(0, 0, 0, Append(before, table[k + 1])) =
               Sizes!Fold(0, 0, 0, before) + PaddedSize(table[k + 1])
    BY <2>2, <2>4, Sizes!FoldAppend
  <2>8. SizeUpTo(table, k + 1) = SizeUpTo(table, k) + PaddedSize(table[k + 1])
    BY <1>1, <2>6, <2>7 DEF before, upTo
  <2>9. i - 1 = k
    BY <2>1
  <2> QED BY <2>1, <2>8, <2>9
<1> QED BY <1>3, <1>4

\* The sizes grow from the first variable on.
LEMMA SizesGrow ==
    ASSUME NEW table \in Seq(Global), NEW n \in Nat, n = Len(table)
    PROVE  /\ \A i \in 0 .. n : SizeUpTo(table, i) \in Nat
           /\ \A i \in 0 .. n : \A j \in 0 .. n :
                  i <= j => SizeUpTo(table, i) <= SizeUpTo(table, j)
<1> DEFINE size(i) == SizeUpTo(table, i)
           T == {j \in Nat : j <= n =>
                    size(j) \in Nat /\ \A i \in 0 .. j : size(i) \in Nat /\ size(i) <= size(j)}
<1>1. size(0) = 0 /\ \A i \in 1 .. n : size(i) = size(i - 1) + PaddedSize(table[i])
  BY SizeSteps
<1>2. \A i \in 1 .. n : PaddedSize(table[i]) \in Nat
  <2>1. \A i \in 1 .. n : table[i] \in Global
    BY ElementOfSeq
  <2> QED BY <2>1, PaddedParts
<1> HIDE DEF size
<1>3. 0 \in T
  BY <1>1
<1>4. ASSUME NEW j \in Nat, j \in T PROVE j + 1 \in T
  <2>1. CASE j + 1 <= n
    <3>1. size(j) \in Nat /\ \A i \in 0 .. j : size(i) \in Nat /\ size(i) <= size(j)
      BY <1>4, <2>1
    <3>2. j + 1 \in 1 .. n /\ (j + 1) - 1 = j
      BY <2>1
    <3>3. PICK x \in Nat : PaddedSize(table[j + 1]) = x
      BY <1>2, <3>2
    <3>4. size(j + 1) = size(j) + x
      BY <1>1, <3>2, <3>3
    <3>5. size(j + 1) \in Nat /\ size(j) <= size(j + 1)
      BY <3>1, <3>4
    <3>6. \A i \in 0 .. j + 1 : i \in 0 .. j \/ i = j + 1
      OBVIOUS
    <3>7. \A i \in 0 .. j + 1 : size(i) \in Nat /\ size(i) <= size(j + 1)
      BY <3>1, <3>5, <3>6
    <3> QED BY <3>5, <3>7
  <2>2. CASE ~(j + 1 <= n)
    BY <2>2
  <2> QED BY <2>1, <2>2
<1> HIDE DEF T
<1>5. Nat \subseteq T
  BY <1>3, <1>4, Sizes!NatInduct
<1>6. ASSUME NEW j \in 0 .. n, NEW i \in 0 .. n, i <= j
      PROVE  size(j) \in Nat /\ size(i) <= size(j)
  <2>1. j \in T /\ j <= n /\ i \in 0 .. j
    BY <1>5, <1>6
  <2> QED BY <2>1 DEF T
<1>7. \A j \in 0 .. n : size(j) \in Nat
  <2>1. \A j \in 0 .. n : j <= j
    OBVIOUS
  <2> QED BY <1>6, <2>1
<1> QED BY <1>6, <1>7 DEF size

\* In any table the variables in the layout follow one another, within its size.
LEMMA LaidOut ==
    ASSUME NEW table \in Seq(Global)
    PROVE  LET live == {i \in DOMAIN table : table[i].live}
               end(i) == OffsetOf(table, i) + table[i].ty.size
           IN  \A i \in live :
                   /\ end(i) <= SizeInBytes(table)
                   /\ \A j \in live : i < j => end(i) <= OffsetOf(table, j)
<1> DEFINE end(i) == OffsetOf(table, i) + table[i].ty.size
<1>1. PICK n \in Nat : n = Len(table)
  BY LenProperties
<1>2. DOMAIN table = 1 .. n
  BY <1>1, LenProperties
<1>3. /\ \A i \in 0 .. n : SizeUpTo(table, i) \in Nat
      /\ \A i \in 0 .. n : \A j \in 0 .. n :
             i <= j => SizeUpTo(table, i) <= SizeUpTo(table, j)
  BY <1>1, SizesGrow
<1>4. SizeInBytes(table) = SizeUpTo(table, n)
  BY <1>1 DEF SizeInBytes
<1>5. ASSUME NEW i \in 1 .. n, table[i].live
      PROVE  /\ end(i) = SizeUpTo(table, i)
             /\ SizeUpTo(table, i - 1) <= OffsetOf(table, i)
             /\ OffsetOf(table, i) \in Nat
  <2>1. table[i] \in Global
    BY <1>1, ElementOfSeq
  <2>2. PICK pad \in Nat : Padding(table[i]) = pad
    BY <2>1, PaddedParts
  <2>3. PICK own \in Nat : table[i].ty.size = own
    BY <2>1, PaddedParts
  <2>4. PaddedSize(table[i]) = pad + own
    BY <1>5, <2>1, <2>2, <2>3, PaddedParts
  <2>5. i - 1 \in 0 .. n
    OBVIOUS
  <2>6. PICK before \in Nat : SizeUpTo(table, i - 1) = before
    BY <1>3, <2>5
  <2>7. OffsetOf(table, i) = before + pad
    BY <1>5, <2>2, <2>6 DEF OffsetOf, SizeBefore
  <2>8. SizeUpTo(table, i) = before + (pad + own)
    BY <1>1, <2>4, <2>6, SizeSteps
  <2> QED BY <2>3, <2>6, <2>7, <2>8
<1>6. ASSUME NEW i \in 1 .. n, table[i].live PROVE end(i) <= SizeInBytes(table)
  <2>1. i \in 0 .. n /\ n \in 0 .. n /\ i <= n
    OBVIOUS
  <2> QED BY <1>3, <1>4, <1>5, <1>6, <2>1
<1>7. ASSUME NEW i \in 1 .. n, table[i].live, NEW j \in 1 .. n, table[j].live, i < j
      PROVE  end(i) <= OffsetOf(table, j)
  <2>1. i \in 0 .. n /\ j - 1 \in 0 .. n /\ i <= j - 1
    BY <1>7
  <2>2. SizeUpTo(table, i) <= SizeUpTo(table, j - 1)
    BY <1>3, <2>1
  <2>3. /\ end(i) = SizeUpTo(table, i) /\ SizeUpTo(table, j - 1) <= OffsetOf(table, j)
        /\ OffsetOf(table, j) \in Nat
    BY <1>5, <1>7
  <2>4. SizeUpTo(table, i) \in Nat /\ SizeUpTo(table, j - 1) \in Nat
    BY <1>3, <2>1
  <2> HIDE DEF end
  <2> QED BY <2>2, <2>3, <2>4
<1> QED BY <1>2, <1>6, <1>7

-----------------------------------------------------------------------------
(***************************************************************************)
(* The linker's own globals.                                               *)
(***************************************************************************)
\* Declaring them in turn is a fold.
Declares == INSTANCE FoldLemmas WITH Step <- LAMBDA p, q, table, g : Declare(table, g)

\* The heap begins at an address, unless the linker panics.
LEMMA HeapBaseAddress ==
    ASSUME segments \in Seq(Segment), globals \in Seq(Global), ~PopulatePanics
    PROVE  HeapBase \in Data
<1>1. PICK n \in Nat : n = Len(globals)
  BY LenProperties
<1>2. SizeInBytes(globals) \in Nat
  <2>1. n \in 0 .. n
    OBVIOUS
  <2> QED BY <1>1, <2>1, SizesGrow DEF SizeInBytes
<1>3. \A k \in Nat : AlignOffset(k, WordAlign) \in 0 .. WordAlign - 1
  BY WordAlignAssumption DEF AlignOffset
<1>4. NextAvailableOffset(segments) \in Nat
  <2>1. CASE segments = << >>
    BY <2>1 DEF NextAvailableOffset
  <2>2. CASE segments # << >>
    <3>1. Last(segments) \in Segment
      BY <2>2, StackEnds
    <3>2. EndOfSegments(segments) \in Nat
      BY <2>2, <3>1, SegmentParts DEF EndOfSegments
    <3>3. PICK k \in Nat : EndOfSegments(segments) = k
      BY <3>2
    <3>4. PICK pad \in 0 .. WordAlign - 1 : AlignOffset(k, WordAlign) = pad
      BY <1>3
    <3> QED BY <2>2, <3>3, <3>4 DEF NextAvailableOffset, AlignUp
  <2> QED BY <2>1, <2>2
<1>5. PICK end \in Nat : EndOfGlobals = end
  BY <1>2, <1>4 DEF EndOfGlobals
<1>6. ~(end + WordAlign >= MaxAddr)
  BY <1>5 DEF PopulatePanics, AlignUpPanics
<1>7. PICK pad \in 0 .. WordAlign - 1 : AlignOffset(end, WordAlign) = pad
  BY <1>3
<1>8. HeapBase = end + pad
  BY <1>5, <1>7 DEF HeapBase, AlignUp
<1>9. end + pad \in 0 .. MaxAddr
  BY <1>6, WordAlignAssumption, MaxAddrAssumption
<1> QED BY <1>8, <1>9, BuiltinsAssumption

\* The builtins are variables of three names.
LEMMA BuiltinParts ==
    ASSUME HeapBase \in Data, NEW s \in {"HEAP_BASE", "HEAP_TOP", "HEAP_END"}
    PROVE  Builtin(s) \in Global /\ Builtin(s).live /\ Builtin(s).name = Plainly(s)
<1>1. Plainly(s) \in Name
  BY BuiltinsAssumption DEF Plainly, Name
<1>2. PtrType \in Type /\ "External" \in Linkage
  BY BuiltinsAssumption DEF Linkage
<1>3. [init |-> "Some", data |-> HeapBase] \in Initializer
  BY DEF Initializer
<1> HIDE DEF HeapBase, Plainly
<1>4. Builtin(s) = [name |-> Plainly(s), ty |-> PtrType, linkage |-> "External",
                    init |-> [init |-> "Some", data |-> HeapBase], live |-> TRUE]
  BY DEF Builtin
<1> QED BY <1>1, <1>2, <1>3, <1>4 DEF Global

LEMMA BuiltinsDeclared ==
    ASSUME segments \in Seq(Segment), globals \in Seq(Global), NamesUnique(globals),
           ~PopulatePanics
    PROVE  /\ FoldLeft(Declare, globals, Builtins) \in Seq(Global)
           /\ NamesUnique(FoldLeft(Declare, globals, Builtins))
           /\ Extends(FoldLeft(Declare, globals, Builtins), globals)
<1> DEFINE a == Builtin("HEAP_BASE")
           b == Builtin("HEAP_TOP")
           c == Builtin("HEAP_END")
<1>1. HeapBase \in Data
  BY HeapBaseAddress
<1>2. /\ a \in Global /\ a.live /\ a.name = Plainly("HEAP_BASE")
      /\ b \in Global /\ b.live /\ b.name = Plainly("HEAP_TOP")
      /\ c \in Global /\ c.live /\ c.name = Plainly("HEAP_END")
  BY <1>1, BuiltinParts
<1>3. a.name # b.name /\ a.name # c.name /\ b.name # c.name
  BY <1>2 DEF Plainly
<1>4. Builtins = << a, b, c >>
  BY DEF Builtins
<1> HIDE DEF a, b, c
<1>5. /\ ~DeclareConflicts(globals, a)
      /\ ~DeclareConflicts(globals, b)
      /\ ~DeclareConflicts(globals, c)
  <2>1. a \in Range(<< a, b, c >>) /\ b \in Range(<< a, b, c >>) /\ c \in Range(<< a, b, c >>)
    <3>1. /\ 1 \in DOMAIN << a, b, c >> /\ 2 \in DOMAIN << a, b, c >> /\ 3 \in DOMAIN << a, b, c >>
          /\ << a, b, c >>[1] = a /\ << a, b, c >>[2] = b /\ << a, b, c >>[3] = c
      OBVIOUS
    <3> QED BY <3>1 DEF Range
  <2> QED BY <1>4, <2>1 DEF PopulatePanics
<1> DEFINE t == Declare(globals, a)
           u == Declare(t, b)
           v == Declare(u, c)
<1>6. Declared(t, globals, a)
  BY <1>2, <1>5, DeclareDeclares
<1> HIDE DEF t
<1>7. ~DeclareConflicts(t, b) /\ ~DeclareConflicts(t, c)
  BY <1>3, <1>5, <1>6, DeclareElsewhere
<1>8. Declared(u, t, b)
  <2>1. t \in Seq(Global) /\ NamesUnique(t)
    BY <1>6 DEF Declared
  <2> QED BY <1>2, <1>7, <2>1, DeclareDeclares
<1> HIDE DEF u
<1>9. ~DeclareConflicts(u, c)
  BY <1>3, <1>7, <1>8, DeclareElsewhere
<1>10. Declared(v, u, c)
  <2>1. u \in Seq(Global) /\ NamesUnique(u)
    BY <1>8 DEF Declared
  <2> QED BY <1>2, <1>9, <2>1, DeclareDeclares
<1>11. FoldLeft(Declare, globals, << a, b, c >>) = v
  <2>1. FoldLeft(Declare, globals, << a, b, c >>) = Declares!Fold(0, 0, globals, << a, b, c >>)
    BY DEF Declares!Fold, FoldLeft, MapThenFoldSet, Declares!FoldLeft, Declares!MapThenFoldSet,
           Max, Declares!Max
  <2> DEFINE r == << >>
             s == Append(r, a)
             w == Append(s, b)
  <2>2. << a, b, c >> = Append(w, c)
    OBVIOUS
  <2>3. r \in Seq(Global)
    OBVIOUS
  <2>4. Declares!Fold(0, 0, globals, r) = globals
    BY Declares!FoldEmpty
  <2> HIDE DEF r
  <2>5. s \in Seq(Global) /\ Declares!Fold(0, 0, globals, s) = t
    <3>1. s \in Seq(Global)
      BY <1>2, <2>3, AppendProperties
    <3>2. Declares!Fold(0, 0, globals, s) = Declare(Declares!Fold(0, 0, globals, r), a)
      BY <1>2, <2>3, Declares!FoldAppend
    <3> QED BY <2>4, <3>1, <3>2 DEF t
  <2> HIDE DEF s
  <2>6. w \in Seq(Global) /\ Declares!Fold(0, 0, globals, w) = u
    <3>1. w \in Seq(Global)
      BY <1>2, <2>5, AppendProperties
    <3>2. Declares!Fold(0, 0, globals, w) = Declare(Declares!Fold(0, 0, globals, s), b)
      BY <1>2, <2>5, Declares!FoldAppend
    <3> QED BY <2>5, <3>1, <3>2 DEF u
  <2> HIDE DEF w
  <2>7. Declares!Fold(0, 0, globals, Append(w, c)) = Declare(Declares!Fold(0, 0, globals, w), c)
    BY <1>2, <2>6, Declares!FoldAppend
  <2> QED BY <2>1, <2>2, <2>6, <2>7
<1> HIDE DEF v
<1>12. Extends(v, globals)
  <2>1. Extends(t, globals) /\ Extends(u, t) /\ Extends(v, u)
    BY <1>6, <1>8, <1>10 DEF Declared
  <2>2. Extends(u, globals)
    BY <2>1, ExtendsTransitive
  <2> QED BY <2>1, <2>2, ExtendsTransitive
<1> QED BY <1>4, <1>10, <1>11, <1>12 DEF Declared

-----------------------------------------------------------------------------
(***************************************************************************)
(* The checks of link.                                                     *)
(***************************************************************************)
LEMMA GraphErrorsNamed ==
    /\ \A c : CallErrors(c) \subseteq {"LinkageMismatch", "SignatureMismatch", "panicked"}
    /\ \A id : NodeErrors(id) \subseteq {"MissingModule", "MissingFunction"}
BY DEF CallErrors, NodeErrors

LEMMA EntryErrorsNamed ==
    EntryErrors \subseteq {"MissingModule", "MissingFunction", "InvalidEntryLinkage"}
<1>1. ASSUME NEW id \in entrypoint
      PROVE  (IF id.module \notin DOMAIN pending THEN {"MissingModule"}
              ELSE IF ~Defines(id) THEN {"MissingFunction"}
              ELSE IF ~FunctionAt(id).public THEN {"InvalidEntryLinkage"}
              ELSE {}) \subseteq {"MissingModule", "MissingFunction", "InvalidEntryLinkage"}
  OBVIOUS
<1> QED BY <1>1 DEF EntryErrors

\* link goes on when the checks find nothing, or it ends with what they found; it panics
\* at a call that is not current, and at none before it has found no cycle.
LEMMA VerifyOutcome ==
    ASSUME VerifyCalls
    PROVE  /\ UNCHANGED <<segments, globals, defined, entrypoint, pending, callgraph, adding,
                          left, renamed, added>>
           /\ \/ /\ status' = "collecting"
                 /\ EntryErrors = {}
                 /\ \A c \in callgraph :
                       NodeErrors(c[1]) = {} /\ NodeErrors(c[2]) = {} /\ CallErrors(c) = {}
              \/ status' = "failed"
              \/ /\ status' = "panicked"
                 /\ Acyclic(callgraph)
                 /\ \E c \in callgraph : ~CallIsCurrent(c)
<1> DEFINE errors == IF ~Acyclic(callgraph) THEN {"InvalidCycle"}
                     ELSE IF EntryErrors # {} THEN EntryErrors
                     ELSE GraphErrors
<1>1. VerifyEnds(errors)
  BY DEF VerifyCalls
<1>2. GraphErrors \subseteq Errors \cup {"panicked"}
  BY GraphErrorsNamed DEF GraphErrors, Errors
<1>3. EntryErrors \subseteq Errors /\ "panicked" \notin EntryErrors
  BY EntryErrorsNamed DEF Errors
<1>4. "InvalidCycle" \in Errors /\ "panicked" \notin Errors /\ "collecting" \notin Errors
  BY DEF Errors
<1>5. GraphErrors = {} =>
          \A c \in callgraph :
              NodeErrors(c[1]) = {} /\ NodeErrors(c[2]) = {} /\ CallErrors(c) = {}
  BY DEF GraphErrors
<1>6. "panicked" \in GraphErrors => \E c \in callgraph : ~CallIsCurrent(c)
  <2>1. \A c : "panicked" \in CallErrors(c) => ~CallIsCurrent(c)
    BY DEF CallErrors
  <2>2. \A id : "panicked" \notin NodeErrors(id)
    BY GraphErrorsNamed
  <2> QED BY <2>1, <2>2 DEF GraphErrors
<1>7. CASE errors = {}
  BY <1>1, <1>4, <1>5, <1>7 DEF VerifyEnds
<1>8. CASE errors # {}
  <2>1. PICK result \in errors : status' = IF result \in Errors THEN "failed" ELSE result
    BY <1>1, <1>8 DEF VerifyEnds
  <2>2. CASE result \in Errors
    BY <1>1, <2>1, <2>2 DEF VerifyEnds
  <2>3. CASE result \notin Errors
    <3>1. Acyclic(callgraph) /\ result \in GraphErrors
      BY <1>3, <1>4, <2>1, <2>3
    <3>2. result = "panicked"
      BY <1>2, <2>3, <3>1
    <3> QED BY <1>1, <1>6, <2>1, <2>3, <3>1, <3>2 DEF VerifyEnds
  <2> QED BY <2>2, <2>3
<1> QED BY <1>7, <1>8

-----------------------------------------------------------------------------
(***************************************************************************)
(* The inductive invariant of the segments: what the program has of the    *)
(* module that is being added, and what is left of it, make up its own.    *)
(***************************************************************************)
SegmentsTyped ==
    /\ segments \in Seq(Segment)
    /\ left \in [segments : Seq(Segment), globals : Seq(Global)]

AddingImported ==
    status = "importing" =>
        /\ adding \in Modules
        /\ Range(adding.segments) \subseteq Range(segments) \cup Range(left.segments)

SegmentsInv ==
    /\ SegmentsTyped
    /\ SegmentsDisjoint
    /\ AddingImported
    /\ SegmentsImported

USE DEF SegmentsTyped

\* The parts of a module the proofs are about.
LEMMA ModuleSegments ==
    ASSUME NEW m \in Modules
    PROVE  m.segments \in Seq(Segment) /\ m.globals \in Seq(Global)
BY ModulesAssumption DEF Module

\* Taking the first of what is left.
LEMMA HeadOrTail ==
    ASSUME NEW S, NEW t \in Seq(S), t # << >>
    PROVE  Head(t) \in S /\ Tail(t) \in Seq(S) /\ Range(t) \subseteq {Head(t)} \cup Range(Tail(t))
<1>1. /\ Head(t) \in S /\ Tail(t) \in Seq(S)
      /\ Len(Tail(t)) = Len(t) - 1
      /\ \A i \in 1 .. Len(Tail(t)) : Tail(t)[i] = t[i + 1]
  BY HeadTailProperties
<1>2. PICK n \in Nat : Len(Tail(t)) = n
  BY <1>1, LenProperties
<1>3. DOMAIN Tail(t) = 1 .. n
  BY <1>1, <1>2, LenProperties
<1>4. DOMAIN t = 1 .. n + 1
  <2>1. Len(t) = n + 1
    <3>1. PICK k \in Nat : Len(t) = k
      BY LenProperties
    <3> QED BY <1>1, <1>2, <3>1
  <2> QED BY <2>1, LenProperties
<1>5. t[1] = Head(t)
  OBVIOUS
<1>6. ASSUME NEW i \in 1 .. n + 1 PROVE t[i] \in {Head(t)} \cup Range(Tail(t))
  <2>1. CASE i = 1
    BY <1>5, <2>1
  <2>2. CASE i # 1
    <3>1. PICK k \in 1 .. n : i = k + 1
      <4>1. i - 1 \in 1 .. n /\ i = (i - 1) + 1
        BY <2>2
      <4> QED BY <4>1
    <3>2. Tail(t)[k] = t[i]
      BY <1>1, <1>2, <3>1
    <3> QED BY <1>3, <3>2 DEF Range
  <2> QED BY <2>1, <2>2
<1> QED BY <1>1, <1>4, <1>6 DEF Range

LEMMA InitSegmentsInv == Init => SegmentsInv
<1> SUFFICES ASSUME Init PROVE SegmentsInv
  OBVIOUS
<1>1. /\ segments = << ShadowStack >> /\ status = "open" /\ added = {}
      /\ left \in [segments : Seq(Segment), globals : Seq(Global)]
  BY DEF Init, Nothing
<1>2. ShadowStack \in Segment
  BY ShadowStackAssumption
<1> HIDE DEF ShadowStack
<1>3. << ShadowStack >> \in Seq(Segment) /\ DOMAIN << ShadowStack >> = {1}
  BY <1>2
<1>4. SegmentsOrdered(<< ShadowStack >>)
  BY <1>3 DEF SegmentsOrdered
<1> QED BY <1>1, <1>3, <1>4 DEF SegmentsInv, SegmentsDisjoint, AddingImported, SegmentsImported

\* A module that is refused leaves the segments there are.
LEMMA RefusedSegments ==
    ASSUME SegmentsInv, NEW reason, Refuse(reason), UNCHANGED added,
           segments' \in Seq(Segment), SegmentsOrdered(segments'),
           Range(segments) \subseteq Range(segments')
    PROVE  SegmentsInv'
<1>1. left' \in [segments : Seq(Segment), globals : Seq(Global)] /\ status' # "importing"
  BY DEF Refuse, Nothing
<1> QED BY <1>1 DEF SegmentsInv, SegmentsDisjoint, AddingImported, SegmentsImported

LEMMA NextSegmentsInv == SegmentsInv /\ [Next]_vars => SegmentsInv'
<1> SUFFICES ASSUME SegmentsInv, [Next]_vars PROVE SegmentsInv'
  OBVIOUS
<1> USE DEF SegmentsInv
<1>1. ASSUME NEW id \in Entrypoints, WithEntrypoint(id) PROVE SegmentsInv'
  <2>1. UNCHANGED <<segments, adding, left, added>> /\ status' # "importing"
    BY <1>1 DEF WithEntrypoint
  <2> QED BY <2>1 DEF SegmentsDisjoint, AddingImported, SegmentsImported
<1>2. ASSUME NEW m \in Modules, Add(m) PROVE SegmentsInv'
  <2>1. UNCHANGED <<segments, added>>
    BY <1>2 DEF Add
  <2>2. CASE BeginImport(m)
    <3>1. m.segments \in Seq(Segment) /\ m.globals \in Seq(Global)
      BY ModuleSegments
    <3> QED BY <2>1, <2>2, <3>1
          DEF BeginImport, SegmentsDisjoint, AddingImported, SegmentsImported
  <2>3. CASE Refuse("ModuleConflict")
    BY <2>1, <2>3, RefusedSegments DEF SegmentsDisjoint
  <2> QED BY <1>2, <2>2, <2>3 DEF Add
<1>3. ASSUME ImportSegment PROVE SegmentsInv'
  <2> DEFINE s == Head(left.segments)
             inserted == Inserted(segments, s)
  <2>1. /\ status = "importing" /\ left.segments # << >>
        /\ segments' = inserted.table
        /\ UNCHANGED added
    BY <1>3 DEF ImportSegment
  <2>2. /\ s \in Segment /\ Tail(left.segments) \in Seq(Segment)
        /\ Range(left.segments) \subseteq {s} \cup Range(Tail(left.segments))
    BY <2>1, HeadOrTail
  <2> HIDE DEF s
  <2>3. /\ inserted.table \in Seq(Segment)
        /\ SegmentsOrdered(inserted.table)
        /\ Range(segments) \subseteq Range(inserted.table)
        /\ inserted.result = "Ok" => s \in Range(inserted.table)
    BY <2>2, InsertedOrdered DEF SegmentsDisjoint
  <2>4. CASE inserted.result = "Ok"
    <3>1. left' = [left EXCEPT !.segments = Tail(@)] /\ UNCHANGED <<adding, status>>
      BY <1>3, <2>4 DEF ImportSegment, inserted, s
    <3> HIDE DEF inserted
    <3>2. SegmentsDisjoint' /\ SegmentsTyped'
      BY <2>1, <2>2, <2>3, <3>1 DEF SegmentsDisjoint
    <3>3. AddingImported'
      BY <2>1, <2>2, <2>3, <2>4, <3>1 DEF AddingImported
    <3>4. SegmentsImported'
      BY <2>1, <2>3 DEF SegmentsImported
    <3> QED BY <3>2, <3>3, <3>4
  <2>5. CASE inserted.result # "Ok"
    <3>1. Refuse(inserted.result)
      BY <1>3, <2>5 DEF ImportSegment, inserted, s
    <3> HIDE DEF inserted
    <3> QED BY <2>1, <2>3, <3>1, RefusedSegments DEF SegmentsDisjoint
  <2> QED BY <2>4, <2>5
<1>4. ASSUME ImportGlobal PROVE SegmentsInv'
  <2>1. /\ UNCHANGED <<segments, added>> /\ status = "importing"
        /\ left.globals # << >>
    BY <1>4 DEF ImportGlobal
  <2>2. CASE Refuse("NameConflict")
    BY <2>1, <2>2, RefusedSegments DEF SegmentsDisjoint
  <2>3. CASE left' = [left EXCEPT !.globals = Tail(@)] /\ UNCHANGED <<adding, status>>
    <3>1. Tail(left.globals) \in Seq(Global)
      BY <2>1, HeadTailProperties
    <3>2. left'.segments = left.segments /\ SegmentsTyped'
      BY <2>1, <2>3, <3>1
    <3> QED BY <2>1, <2>3, <3>2 DEF SegmentsDisjoint, AddingImported, SegmentsImported
  <2> QED BY <1>4, <2>2, <2>3 DEF ImportGlobal
<1>5. ASSUME AddFunctions PROVE SegmentsInv'
  <2>1. /\ UNCHANGED <<segments, left>> /\ status = "importing" /\ left = Nothing
        /\ status' # "importing"
        /\ added' \subseteq added \cup {adding}
    BY <1>5 DEF AddFunctions, Refuse
  <2>2. Range(left.segments) = {}
    BY <2>1 DEF Nothing, Range
  <2>3. Range(adding.segments) \subseteq Range(segments)
    BY <2>1, <2>2 DEF AddingImported
  <2>4. SegmentsImported'
    BY <2>1, <2>3 DEF SegmentsImported
  <2> QED BY <2>1, <2>4 DEF SegmentsDisjoint, AddingImported
<1>6. ASSUME PopulateBuiltins PROVE SegmentsInv'
  <2>1. UNCHANGED <<segments, adding, left, added>> /\ status' # "importing"
    BY <1>6 DEF PopulateBuiltins
  <2> QED BY <2>1 DEF SegmentsDisjoint, AddingImported, SegmentsImported
<1>7. ASSUME VerifyCalls PROVE SegmentsInv'
  <2>1. UNCHANGED <<segments, adding, left, added>> /\ status' # "importing"
    BY <1>7, VerifyOutcome
  <2> QED BY <2>1 DEF SegmentsDisjoint, AddingImported, SegmentsImported
<1>8. ASSUME CollectGlobals PROVE SegmentsInv'
  <2>1. UNCHANGED <<segments, adding, left, added>> /\ status' # "importing"
    BY <1>8 DEF CollectGlobals, Fail
  <2> QED BY <2>1 DEF SegmentsDisjoint, AddingImported, SegmentsImported
<1>9. ASSUME UNCHANGED vars PROVE SegmentsInv'
  BY <1>9 DEF vars, SegmentsDisjoint, AddingImported, SegmentsImported
<1> QED BY <1>1, <1>2, <1>3, <1>4, <1>5, <1>6, <1>7, <1>8, <1>9 DEF Next

-----------------------------------------------------------------------------
(***************************************************************************)
(* The inductive invariant of the globals.  What links a reference to a    *)
(* variable is the names in the table, and the table never changes what a  *)
(* name stands for; of the module being added, what is no longer left is   *)
(* already represented, by the name that its references will have.         *)
(***************************************************************************)
\* What a reference to g will be rewritten to.
Meant(g) == IF g.name.symbol \in DOMAIN renamed THEN renamed[g.name.symbol] ELSE g.name

GlobalsImported ==
    status = "importing" =>
        /\ adding \in Modules /\ adding.name \notin DOMAIN pending
        /\ Range(left.globals) \subseteq Range(adding.globals)
        /\ NamesUnique(left.globals)
        /\ \A g \in Range(left.globals) : g.name.symbol \notin DOMAIN renamed
        /\ \A g \in Range(adding.globals) :
               g \in Range(left.globals) \/ Represents(globals, g, Meant(g))

ReferencesKnown ==
    \A m \in added : \A f \in Range(pending[m.name]) : \A g \in Range(m.globals) :
        g.name.symbol \in DOMAIN f.refs => Represents(globals, g, f.refs[g.name.symbol])

\* What is referred to is not collected, and before that nothing is.
ReferencedLive ==
    \A i \in DOMAIN globals :
        /\ status \notin {"linked", "failed"} => globals[i].live
        /\ globals[i].name \in Referenced => globals[i].live

GlobalsInv ==
    /\ globals \in Seq(Global)
    /\ NamesUnique(globals)
    /\ GlobalsImported
    /\ ReferencesKnown
    /\ ReferencedLive

\* The globals of a module.
LEMMA ModuleGlobals ==
    ASSUME NEW m \in Modules
    PROVE  /\ m.globals \in Seq(Global)
           /\ NamesUnique(m.globals)
           /\ \A g \in Range(m.globals) : /\ g \in Global /\ g.live
                                          /\ g.name = Plainly(g.name.symbol)
<1>1. m.globals \in Seq(Global)
  BY ModulesAssumption DEF Module
<1>2. \A i \in DOMAIN m.globals : m.globals[i].live /\ m.globals[i].name.suffix = 0
  BY ModulesAssumption
<1> DEFINE names == [i \in DOMAIN m.globals |-> m.globals[i].name]
<1>3. IsInjective(names)
  BY ModulesAssumption
<1>4. NamesUnique(m.globals)
  BY <1>3 DEF IsInjective, NamesUnique
<1>5. ASSUME NEW i \in DOMAIN m.globals
      PROVE  /\ m.globals[i] \in Global /\ m.globals[i].live
             /\ m.globals[i].name = Plainly(m.globals[i].name.symbol)
  <2>1. m.globals[i] \in Global
    BY <1>1, LenProperties, ElementOfSeq
  <2>2. m.globals[i].name \in Name /\ m.globals[i].name.suffix = 0
    BY <1>2, <2>1 DEF Global
  <2> QED BY <1>2, <2>1, <2>2 DEF Name, Plainly
<1> QED BY <1>1, <1>4, <1>5 DEF Range

\* The names in what is left of a table are of no variable that was taken from it.
LEMMA NamesLeft ==
    ASSUME NEW t \in Seq(Global), t # << >>, NamesUnique(t)
    PROVE  /\ NamesUnique(Tail(t))
           /\ Range(Tail(t)) \subseteq Range(t)
           /\ Head(t) \in Range(t)
           /\ \A g \in Range(Tail(t)) : g.name # Head(t).name
<1>1. PICK n \in Nat : Len(t) = n + 1
  <2>1. PICK k \in Nat : Len(t) = k
    BY LenProperties
  <2>2. k # 0
    BY <2>1, EmptySeq
  <2>3. k - 1 \in Nat /\ k = (k - 1) + 1
    BY <2>2
  <2> QED BY <2>1, <2>3
<1>2. DOMAIN t = 1 .. n + 1
  BY <1>1, LenProperties
<1>3. /\ Tail(t) \in Seq(Global) /\ Len(Tail(t)) = n
      /\ \A i \in 1 .. n : Tail(t)[i] = t[i + 1]
  BY <1>1, HeadTailProperties
<1>4. DOMAIN Tail(t) = 1 .. n
  BY <1>3, LenProperties
<1>5. Head(t) = t[1]
  OBVIOUS
<1>6. \A i \in 1 .. n : i + 1 \in 1 .. n + 1 /\ i + 1 # 1
  OBVIOUS
<1>7. 1 \in 1 .. n + 1
  OBVIOUS
<1> DEFINE u == Tail(t)
<1>8. DOMAIN u = 1 .. n /\ \A i \in 1 .. n : u[i] = t[i + 1]
  BY <1>3, <1>4
<1> HIDE DEF u
<1>9. NamesUnique(u)
  <2> SUFFICES ASSUME NEW i \in 1 .. n, NEW j \in 1 .. n, u[i].name = u[j].name
               PROVE  i = j
    BY <1>8 DEF NamesUnique
  <2>1. t[i + 1].name = t[j + 1].name
    BY <1>8
  <2>2. i + 1 = j + 1
    BY <1>2, <1>6, <2>1 DEF NamesUnique
  <2> QED BY <2>2
<1>10. Range(u) \subseteq Range(t)
  BY <1>2, <1>6, <1>8 DEF Range
<1>11. t[1] \in Range(t)
  BY <1>2, <1>7 DEF Range
<1>12. ASSUME NEW g \in Range(u) PROVE g.name # t[1].name
  <2>1. PICK i \in 1 .. n : g = t[i + 1]
    BY <1>8 DEF Range
  <2> QED BY <1>2, <1>6, <1>7, <2>1 DEF NamesUnique
<1> QED BY <1>5, <1>9, <1>10, <1>11, <1>12 DEF u

\* References that are known stay known while names keep what they stand for.
LEMMA ReferencesStayKnown ==
    ASSUME ReferencesKnown, UNCHANGED <<added, pending>>,
           \A g, name : Represents(globals, g, name) => Represents(globals, g, name)'
    PROVE  ReferencesKnown'
BY DEF ReferencesKnown

LEMMA InitGlobalsInv == Init => GlobalsInv
<1> SUFFICES ASSUME Init PROVE GlobalsInv
  OBVIOUS
<1>1. globals = << >> /\ left.globals = << >> /\ status = "open" /\ added = {}
  BY DEF Init, Nothing
<1> QED BY <1>1 DEF GlobalsInv, NamesUnique, GlobalsImported, ReferencesKnown, ReferencedLive

\* One more global is imported, and is represented by the name that its references will have.
LEMMA ImportGlobalKeeps ==
    ASSUME SegmentsTyped, GlobalsInv, ImportGlobal
    PROVE  GlobalsInv'
<1>0. PICK g, name, symbol :
          /\ g = Head(left.globals)
          /\ name = InsertedName(globals, g)
          /\ symbol = g.name.symbol
  OBVIOUS
<1>1. /\ status = "importing" /\ left.globals # << >>
      /\ UNCHANGED <<pending, added>>
  BY DEF ImportGlobal
<1>3. /\ globals \in Seq(Global) /\ NamesUnique(globals)
      /\ left.globals \in Seq(Global) /\ NamesUnique(left.globals)
      /\ adding \in Modules /\ adding.name \notin DOMAIN pending
      /\ Range(left.globals) \subseteq Range(adding.globals)
      /\ \A h \in Range(left.globals) : h.name.symbol \notin DOMAIN renamed
      /\ \A h \in Range(adding.globals) :
             h \in Range(left.globals) \/ Represents(globals, h, Meant(h))
  BY <1>1 DEF GlobalsInv, GlobalsImported, SegmentsTyped
<1>4. /\ NamesUnique(Tail(left.globals))
      /\ Range(Tail(left.globals)) \subseteq Range(left.globals)
      /\ g \in Range(left.globals)
      /\ \A h \in Range(Tail(left.globals)) : h.name # g.name
  BY <1>0, <1>1, <1>3, NamesLeft
<1>5. Range(left.globals) \subseteq {g} \cup Range(Tail(left.globals))
  BY <1>0, <1>1, <1>3, HeadOrTail
<1>6. /\ g \in Global /\ g.live /\ g.name = Plainly(symbol)
      /\ NamesUnique(adding.globals)
      /\ \A h \in Range(adding.globals) : h.name = Plainly(h.name.symbol)
  BY <1>0, <1>3, <1>4, ModuleGlobals
<1>7. \A i \in DOMAIN globals : globals[i].live
  BY <1>1 DEF GlobalsInv, ReferencedLive
<1>8. CASE TryInsertConflicts(globals, g)
  <2>1. status' = "open" /\ UNCHANGED <<globals, defined, renamed>>
    BY <1>0, <1>8 DEF ImportGlobal, Refuse
  <2>2. ReferencesKnown'
    BY <1>1, <2>1, ReferencesStayKnown DEF GlobalsInv
  <2>3. ReferencedLive'
    BY <1>7, <2>1 DEF ReferencedLive
  <2>4. GlobalsImported'
    BY <2>1 DEF GlobalsImported
  <2> QED BY <1>3, <2>1, <2>2, <2>3, <2>4 DEF GlobalsInv
<1>9. CASE ~TryInsertConflicts(globals, g)
  <2>1. /\ globals' = TryInsert(globals, g)
        /\ renamed' = IF name = g.name THEN renamed ELSE Put(renamed, symbol, name)
        /\ left' = [left EXCEPT !.globals = Tail(@)]
        /\ UNCHANGED <<adding, status>>
    BY <1>0, <1>9 DEF ImportGlobal
  <2>0. left'.globals = Tail(left.globals)
    BY <2>1
  <2>2. /\ globals' \in Seq(Global) /\ NamesUnique(globals')
        /\ Extends(globals', globals)
        /\ Represents(globals', g, name)
    BY <1>0, <1>3, <1>6, <1>9, <2>1, TryInsertDeclares
  <2>3. ReferencesKnown'
    BY <1>1, <2>2, ExtendsRepresents, ReferencesStayKnown DEF GlobalsInv
  <2>4. ReferencedLive'
    BY <1>7, <2>2 DEF ReferencedLive, Extends
  <2>5. symbol \notin DOMAIN renamed
    BY <1>0, <1>3, <1>4
  <2>6. \A h \in Range(adding.globals) : h.name # g.name => h.name.symbol # symbol
    BY <1>0, <1>6
  <2>7. DOMAIN renamed' \subseteq DOMAIN renamed \cup {symbol}
    BY <2>1 DEF Put
  <2>8. ASSUME NEW h \in Range(adding.globals), h.name # g.name PROVE Meant(h)' = Meant(h)
    <3>1. h.name.symbol # symbol
      BY <2>6, <2>8
    <3>2. /\ h.name.symbol \in DOMAIN renamed' <=> h.name.symbol \in DOMAIN renamed
          /\ h.name.symbol \in DOMAIN renamed =>
                 renamed'[h.name.symbol] = renamed[h.name.symbol]
      BY <2>1, <3>1 DEF Put
    <3> QED BY <3>2 DEF Meant
  <2>9. Meant(g)' = name
    <3>1. CASE name = g.name
      BY <1>0, <2>1, <2>5, <3>1 DEF Meant
    <3>2. CASE name # g.name
      <4>1. symbol \in DOMAIN renamed' /\ renamed'[symbol] = name
        BY <2>1, <3>2 DEF Put
      <4> QED BY <1>0, <4>1 DEF Meant
    <3> QED BY <3>1, <3>2
  <2>10. \A h \in Range(Tail(left.globals)) : h.name.symbol \notin DOMAIN renamed'
    <3> SUFFICES ASSUME NEW h \in Range(Tail(left.globals))
                 PROVE  h.name.symbol \notin DOMAIN renamed'
      OBVIOUS
    <3>1. h \in Range(adding.globals) /\ h.name # g.name /\ h.name.symbol \notin DOMAIN renamed
      BY <1>3, <1>4
    <3> QED BY <2>6, <2>7, <3>1
  <2>11. ASSUME NEW h \in Range(adding.globals)
         PROVE  h \in Range(Tail(left.globals)) \/ Represents(globals', h, Meant(h)')
    <3>1. CASE h = g
      BY <2>2, <2>9, <3>1
    <3>2. CASE h # g /\ h \notin Range(Tail(left.globals))
      <4>1. Represents(globals, h, Meant(h))
        BY <1>3, <1>5, <3>2
      <4>2. h.name # g.name
        <5>1. g \in Range(adding.globals)
          BY <1>3, <1>4
        <5> QED BY <1>6, <3>2, <5>1 DEF NamesUnique, Range
      <4>3. Represents(globals', h, Meant(h))
        BY <2>2, <4>1, ExtendsRepresents
      <4> QED BY <2>8, <4>2, <4>3
    <3> QED BY <3>1, <3>2
  <2>12. GlobalsImported'
    <3>1. /\ Range(left'.globals) \subseteq Range(adding'.globals)
          /\ NamesUnique(left'.globals)
      BY <2>0, <2>1, <1>3, <1>4
    <3> QED BY <1>1, <2>0, <2>1, <1>3, <2>10, <2>11, <3>1 DEF GlobalsImported
  <2> QED BY <2>2, <2>3, <2>4, <2>12 DEF GlobalsInv
<1> QED BY <1>8, <1>9

\* The linker's own globals are declared.
LEMMA PopulateBuiltinsKeeps ==
    ASSUME SegmentsTyped, GlobalsInv, PopulateBuiltins
    PROVE  GlobalsInv'
<1>1. /\ status = "open" /\ UNCHANGED <<added, pending>>
      /\ status' \in {"panicked", "verifying"}
  BY DEF PopulateBuiltins
<1>2. \A i \in DOMAIN globals : globals[i].live
  BY <1>1 DEF GlobalsInv, ReferencedLive
<1>3. globals' \in Seq(Global) /\ NamesUnique(globals') /\ Extends(globals', globals)
  <2>1. CASE PopulatePanics
    <3>1. globals' = globals
      BY <2>1 DEF PopulateBuiltins
    <3>2. Extends(globals, globals)
      BY DEF Extends
    <3> QED BY <3>1, <3>2 DEF GlobalsInv
  <2>2. CASE ~PopulatePanics
    <3>1. globals' = FoldLeft(Declare, globals, Builtins)
      BY <2>2 DEF PopulateBuiltins
    <3>2. segments \in Seq(Segment) /\ globals \in Seq(Global) /\ NamesUnique(globals)
      BY DEF GlobalsInv, SegmentsTyped
    <3> QED BY <2>2, <3>1, <3>2, BuiltinsDeclared
  <2> QED BY <2>1, <2>2
<1>4. ReferencesKnown'
  BY <1>1, <1>3, ExtendsRepresents, ReferencesStayKnown DEF GlobalsInv
<1>5. ReferencedLive'
  BY <1>2, <1>3 DEF ReferencedLive, Extends
<1>6. GlobalsImported'
  BY <1>1 DEF GlobalsImported
<1> QED BY <1>3, <1>4, <1>5, <1>6 DEF GlobalsInv

\* What is collected is not referred to.
LEMMA CollectGlobalsKeeps ==
    ASSUME GlobalsInv, CollectGlobals
    PROVE  GlobalsInv'
<1>1. /\ status = "collecting" /\ UNCHANGED <<added, pending>>
      /\ globals' = RemoveGlobals(globals, DeadGlobals)
      /\ status' \in {"failed", "linked"}
  BY DEF CollectGlobals, Fail
<1>2. \A i \in DOMAIN globals : globals[i].live
  BY <1>1 DEF GlobalsInv, ReferencedLive
<1>3. PICK n \in Nat : n = Len(globals)
  BY LenProperties DEF GlobalsInv
<1>4. DOMAIN globals = 1 .. n /\ \A i \in 1 .. n : globals[i] \in Global
  BY <1>3, LenProperties, ElementOfSeq DEF GlobalsInv
<1>5. /\ DOMAIN globals' = 1 .. n
      /\ \A i \in 1 .. n :
             /\ globals'[i] \in Global
             /\ globals'[i].name = globals[i].name /\ globals'[i].ty = globals[i].ty
             /\ globals'[i].linkage = globals[i].linkage /\ globals'[i].init = globals[i].init
             /\ globals'[i].live = (globals[i].live /\ i \notin DeadGlobals)
  <2> DEFINE removed == [i \in DOMAIN globals |->
                            [globals[i] EXCEPT !.live = @ /\ i \notin DeadGlobals]]
  <2>1. globals' = removed
    BY <1>1 DEF RemoveGlobals
  <2>2. ASSUME NEW i \in 1 .. n
        PROVE  /\ removed[i] \in Global
               /\ removed[i].name = globals[i].name /\ removed[i].ty = globals[i].ty
               /\ removed[i].linkage = globals[i].linkage /\ removed[i].init = globals[i].init
               /\ removed[i].live = (globals[i].live /\ i \notin DeadGlobals)
    <3>1. removed[i] = [globals[i] EXCEPT !.live = @ /\ i \notin DeadGlobals]
      BY <1>4
    <3>2. globals[i] \in Global
      BY <1>4
    <3> HIDE DEF removed
    <3> QED BY <3>1, <3>2 DEF Global
  <2> QED BY <1>4, <2>1, <2>2
<1>6. globals' \in Seq(Global)
  <2>1. \A i \in 1 .. n : globals'[i] \in Global
    BY <1>5
  <2>2. globals' = [i \in 1 .. n |-> globals'[i]]
    BY <1>1, <1>4 DEF RemoveGlobals
  <2>3. globals' \in [1 .. n -> Global]
    BY <2>1, <2>2
  <2> QED BY <2>3, IsASeq
<1>7. NamesUnique(globals')
  BY <1>4, <1>5 DEF GlobalsInv, NamesUnique
<1>8. \A g, name : Represents(globals, g, name) => Represents(globals', g, name)
  BY <1>4, <1>5 DEF Represents, StandsFor
<1>9. ReferencesKnown'
  BY <1>1, <1>8, ReferencesStayKnown DEF GlobalsInv
<1>10. Referenced' = Referenced
  BY <1>1 DEF Referenced
<1>11. ReferencedLive'
  <2> SUFFICES ASSUME NEW i \in 1 .. n, globals'[i].name \in Referenced
               PROVE  globals'[i].live
    BY <1>1, <1>5, <1>10 DEF ReferencedLive
  <2>1. i \notin DeadGlobals
    BY <1>5 DEF DeadGlobals
  <2> QED BY <1>2, <1>4, <1>5, <2>1
<1>12. GlobalsImported'
  BY <1>1 DEF GlobalsImported
<1> QED BY <1>6, <1>7, <1>9, <1>11, <1>12 DEF GlobalsInv

-----------------------------------------------------------------------------
(***************************************************************************)
(* The inductive invariant of the functions: those of the program are      *)
(* those of the modules added, up to their order and the rewriting of      *)
(* their references, and their calls are in the graph.  What else is in    *)
(* the graph came of modules refused for a cycle: the graph has the cycle  *)
(* too.  Once the calls are verified, nothing changes about them.          *)
(***************************************************************************)
SameFunction(f, g) ==
    f.name = g.name /\ f.public = g.public /\ f.sig = g.sig /\ f.imports = g.imports

Reordered(fs, gs) ==
    /\ \A f \in Range(fs) : \E g \in Range(gs) : SameFunction(f, g)
    /\ \A g \in Range(gs) : \E f \in Range(fs) : SameFunction(f, g)
    /\ \A f, h \in Range(fs) : f.name = h.name => f = h

PendingAdded ==
    /\ added \subseteq Modules
    /\ DOMAIN pending = {m.name : m \in added}
    /\ \A m, n \in added : m.name = n.name => m = n
    /\ \A m \in added : Reordered(pending[m.name], m.functions)

CallsRecorded == \A m \in added : CallsOf(m.name, m.functions) \subseteq callgraph

GraphCurrent ==
    status # "panicked" /\ Acyclic(callgraph) => \A c \in callgraph : CallIsCurrent(c)

CallsVerified ==
    status \in {"collecting", "linked"} =>
        /\ EntryErrors = {}
        /\ \A c \in callgraph :
              NodeErrors(c[1]) = {} /\ NodeErrors(c[2]) = {} /\ CallErrors(c) = {}

FunctionsInv ==
    /\ entrypoint \subseteq Entrypoints
    /\ PendingAdded
    /\ CallsRecorded
    /\ GraphCurrent
    /\ CallsVerified

\* The functions of a module.
LEMMA ModuleFunctions ==
    ASSUME NEW m \in Modules
    PROVE  /\ \A f \in Range(m.functions) : f \in Function
           /\ \A f, g \in Range(m.functions) : f.name = g.name => f = g
           /\ \A f \in Range(m.functions) : \A a, b \in f.imports : a.id = b.id => a = b
<1>1. m.functions \in Seq(Function)
  BY ModulesAssumption DEF Module
<1>2. \A i \in DOMAIN m.functions : m.functions[i] \in Function
  BY <1>1, LenProperties, ElementOfSeq
<1> DEFINE names == [i \in DOMAIN m.functions |-> m.functions[i].name]
<1>3. IsInjective(names)
  BY ModulesAssumption
<1>4. \A i, j \in DOMAIN m.functions :
          m.functions[i].name = m.functions[j].name => i = j
  BY <1>3 DEF IsInjective
<1>5. \A i \in DOMAIN m.functions :
          \A a, b \in m.functions[i].imports : a.id = b.id => a = b
  BY ModulesAssumption
<1> QED BY <1>2, <1>4, <1>5 DEF Range

\* What add puts into the program: the functions of the module in some order, each as it was but
\* for its references.
LEMMA FunctionsAdded ==
    ASSUME NEW m \in Modules, NEW order \in Bijection(DOMAIN m.functions, DOMAIN m.functions),
           NEW sorted, sorted = [i \in DOMAIN order |-> m.functions[order[i]]],
           NEW fs, fs = [i \in DOMAIN sorted |->
                            [sorted[i] EXCEPT !.refs = RewrittenRefs(sorted[i])]]
    PROVE  /\ Reordered(fs, m.functions)
           /\ \A f \in Range(fs) : \E g \in Range(m.functions) : f.refs = RewrittenRefs(g)
<1> DEFINE D == DOMAIN m.functions
<1>1. order \in [D -> D] /\ \A t \in D : \E s \in D : order[s] = t
  BY DEF Bijection, Injection, Surjection
<1>2. /\ \A g \in Range(m.functions) : g \in Function
      /\ \A f, g \in Range(m.functions) : f.name = g.name => f = g
  BY ModuleFunctions
<1>3. \A g \in Function :
          /\ SameFunction([g EXCEPT !.refs = RewrittenRefs(g)], g)
          /\ [g EXCEPT !.refs = RewrittenRefs(g)].refs = RewrittenRefs(g)
  BY DEF Function, SameFunction
<1> DEFINE rewritten(g) == [g EXCEPT !.refs = RewrittenRefs(g)]
<1>4. DOMAIN fs = D /\ \A i \in D : fs[i] = rewritten(m.functions[order[i]])
  BY <1>1
<1>5. \A g \in Function : SameFunction(rewritten(g), g) /\ rewritten(g).refs = RewrittenRefs(g)
  BY <1>3
<1> HIDE DEF rewritten
<1>6. ASSUME NEW f \in Range(fs)
      PROVE  \E g \in Range(m.functions) : f = rewritten(g)
  <2>1. PICK i \in D : f = fs[i]
    BY <1>4 DEF Range
  <2>2. m.functions[order[i]] \in Range(m.functions)
    BY <1>1 DEF Range
  <2> QED BY <1>4, <2>1, <2>2
<1>7. ASSUME NEW g \in Range(m.functions) PROVE rewritten(g) \in Range(fs)
  <2>1. PICK t \in D : g = m.functions[t]
    BY DEF Range
  <2>2. PICK s \in D : order[s] = t
    BY <1>1
  <2>3. fs[s] = rewritten(g)
    BY <1>4, <2>1, <2>2
  <2> QED BY <1>4, <2>3 DEF Range
<1>8. \A f \in Range(fs) : \E g \in Range(m.functions) :
          f = rewritten(g) /\ SameFunction(f, g) /\ f.refs = RewrittenRefs(g)
  BY <1>2, <1>5, <1>6
<1>9. \A g \in Range(m.functions) : \E f \in Range(fs) : SameFunction(f, g)
  BY <1>2, <1>5, <1>7
<1>10. ASSUME NEW f \in Range(fs), NEW h \in Range(fs), f.name = h.name PROVE f = h
  <2>1. PICK g \in Range(m.functions) : f = rewritten(g) /\ SameFunction(f, g)
    BY <1>8
  <2>2. PICK k \in Range(m.functions) : h = rewritten(k) /\ SameFunction(h, k)
    BY <1>8
  <2>3. g = k
    BY <1>2, <1>10, <2>1, <2>2 DEF SameFunction
  <2> QED BY <2>1, <2>2, <2>3
<1> QED BY <1>8, <1>9, <1>10 DEF Reordered

\* What add does to the functions of the program.
LEMMA AddFunctionsAdds ==
    ASSUME AddFunctions, adding \in Modules
    PROVE  \/ /\ UNCHANGED <<pending, added>>
              /\ status' = "panicked" \/ (status' = "open" /\ ~Acyclic(LocalCalls))
           \/ /\ status' = "open" /\ added' = added \cup {adding}
              /\ \E fs : /\ pending' = Put(pending, adding.name, fs)
                         /\ Reordered(fs, adding.functions)
                         /\ \A f \in Range(fs) : \E g \in Range(adding.functions) :
                                f.refs = RewrittenRefs(g)
<1>1. CASE /\ UNCHANGED <<pending, added>>
           /\ status' = "panicked" \/ (status' = "open" /\ ~Acyclic(LocalCalls))
  BY <1>1
<1>2. CASE /\ status' = "open" /\ added' = added \cup {adding}
           /\ \E order \in Bijection(DOMAIN adding.functions, DOMAIN adding.functions) :
                 LET sorted == [i \in DOMAIN order |-> adding.functions[order[i]]]
                 IN  /\ SortedBy(sorted, LocalCalls)
                     /\ pending' =
                            Put(pending, adding.name,
                                [i \in DOMAIN sorted |->
                                    [sorted[i] EXCEPT !.refs = RewrittenRefs(sorted[i])]])
  <2>1. PICK order \in Bijection(DOMAIN adding.functions, DOMAIN adding.functions) :
            LET sorted == [i \in DOMAIN order |-> adding.functions[order[i]]]
            IN  pending' = Put(pending, adding.name,
                               [i \in DOMAIN sorted |->
                                   [sorted[i] EXCEPT !.refs = RewrittenRefs(sorted[i])]])
    BY <1>2
  <2>2. PICK sorted : sorted = [i \in DOMAIN order |-> adding.functions[order[i]]]
    OBVIOUS
  <2>3. PICK fs : fs = [i \in DOMAIN sorted |->
                           [sorted[i] EXCEPT !.refs = RewrittenRefs(sorted[i])]]
    OBVIOUS
  <2>4. pending' = Put(pending, adding.name, fs)
    BY <2>1, <2>2, <2>3
  <2>5. /\ Reordered(fs, adding.functions)
        /\ \A f \in Range(fs) : \E g \in Range(adding.functions) : f.refs = RewrittenRefs(g)
    BY <2>2, <2>3, FunctionsAdded
  <2> QED BY <1>2, <2>4, <2>5
<1> QED BY <1>1, <1>2 DEF AddFunctions, Refuse

\* A cycle among some of the calls is one among all.
LEMMA CyclesStay ==
    ASSUME NEW some, NEW all, some \subseteq all, Acyclic(all)
    PROVE  Acyclic(some)
<1> SUFFICES ASSUME NEW nodes \in SUBSET {c[1] : c \in some}, nodes # {}
             PROVE  \E n \in nodes : \A c \in some : c[1] = n => c[2] \notin nodes
  BY DEF Acyclic
<1>1. nodes \in SUBSET {c[1] : c \in all}
  OBVIOUS
<1>2. PICK n \in nodes : \A c \in all : c[1] = n => c[2] \notin nodes
  BY <1>1 DEF Acyclic
<1> QED BY <1>2

\* The calls of a module come into the graph with its functions, or with the cycle for which it
\* is refused.
LEMMA AddFunctionsCurrent ==
    ASSUME GlobalsInv, FunctionsInv, AddFunctions
    PROVE  CallsRecorded' /\ GraphCurrent'
<1>1. /\ status = "importing"
      /\ callgraph' = callgraph \cup CallsOf(adding.name, adding.functions)
      /\ adding \in Modules /\ adding.name \notin DOMAIN pending
      /\ added' \subseteq added \cup {adding}
  BY DEF AddFunctions, GlobalsInv, GlobalsImported
<1>2. CallsRecorded'
  BY <1>1 DEF FunctionsInv, CallsRecorded
<1>3. CASE UNCHANGED <<pending, added>> /\ ~Acyclic(LocalCalls)
  <2>1. LocalCalls \subseteq callgraph'
    BY <1>1 DEF LocalCalls
  <2>2. ~Acyclic(callgraph')
    BY <1>3, <2>1, CyclesStay
  <2>3. Acyclic(callgraph)' = Acyclic(callgraph')
    BY DEF Acyclic
  <2> QED BY <1>2, <2>2, <2>3 DEF GraphCurrent
<1>4. CASE status' = "panicked"
  BY <1>2, <1>4 DEF GraphCurrent
<1>5. ASSUME NEW fs, pending' = Put(pending, adding.name, fs), Reordered(fs, adding.functions)
      PROVE  GraphCurrent'
  <2> SUFFICES ASSUME Acyclic(callgraph'), NEW c \in callgraph' PROVE CallIsCurrent(c)'
    <3>1. Acyclic(callgraph)' = Acyclic(callgraph')
      BY DEF Acyclic
    <3> QED BY <3>1 DEF GraphCurrent
  <2>1. /\ DOMAIN pending' = DOMAIN pending \cup {adding.name}
        /\ pending'[adding.name] = fs
        /\ \A name \in DOMAIN pending : pending'[name] = pending[name]
    BY <1>1, <1>5 DEF Put
  <2>2. CASE c \in callgraph
    <3>1. CallIsCurrent(c)
      <4>1. Acyclic(callgraph)
        BY <1>1, CyclesStay
      <4> QED BY <1>1, <2>2, <4>1 DEF FunctionsInv, GraphCurrent
    <3>2. Defines(c[1])
      BY <3>1 DEF CallIsCurrent, ImportsOf
    <3>3. Defines(c[1])' /\ FunctionAt(c[1])' = FunctionAt(c[1])
      BY <2>1, <3>2 DEF Defines, FunctionAt
    <3> QED BY <3>1, <3>2, <3>3 DEF CallIsCurrent, ImportsOf
  <2>3. CASE c \in CallsOf(adding.name, adding.functions)
    <3>0. PICK g \in Range(adding.functions) :
              \E i \in g.imports : c = << [module |-> adding.name, function |-> g.name], i.id >>
      BY <2>3 DEF CallsOf, Imports
    <3>1. PICK i \in g.imports : c = << [module |-> adding.name, function |-> g.name], i.id >>
      BY <3>0
    <3>2. PICK f \in Range(fs) : SameFunction(f, g)
      BY <1>5 DEF Reordered
    <3>3. f.name = c[1].function /\ c[1].module = adding.name /\ i \in f.imports /\ i.id = c[2]
      BY <3>1, <3>2 DEF SameFunction
    <3>4. \A h \in Range(fs) : h.name = f.name => h = f
      BY <1>5 DEF Reordered
    <3>5. Defines(c[1])'
      BY <2>1, <3>2, <3>3 DEF Defines
    <3>6. FunctionAt(c[1])' = f
      <4>1. FunctionAt(c[1])' = CHOOSE h \in Range(fs) : h.name = f.name
        BY <2>1, <3>3 DEF FunctionAt
      <4> QED BY <3>2, <3>4, <4>1
    <3> QED BY <3>3, <3>5, <3>6 DEF CallIsCurrent, ImportsOf
  <2> QED BY <1>1, <2>2, <2>3
<1> QED BY <1>1, <1>2, <1>3, <1>4, <1>5, AddFunctionsAdds

\* The functions of a module come into the program, and their references to its globals are known.
LEMMA AddFunctionsKeeps ==
    ASSUME SegmentsInv, GlobalsInv, FunctionsInv, AddFunctions
    PROVE  GlobalsInv' /\ FunctionsInv'
<1>1. /\ status = "importing" /\ left = Nothing
      /\ UNCHANGED <<globals, left, renamed, entrypoint>>
  BY DEF AddFunctions, Refuse
<1>2. adding \in Modules /\ adding.name \notin DOMAIN pending
  BY <1>1 DEF GlobalsInv, GlobalsImported
<1>3. \A i \in DOMAIN globals : globals[i].live
  BY <1>1 DEF GlobalsInv, ReferencedLive
<1>4. status' \in {"panicked", "open"}
  BY <1>2, AddFunctionsAdds
<1>5. GlobalsImported' /\ ReferencedLive' /\ NamesUnique(globals)' /\ (globals \in Seq(Global))'
      /\ CallsVerified' /\ CallsRecorded' /\ GraphCurrent'
  BY <1>1, <1>3, <1>4, AddFunctionsCurrent
  DEF GlobalsInv, GlobalsImported, ReferencedLive, CallsVerified
<1>6. CASE UNCHANGED <<pending, added>>
  <2>1. ReferencesKnown'
    BY <1>1, <1>6, ReferencesStayKnown DEF GlobalsInv
  <2>2. PendingAdded'
    BY <1>6 DEF FunctionsInv, PendingAdded
  <2> QED BY <1>1, <1>5, <2>1, <2>2 DEF GlobalsInv, FunctionsInv
<1>7. CASE ~UNCHANGED <<pending, added>>
  <2>1. /\ added' = added \cup {adding}
        /\ \E fs : /\ pending' = Put(pending, adding.name, fs)
                   /\ Reordered(fs, adding.functions)
                   /\ \A f \in Range(fs) : \E g \in Range(adding.functions) :
                          f.refs = RewrittenRefs(g)
    BY <1>2, <1>7, AddFunctionsAdds
  <2>2. PICK fs : /\ pending' = Put(pending, adding.name, fs)
                  /\ Reordered(fs, adding.functions)
                  /\ \A f \in Range(fs) : \E g \in Range(adding.functions) :
                         f.refs = RewrittenRefs(g)
    BY <2>1
  <2>3. /\ DOMAIN pending' = DOMAIN pending \cup {adding.name}
        /\ pending'[adding.name] = fs
        /\ \A name \in DOMAIN pending : pending'[name] = pending[name]
    BY <1>2, <2>2 DEF Put
  <2>4. /\ added \subseteq Modules
        /\ DOMAIN pending = {m.name : m \in added}
        /\ \A m, n \in added : m.name = n.name => m = n
        /\ \A m \in added : Reordered(pending[m.name], m.functions)
    BY DEF FunctionsInv, PendingAdded
  <2>5. \A m \in added : m.name \in DOMAIN pending /\ m.name # adding.name
    BY <1>2, <2>4
  <2>6. PendingAdded'
    <3>1. added' \subseteq Modules
      BY <1>2, <2>1, <2>4
    <3>2. DOMAIN pending' = {m.name : m \in added'}
      BY <2>1, <2>3, <2>4
    <3>3. \A m, n \in added' : m.name = n.name => m = n
      BY <2>1, <2>4, <2>5
    <3>4. \A m \in added' : Reordered(pending'[m.name], m.functions)
      BY <2>1, <2>2, <2>3, <2>4, <2>5
    <3> QED BY <3>1, <3>2, <3>3, <3>4 DEF PendingAdded
  <2>7. ASSUME NEW g \in Range(adding.globals) PROVE Represents(globals, g, Meant(g))
    <3>1. Range(left.globals) = {}
      BY <1>1 DEF Nothing, Range
    <3> QED BY <1>1, <3>1 DEF GlobalsInv, GlobalsImported
  <2>8. ASSUME NEW f \in Range(fs), NEW g \in Range(adding.globals),
               g.name.symbol \in DOMAIN f.refs
        PROVE  Represents(globals, g, f.refs[g.name.symbol])
    <3>1. PICK h \in Range(adding.functions) : f.refs = RewrittenRefs(h)
      BY <2>2
    <3>2. g.name = Plainly(g.name.symbol)
      BY <1>2, ModuleGlobals
    <3>3. f.refs[g.name.symbol] = Meant(g)
      <4>1. f.refs = [s \in h.refs |-> IF s \in DOMAIN renamed THEN renamed[s] ELSE Plainly(s)]
        BY <3>1 DEF RewrittenRefs
      <4>2. g.name.symbol \in h.refs
        BY <2>8, <4>1
      <4> QED BY <3>2, <4>1, <4>2 DEF Meant
    <3> QED BY <2>7, <3>3
  <2>9. ReferencesKnown'
    <3> SUFFICES ASSUME NEW m \in added', NEW f \in Range(pending'[m.name]),
                        NEW g \in Range(m.globals), g.name.symbol \in DOMAIN f.refs
                 PROVE  Represents(globals', g, f.refs[g.name.symbol])
      BY DEF ReferencesKnown
    <3>1. CASE m \in added
      <4>1. f \in Range(pending[m.name])
        BY <2>3, <2>5, <3>1
      <4> QED BY <1>1, <3>1, <4>1 DEF GlobalsInv, ReferencesKnown
    <3>2. CASE m = adding
      BY <1>1, <2>3, <2>8, <3>2
    <3> QED BY <2>1, <3>1, <3>2
  <2> QED BY <1>1, <1>5, <2>6, <2>9 DEF GlobalsInv, FunctionsInv
<1> QED BY <1>6, <1>7

\* What the checks say depends on the functions, the entrypoint and the graph only.
LEMMA ChecksStay ==
    ASSUME UNCHANGED <<pending, entrypoint, callgraph>>
    PROVE  /\ EntryErrors' = EntryErrors
           /\ Acyclic(callgraph)' = Acyclic(callgraph)
           /\ \A c : /\ CallIsCurrent(c)' = CallIsCurrent(c)
                     /\ CallErrors(c)' = CallErrors(c)
           /\ \A id : NodeErrors(id)' = NodeErrors(id)
<1>1. ASSUME NEW id
      PROVE  /\ FunctionAt(id)' = FunctionAt(id) /\ Defines(id)' = Defines(id)
             /\ ImportsOf(id)' = ImportsOf(id)
  BY DEF FunctionAt, Defines, ImportsOf
<1>2. EntryErrors' = EntryErrors
  BY <1>1 DEF EntryErrors
<1>3. Acyclic(callgraph)' = Acyclic(callgraph)
  BY DEF Acyclic
<1>4. ASSUME NEW c PROVE CallIsCurrent(c)' = CallIsCurrent(c)
  BY <1>1 DEF CallIsCurrent
<1>5. ASSUME NEW c PROVE CallErrors(c)' = CallErrors(c)
  <2>1. FunctionAt(c[2])' = FunctionAt(c[2]) /\ Defines(c[2])' = Defines(c[2])
    BY <1>1
  <2>2. ImportedSig(c)' = ImportedSig(c)
    <3>1. ImportsOf(c[1])' = ImportsOf(c[1])
      BY <1>1
    <3> QED BY <3>1, Zenon DEF ImportedSig
  <2>3. Visible(c)' = Visible(c)
    BY <2>1 DEF Visible
  <2> QED BY <1>4, <2>1, <2>2, <2>3 DEF CallErrors
<1>6. ASSUME NEW id PROVE NodeErrors(id)' = NodeErrors(id)
  BY <1>1 DEF NodeErrors
<1> QED BY <1>2, <1>3, <1>4, <1>5, <1>6

-----------------------------------------------------------------------------
(***************************************************************************)
(* All of the inductive invariant.                                         *)
(***************************************************************************)
IInv == SegmentsInv /\ GlobalsInv /\ FunctionsInv

LEMMA InitIInv == Init => IInv
<1> SUFFICES ASSUME Init PROVE IInv
  OBVIOUS
<1>1. /\ entrypoint = {} /\ status = "open" /\ added = {} /\ callgraph = {}
      /\ pending = [m \in {} |-> << >>]
  BY DEF Init
<1>2. PendingAdded
  <2>1. DOMAIN pending = {}
    BY <1>1
  <2> QED BY <1>1, <2>1 DEF PendingAdded
<1>3. FunctionsInv
  BY <1>1, <1>2 DEF FunctionsInv, CallsVerified, CallsRecorded, GraphCurrent
<1> QED BY <1>3, InitSegmentsInv, InitGlobalsInv DEF IInv

LEMMA NextIInv == IInv /\ [Next]_vars => IInv'
<1> SUFFICES ASSUME IInv, [Next]_vars PROVE IInv'
  OBVIOUS
<1>1. SegmentsInv /\ GlobalsInv /\ FunctionsInv /\ SegmentsTyped
  BY DEF IInv, SegmentsInv
<1>2. SegmentsInv'
  BY <1>1, NextSegmentsInv
<1>3. ASSUME UNCHANGED <<globals, added, pending>>,
             status \notin {"linked", "failed"} \/ status' = status
      PROVE  /\ (globals \in Seq(Global))' /\ NamesUnique(globals)'
             /\ ReferencesKnown' /\ ReferencedLive' /\ PendingAdded'
  <2>1. ReferencesKnown'
    BY <1>1, <1>3, ReferencesStayKnown DEF GlobalsInv
  <2>2. ReferencedLive'
    <3>1. Referenced' = Referenced
      BY <1>3 DEF Referenced
    <3> QED BY <1>1, <1>3, <3>1 DEF GlobalsInv, ReferencedLive
  <2>3. PendingAdded'
    BY <1>1, <1>3 DEF FunctionsInv, PendingAdded
  <2> QED BY <1>1, <1>3, <2>1, <2>2, <2>3 DEF GlobalsInv
<1>4. ASSUME UNCHANGED <<pending, added, entrypoint, callgraph>>, status # "panicked",
             status' \in {"collecting", "linked"} => status = "collecting"
      PROVE  FunctionsInv'
  <2>1. PendingAdded'
    BY <1>1, <1>4 DEF FunctionsInv, PendingAdded
  <2>2. CallsVerified'
    BY <1>1, <1>4, ChecksStay DEF FunctionsInv, CallsVerified
  <2>3. CallsRecorded' /\ GraphCurrent'
    BY <1>1, <1>4, ChecksStay DEF FunctionsInv, CallsRecorded, GraphCurrent
  <2> QED BY <1>1, <1>4, <2>1, <2>2, <2>3 DEF FunctionsInv
<1>5. ASSUME NEW id \in Entrypoints, WithEntrypoint(id) PROVE IInv'
  <2>1. /\ status = "open" /\ UNCHANGED status
        /\ entrypoint' \subseteq entrypoint \cup {id}
        /\ UNCHANGED <<globals, pending, added, callgraph>>
    BY <1>5 DEF WithEntrypoint
  <2>2. GlobalsImported' /\ CallsVerified' /\ entrypoint' \subseteq Entrypoints
    BY <1>1, <2>1 DEF GlobalsImported, CallsVerified, FunctionsInv
  <2>3. CallsRecorded' /\ GraphCurrent'
    <3>1. Acyclic(callgraph)' = Acyclic(callgraph)
      BY <2>1 DEF Acyclic
    <3>2. \A c : CallIsCurrent(c)' = CallIsCurrent(c)
      BY <2>1 DEF CallIsCurrent, ImportsOf, FunctionAt, Defines
    <3> QED BY <1>1, <2>1, <3>1, <3>2 DEF FunctionsInv, CallsRecorded, GraphCurrent
  <2> QED BY <1>2, <1>3, <2>1, <2>2, <2>3 DEF IInv, GlobalsInv, FunctionsInv
<1>6. ASSUME NEW m \in Modules, Add(m) PROVE IInv'
  <2>1. /\ status = "open" /\ renamed' = NoRenames /\ status' \in {"open", "importing"}
        /\ status' = "importing" =>
               /\ m.name \notin DOMAIN pending /\ adding' = m
               /\ left' = [segments |-> m.segments, globals |-> m.globals]
        /\ UNCHANGED <<globals, pending, added, entrypoint, callgraph>>
    BY <1>6 DEF Add, Refuse, BeginImport
  <2>2. GlobalsImported'
    <3> SUFFICES ASSUME status' = "importing" PROVE GlobalsImported'
      BY DEF GlobalsImported
    <3>1. NamesUnique(m.globals)
      BY ModuleGlobals
    <3>2. DOMAIN renamed' = {}
      BY <2>1 DEF NoRenames
    <3>3. left'.globals = m.globals
      BY <2>1
    <3> QED BY <2>1, <3>1, <3>2, <3>3 DEF GlobalsImported
  <2>3. FunctionsInv'
    BY <1>4, <2>1
  <2> QED BY <1>2, <1>3, <2>1, <2>2, <2>3 DEF IInv, GlobalsInv
<1>7. ASSUME ImportSegment PROVE IInv'
  <2>1. /\ status = "importing" /\ status' \in {"importing", "open"}
        /\ status' = "importing" =>
               left' = [left EXCEPT !.segments = Tail(@)] /\ UNCHANGED adding
        /\ UNCHANGED <<globals, pending, added, entrypoint, callgraph, renamed>>
    BY <1>7 DEF ImportSegment, Refuse
  <2>2. status' = "importing" => left'.globals = left.globals
    BY <1>1, <2>1 DEF SegmentsTyped
  <2>3. GlobalsImported'
    BY <1>1, <2>1, <2>2 DEF GlobalsInv, GlobalsImported, Meant
  <2>4. FunctionsInv'
    BY <1>4, <2>1
  <2> QED BY <1>2, <1>3, <2>1, <2>3, <2>4 DEF IInv, GlobalsInv
<1>8. ASSUME ImportGlobal PROVE IInv'
  <2>1. /\ status = "importing" /\ status' \in {"importing", "open"}
        /\ UNCHANGED <<pending, added, entrypoint, callgraph>>
    BY <1>8 DEF ImportGlobal, Refuse
  <2>2. FunctionsInv'
    BY <1>4, <2>1
  <2> QED BY <1>1, <1>2, <1>8, <2>2, ImportGlobalKeeps DEF IInv
<1>9. ASSUME AddFunctions PROVE IInv'
  BY <1>1, <1>2, <1>9, AddFunctionsKeeps DEF IInv
<1>10. ASSUME PopulateBuiltins PROVE IInv'
  <2>1. /\ status = "open" /\ status' \in {"panicked", "verifying"}
        /\ UNCHANGED <<pending, added, entrypoint, callgraph>>
    BY <1>10 DEF PopulateBuiltins
  <2>2. FunctionsInv'
    BY <1>4, <2>1
  <2> QED BY <1>1, <1>2, <1>10, <2>2, PopulateBuiltinsKeeps DEF IInv
<1>11. ASSUME VerifyCalls PROVE IInv'
  <2>1. status = "verifying" /\ UNCHANGED <<globals, pending, added, entrypoint, callgraph>>
    BY <1>11, VerifyOutcome DEF VerifyCalls
  <2>2. status' \in {"collecting", "failed", "panicked"}
    BY <1>11, VerifyOutcome
  <2>3. GlobalsImported'
    BY <2>2 DEF GlobalsImported
  <2>4. CallsVerified'
    <3>1. status' = "collecting" =>
              /\ EntryErrors = {}
              /\ \A c \in callgraph :
                    NodeErrors(c[1]) = {} /\ NodeErrors(c[2]) = {} /\ CallErrors(c) = {}
      BY <1>11, VerifyOutcome
    <3> QED BY <2>1, <2>2, <3>1, ChecksStay DEF CallsVerified
  <2>5. CallsRecorded' /\ GraphCurrent'
    BY <1>1, <2>1, ChecksStay DEF FunctionsInv, CallsRecorded, GraphCurrent
  <2>6. FunctionsInv'
    BY <1>1, <1>3, <2>1, <2>4, <2>5 DEF FunctionsInv
  <2> QED BY <1>2, <1>3, <2>1, <2>3, <2>6 DEF IInv, GlobalsInv
<1>12. ASSUME CollectGlobals PROVE IInv'
  <2>1. status = "collecting" /\ UNCHANGED <<pending, added, entrypoint, callgraph>>
    BY <1>12 DEF CollectGlobals
  <2>2. FunctionsInv'
    BY <1>4, <2>1
  <2> QED BY <1>1, <1>2, <1>12, <2>2, CollectGlobalsKeeps DEF IInv
<1>13. ASSUME UNCHANGED vars PROVE IInv'
  <2>1. UNCHANGED <<globals, pending, added, entrypoint, callgraph, adding, left, renamed,
                    status>>
    BY <1>13 DEF vars
  <2>2. GlobalsImported'
    BY <1>1, <2>1 DEF GlobalsInv, GlobalsImported, Meant
  <2>3. CallsVerified'
    BY <1>1, <2>1, ChecksStay DEF FunctionsInv, CallsVerified
  <2>4. CallsRecorded' /\ GraphCurrent'
    BY <1>1, <2>1, ChecksStay DEF FunctionsInv, CallsRecorded, GraphCurrent
  <2> QED BY <1>1, <1>2, <1>3, <2>1, <2>2, <2>3, <2>4 DEF IInv, GlobalsInv, FunctionsInv
<1> QED BY <1>5, <1>6, <1>7, <1>8, <1>9, <1>10, <1>11, <1>12, <1>13 DEF Next

\* Nothing but IInv has to be shown of a property of the states.
LEMMA AlwaysIInv == Spec => []IInv
<1>1. Init => IInv
  BY InitIInv
<1>2. IInv /\ [Next]_vars => IInv'
  BY NextIInv
<1> QED BY <1>1, <1>2, PTL DEF Spec

-----------------------------------------------------------------------------
\* What the invariant says of a reference, in the words of the property.
LEMMA KnownResolve == IInv => ReferencesResolve
<1> SUFFICES ASSUME IInv,
                    NEW m \in added, NEW f \in Range(pending[m.name]),
                    NEW g \in Range(m.globals), g.name.symbol \in DOMAIN f.refs
             PROVE  LET name == f.refs[g.name.symbol]
                        variable == globals[FindGlobal(globals, name)]
                    IN  /\ Exists(globals, name)
                        /\ variable.ty = g.ty /\ variable.linkage = g.linkage
                        /\ g.init = NoInit \/ variable.init = g.init
                        /\ status = "linked" => variable.live
  BY DEF ReferencesResolve
<1>1. PICK name : name = f.refs[g.name.symbol]
  OBVIOUS
<1>2. Represents(globals, g, name)
  BY <1>1 DEF IInv, GlobalsInv, ReferencesKnown
<1>3. PICK i \in DOMAIN globals : globals[i].name = name /\ StandsFor(globals[i], g)
  BY <1>2 DEF Represents
<1>4. Exists(globals, name)
  BY <1>3 DEF Exists, Entries
<1>5. FindGlobal(globals, name) = i
  BY <1>3, <1>4, FoundGlobal DEF IInv, GlobalsInv, NamesUnique
<1>6. name \in Referenced
  <2>1. m.name \in DOMAIN pending
    BY DEF IInv, FunctionsInv, PendingAdded
  <2>2. name \in Range(f.refs)
    BY <1>1 DEF Range
  <2> QED BY <2>1, <2>2 DEF Referenced
<1>7. globals[i].live
  BY <1>3, <1>6 DEF IInv, GlobalsInv, ReferencedLive
<1> QED BY <1>1, <1>3, <1>4, <1>5, <1>7 DEF StandsFor

\* A call of a module added is a call of the program, and found in order.
LEMMA CallVerified ==
    ASSUME IInv, status = "linked",
           NEW m \in added, NEW caller \in Range(m.functions),
           NEW import \in Imports(m.name, caller)
    PROVE  \/ import.id.module \in Stdlib \ DOMAIN pending
           \/ \E n \in added : \E callee \in Range(n.functions) :
                 /\ import.id = [module |-> n.name, function |-> callee.name]
                 /\ n = m \/ callee.public
                 /\ IsMatchingParam(import.sig, callee.sig)
<1>1. /\ added \subseteq Modules
      /\ DOMAIN pending = {n.name : n \in added}
      /\ \A n, k \in added : n.name = k.name => n = k
      /\ \A n \in added : Reordered(pending[n.name], n.functions)
      /\ \A c \in callgraph : NodeErrors(c[2]) = {} /\ CallErrors(c) = {}
  BY DEF IInv, FunctionsInv, PendingAdded, CallsVerified
<1>2. /\ caller \in Function /\ import \in caller.imports
      /\ \A a, b \in caller.imports : a.id = b.id => a = b
  BY <1>1, ModuleFunctions DEF Imports
<1>3. PICK id : id = import.id
  OBVIOUS
<1>4. id \in FunctionIdent
  BY <1>2, <1>3 DEF Function
<1>5. PICK f \in Range(pending[m.name]) : SameFunction(f, caller)
  BY <1>1 DEF Reordered
<1>6. PICK here : here = [module |-> m.name, function |-> f.name]
  OBVIOUS
<1>7. PICK c : c = << here, id >>
  OBVIOUS
<1>8. c[1] = here /\ c[2] = id /\ here.module = m.name /\ here.function = f.name
  BY <1>6, <1>7
<1>9. c \in callgraph
  <2>1. c \in CallsOf(m.name, m.functions)
    BY <1>3, <1>5, <1>6, <1>7 DEF CallsOf, SameFunction
  <2> QED BY <2>1 DEF IInv, FunctionsInv, CallsRecorded
<1>10. NodeErrors(c[2]) = {} /\ CallErrors(c) = {}
  BY <1>1, <1>9
<1>11. CASE id.module \notin DOMAIN pending
  BY <1>3, <1>8, <1>10, <1>11 DEF NodeErrors
<1>12. CASE id.module \in DOMAIN pending
  <2>1. Defines(id) /\ Visible(c) /\ IsMatchingParam(ImportedSig(c), FunctionAt(id).sig)
    BY <1>8, <1>10, <1>12 DEF NodeErrors, CallErrors
  <2>2. PICK n \in added : n.name = id.module
    BY <1>1, <1>12
  <2>3. PICK h : h = FunctionAt(id)
    OBVIOUS
  <2>4. h \in Range(pending[n.name]) /\ h.name = id.function
    BY <2>1, <2>2, <2>3 DEF Defines, FunctionAt
  <2>5. PICK callee \in Range(n.functions) : SameFunction(h, callee)
    BY <1>1, <2>4 DEF Reordered
  <2>6. id = [module |-> n.name, function |-> callee.name]
    BY <1>4, <2>2, <2>4, <2>5 DEF FunctionIdent, SameFunction
  <2>7. n = m \/ callee.public
    <3>1. here.module = id.module \/ h.public
      BY <1>8, <2>1, <2>3 DEF Visible
    <3> QED BY <1>1, <1>8, <2>2, <2>5, <3>1 DEF SameFunction
  <2>8. ImportsOf(here) = f.imports
    <3>1. \A k \in Range(pending[m.name]) : k.name = f.name => k = f
      BY <1>1 DEF Reordered
    <3>2. FunctionAt(here) \in Range(pending[m.name]) /\ FunctionAt(here).name = f.name
      BY <1>8 DEF FunctionAt
    <3>3. Defines(here)
      BY <1>1, <1>8 DEF Defines
    <3> QED BY <3>1, <3>2, <3>3 DEF ImportsOf
  <2>9. ImportedSig(c) = import.sig
    <3>1. f.imports = caller.imports
      BY <1>5 DEF SameFunction
    <3>2. ImportedSig(c) = (CHOOSE i \in caller.imports : i.id = id).sig
      BY <1>8, <2>8, <3>1 DEF ImportedSig
    <3>3. (CHOOSE i \in caller.imports : i.id = id) = import
      BY <1>2, <1>3
    <3> QED BY <3>2, <3>3
  <2>10. IsMatchingParam(import.sig, callee.sig)
    BY <2>1, <2>3, <2>5, <2>9 DEF SameFunction
  <2> QED BY <1>3, <2>6, <2>7, <2>10
<1> QED BY <1>11, <1>12

\* The entrypoint of a program that links is a public function of it.
LEMMA EntrypointVerified ==
    ASSUME IInv, status = "linked", NEW id \in entrypoint
    PROVE  \E n \in added : \E f \in Range(n.functions) :
              id = [module |-> n.name, function |-> f.name] /\ f.public
<1>1. /\ DOMAIN pending = {n.name : n \in added}
      /\ \A n \in added : Reordered(pending[n.name], n.functions)
      /\ EntryErrors = {}
      /\ entrypoint \subseteq Entrypoints
  BY DEF IInv, FunctionsInv, PendingAdded, CallsVerified
<1>2. id \in FunctionIdent
  BY <1>1, EntrypointsAssumption
<1>3. (IF id.module \notin DOMAIN pending THEN {"MissingModule"}
       ELSE IF ~Defines(id) THEN {"MissingFunction"}
       ELSE IF ~FunctionAt(id).public THEN {"InvalidEntryLinkage"}
       ELSE {}) = {}
  BY <1>1 DEF EntryErrors
<1>4. id.module \in DOMAIN pending /\ Defines(id) /\ FunctionAt(id).public
  BY <1>3
<1>5. PICK n \in added : n.name = id.module
  BY <1>1, <1>4
<1>6. FunctionAt(id) \in Range(pending[n.name]) /\ FunctionAt(id).name = id.function
  BY <1>4, <1>5 DEF Defines, FunctionAt
<1>7. PICK f \in Range(n.functions) : SameFunction(FunctionAt(id), f)
  BY <1>1, <1>6 DEF Reordered
<1>8. id = [module |-> n.name, function |-> f.name]
  BY <1>2, <1>5, <1>6, <1>7 DEF FunctionIdent, SameFunction
<1> QED BY <1>4, <1>7, <1>8 DEF SameFunction

-----------------------------------------------------------------------------
(***************************************************************************)
(* The segments of a program never share a byte, nor lie under the shadow  *)
(* stack: what DataSegmentTable::insert keeps true of the program's table  *)
(* for any modules, of any segments.                                       *)
(***************************************************************************)
THEOREM SegmentsStayDisjoint == Spec => []SegmentsDisjoint
<1>1. IInv => SegmentsDisjoint
  BY DEF IInv, SegmentsInv
<1> QED BY <1>1, AlwaysIInv, PTL

(***************************************************************************)
(* Linker::add imports every segment of the modules it accepts, and no     *)
(* later one drives a segment out.                                         *)
(***************************************************************************)
THEOREM SegmentsStayImported == Spec => []SegmentsImported
<1>1. IInv => SegmentsImported
  BY DEF IInv, SegmentsInv
<1> QED BY <1>1, AlwaysIInv, PTL

(***************************************************************************)
(* The globals of a program are laid out one after the other, within the   *)
(* size that their table says it has, whatever was merged, renamed or      *)
(* collected: offset_of counts the padding as size_in_bytes does.          *)
(***************************************************************************)
THEOREM GlobalsStayLaidOut == Spec => []GlobalsLaidOut
<1>1. IInv => GlobalsLaidOut
  BY LaidOut DEF IInv, GlobalsInv, GlobalsLaidOut
<1> QED BY <1>1, AlwaysIInv, PTL

(***************************************************************************)
(* A reference of a function to a global of its own module finds, by the   *)
(* name Linker::add rewrote it to, a variable of the type, the linkage and *)
(* the initial value that its module declares; in a linked program that    *)
(* variable was not collected.  It holds however many modules declare      *)
(* globals of that name, in whatever order they are added, and however     *)
(* many others were refused in between, their globals left in the table.   *)
(***************************************************************************)
THEOREM ReferencesAlwaysResolve == Spec => []ReferencesResolve
<1>1. IInv => ReferencesResolve
  BY KnownResolve
<1> QED BY <1>1, AlwaysIInv, PTL

(***************************************************************************)
(* Linker::link accepts no program with a call to a function that is not   *)
(* there, is not to be called from there or has another signature, nor one *)
(* whose entrypoint is no public function.                                 *)
(***************************************************************************)
THEOREM LinkedProgramsClosed == Spec => []LinkedProgramClosed
<1>1. IInv => LinkedProgramClosed
  BY CallVerified, EntrypointVerified DEF LinkedProgramClosed
<1> QED BY <1>1, AlwaysIInv, PTL

(***************************************************************************)
(* Linker::link never asks for a function, or an import of one, that is in *)
(* the graph of calls but not in the modules (the "dependency graph is     *)
(* outdated" of linker.rs:405): the calls of a refused module stay in the  *)
(* graph only with the cycle it was refused for, which link looks for      *)
(* before.  It holds whatever modules were refused and added after.        *)
(***************************************************************************)
THEOREM GraphStaysCurrent == Spec => GraphCurrentAtLink
<1>1. IInv /\ [Next]_vars => [status = "verifying" => status' # "panicked"]_vars
  <2> SUFFICES ASSUME IInv, Next, status = "verifying" PROVE status' # "panicked"
    OBVIOUS
  <2>1. VerifyCalls
    BY DEF Next, WithEntrypoint, Add, ImportSegment, ImportGlobal, AddFunctions,
           PopulateBuiltins, CollectGlobals
  <2>2. Acyclic(callgraph) => \A c \in callgraph : CallIsCurrent(c)
    BY DEF IInv, FunctionsInv, GraphCurrent
  <2> QED BY <2>1, <2>2, VerifyOutcome
<1> QED BY <1>1, AlwaysIInv, PTL DEF Spec, GraphCurrentAtLink

=============================================================================

------------------------- MODULE BlockEmitterProofs -------------------------
(***************************************************************************)
(* While a block is emitted, the operand stack of the compiler describes   *)
(* the machine's stack (StackMirrored), and a branch leaves its successor  *)
(* the arguments in the place of its parameters (ParametersOnTop).         *)
(* Instructions get their arguments (ArgumentsDelivered), and what is live *)
(* stays on the stack (LiveRetained).                                      *)
(*                                                                         *)
(* OpEmitterProofs shows that every method of the emitter keeps the two    *)
(* stacks in agreement.  Here the actions are shown to be made of these    *)
(* methods: Mirrors is the inductive invariant.  For the other two, every  *)
(* method is shown to keep how often a value occurs, and fetching a live   *)
(* value to add an occurrence.                                             *)
(***************************************************************************)
EXTENDS BlockEmitter, OpEmitterProofs, FiniteSetTheorems

EL == INSTANCE FoldLemmas WITH Step <- LAMBDA p, q, es, operand : es \o Meaning(p, operand)

\* The operands of a block before its terminator, and the elements of the machine.
Plain == {Operand(v) : v \in Value} \union {Constant}
Element == {"value", "const", "caller"} \X Nat \X Nat
Contents == [o \in Plain |-> Limbs(o)]

\* The operands of a block are records of the kinds the code has.
LEMMA PlainType ==
    ASSUME NEW o \in Plain
    PROVE  /\ o = [kind |-> o.kind, value |-> o.value, size |-> o.size]
           /\ o.kind \in {"value", "const"} /\ o.value \in Nat /\ o.size \in 1 .. WordSize
           /\ o.kind = "value" => o.value \in Value /\ o = Operand(o.value)
<1>1. CASE o = Constant
  BY <1>1 DEF Constant, WordSize
<1>2. ASSUME NEW v \in Value, o = Operand(v)
      PROVE  /\ o = [kind |-> o.kind, value |-> o.value, size |-> o.size]
             /\ o.kind = "value" /\ o.value = v /\ o.size = WidthOf[v]
  BY <1>2 DEF Operand
<1>3. ASSUME NEW v \in Value, o = Operand(v)
      PROVE  o.value \in Nat /\ o.size \in 1 .. WordSize
  BY <1>2, <1>3, BlockAssumption
<1> QED BY <1>1, <1>2, <1>3 DEF Plain, Constant

\* An operand has as many elements as its size.
LEMMA LimbsType ==
    ASSUME NEW o \in Plain
    PROVE  Limbs(o) \in Seq(Element) /\ Len(Limbs(o)) = o.size
<1>1. PICK n : n = o.size /\ n \in Nat
  BY PlainType DEF WordSize
<1>2. \A k \in 1 .. n : << o.kind, o.value, k >> \in Element
  BY PlainType DEF Element
<1>3. Limbs(o) \in [1 .. n -> Element]
  BY <1>1, <1>2 DEF Limbs
<1> QED BY <1>1, <1>3, SeqDef, LenProperties

\* The block's operands and the machine's elements are as the lemmas about emitters suppose.
LEMMA BlockSetting == Setting(Contents, Plain, Element, CallerElements)
<1>1. Expands(Contents, Plain, Element)
  <2>1. Contents \in [Plain -> Seq(Element)]
    BY LimbsType DEF Contents
  <2>2. \A o \in Plain : o.size \in 1 .. WordSize /\ Len(Contents[o]) = o.size
    BY LimbsType, PlainType DEF Contents
  <2> QED BY <2>1, <2>2 DEF Expands
<1>2. CallerElements \in Seq(Element)
  <2>1. PICK n : n = CallerDepth /\ n \in Nat
    BY BlockAssumption
  <2>2. \A k \in 1 .. n : << "caller", 0, k >> \in Element
    BY <2>1 DEF Element
  <2>3. CallerElements \in [1 .. n -> Element]
    BY <2>1, <2>2 DEF CallerElements
  <2> QED BY <2>1, <2>3, SeqDef
<1> QED BY <1>1, <1>2 DEF Setting

-----------------------------------------------------------------------------
(* What the operands of a stack mean.                                      *)

\* Elements is a fold, to which the lemmas of FoldLemmas apply.
LEMMA ElementsIsFold ==
    ASSUME NEW args, NEW s
    PROVE  Elements(args, s) = EL!Fold(args, 0, << >>, s)
BY DEF Elements, EL!Fold, FoldLeft, MapThenFoldSet, EL!FoldLeft, EL!MapThenFoldSet, Max, EL!Max

\* Two stacks whose operands mean the same, one by one, mean the same.
LEMMA ElementsSame ==
    ASSUME NEW args, NEW N, NEW n \in Nat, NEW s, NEW t, DOMAIN s = 1 .. n, DOMAIN t = 1 .. n,
           \A i \in 1 .. n : Meaning(args, s[i]) = N[t[i]]
    PROVE  Elements(args, s) = Flat(N, t)
<1>1. PICK f : EL!Passes(f, args, 0, << >>, s, n) /\ EL!Fold(args, 0, << >>, s) = f[n]
  BY EL!FoldPasses
<1>2. PICK g : F!Passes(g, N, 0, << >>, t, n) /\ F!Fold(N, 0, << >>, t) = g[n]
  BY F!FoldPasses
<1> DEFINE T == {k \in Nat : k <= n => f[k] = g[k]}
<1>3. 0 \in T
  BY <1>1, <1>2 DEF F!Passes, EL!Passes
<1>4. ASSUME NEW k \in Nat, k \in T PROVE k + 1 \in T
  <2> SUFFICES ASSUME k + 1 <= n PROVE f[k + 1] = g[k + 1]
    OBVIOUS
  <2>1. k + 1 \in 1 .. n /\ (k + 1) - 1 = k /\ f[k] = g[k]
    BY <1>4
  <2>2. f[k + 1] = f[k] \o Meaning(args, s[k + 1])
    BY <1>1, <2>1 DEF EL!Passes
  <2>3. g[k + 1] = g[k] \o N[t[k + 1]]
    BY <1>2, <2>1 DEF F!Passes
  <2>4. Meaning(args, s[k + 1]) = N[t[k + 1]]
    BY <2>1
  <2> QED BY <2>1, <2>2, <2>3, <2>4
<1> HIDE DEF T
<1>5. n \in T
  BY <1>3, <1>4, X!NatInduct
<1>6. f[n] = g[n]
  BY <1>5 DEF T
<1> QED BY <1>1, <1>2, <1>6, FlatIsFold, ElementsIsFold

\* An operand that is no parameter means itself.
LEMMA MeansItself ==
    ASSUME NEW args, NEW o \in Plain
    PROVE  Meaning(args, o) = Contents[o]
<1>1. CASE o.kind = "value"
  <2>1. o.value \in Value
    BY <1>1, PlainType
  <2>2. o.value \notin ToSet(Params)
    <3>1. PICK k : k = Len(Params) /\ k \in Nat /\ DOMAIN Params = 1 .. k
      BY BlockAssumption, LenProperties
    <3>2. \A i \in 1 .. k : Params[i] \in Nat \ Value
      BY <3>1, BlockAssumption, ElementOfSeq
    <3> QED BY <2>1, <3>1, <3>2 DEF ToSet
  <2> QED BY <2>2 DEF Meaning, Contents
<1>2. CASE o.kind # "value"
  BY <1>2 DEF Meaning, Contents
<1> QED BY <1>1, <1>2

\* A stack of plain operands means its own elements.
LEMMA ElementsPlain ==
    ASSUME NEW args, NEW s \in Seq(Plain)
    PROVE  Elements(args, s) = Flat(Contents, s)
<1>1. PICK n : n \in Nat /\ DOMAIN s = 1 .. n /\ \A i \in 1 .. n : s[i] \in Plain
  BY LenProperties
<1>2. \A i \in 1 .. n : Meaning(args, s[i]) = Contents[s[i]]
  BY <1>1, MeansItself
<1> QED BY <1>1, <1>2, ElementsSame

\* A parameter means the argument it was passed.
LEMMA MeansArgument ==
    ASSUME NEW args, NEW j \in DOMAIN Params, NEW v \in Value, args[j] = v,
           NEW o, o = [kind |-> "value", value |-> Params[j], size |-> WidthOf[v]]
    PROVE  Meaning(args, o) = Contents[Operand(v)]
<1>1. o.kind = "value" /\ o.value = Params[j] /\ o.value \in ToSet(Params)
  BY DEF ToSet
<1>2. PICK i : i = CHOOSE k \in DOMAIN Params : Params[k] = o.value
  OBVIOUS
<1>3. i = j
  <2>1. i \in DOMAIN Params /\ Params[i] = Params[j]
    BY <1>1, <1>2
  <2> QED BY <2>1, BlockAssumption DEF IsInjective
<1>4. Meaning(args, o) = Limbs([o EXCEPT !.value = args[i]])
  BY <1>1, <1>2 DEF Meaning
<1>5. [o EXCEPT !.value = args[i]] = Operand(v)
  BY <1>3 DEF Operand
<1>6. Operand(v) \in Plain
  BY DEF Plain
<1> QED BY <1>4, <1>5, <1>6 DEF Contents

\* A stack whose first operands are renamed to the parameters means the elements of the
\* arguments.
LEMMA ElementsPrepared ==
    ASSUME NEW args, NEW f, NEW s, Prepared(Contents, Plain, CallerElements, args, Params, f, s),
           args \in Seq(Value), Len(args) <= Len(Params)
    PROVE  Elements(args, f.stack) = Flat(Contents, s)
<1>1. /\ s \in Seq(Plain) /\ Placed(args, s, Len(args))
      /\ f.stack = RenamedTo(s, Params, Len(args))
  BY DEF Prepared
<1>2. PICK n, m, k : /\ n = Len(s) /\ n \in Nat /\ DOMAIN s = 1 .. n /\ m = Len(args) /\ m \in Nat
                     /\ k = Len(Params) /\ k \in Nat /\ DOMAIN Params = 1 .. k
  <2>1. Params \in Seq(Nat \ Value)
    BY BlockAssumption
  <2> QED BY <1>1, <2>1, LenProperties
<1>3. m <= n /\ m <= k /\ \A j \in 1 .. m : Stands(s[j], args[j])
  BY <1>1, <1>2 DEF Placed
<1>4. PICK t : t = f.stack
  OBVIOUS
<1>5. t = [j \in 1 .. n |->
             IF j <= m THEN [kind |-> "value", value |-> Params[j], size |-> s[j].size] ELSE s[j]]
  BY <1>1, <1>2, <1>4 DEF RenamedTo
<1>6. ASSUME NEW j \in 1 .. n PROVE Meaning(args, t[j]) = Contents[s[j]]
  <2>1. s[j] \in Plain
    BY <1>1, <1>2, ElementOfSeq
  <2>2. CASE j <= m
    <3>1. j \in 1 .. m /\ j \in DOMAIN Params
      BY <1>2, <1>3, <2>2
    <3>2. Stands(s[j], args[j])
      BY <1>3, <3>1
    <3>3. PICK v : v = s[j].value /\ v \in Value /\ s[j] = Operand(v) /\ args[j] = v
      BY <2>1, <3>2, PlainType DEF Stands
    <3>4. PICK o : o = [kind |-> "value", value |-> Params[j], size |-> WidthOf[v]]
      OBVIOUS
    <3>5. s[j].size = WidthOf[v]
      BY <3>3 DEF Operand
    <3>6. t[j] = o
      BY <1>5, <2>2, <3>4, <3>5
    <3>7. Meaning(args, o) = Contents[Operand(v)]
      BY <3>1, <3>3, <3>4, MeansArgument
    <3> QED BY <3>3, <3>6, <3>7
  <2>3. CASE ~(j <= m)
    <3>1. t[j] = s[j]
      BY <1>5, <2>3
    <3> QED BY <2>1, <3>1, MeansItself
  <2> QED BY <2>2, <2>3
<1>7. DOMAIN t = 1 .. n
  BY <1>5
<1> QED BY <1>2, <1>4, <1>6, <1>7, ElementsSame

-----------------------------------------------------------------------------
(* The emitters of a block.                                                *)

Believed == Faithful(Contents, Plain, Element, CallerElements)

\* What the lemmas about emitters are given, with the block's operands and elements.
LEMMA BelievedGiven ==
    ASSUME NEW e \in Believed
    PROVE  /\ Given(Contents, Plain, Element, CallerElements, e)
           /\ e.stack \in Seq(Plain) /\ e.outcome \in {"ok", "panic"} /\ e.far \in BOOLEAN
           /\ e.outcome = "ok" => e.vm = Flat(Contents, e.stack) \o CallerElements
BY BlockSetting DEF Believed, Given, Faithful, Emitters, Image

\* Literals.
LEMMA FlatCopies ==
    ASSUME NEW M, NEW O, NEW S, Expands(M, O, S), NEW o \in O, NEW x, M[o] = << x >>, NEW n \in Nat
    PROVE  Copies(n, o) \in Seq(O) /\ Flat(M, Copies(n, o)) = Copies(n, x)
<1> DEFINE T == {k \in Nat : Copies(k, o) \in Seq(O) /\ Flat(M, Copies(k, o)) = Copies(k, x)}
<1>1. 0 \in T
  <2>1. Copies(0, o) = << >> /\ Copies(0, x) = << >>
    BY NoCopies
  <2> QED BY <2>1, FlatEmpty, EmptySeq
<1>2. ASSUME NEW k \in Nat, k \in T PROVE k + 1 \in T
  <2>1. ASSUME NEW y, NEW Y, y \in Y, Copies(k, y) \in Seq(Y)
        PROVE  Copies(k + 1, y) = Append(Copies(k, y), y) /\ Copies(k + 1, y) \in Seq(Y)
    <3>1. PICK a, b : a = Copies(k, y) /\ b = Copies(k + 1, y)
      OBVIOUS
    <3>2. a = [i \in 1 .. k |-> y] /\ b = [i \in 1 .. k + 1 |-> y]
      BY <3>1 DEF Copies
    <3>3. a \in Seq(Y) /\ b \in Seq(Y) /\ Len(a) = k /\ Len(b) = k + 1
      BY <2>1, <3>2, SeqDef, LenProperties
    <3>4. Append(a, y) \in Seq(Y) /\ Len(Append(a, y)) = k + 1 /\ Append(a, y)[k + 1] = y
          /\ \A i \in 1 .. k : Append(a, y)[i] = a[i]
      BY <2>1, <3>3, AppendProperties
    <3>5. \A i \in 1 .. k + 1 : b[i] = Append(a, y)[i]
      <4>1. ASSUME NEW i \in 1 .. k + 1 PROVE b[i] = Append(a, y)[i]
        <5>1. i = k + 1 \/ i \in 1 .. k
          OBVIOUS
        <5> QED BY <3>2, <3>4, <5>1
      <4> QED BY <4>1
    <3>6. b = Append(a, y)
      BY <3>3, <3>4, <3>5, SeqEqual
    <3> QED BY <3>1, <3>3, <3>6
  <2>2. Copies(k, o) \in Seq(O) /\ Flat(M, Copies(k, o)) = Copies(k, x)
    BY <1>2
  <2>3. Copies(k + 1, o) = Append(Copies(k, o), o) /\ Copies(k + 1, o) \in Seq(O)
    BY <2>1, <2>2
  <2>4. PICK c : c = Copies(k, x) /\ c \in Seq({x})
    <3>1. Copies(k, x) = [i \in 1 .. k |-> x]
      BY DEF Copies
    <3>2. Copies(k, x) \in Seq({x})
      BY <3>1, SeqDef
    <3> QED BY <3>2
  <2>5. Copies(k + 1, x) = Append(c, x)
    <3>1. PICK Y : Y = {x}
      OBVIOUS
    <3>2. x \in Y /\ Copies(k, x) \in Seq(Y)
      BY <2>4, <3>1
    <3>3. Copies(k + 1, x) = Append(Copies(k, x), x)
      BY <2>1, <3>2
    <3> QED BY <2>4, <3>3
  <2>6. Flat(M, Append(Copies(k, o), o)) = c \o << x >>
    BY <2>2, <2>4, FlatAppend
  <2>7. Append(c, x) = c \o << x >>
    BY <2>4, AppendIsConcat
  <2>8. Flat(M, Copies(k + 1, o)) = Copies(k + 1, x)
    BY <2>3, <2>5, <2>6, <2>7
  <2>9. k + 1 \in Nat
    OBVIOUS
  <2> QED BY <2>3, <2>8, <2>9
<1> HIDE DEF T
<1>3. n \in T
  BY <1>1, <1>2, X!NatInduct
<1> QED BY <1>3 DEF T

\* Literals are pushed on both stacks.
LEMMA PushLiteralsBelieved ==
    ASSUME NEW e \in Believed, NEW n \in Nat
    PROVE  PushLiterals(e, n) \in Believed /\ PushLiterals(e, n).outcome = e.outcome
<1>1. PICK x : x = Limbs(Constant)[1]
  OBVIOUS
<1>2. Contents[Constant] = << x >> /\ Constant \in Plain /\ x \in Element
  <2>1. Constant \in Plain /\ Constant.size = 1 /\ Constant.kind = "const" /\ Constant.value = 0
    BY DEF Plain, Constant
  <2>2. Contents[Constant] = [k \in 1 .. 1 |-> << "const", 0, k >>]
    BY <2>1 DEF Contents, Limbs
  <2>3. x = << "const", 0, 1 >>
    BY <1>1, <2>1 DEF Limbs
  <2>4. [k \in 1 .. 1 |-> << "const", 0, k >>] = << << "const", 0, 1 >> >>
    OBVIOUS
  <2> QED BY <2>1, <2>2, <2>3, <2>4 DEF Element
<1>3. Setting(Contents, Plain, Element, CallerElements)
  BY BlockSetting
<1>4. PICK a, b, s, w : /\ a = Copies(n, Constant) /\ b = Copies(n, x) /\ s = e.stack /\ w = a \o s
  OBVIOUS
<1>5. a \in Seq(Plain) /\ Flat(Contents, a) = b
  <2>1. Expands(Contents, Plain, Element)
    BY <1>3 DEF Setting
  <2> QED BY <1>2, <1>4, <2>1, FlatCopies
<1>6. s \in Seq(Plain)
  BY <1>4, BelievedGiven
<1>7. Cat(Plain, a, s, w)
  BY <1>4, <1>5, <1>6 DEF Cat
<1>8. /\ w \in Seq(Plain) /\ Flat(Contents, a) \in Seq(Element)
      /\ Image(Contents, s, CallerElements) \in Seq(Element)
      /\ Image(Contents, w, CallerElements) = Flat(Contents, a) \o Image(Contents, s, CallerElements)
  BY <1>3, <1>7, ImageConcat
<1>9. PICK f : f = [e EXCEPT !.stack = w, !.vm = b \o e.vm]
  OBVIOUS
<1>10. PushLiterals(e, n) = f
  BY <1>1, <1>4, <1>9 DEF PushLiterals
<1>11. e \in Emitters(Plain, Element) /\ e.outcome # "fault" /\ e.vm \in Seq(Element)
       /\ (e.outcome = "ok" => e.vm = Image(Contents, s, CallerElements))
  BY <1>4 DEF Believed, Faithful, Emitters
<1>12. b \o e.vm \in Seq(Element)
  <2>1. b \in Seq(Element) /\ e.vm \in Seq(Element)
    BY <1>5, <1>8, <1>11
  <2> QED BY <2>1, ConcatProperties
<1>13. f \in Emitters(Plain, Element) /\ f.outcome = e.outcome /\ f.stack = w /\ f.vm = b \o e.vm
  BY <1>8, <1>9, <1>11, <1>12 DEF Emitters
<1>14. e.outcome = "ok" => f.vm = Image(Contents, w, CallerElements)
  BY <1>5, <1>8, <1>11, <1>13
<1> QED BY <1>10, <1>11, <1>13, <1>14 DEF Believed, Faithful

\* The elements below the operand at n, when the operands above are taken off.
LEMMA WithoutImage ==
    ASSUME NEW s \in Seq(Plain), NEW n \in Nat, n <= Len(s)
    PROVE  /\ Without(s, n) \in Seq(Plain)
           /\ Image(Contents, Without(s, n), CallerElements) \in Seq(Element)
           /\ Without(Image(Contents, s, CallerElements), EffectiveIndex(s, n)) =
                  Image(Contents, Without(s, n), CallerElements)
<1>1. PICK m : m = Len(s) /\ m \in Nat
  BY LenProperties
<1>2. PICK a, b : a = SubSeq(s, 1, n) /\ b = SubSeq(s, n + 1, m)
  OBVIOUS
<1>3. a \in Seq(Plain) /\ b \in Seq(Plain) /\ s = a \o b
  <2>1. /\ s = SubSeq(s, 1, n) \o SubSeq(s, n + 1, m)
        /\ SubSeq(s, 1, n) \in Seq(Plain) /\ SubSeq(s, n + 1, m) \in Seq(Plain)
    <3>1. Len(s) = m /\ n <= m /\ m \in Nat
      BY <1>1
    <3> QED BY <3>1, Cut
  <2> QED BY <1>2, <2>1
<1>4. Cat(Plain, a, b, s)
  BY <1>3 DEF Cat
<1>5. PICK fa, y, x : /\ fa = Flat(Contents, a) /\ y = Image(Contents, b, CallerElements)
                      /\ x = Image(Contents, s, CallerElements)
  OBVIOUS
<1>6. fa \in Seq(Element) /\ y \in Seq(Element) /\ x = fa \o y
  <2>1. /\ Flat(Contents, a) \in Seq(Element)
        /\ Image(Contents, b, CallerElements) \in Seq(Element)
        /\ Image(Contents, s, CallerElements) =
               Flat(Contents, a) \o Image(Contents, b, CallerElements)
    BY <1>4, BlockSetting, ImageConcat
  <2> QED BY <1>5, <2>1
<1>7. EffectiveIndex(s, n) = Len(fa)
  <2>1. Expands(Contents, Plain, Element)
    BY BlockSetting DEF Setting
  <2>2. Len(Flat(Contents, a)) = RawLen(a)
    BY <1>3, <2>1, FlatType
  <2> QED BY <1>2, <1>5, <2>2 DEF EffectiveIndex
<1>8. Without(fa \o y, Len(fa)) = y
  BY <1>6, WithoutShape
<1>9. Without(s, n) = b
  BY <1>1, <1>2 DEF Without
<1> QED BY <1>3, <1>5, <1>6, <1>7, <1>8, <1>9

FD == INSTANCE FoldLemmas WITH Step <- LAMBDA p, q, f, v : Fetch(f, v, p, q)

-----------------------------------------------------------------------------
(* Fetching arguments.                                                     *)

\* An argument is moved or copied to the top of both stacks.
LEMMA FetchFollows ==
    ASSUME NEW e \in Believed, NEW v, NEW live, NEW commutative \in BOOLEAN
    PROVE  Follows(Believed, e, Fetch(e, v, live, commutative))
<1>1. PICK n, c, f, g : /\ n = Find(e.stack, v) /\ c = OnStack(e.stack, v)
                        /\ f = MoveOperandToPosition(e, n, 0, commutative)
                        /\ g = CopyOperandToPosition(e, n, 0, commutative)
  OBVIOUS
<1>2. Given(Contents, Plain, Element, CallerElements, e) /\ e.stack \in Seq(Plain)
  BY BelievedGiven
<1>3. PICK h : h = IF v \in live THEN g ELSE f
  OBVIOUS
<1>4. ASSUME c PROVE Follows(Believed, e, h)
  <2>1. n \in Nat
    <3>1. Topmost(e.stack, v, Find(e.stack, v))
      BY <1>1, <1>2, <1>4, FindIs
    <3> QED BY <1>1, <3>1 DEF Topmost
  <2>2. Follows(Believed, e, f)
    <3>1. 0 \in Nat
      OBVIOUS
    <3>2. Follows(Faithful(Contents, Plain, Element, CallerElements), e,
                MoveOperandToPosition(e, n, 0, commutative))
      BY <1>2, <2>1, <3>1, MoveFollows
    <3> QED BY <1>1, <3>2 DEF Believed
  <2>3. Follows(Believed, e, g)
    <3>1. Follows(Faithful(Contents, Plain, Element, CallerElements), e,
                CopyOperandToPosition(e, n, 0, commutative))
      BY <1>2, <2>1, CopyFollows
    <3> QED BY <1>1, <3>1 DEF Believed
  <2> QED BY <1>3, <2>2, <2>3
<1>5. Follows(Believed, e, Require(e, c, h))
  <2>1. /\ e \in Faithful(Contents, Plain, Element, CallerElements)
        /\ e.outcome = "ok" /\ c =>
               Follows(Faithful(Contents, Plain, Element, CallerElements), e, h)
    BY <1>4 DEF Believed
  <2>2. Follows(Faithful(Contents, Plain, Element, CallerElements), e, Require(e, c, h))
    BY <2>1, RequiredFollows
  <2> QED BY <2>2 DEF Believed
<1>6. Fetch(e, v, live, commutative) = Require(e, c, h)
  BY <1>1, <1>3 DEF Fetch
<1> QED BY <1>5, <1>6

\* A value that is not used later ends up on top.
LEMMA FetchOnTop ==
    ASSUME NEW e \in Believed, NEW v, NEW f, f = Fetch(e, v, {}, FALSE), f.outcome = "ok"
    PROVE  f.stack # << >> /\ Stands(f.stack[1], v)
<1>1. PICK c, g : /\ c = OnStack(e.stack, v)
                  /\ g = MoveOperandToPosition(e, Find(e.stack, v), 0, FALSE)
  OBVIOUS
<1>2. Given(Contents, Plain, Element, CallerElements, e) /\ e.stack \in Seq(Plain)
  BY BelievedGiven
<1>3. f = Require(e, c, g)
  BY <1>1 DEF Fetch
<1>4. e.outcome = "ok" /\ c /\ f = g
  <2>1. [e EXCEPT !.outcome = "panic"].outcome = "panic"
    BY DEF Believed, Faithful, Emitters
  <2> QED BY <1>3, <2>1 DEF Require
<1>5. PICK zero : zero = 0 /\ zero \in Nat /\ zero + 1 = 1
  OBVIOUS
<1>6. Brings(e, v, zero, g)
  BY <1>1, <1>4, <1>5 DEF Brings
<1>7. /\ Follows(Faithful(Contents, Plain, Element, CallerElements), e, g)
      /\ g.outcome = "ok" => zero < Len(g.stack) /\ Stands(g.stack[zero + 1], v)
  BY <1>2, <1>6, FoundMoves
<1>8. f \in Believed
  BY <1>4, <1>7 DEF Follows, Believed
<1>9. f.stack \in Seq(Plain)
  BY <1>8, BelievedGiven
<1>10. f.stack # << >>
  <2>1. PICK s : s = f.stack /\ s = g.stack
    BY <1>4
  <2>2. PICK k : k = Len(s) /\ k \in Nat
    BY <1>9, <2>1, LenProperties
  <2>3. zero < Len(s)
    BY <1>4, <1>7, <2>1
  <2>4. k # 0
    BY <1>5, <2>2, <2>3
  <2>5. Len(<< >>) = 0
    BY EmptySeq
  <2> QED BY <2>1, <2>2, <2>4, <2>5
<1>11. Stands(f.stack[1], v)
  BY <1>4, <1>5, <1>7
<1> QED BY <1>10, <1>11

\* The arguments of an instruction are listed once each.
LEMMA DependenciesListed ==
    ASSUME NEW V, NEW args \in Seq(V)
    PROVE  \E n \in Nat : DOMAIN Dependencies(args) = 1 .. n
<1>1. PICK m \in Nat : DOMAIN args = 1 .. m
  BY LenProperties
<1>2. IsFiniteSet(ToSet(args))
  <2>1. args \in Surjection(1 .. m, ToSet(args))
    <3>1. args \in [1 .. m -> ToSet(args)]
      <4>1. args = [i \in 1 .. m |-> args[i]]
        BY <1>1, LenProperties
      <4> QED BY <1>1, <4>1 DEF ToSet
    <3> QED BY <1>1, <3>1 DEF Surjection, ToSet
  <2> QED BY <2>1, FS_NatSurjection DEF ExistsSurjection
<1>3. Cardinality(ToSet(args)) \in Nat
  BY <1>2, FS_CardinalityType
<1> QED BY <1>3 DEF Dependencies

\* All the arguments of an instruction are fetched.
LEMMA FetchDependenciesFollows ==
    ASSUME NEW e \in Believed, NEW V, NEW args \in Seq(V), NEW live, NEW commutative \in BOOLEAN
    PROVE  FetchDependencies(e, args, live, commutative) \in Believed
<1>1. PICK n \in Nat : DOMAIN Dependencies(args) = 1 .. n
  BY DependenciesListed
<1>2. PICK s : s = Dependencies(args)
  OBVIOUS
<1>3. \A i \in 1 .. n : \A f \in Believed : Fetch(f, s[i], live, commutative) \in Believed
  BY FetchFollows DEF Follows
<1>4. FD!Fold(live, commutative, e, s) \in Believed
  BY <1>1, <1>2, <1>3, FD!FoldKeeps
<1>5. FetchDependencies(e, args, live, commutative) = FD!Fold(live, commutative, e, s)
  BY <1>2 DEF FetchDependencies, FD!Fold, FoldLeft, MapThenFoldSet, FD!FoldLeft, FD!MapThenFoldSet, Max, FD!Max
<1> QED BY <1>4, <1>5

\* The condition of a branch is taken off the top, where it was fetched to.
LEMMA PoppedBelieved ==
    ASSUME NEW f \in Believed, NEW v \in Value, WidthOf[v] = 1,
           f.outcome = "ok" => f.stack # << >> /\ Stands(f.stack[1], v)
    PROVE  Popped(f) \in Believed
<1>1. PICK s, o, b, c, g : /\ s = f.stack /\ o = s[1] /\ b = Tail(s) /\ c = (f.vm # << >>)
                           /\ g = [f EXCEPT !.stack = Tail(@), !.vm = Tail(@)]
  OBVIOUS
<1>2. f \in Emitters(Plain, Element) /\ s \in Seq(Plain) /\ f.vm \in Seq(Element)
      /\ (f.outcome = "ok" => f.vm = Image(Contents, s, CallerElements))
  BY <1>1 DEF Believed, Faithful, Emitters
<1>3. ASSUME f.outcome = "ok" PROVE Follows(Believed, f, g)
  <2>1. s # << >> /\ Stands(o, v)
    BY <1>1, <1>3
  <2>2. OnTopOf(Plain, o, b, s)
    BY <1>1, <1>2, <2>1, TopAndRest
  <2>3. o \in Plain /\ b \in Seq(Plain)
    BY <2>2 DEF OnTopOf
  <2>4. o.size = 1
    <3>1. o = Operand(v)
      BY <2>1, <2>3, PlainType DEF Stands
    <3> QED BY <3>1 DEF Operand
  <2>5. PICK x, y : x = Held(Contents, o) /\ y = Image(Contents, b, CallerElements)
    OBVIOUS
  <2>6. x \in Seq(Element) /\ Len(x) = 1
    <3>1. Expands(Contents, Plain, Element)
      BY BlockSetting DEF Setting
    <3>2. Held(Contents, o) \in Seq(Element) /\ Len(Held(Contents, o)) = o.size
      BY <2>3, <3>1, HeldType
    <3> QED BY <2>4, <2>5, <3>2
  <2>7. y \in Seq(Element)
    <3>1. 0 \in Nat /\ 0 <= Len(b) /\ Without(b, 0) = b
      <4>1. PICK m : m = Len(b) /\ m \in Nat
        BY <2>3, LenProperties
      <4>2. SubSeq(b, 1, m) = b
        BY <2>3, <4>1, SubSeqFull
      <4> QED BY <4>1, <4>2 DEF Without
    <3>2. Image(Contents, Without(b, 0), CallerElements) \in Seq(Element)
      BY <2>3, <3>1, WithoutImage
    <3> QED BY <2>5, <3>1, <3>2
  <2>8. f.vm = x \o y
    <3>1. Image(Contents, s, CallerElements) = Held(Contents, o) \o Image(Contents, b, CallerElements)
      BY <2>2, BlockSetting, ImageTop
    <3> QED BY <1>2, <1>3, <2>5, <3>1
  <2>9. PICK z : z = x[1] /\ z \in Element /\ x = << z >>
    BY <2>6, OnlyOne
  <2>10. Tail(<< z >> \o y) = y
    BY <2>7, <2>9, HeadAndRest
  <2>11. Tail(f.vm) = y
    BY <2>8, <2>9, <2>10
  <2>12. g \in Emitters(Plain, Element) /\ g.outcome = f.outcome /\ g.stack = b /\ g.vm = y
    BY <1>1, <1>2, <2>3, <2>7, <2>11 DEF Emitters
  <2>13. g \in Believed
    BY <1>3, <2>5, <2>12 DEF Believed, Faithful
  <2> QED BY <1>3, <2>13 DEF Follows
<1>4. Follows(Believed, f, Require(f, c, g))
  <2>1. /\ f \in Faithful(Contents, Plain, Element, CallerElements)
        /\ f.outcome = "ok" /\ c =>
               Follows(Faithful(Contents, Plain, Element, CallerElements), f, g)
    BY <1>3 DEF Believed
  <2>2. Follows(Faithful(Contents, Plain, Element, CallerElements), f, Require(f, c, g))
    BY <2>1, RequiredFollows
  <2> QED BY <2>2 DEF Believed
<1>5. Popped(f) = Require(f, c, g)
  BY <1>1 DEF Popped
<1> QED BY <1>4, <1>5 DEF Follows

-----------------------------------------------------------------------------
(* The inductive invariant: before the terminator the operands are plain,  *)
(* and stand for what is on the machine's stack; a branch has renamed the  *)
(* first of such operands.                                                 *)
Branched == request.kind \in {"branch", "inner branch"}

Mirrors ==
    /\ outcome \in {"ok", "panic"}
    /\ outcome = "ok" /\ ~Branched => Emitter \in Believed
    /\ outcome = "ok" /\ Branched =>
           /\ request.args \in Seq(Value) /\ Len(request.args) <= Len(Params)
           /\ \E s : Prepared(Contents, Plain, CallerElements, request.args, Params, Emitter, s)

\* A step that leaves the block open, or returns, keeps the invariant if the emitter is believed.
LEMMA MirrorsAfter ==
    ASSUME NEW e \in Believed, IsNow(e), request'.kind \notin {"branch", "inner branch"}
    PROVE  Mirrors'
<1>1. Emitter' \in Believed
  <2>1. << >> \in Seq(Instr)
    BY EmptySeq
  <2>2. /\ e \in Emitters(Plain, Element) /\ e.outcome # "fault"
        /\ e.outcome = "ok" => e.vm = Image(Contents, e.stack, CallerElements)
    BY DEF Believed, Faithful
  <2>3. Emitter' = [stack |-> e.stack, code |-> << >>, vm |-> e.vm, outcome |-> e.outcome,
                    far |-> e.far]
    BY DEF Emitter, IsNow
  <2>4. Emitter' \in Emitters(Plain, Element)
    BY <2>1, <2>2, <2>3 DEF Emitters
  <2> QED BY <2>2, <2>3, <2>4 DEF Believed, Faithful
<1>2. outcome' \in {"ok", "panic"}
  BY BelievedGiven DEF IsNow
<1>3. ~Branched'
  BY DEF Branched
<1> QED BY <1>1, <1>2, <1>3 DEF Mirrors

\* A branch keeps the invariant if it leaves the successor what is prepared for it.
LEMMA MirrorsAfterBranch ==
    ASSUME NEW args \in Seq(Value), Len(args) <= Len(Params), NEW f,
           IsPrepared(Contents, Plain, CallerElements, args, Params, f),
           IsNow(f), request'.kind \in {"branch", "inner branch"}, request'.args = args
    PROVE  Mirrors'
<1>1. Emitter'.stack = f.stack /\ Emitter'.vm = f.vm
  BY DEF Emitter, IsNow
<1>2. outcome' \in {"ok", "panic"}
  BY DEF IsNow, IsPrepared
<1>3. ASSUME outcome' = "ok"
      PROVE  \E s : Prepared(Contents, Plain, CallerElements, args, Params, Emitter', s)
  <2>1. PICK s : Prepared(Contents, Plain, CallerElements, args, Params, f, s)
    BY <1>3 DEF IsPrepared, IsNow
  <2>2. Prepared(Contents, Plain, CallerElements, args, Params, Emitter', s)
    BY <1>1, <2>1 DEF Prepared
  <2> QED BY <2>2
<1>4. Branched'
  BY DEF Branched
<1>5. outcome' = "ok" =>
          \E s : Prepared(Contents, Plain, CallerElements, request.args, Params, Emitter, s)'
  BY <1>3
<1> QED BY <1>2, <1>4, <1>5 DEF Mirrors

\* Before the terminator the emitter is believed.
LEMMA OpenBelieved ==
    ASSUME Mirrors, Open
    PROVE  Emitter \in Believed /\ stack \in Seq(Plain) /\ Emitter.stack = stack /\ outcome = "ok"
           /\ Emitter.outcome = "ok"
<1>1. Emitter \in Believed /\ Emitter.stack = stack /\ Emitter.outcome = outcome /\ outcome = "ok"
  BY DEF Mirrors, Open, Branched, Emitter
<1> QED BY <1>1, BelievedGiven

\* The values on a stack of plain operands.
LEMMA ValuesType ==
    ASSUME NEW s \in Seq(Plain), NEW v \in Values(s)
    PROVE  v \in Value /\ OnStack(s, v)
<1>1. PICK i \in DOMAIN s : s[i].kind = "value" /\ s[i].value = v
  BY DEF Values
<1>2. s[i] \in Plain
  BY ElementOfSeq, LenProperties
<1> QED BY <1>1, <1>2, PlainType DEF OnStack

\* Arguments are values, and without repeated ones they are distinct.
LEMMA ArgumentsType ==
    ASSUME NEW s \in Seq(Plain), NEW n \in Nat, NEW args \in ArgumentLists(s, n)
    PROVE  /\ args \in Seq(Value) /\ Len(args) <= n
           /\ "repeated" \notin Shapes => Distinct(args)
<1>1. PICK m \in 0 .. n : args \in [1 .. m -> Values(s)]
  BY DEF ArgumentLists, BoundedSeq, SeqOf
<1>2. args \in [1 .. m -> Value]
  BY <1>1, ValuesType
<1>3. m \in Nat /\ m <= n
  OBVIOUS
<1>4. args \in Seq(Value) /\ Len(args) = m
  BY <1>2, <1>3, SeqDef, LenProperties
<1>5. "repeated" \notin Shapes => Distinct(args)
  <2>1. DOMAIN args = 1 .. m
    BY <1>2
  <2>2. "repeated" \notin Shapes =>
            \A i, j \in DOMAIN args : i # j => args[i] # args[j]
    BY DEF ArgumentLists
  <2> QED BY <1>4, <2>1, <2>2 DEF Distinct
<1> QED BY <1>3, <1>4, <1>5

-----------------------------------------------------------------------------
(* Every action keeps it.                                                  *)

MainShapes == Shapes \intersect {"repeated", "global", "empty return"} = {}

\* A block starts with its parameters on both stacks.
LEMMA InitMirrors == Init => Mirrors
<1> SUFFICES ASSUME Init PROVE Mirrors
  OBVIOUS
<1>1. PICK vs \in SUBSET Value :
         \E order \in SetToSeqs(vs) : stack = [i \in DOMAIN order |-> Operand(order[i])]
  BY DEF Init
<1>2. PICK order \in SetToSeqs(vs) : stack = [i \in DOMAIN order |-> Operand(order[i])]
  BY <1>1
<1>3. PICK c : c = Cardinality(vs) /\ c \in Nat
  <2>1. IsFiniteSet(vs)
    BY BlockAssumption, FS_Subset
  <2> QED BY <2>1, FS_CardinalityType
<1>4. order \in [1 .. c -> vs]
  BY <1>3 DEF SetToSeqs
<1>5. stack \in [1 .. c -> Plain]
  BY <1>2, <1>4 DEF Plain
<1>6. stack \in Seq(Plain)
  BY <1>3, <1>5, SeqDef
<1>7. vm = Flat(Contents, stack) \o CallerElements
  BY <1>6, ElementsPlain DEF Init
<1>8. vm = Image(Contents, stack, CallerElements) /\ vm \in Seq(Element)
  <2>1. PICK x : x = Flat(Contents, stack)
    OBVIOUS
  <2>2. x \in Seq(Element) /\ CallerElements \in Seq(Element)
    BY <1>6, <2>1, BlockSetting, FlatType DEF Setting
  <2>3. x \o CallerElements \in Seq(Element)
    BY <2>2, ConcatProperties
  <2> QED BY <1>7, <2>1, <2>3 DEF Image
<1>9. Emitter \in Believed
  <2>1. << >> \in Seq(Instr)
    BY EmptySeq
  <2> QED BY <1>6, <1>8, <2>1 DEF Init, Emitter, Believed, Faithful, Emitters
<1> QED BY <1>9 DEF Init, Mirrors, Branched, Nothing

\* A literal is pushed.
LEMMA LiteralMirrors ==
    ASSUME Mirrors, MainShapes, Literal PROVE Mirrors'
<1>1. Emitter \in Believed
  BY OpenBelieved DEF Literal
<1>2. IsNow(PushLiterals(Emitter, 1))
  BY DEF Literal, MainShapes
<1>3. PushLiterals(Emitter, 1) \in Believed
  BY <1>1, PushLiteralsBelieved
<1>4. request'.kind \notin {"branch", "inner branch"}
  BY DEF Literal, Nothing
<1> QED BY <1>2, <1>3, <1>4, MirrorsAfter

\* The operands that no later instruction uses are dropped.
LEMMA DropDeadMirrors ==
    ASSUME Mirrors, DropDead PROVE Mirrors'
<1>1. Emitter \in Believed /\ stack \in Seq(Plain)
  BY OpenBelieved DEF DropDead
<1>2. PICK v \in Values(stack) : IsNow(DropOperandAt(Emitter, Find(stack, v)))
  BY DEF DropDead
<1>3. PICK n : n = Find(stack, v) /\ IsNow(DropOperandAt(Emitter, n))
  BY <1>2
<1>4. n \in Nat
  <2>1. Topmost(stack, v, Find(stack, v))
    BY <1>1, ValuesType, FindIs
  <2> QED BY <1>3, <2>1 DEF Topmost
<1>5. DropOperandAt(Emitter, n) \in Believed
  <2>1. Given(Contents, Plain, Element, CallerElements, Emitter)
    BY <1>1, BelievedGiven
  <2>2. Follows(Faithful(Contents, Plain, Element, CallerElements), Emitter, DropOperandAt(Emitter, n))
    BY <1>4, <2>1, DropOperandAtFaithful
  <2> QED BY <2>2 DEF Follows, Believed
<1>6. request'.kind \notin {"branch", "inner branch"}
  BY DEF DropDead, Nothing
<1> QED BY <1>3, <1>5, <1>6, MirrorsAfter

\* A method of the emitter is called.
LEMMA EmitterCallMirrors ==
    ASSUME Mirrors, EmitterCall PROVE Mirrors'
<1>1. Emitter \in Believed /\ stack \in Seq(Plain)
  BY OpenBelieved DEF EmitterCall
<1>2. Given(Contents, Plain, Element, CallerElements, Emitter)
  BY <1>1, BelievedGiven
<1>3. PICK i \in Nat : \/ IsNow(Dup(Emitter, i)) \/ IsNow(Movup(Emitter, i))
                       \/ IsNow(Movdn(Emitter, i)) \/ IsNow(Swap(Emitter, i))
                       \/ IsNow(Dropn(Emitter, i + 1))
  <2>1. PICK i \in 0 .. Len(stack) - 1 :
           \/ IsNow(Dup(Emitter, i)) \/ IsNow(Movup(Emitter, i)) \/ IsNow(Movdn(Emitter, i))
           \/ IsNow(Swap(Emitter, i)) \/ IsNow(Dropn(Emitter, i + 1))
    BY DEF EmitterCall
  <2>2. i \in Nat
    BY <1>1, LenProperties
  <2> QED BY <2>1, <2>2
<1>4. PICK f : /\ IsNow(f)
               /\ f \in {Dup(Emitter, i), Movup(Emitter, i), Movdn(Emitter, i),
                         Swap(Emitter, i), Dropn(Emitter, i + 1)}
  BY <1>3
<1>5. Dup(Emitter, i) \in Believed
  BY <1>2, DupFaithful DEF Believed, Yields
<1>6. Movup(Emitter, i) \in Believed
  BY <1>2, MovupFaithful DEF Believed, Yields
<1>7. Movdn(Emitter, i) \in Believed
  BY <1>2, MovdnFaithful DEF Believed, Yields
<1>8. Swap(Emitter, i) \in Believed
  BY <1>2, SwapFaithful DEF Believed, Yields
<1>9. Dropn(Emitter, i + 1) \in Believed
  <2>1. PICK n : n = i + 1 /\ n \in Nat
    OBVIOUS
  <2>2. Dropn(Emitter, n) \in Believed
    BY <1>2, <2>1, DropnFaithful DEF Believed, Yields
  <2> QED BY <2>1, <2>2
<1>10. f \in Believed
  BY <1>4, <1>5, <1>6, <1>7, <1>8, <1>9
<1>11. request'.kind \notin {"branch", "inner branch"}
  BY DEF EmitterCall, Nothing
<1> QED BY <1>4, <1>10, <1>11, MirrorsAfter

\* An instruction takes its arguments off both stacks, and leaves its result.
LEMMA ResultBelieved ==
    ASSUME NEW e \in Believed, e.outcome = "ok", NEW n \in Nat, n <= Len(e.stack),
           NEW result \in Value, NEW f,
           f = [e EXCEPT !.stack = << Operand(result) >> \o Without(@, n),
                         !.vm = Limbs(Operand(result)) \o Without(@, EffectiveIndex(e.stack, n))]
    PROVE  f \in Believed
<1>1. PICK s, o, b, w, x : /\ s = e.stack /\ o = Operand(result) /\ b = Without(s, n)
                           /\ w = << o >> \o b /\ x = Held(Contents, o)
  OBVIOUS
<1>2. e \in Emitters(Plain, Element) /\ s \in Seq(Plain) /\ e.vm = Image(Contents, s, CallerElements)
  BY <1>1 DEF Believed, Faithful, Emitters
<1>3. o \in Plain /\ x = Limbs(o)
  BY <1>1 DEF Plain, Held, Contents
<1>4. PICK y : y = Image(Contents, b, CallerElements)
  OBVIOUS
<1>5. b \in Seq(Plain) /\ y \in Seq(Element) /\ Without(e.vm, EffectiveIndex(s, n)) = y
  <2>1. n <= Len(s)
    BY <1>1
  <2>2. /\ Without(s, n) \in Seq(Plain)
        /\ Image(Contents, Without(s, n), CallerElements) \in Seq(Element)
        /\ Without(Image(Contents, s, CallerElements), EffectiveIndex(s, n)) =
               Image(Contents, Without(s, n), CallerElements)
    BY <1>2, <2>1, WithoutImage
  <2> QED BY <1>1, <1>2, <1>4, <2>2
<1>6. OnTopOf(Plain, o, b, w)
  BY <1>1, <1>3, <1>5 DEF OnTopOf
<1>7. w \in Seq(Plain) /\ Image(Contents, w, CallerElements) = x \o y
  <2>1. /\ w \in Seq(Plain)
        /\ Image(Contents, w, CallerElements) =
               Held(Contents, o) \o Image(Contents, b, CallerElements)
    BY <1>6, BlockSetting, ImageTop
  <2> QED BY <1>1, <1>4, <2>1
<1>8. x \o y \in Seq(Element)
  <2>1. x \in Seq(Element)
    BY <1>3, LimbsType
  <2> QED BY <1>5, <2>1, ConcatProperties
<1>9. f = [e EXCEPT !.stack = w, !.vm = x \o y]
  BY <1>1, <1>3, <1>5
<1>10. f \in Emitters(Plain, Element) /\ f.outcome = e.outcome /\ f.stack = w /\ f.vm = x \o y
  BY <1>2, <1>7, <1>8, <1>9 DEF Emitters
<1> QED BY <1>7, <1>10 DEF Believed, Faithful

\* That is what Takes does, or the emitter panics.
LEMMA TakesMirrors ==
    ASSUME NEW e \in Believed, NEW kind \in {"instruction", "commutative"},
           NEW args \in Seq(Value), NEW live, NEW result \in Value,
           Takes(e, kind, args, live, result)
    PROVE  Mirrors'
<1>1. PICK n, taken, asked :
         /\ n = Len(args) /\ taken = EffectiveIndex(e.stack, n)
         /\ asked = (e.outcome = "ok" /\ Len(e.stack) >= n /\ Len(e.vm) >= taken)
  OBVIOUS
<1>2. n \in Nat
  BY <1>1, LenProperties
<1>3. request'.kind \notin {"branch", "inner branch"}
  <2>1. Asks(kind, args, live, SubSeq(e.stack, 1, n)) \/ Asks(kind, args, live, << >>)
    BY <1>1 DEF Takes
  <2>2. request'.kind = kind
    BY <2>1 DEF Asks
  <2> QED BY <2>2
<1>4. CASE asked
  <2>1. PICK f : f = [e EXCEPT !.stack = << Operand(result) >> \o Without(@, n),
                               !.vm = Limbs(Operand(result)) \o Without(@, EffectiveIndex(e.stack, n))]
    OBVIOUS
  <2>2. IsNow(f)
    BY <1>1, <1>4, <2>1 DEF Takes
  <2>3. e.outcome = "ok" /\ n <= Len(e.stack)
    BY <1>1, <1>2, <1>4, BelievedGiven, LenProperties
  <2>4. f \in Believed
    BY <1>2, <2>1, <2>3, ResultBelieved
  <2> QED BY <1>3, <2>2, <2>4, MirrorsAfter
<1>5. CASE ~asked
  <2>1. PICK no, g : no = FALSE /\ g = Require(e, no, e)
    OBVIOUS
  <2>2. IsNow(g)
    BY <1>1, <1>5, <2>1 DEF Takes
  <2>3. g \in Believed
    <3>1. e \in Faithful(Contents, Plain, Element, CallerElements)
      BY DEF Believed
    <3>2. Follows(Faithful(Contents, Plain, Element, CallerElements), e, Require(e, no, e))
      BY <2>1, <3>1, RequiredFollows
    <3> QED BY <2>1, <3>2 DEF Follows, Believed
  <2> QED BY <1>3, <2>2, <2>3, MirrorsAfter
<1> QED BY <1>4, <1>5

\* An instruction fetches its arguments, takes them and leaves its result.
LEMMA InstructionMirrors ==
    ASSUME Mirrors, Instruction PROVE Mirrors'
<1>1. Emitter \in Believed /\ stack \in Seq(Plain)
  BY OpenBelieved DEF Instruction
<1>2. PICK args \in InstructionArgs(stack), live \in SUBSET Values(stack),
           commutative \in BOOLEAN, result \in Value, kind \in {"instruction", "commutative"} :
          Takes(FetchDependencies(Emitter, args, live, commutative /\ Len(args) = 2),
                kind, args, live, result)
  BY DEF Instruction
<1>3. args \in Seq(Value)
  <2>1. args \in ArgumentLists(stack, 2) /\ 2 \in Nat
    BY DEF InstructionArgs
  <2> QED BY <1>1, <2>1, ArgumentsType
<1>4. PICK c, e : /\ c = (commutative /\ Len(args) = 2) /\ c \in BOOLEAN
                  /\ e = FetchDependencies(Emitter, args, live, c)
  OBVIOUS
<1>5. e \in Believed
  BY <1>1, <1>3, <1>4, FetchDependenciesFollows
<1>6. Takes(e, kind, args, live, result)
  BY <1>2, <1>4
<1> QED BY <1>3, <1>5, <1>6, TakesMirrors

\* A return leaves the value it returns, above the literals pushed for the loops it leaves.
LEMMA ReturnBelieved ==
    ASSUME NEW e \in Believed, NEW level \in Nat
    PROVE  PushLiterals(TruncateStack(e, 1), level) \in Believed
<1>1. PICK one, f : one = 1 /\ one \in Nat /\ one # 0 /\ f = TruncateStack(e, one)
  OBVIOUS
<1>2. Given(Contents, Plain, Element, CallerElements, e)
  BY BelievedGiven
<1>3. Follows(Faithful(Contents, Plain, Element, CallerElements), e, TruncateStack(e, one))
  BY <1>1, <1>2, TruncateToSome
<1>4. f \in Believed
  BY <1>1, <1>3 DEF Follows, Believed
<1>5. PushLiterals(f, level) \in Believed
  BY <1>4, PushLiteralsBelieved
<1> QED BY <1>1, <1>5

\* Returning values.
LEMMA RetMirrors ==
    ASSUME Mirrors, Ret PROVE Mirrors'
<1>1. Emitter \in Believed
  BY OpenBelieved DEF Ret
<1>2. PICK v \in Values(stack), level \in 0 .. 1 :
         /\ IsNow(PushLiterals(TruncateStack(Fetch(Emitter, v, {}, FALSE), 1), level))
         /\ Asks("return", << v >>, {}, << >>)
  BY DEF Ret
<1>3. PICK e : e = Fetch(Emitter, v, {}, FALSE)
  OBVIOUS
<1>4. e \in Believed
  <2>1. PICK no, none : no = FALSE /\ no \in BOOLEAN /\ none = {}
    OBVIOUS
  <2>2. Follows(Believed, Emitter, Fetch(Emitter, v, none, no))
    BY <1>1, <2>1, FetchFollows
  <2> QED BY <1>3, <2>1, <2>2 DEF Follows
<1>5. PushLiterals(TruncateStack(e, 1), level) \in Believed
  <2>1. level \in Nat
    OBVIOUS
  <2> QED BY <1>4, <2>1, ReturnBelieved
<1>6. request'.kind \notin {"branch", "inner branch"}
  BY <1>2 DEF Asks
<1> QED BY <1>2, <1>3, <1>5, <1>6, MirrorsAfter

\* Returning an immediate.
LEMMA RetImmMirrors ==
    ASSUME Mirrors, MainShapes, RetImm PROVE Mirrors'
<1>1. Emitter \in Believed /\ Emitter.outcome = "ok" /\ Emitter.stack = stack
  BY OpenBelieved DEF RetImm
<1>2. PICK level \in 0 .. 1 : IsNow(PushLiterals(TruncateStack(Emitter, 0), 1 + level))
  BY DEF RetImm
<1>3. RawLen(stack) % WordSize = 0 /\ request'.kind = "return"
  BY DEF RetImm, MainShapes, Asks
<1>4. TruncateStack(Emitter, 0) \in Believed
  <2>1. Given(Contents, Plain, Element, CallerElements, Emitter)
    BY <1>1, BelievedGiven
  <2>2. RawLen(Emitter.stack) % WordSize = 0
    BY <1>1, <1>3
  <2>3. Yields(Faithful(Contents, Plain, Element, CallerElements), Emitter,
               TruncateStack(Emitter, 0), << >>)
    BY <1>1, <2>1, <2>2, TruncateToNone
  <2> QED BY <2>3 DEF Yields, Believed
<1>5. PushLiterals(TruncateStack(Emitter, 0), 1 + level) \in Believed
  <2>1. 1 + level \in Nat
    OBVIOUS
  <2> QED BY <1>4, <2>1, PushLiteralsBelieved
<1> QED BY <1>2, <1>3, <1>5, MirrorsAfter

\* Leaving to a successor.
LEMMA LeaveMirrors ==
    ASSUME NEW e \in Believed, NEW args \in Seq(Value), Len(args) <= Len(Params), Distinct(args),
           NEW live, NEW drops \in BOOLEAN, IsNow(LeaveTo(e, args, Params, live, drops)),
           request'.kind \in {"branch", "inner branch"}, request'.args = args
    PROVE  Mirrors'
<1>1. Given(Contents, Plain, Element, CallerElements, e)
  BY BelievedGiven
<1>2. PICK W : Params \in Seq(W)
  BY BlockAssumption
<1>3. IsPrepared(Contents, Plain, CallerElements, args, Params, LeaveTo(e, args, Params, live, drops))
  BY <1>1, <1>2, LeaveToFaithful
<1> QED BY <1>3, MirrorsAfterBranch

\* An unconditional branch.
LEMMA BrMirrors ==
    ASSUME Mirrors, MainShapes, Br PROVE Mirrors'
<1>1. Emitter \in Believed /\ stack \in Seq(Plain)
  BY OpenBelieved DEF Br
<1>2. PICK args \in ArgumentLists(stack, Len(Params)), live \in SUBSET Values(stack) :
         /\ IsNow(LeaveTo(FetchDependencies(Emitter, args, live, FALSE), args, Params, live, TRUE))
         /\ Asks("branch", args, live, << >>)
  BY DEF Br
<1>3. args \in Seq(Value) /\ Len(args) <= Len(Params) /\ Distinct(args)
  <2>1. PICK n : n = Len(Params) /\ n \in Nat
    BY BlockAssumption, LenProperties
  <2> QED BY <1>1, <1>2, <2>1, ArgumentsType DEF MainShapes
<1>4. PICK e, no, yes : /\ no = FALSE /\ no \in BOOLEAN /\ yes = TRUE /\ yes \in BOOLEAN
                        /\ e = FetchDependencies(Emitter, args, live, no)
  OBVIOUS
<1>5. e \in Believed
  BY <1>1, <1>3, <1>4, FetchDependenciesFollows
<1>6. request'.kind \in {"branch", "inner branch"} /\ request'.args = args
  BY <1>2 DEF Asks
<1>7. IsNow(LeaveTo(e, args, Params, live, yes))
  BY <1>2, <1>4
<1> QED BY <1>3, <1>4, <1>5, <1>6, <1>7, LeaveMirrors

\* A conditional branch takes its condition off both stacks, and leaves to either successor.
LEMMA CondBrMirrors ==
    ASSUME Mirrors, MainShapes, CondBr PROVE Mirrors'
<1>1. Emitter \in Believed /\ stack \in Seq(Plain)
  BY OpenBelieved DEF CondBr
<1>2. PICK cond \in Values(stack),
           args \in ArgumentLists(stack, Len(Params)), other \in ArgumentLists(stack, 1),
           live \in SUBSET Values(stack), drops \in BOOLEAN :
         /\ WidthOf[cond] = 1
         /\ IsNow(LeaveTo(Popped(Fetch(FetchDependencies(Emitter, << cond >> \o args \o other, live, FALSE),
                                       cond, {}, FALSE)),
                          args, Params, live, drops))
         /\ Asks(IF drops THEN "branch" ELSE "inner branch", args, live, << >>)
  BY DEF CondBr
<1>3. args \in Seq(Value) /\ Len(args) <= Len(Params) /\ Distinct(args)
  <2>1. PICK n : n = Len(Params) /\ n \in Nat
    BY BlockAssumption, LenProperties
  <2> QED BY <1>1, <1>2, <2>1, ArgumentsType DEF MainShapes
<1>4. cond \in Value /\ other \in Seq(Value)
  <2>1. 1 \in Nat
    OBVIOUS
  <2> QED BY <1>1, <2>1, ValuesType, ArgumentsType
<1>5. PICK all : all = << cond >> \o args \o other /\ all \in Seq(Value)
  <2>1. << cond >> \in Seq(Value)
    BY <1>4, Single
  <2>2. << cond >> \o args \in Seq(Value)
    BY <1>3, <2>1, ConcatProperties
  <2>3. (<< cond >> \o args) \o other \in Seq(Value)
    BY <1>4, <2>2, ConcatProperties
  <2> QED BY <2>3
<1>6. PICK e, f, no : /\ no = FALSE /\ no \in BOOLEAN
                      /\ e = FetchDependencies(Emitter, all, live, no)
                      /\ f = Fetch(e, cond, {}, FALSE)
  OBVIOUS
<1>7. e \in Believed
  BY <1>1, <1>5, <1>6, FetchDependenciesFollows
<1>8. f \in Believed
  <2>1. PICK none : none = {}
    OBVIOUS
  <2>2. Follows(Believed, e, Fetch(e, cond, none, no))
    BY <1>6, <1>7, FetchFollows
  <2> QED BY <1>6, <2>1, <2>2 DEF Follows
<1>9. f.outcome = "ok" => f.stack # << >> /\ Stands(f.stack[1], cond)
  BY <1>6, <1>7, FetchOnTop
<1>10. Popped(f) \in Believed
  BY <1>2, <1>4, <1>8, <1>9, PoppedBelieved
<1>11. request'.kind \in {"branch", "inner branch"} /\ request'.args = args
  BY <1>2 DEF Asks
<1>12. IsNow(LeaveTo(Popped(f), args, Params, live, drops))
  BY <1>2, <1>5, <1>6
<1> QED BY <1>3, <1>10, <1>11, <1>12, LeaveMirrors

\* Every step keeps it.
LEMMA NextMirrors ==
    ASSUME Mirrors, MainShapes, [Next]_vars PROVE Mirrors'
<1>1. CASE Literal
  BY <1>1, LiteralMirrors
<1>2. CASE Instruction
  BY <1>2, InstructionMirrors
<1>3. CASE DropDead
  BY <1>3, DropDeadMirrors
<1>4. CASE EmitterCall
  BY <1>4, EmitterCallMirrors
<1>5. CASE Ret
  BY <1>5, RetMirrors
<1>6. CASE RetImm
  BY <1>6, RetImmMirrors
<1>7. CASE Br
  BY <1>7, BrMirrors
<1>8. CASE CondBr
  BY <1>8, CondBrMirrors
<1>9. CASE UNCHANGED vars
  BY <1>9 DEF vars, Mirrors, Branched, Emitter
<1> QED BY <1>1, <1>2, <1>3, <1>4, <1>5, <1>6, <1>7, <1>8, <1>9 DEF Next

\* The inductive invariant holds in every state: the emitter that is kept from instruction to
\* instruction describes the machine's stack with plain operands, and after a branch the stack
\* is the one that prepare_stack_arguments leaves.
THEOREM MirrorsAlways ==
    ASSUME MainShapes PROVE Spec => []Mirrors
<1>1. Init => Mirrors
  BY InitMirrors
<1>2. Mirrors /\ [Next]_vars => Mirrors'
  BY NextMirrors
<1> QED BY <1>1, <1>2, PTL DEF Spec

\* The invariant says in particular that the operand stack mirrors the machine's.
LEMMA MirrorsStack == Mirrors => StackMirrored
<1> SUFFICES ASSUME Mirrors PROVE StackMirrored
  OBVIOUS
<1>1. outcome # "fault"
  BY DEF Mirrors
<1>2. ASSUME outcome = "ok", ~Branched
      PROVE  vm = Elements(request.args, stack) \o CallerElements
  <2>1. Emitter \in Believed /\ Emitter.stack = stack /\ Emitter.vm = vm /\ Emitter.outcome = "ok"
    BY <1>2 DEF Mirrors, Emitter
  <2>2. stack \in Seq(Plain) /\ vm = Flat(Contents, stack) \o CallerElements
    BY <2>1, BelievedGiven
  <2>3. Elements(request.args, stack) = Flat(Contents, stack)
    BY <2>2, ElementsPlain
  <2> QED BY <2>2, <2>3
<1>3. ASSUME outcome = "ok", Branched
      PROVE  vm = Elements(request.args, stack) \o CallerElements
  <2>1. PICK s : Prepared(Contents, Plain, CallerElements, request.args, Params, Emitter, s)
    BY <1>3 DEF Mirrors
  <2>2. request.args \in Seq(Value) /\ Len(request.args) <= Len(Params)
    BY <1>3 DEF Mirrors
  <2>3. Elements(request.args, Emitter.stack) = Flat(Contents, s)
    BY <2>1, <2>2, ElementsPrepared
  <2>4. Emitter.stack = stack /\ Emitter.vm = vm
    BY DEF Emitter
  <2> QED BY <2>1, <2>3, <2>4 DEF Prepared, Image
<1> QED BY <1>1, <1>2, <1>3 DEF StackMirrored

\* At every step of emitting a block, unless the compiler gave up, the operands of the emitter's
\* stack are what the code emitted so far leaves on the machine's stack, element by element and
\* with nothing added to or taken from what the caller had there: for every set of values, of
\* any widths up to a word, every list of parameters and every number of instructions.  MainShapes
\* leaves out the three shapes of blocks in which a run finds the emitter wrong.
\* BlockEmitter::emit rests on it: each instruction takes its arguments from where the
\* operand stack says they are.
THEOREM MachineMirrorsStack ==
    ASSUME MainShapes PROVE Spec => []StackMirrored
BY MirrorsAlways, MirrorsStack, PTL

\* And that a successor finds its parameters on top.
LEMMA MirrorsParameters == Mirrors => ParametersOnTop
<1> SUFFICES ASSUME Mirrors, outcome = "ok", Branched PROVE
       /\ Len(request.args) <= Len(stack)
       /\ \A i \in DOMAIN request.args :
               stack[i] = [Operand(request.args[i]) EXCEPT !.value = Params[i]]
  BY DEF ParametersOnTop, Branched
<1>1. PICK args, s : /\ args = request.args /\ args \in Seq(Value)
                     /\ Prepared(Contents, Plain, CallerElements, args, Params, Emitter, s)
  BY DEF Mirrors
<1>2. /\ s \in Seq(Plain) /\ Placed(args, s, Len(args))
      /\ stack = RenamedTo(s, Params, Len(args))
  BY <1>1 DEF Prepared, Emitter
<1>3. PICK n, m : /\ n = Len(s) /\ n \in Nat /\ m = Len(args) /\ m \in Nat /\ DOMAIN args = 1 .. m
  BY <1>1, <1>2, LenProperties
<1>4. m <= n /\ \A j \in 1 .. m : Stands(s[j], args[j])
  BY <1>2, <1>3 DEF Placed
<1>5. stack = [j \in 1 .. n |->
                 IF j <= m THEN [kind |-> "value", value |-> Params[j], size |-> s[j].size] ELSE s[j]]
  BY <1>2, <1>3 DEF RenamedTo
<1>6. Len(stack) = n
  BY <1>3, <1>5
<1>7. ASSUME NEW i \in 1 .. m
      PROVE  stack[i] = [Operand(args[i]) EXCEPT !.value = Params[i]]
  <2>1. i \in 1 .. n /\ i <= m
    BY <1>3, <1>4
  <2>2. stack[i] = [kind |-> "value", value |-> Params[i], size |-> s[i].size]
    BY <1>5, <2>1
  <2>3. s[i] \in Plain /\ Stands(s[i], args[i])
    BY <1>2, <1>3, <1>4, <2>1, ElementOfSeq
  <2>4. s[i].size = WidthOf[args[i]]
    BY <2>3, PlainType DEF Stands, Operand
  <2> QED BY <2>2, <2>4 DEF Operand
<1> QED BY <1>1, <1>3, <1>4, <1>6, <1>7

\* A br or a cond_br leaves the successor's parameters on top of the operand stack, in order, and
\* each of them stands for the argument it was passed.  The successor's emitter starts from that
\* stack without looking at the predecessor's.
THEOREM BranchesLeaveParameters ==
    ASSUME MainShapes PROVE Spec => []ParametersOnTop
BY MirrorsAlways, MirrorsParameters, PTL

-----------------------------------------------------------------------------
(* How often a value occurs on a stack: once, or twice, at the least.      *)

\* Somewhere on the stack.
Once(s, v) == \E i \in 1 .. Len(s) : Stands(s[i], v)
\* At two places.
Twice(s, v) == \E i, j \in 1 .. Len(s) : i # j /\ Stands(s[i], v) /\ Stands(s[j], v)

\* Two stacks on which every value occurs as often.
AsOften(s, t) == \A v : (Once(s, v) <=> Once(t, v)) /\ (Twice(s, v) <=> Twice(t, v))

\* Every value that occurs on s occurs on t as often.
NoLess(s, t) == \A v : (Once(s, v) => Once(t, v)) /\ (Twice(s, v) => Twice(t, v))

\* On a stack of two pieces.
LEMMA OccursJoined ==
    ASSUME NEW O, NEW a \in Seq(O), NEW b \in Seq(O), NEW v
    PROVE  /\ Once(a \o b, v) <=> Once(a, v) \/ Once(b, v)
           /\ Twice(a \o b, v) <=> Twice(a, v) \/ Twice(b, v) \/ (Once(a, v) /\ Once(b, v))
<1>1. PICK n, m : n = Len(a) /\ n \in Nat /\ m = Len(b) /\ m \in Nat
  BY LenProperties
<1>2. PICK s : s = a \o b
  OBVIOUS
<1>3. /\ s \in Seq(O) /\ Len(s) = n + m
      /\ \A j \in 1 .. n : s[j] = a[j]
      /\ \A j \in 1 .. m : s[n + j] = b[j]
  <2>1. Joins(O, a, n, b, m, s)
    BY <1>1, <1>2 DEF Joins
  <2> QED BY <2>1, JoinedParts
<1> DEFINE A == {i \in 1 .. n : Stands(a[i], v)}
           B == {i \in 1 .. m : Stands(b[i], v)}
           T == {i \in 1 .. n + m : Stands(s[i], v)}
<1>4. \A i \in 1 .. n + m : i \in 1 .. n \/ \E j \in 1 .. m : i = n + j
  <2> SUFFICES ASSUME NEW i \in 1 .. n + m, i \notin 1 .. n
               PROVE  \E j \in 1 .. m : i = n + j
    OBVIOUS
  <2>1. i - n \in 1 .. m /\ i = n + (i - n)
    BY <1>1
  <2> QED BY <2>1
<1>5. \A i \in A : i \in T
  BY <1>1, <1>3
<1>6. \A i \in B : n + i \in T /\ n + i \notin A
  BY <1>1, <1>3
<1>7. \A i \in T : i \in A \/ \E j \in B : i = n + j
  BY <1>3, <1>4
<1>8. /\ Once(a, v) <=> \E i \in A : TRUE
      /\ Once(b, v) <=> \E i \in B : TRUE
      /\ Once(s, v) <=> \E i \in T : TRUE
  BY <1>1, <1>3 DEF Once
<1>9. /\ Twice(a, v) <=> \E i, j \in A : i # j
      /\ Twice(b, v) <=> \E i, j \in B : i # j
      /\ Twice(s, v) <=> \E i, j \in T : i # j
  BY <1>1, <1>3 DEF Twice
<1>10. \A i, j \in B : i # j => n + i # n + j
  BY <1>1
<1> HIDE DEF A, B, T
<1>11. Once(s, v) <=> Once(a, v) \/ Once(b, v)
  BY <1>5, <1>6, <1>7, <1>8
<1>12. Twice(a, v) \/ Twice(b, v) \/ (Once(a, v) /\ Once(b, v)) => Twice(s, v)
  <2>1. ASSUME Once(a, v), Once(b, v) PROVE Twice(s, v)
    <3>1. PICK i \in A, j \in B : TRUE
      BY <1>8, <2>1
    <3>2. i \in T /\ n + j \in T /\ n + j # i
      BY <1>5, <1>6
    <3> QED BY <1>9, <3>2
  <2>2. ASSUME Twice(b, v) PROVE Twice(s, v)
    <3>1. PICK i \in B, j \in B : i # j
      BY <1>9, <2>2
    <3>2. n + i \in T /\ n + j \in T /\ n + i # n + j
      BY <1>6, <1>10, <3>1
    <3> QED BY <1>9, <3>2
  <2>3. ASSUME Twice(a, v) PROVE Twice(s, v)
    BY <1>5, <1>9, <2>3
  <2> QED BY <2>1, <2>2, <2>3
<1>13. ASSUME Twice(s, v) PROVE Twice(a, v) \/ Twice(b, v) \/ (Once(a, v) /\ Once(b, v))
  <2>1. PICK i \in T, j \in T : i # j
    BY <1>9, <1>13
  <2>2. CASE i \in A /\ j \in A
    BY <1>9, <2>1, <2>2
  <2>3. CASE i \in A /\ j \notin A
    BY <1>7, <1>8, <2>3
  <2>4. CASE i \notin A /\ j \in A
    BY <1>7, <1>8, <2>4
  <2>5. CASE i \notin A /\ j \notin A
    <3>1. PICK k \in B, l \in B : i = n + k /\ j = n + l
      BY <1>7, <2>5
    <3>2. k # l
      BY <2>1, <3>1
    <3> QED BY <1>9, <3>2
  <2> QED BY <2>2, <2>3, <2>4, <2>5
<1> QED BY <1>2, <1>11, <1>12, <1>13

\* On a stack of one operand.
LEMMA OccursSingle ==
    ASSUME NEW x, NEW v
    PROVE  (Once(<< x >>, v) <=> Stands(x, v)) /\ ~Twice(<< x >>, v)
<1>1. PICK q : q = << x >>
  OBVIOUS
<1>2. Len(q) = 1 /\ q[1] = x
  BY <1>1
<1>3. \A i \in 1 .. 1 : i = 1
  OBVIOUS
<1>4. 1 \in 1 .. 1
  OBVIOUS
<1> QED BY <1>1, <1>2, <1>3, <1>4 DEF Once, Twice

\* On an empty stack.
LEMMA OccursNowhere == ASSUME NEW v PROVE ~Once(<< >>, v) /\ ~Twice(<< >>, v)
<1>1. \A i \in 1 .. Len(<< >>) : FALSE
  BY EmptySeq
<1> QED BY <1>1 DEF Once, Twice

\* What occurs twice occurs once.
LEMMA TwiceIsOnce == ASSUME NEW s, NEW v, Twice(s, v) PROVE Once(s, v)
BY DEF Once, Twice

\* An operand on top of a stack.
LEMMA OccursOnTop ==
    ASSUME NEW O, NEW x, NEW b, NEW s, OnTopOf(O, x, b, s), NEW v
    PROVE  /\ Once(s, v) <=> Stands(x, v) \/ Once(b, v)
           /\ Twice(s, v) <=> Twice(b, v) \/ (Stands(x, v) /\ Once(b, v))
<1>1. PICK q : q = << x >>
  OBVIOUS
<1>2. q \in Seq(O) /\ b \in Seq(O) /\ s = q \o b
  BY <1>1, Single DEF OnTopOf
<1>3. (Once(q, v) <=> Stands(x, v)) /\ ~Twice(q, v)
  BY <1>1, OccursSingle
<1>4. /\ Once(q \o b, v) <=> Once(q, v) \/ Once(b, v)
      /\ Twice(q \o b, v) <=> Twice(q, v) \/ Twice(b, v) \/ (Once(q, v) /\ Once(b, v))
  BY <1>2, OccursJoined
<1> QED BY <1>2, <1>3, <1>4

\* The same pieces in another order have the same values, and taking out the middle one takes
\* no other value.
LEMMA OccursPieces ==
    ASSUME NEW O, NEW a, NEW x, NEW b, NEW s, NEW t, Between(O, a, x, b, s), Above(O, a, x, b, t)
    PROVE  /\ AsOften(s, t)
           /\ \A v : ~Stands(x, v) => /\ Once(s, v) <=> Once(a \o b, v)
                                      /\ Twice(s, v) <=> Twice(a \o b, v)
<1>1. PICK c, d : c = a \o b /\ d = << x >> \o b
  OBVIOUS
<1>2. a \in Seq(O) /\ b \in Seq(O) /\ x \in O /\ s = a \o d /\ t = << x >> \o c
  BY <1>1 DEF Between, Above
<1>3. c \in Seq(O) /\ d \in Seq(O)
  <2>1. << x >> \in Seq(O)
    BY <1>2, Single
  <2> QED BY <1>1, <1>2, <2>1, ConcatProperties
<1>4. OnTopOf(O, x, b, d) /\ OnTopOf(O, x, c, t)
  BY <1>1, <1>2, <1>3 DEF OnTopOf
<1>5. ASSUME NEW v
      PROVE  /\ Once(s, v) <=> Once(t, v)
             /\ Twice(s, v) <=> Twice(t, v)
             /\ ~Stands(x, v) => /\ Once(s, v) <=> Once(c, v)
                                 /\ Twice(s, v) <=> Twice(c, v)
  <2>1. /\ Once(d, v) <=> Stands(x, v) \/ Once(b, v)
        /\ Twice(d, v) <=> Twice(b, v) \/ (Stands(x, v) /\ Once(b, v))
    BY <1>4, OccursOnTop
  <2>2. /\ Once(t, v) <=> Stands(x, v) \/ Once(c, v)
        /\ Twice(t, v) <=> Twice(c, v) \/ (Stands(x, v) /\ Once(c, v))
    BY <1>4, OccursOnTop
  <2>3. /\ Once(a \o b, v) <=> Once(a, v) \/ Once(b, v)
        /\ Twice(a \o b, v) <=> Twice(a, v) \/ Twice(b, v) \/ (Once(a, v) /\ Once(b, v))
    BY <1>2, OccursJoined
  <2>4. /\ Once(a \o d, v) <=> Once(a, v) \/ Once(d, v)
        /\ Twice(a \o d, v) <=> Twice(a, v) \/ Twice(d, v) \/ (Once(a, v) /\ Once(d, v))
    BY <1>2, <1>3, OccursJoined
  <2>5. Twice(b, v) => Once(b, v)
    BY TwiceIsOnce
  <2>6. Twice(a, v) => Once(a, v)
    BY TwiceIsOnce
  <2> QED BY <1>1, <1>2, <2>1, <2>2, <2>3, <2>4, <2>5, <2>6
<1> QED BY <1>1, <1>5 DEF AsOften

\* Every position of s has a position of its own on t.
LEMMA OccursAt ==
    ASSUME NEW s, NEW t, NEW p,
           \A i \in 1 .. Len(s) : p[i] \in 1 .. Len(t) /\ t[p[i]] = s[i],
           \A i, j \in 1 .. Len(s) : p[i] = p[j] => i = j
    PROVE  NoLess(s, t)
<1>1. ASSUME NEW v, Once(s, v) PROVE Once(t, v)
  BY <1>1 DEF Once
<1>2. ASSUME NEW v, Twice(s, v) PROVE Twice(t, v)
  <2>1. PICK i \in 1 .. Len(s), j \in 1 .. Len(s) : i # j /\ Stands(s[i], v) /\ Stands(s[j], v)
    BY <1>2 DEF Twice
  <2>2. /\ p[i] \in 1 .. Len(t) /\ p[j] \in 1 .. Len(t) /\ p[i] # p[j]
        /\ Stands(t[p[i]], v) /\ Stands(t[p[j]], v)
    BY <2>1
  <2> QED BY <2>2 DEF Twice
<1> QED BY <1>1, <1>2 DEF NoLess

-----------------------------------------------------------------------------
(* Moving an operand changes nothing about that.                           *)

\* movup of any operand.
LEMMA MoveUpOccurs ==
    ASSUME NEW O, NEW s \in Seq(O), NEW n \in Nat, n < Len(s)
    PROVE  AsOften(s, MoveUp(s, n))
<1>1. PICK m : m = Len(s) /\ m \in Nat
  BY LenProperties
<1>2. PICK a, x, b : a = SubSeq(s, 1, n) /\ x = s[n + 1] /\ b = SubSeq(s, n + 2, m)
  OBVIOUS
<1>3. Between(O, a, x, b, s) /\ Len(a) = n
  <2>1. Between(O, SubSeq(s, 1, n), s[n + 1], SubSeq(s, n + 2, m), s) /\ Len(SubSeq(s, 1, n)) = n
    BY <1>1, CutAt
  <2> QED BY <1>2, <2>1
<1>4. PICK t : t = << x >> \o (a \o b)
  OBVIOUS
<1>5. Above(O, a, x, b, t)
  BY <1>3, <1>4 DEF Above, Between
<1>6. MoveUp(s, n) = t
  BY <1>3, <1>5, MoveUpOf
<1> QED BY <1>3, <1>5, <1>6, OccursPieces

\* movdn of the operand on top.
LEMMA MoveDownOccurs ==
    ASSUME NEW O, NEW s \in Seq(O), NEW n \in Nat, n < Len(s)
    PROVE  AsOften(s, MoveDown(s, n))
<1>1. PICK m : m = Len(s) /\ m \in Nat
  BY LenProperties
<1>2. s # << >>
  BY <1>1, EmptySeq
<1>3. PICK x, c : x = s[1] /\ c = Tail(s) /\ OnTopOf(O, x, c, s)
  BY <1>2, TopAndRest
<1>4. x \in O /\ c \in Seq(O) /\ s = << x >> \o c
  BY <1>3 DEF OnTopOf
<1>5. PICK l : l = Len(c) /\ l \in Nat
  BY <1>4, LenProperties
<1>6. n <= l
  <2>1. PICK q, one : q = << x >> /\ one = 1 /\ one \in Nat
    <3>1. << x >> = << x >> /\ 1 = 1 /\ 1 \in Nat
      OBVIOUS
    <3> QED BY <3>1
  <2>2. q \in Seq(O) /\ Len(q) = one
    BY <1>4, <2>1, Single
  <2>3. Joins(O, q, one, c, l, s)
    BY <1>4, <1>5, <2>1, <2>2 DEF Joins
  <2>4. Len(s) = one + l
    BY <2>3, JoinedParts
  <2> QED BY <1>1, <1>5, <2>1, <2>4
<1>7. PICK a, b : a \in Seq(O) /\ b \in Seq(O) /\ c = a \o b /\ Len(a) = n
  <2>1. Halves(O, c, n, l)
    BY <1>4, <1>5, <1>6, CutInTwo
  <2> QED BY <2>1 DEF Halves
<1>8. PICK t : t = a \o (<< x >> \o b)
  OBVIOUS
<1>9. Between(O, a, x, b, t) /\ Above(O, a, x, b, s)
  BY <1>4, <1>7, <1>8 DEF Between, Above
<1>10. MoveDown(s, n) = t
  BY <1>7, <1>9, MoveDownOf
<1>11. AsOften(t, s)
  BY <1>9, OccursPieces
<1> QED BY <1>10, <1>11 DEF AsOften

\* swap of the two operands on top, which move_operand_to_position chooses for the second one.
LEMMA SwapTopOccurs ==
    ASSUME NEW O, NEW s \in Seq(O), 1 < Len(s)
    PROVE  AsOften(s, SwapTop(s, 1))
<1>1. PICK m : m = Len(s) /\ m \in Nat /\ 1 < m
  BY LenProperties
<1>2. PICK t : t = SwapTop(s, 1)
  OBVIOUS
<1>3. s \in [1 .. m -> O] /\ 1 \in 1 .. m /\ 2 \in 1 .. m /\ 1 + 1 = 2
  BY <1>1, LenProperties
<1>4. t = [s EXCEPT ![1] = s[2], ![2] = s[1]]
  BY <1>2, <1>3 DEF SwapTop, Nth
<1>5. /\ t[1] = s[2] /\ t[2] = s[1]
      /\ \A i \in 1 .. m : i # 1 /\ i # 2 => t[i] = s[i]
  BY <1>3, <1>4
<1>6. Len(t) = m
  <2>1. t \in [1 .. m -> O]
    BY <1>3, <1>4
  <2> QED BY <1>1, <2>1
<1>7. PICK p : p = [i \in 1 .. m |-> IF i = 1 THEN 2 ELSE IF i = 2 THEN 1 ELSE i]
  OBVIOUS
<1>8. \A i \in 1 .. m : p[i] \in 1 .. m /\ t[p[i]] = s[i] /\ s[p[i]] = t[i]
  BY <1>3, <1>5, <1>7
<1>9. \A i, j \in 1 .. m : p[i] = p[j] => i = j
  BY <1>7
<1>10. NoLess(s, t)
  BY <1>1, <1>6, <1>8, <1>9, OccursAt
<1>11. NoLess(t, s)
  BY <1>1, <1>6, <1>8, <1>9, OccursAt
<1> QED BY <1>2, <1>10, <1>11 DEF AsOften, NoLess

\* One change of order after another.
LEMMA AsOftenOn ==
    ASSUME NEW s, NEW t, NEW u, AsOften(s, t), AsOften(t, u)
    PROVE  AsOften(s, u)
BY DEF AsOften

\* move_operand_to_position, from below to a place nearer the top, by whichever of the three.
LEMMA MovedOccurs ==
    ASSUME NEW O, NEW s \in Seq(O), NEW n \in Nat, NEW m \in Nat, m <= n, n < Len(s)
    PROVE  AsOften(s, Moved(s, n, m, FALSE))
<1>1. PICK l : l = Len(s) /\ l \in Nat
  BY LenProperties
<1>2. CASE n = m
  <2>1. Moved(s, n, m, FALSE) = s
    BY <1>2 DEF Moved
  <2>2. AsOften(s, s)
    BY DEF AsOften
  <2> QED BY <2>1, <2>2
<1>3. CASE n = 1 /\ m = 0
  <2>1. Moved(s, n, m, FALSE) = SwapTop(s, 1)
    <3>1. n # m /\ {n, m} = {0, 1} /\ ~(n > 1) /\ ~(m > 1)
      BY <1>3
    <3> QED BY <3>1 DEF Moved
  <2>2. AsOften(s, SwapTop(s, 1))
    BY <1>3, SwapTopOccurs
  <2> QED BY <2>1, <2>2
<1>4. PICK t : t = MoveUp(s, n)
  OBVIOUS
<1>5. t \in Seq(O) /\ Len(t) = l /\ AsOften(s, t)
  BY <1>1, <1>4, MoveUpPoints, MoveUpOccurs
<1>6. CASE n > 1 /\ m = 0
  <2>1. Moved(s, n, m, FALSE) = t
    <3>1. n # m /\ {n, m} # {0, 1} /\ ~(m > 1) /\ m # 1
      BY <1>6
    <3> QED BY <1>4, <1>6, <3>1 DEF Moved
  <2> QED BY <1>5, <2>1
<1>7. CASE n > 1 /\ m = 1
  <2>1. Moved(s, n, m, FALSE) = SwapTop(t, 1)
    <3>1. n # m /\ {n, m} # {0, 1} /\ ~(m > 1) /\ m # 0
      BY <1>7
    <3> QED BY <1>4, <1>7, <3>1 DEF Moved
  <2>2. AsOften(t, SwapTop(t, 1))
    <3>1. 1 < Len(t)
      BY <1>1, <1>5, <1>7
    <3> QED BY <1>5, <3>1, SwapTopOccurs
  <2> QED BY <1>5, <2>1, <2>2, AsOftenOn
<1>8. CASE n # m /\ m > 1
  <2>1. Moved(s, n, m, FALSE) = MoveDown(t, m)
    <3>1. {n, m} # {0, 1} /\ m # 0 /\ m # 1
      BY <1>8
    <3> QED BY <1>4, <1>8, <3>1 DEF Moved
  <2>2. AsOften(t, MoveDown(t, m))
    <3>1. m < Len(t)
      BY <1>1, <1>5
    <3> QED BY <1>5, <3>1, MoveDownOccurs
  <2> QED BY <1>5, <2>1, <2>2, AsOftenOn
<1>9. \/ n = m
      \/ n = 1 /\ m = 0
      \/ n > 1 /\ m = 0
      \/ n > 1 /\ m = 1
      \/ n # m /\ m > 1
  OBVIOUS
<1> QED BY <1>2, <1>3, <1>6, <1>7, <1>8, <1>9

\* What fetching a value makes of the stack.
Fetched(s, v, live, n) == IF v \in live THEN DupTop(s, n) ELSE Moved(s, n, 0, FALSE)

\* What an emitter is after fetching v, if the compiler did not panic.
MadeByFetch(e, v, live, f) ==
    /\ f \in Believed /\ e.outcome = "ok"
    /\ \E n : Topmost(e.stack, v, n) /\ f.stack = Fetched(e.stack, v, live, n)

\* Fetching makes that of it: v is found where it is first, and copied or moved to the top.
LEMMA FetchStack ==
    ASSUME NEW e \in Believed, NEW v, NEW live, NEW f, f = Fetch(e, v, live, FALSE), f.outcome = "ok"
    PROVE  MadeByFetch(e, v, live, f)
<1>1. PICK n, c, g, h, no, next :
         /\ n = Find(e.stack, v) /\ c = OnStack(e.stack, v) /\ no = FALSE /\ no \in BOOLEAN
         /\ g = MoveOperandToPosition(e, n, 0, no) /\ h = CopyOperandToPosition(e, n, 0, no)
         /\ next = IF v \in live THEN h ELSE g
  OBVIOUS
<1>2. Given(Contents, Plain, Element, CallerElements, e) /\ e.stack \in Seq(Plain)
  BY BelievedGiven
<1>3. f = Require(e, c, next)
  BY <1>1 DEF Fetch
<1>4. e.outcome = "ok" /\ c /\ f = next
  <2>1. [e EXCEPT !.outcome = "panic"].outcome = "panic"
    BY DEF Believed, Faithful, Emitters
  <2> QED BY <1>3, <2>1 DEF Require
<1>5. Topmost(e.stack, v, n)
  BY <1>1, <1>2, <1>4, FindIs
<1>6. n \in Nat
  BY <1>5 DEF Topmost
<1>7. f \in Believed
  <2>1. Follows(Believed, e, Fetch(e, v, live, no))
    BY <1>1, FetchFollows
  <2> QED BY <1>1, <2>1 DEF Follows
<1>8. CASE v \in live
  <2>1. h = Dup(e, n)
    BY <1>1 DEF CopyOperandToPosition
  <2>2. Yields(Faithful(Contents, Plain, Element, CallerElements), e, Dup(e, n), DupTop(e.stack, n))
    BY <1>2, <1>6, DupFaithful
  <2>3. f.stack = DupTop(e.stack, n)
    BY <1>1, <1>4, <1>8, <2>1, <2>2 DEF Yields
  <2> QED BY <1>4, <1>5, <1>7, <1>8, <2>3 DEF Fetched, MadeByFetch
<1>9. CASE v \notin live
  <2>1. PICK zero : zero = 0 /\ zero \in Nat
    OBVIOUS
  <2>2. Yields(Faithful(Contents, Plain, Element, CallerElements), e,
               MoveOperandToPosition(e, n, zero, no), Moved(e.stack, n, zero, no))
    BY <1>1, <1>2, <1>6, <2>1, MoveFaithful
  <2>3. f = MoveOperandToPosition(e, n, zero, no)
    BY <1>1, <1>4, <1>9, <2>1
  <2>4. f.stack = Moved(e.stack, n, zero, no)
    BY <2>2, <2>3 DEF Yields
  <2>5. f.stack = Moved(e.stack, n, 0, FALSE)
    BY <1>1, <2>1, <2>4
  <2> QED BY <1>4, <1>5, <1>7, <1>9, <2>5 DEF Fetched, MadeByFetch
<1> QED BY <1>8, <1>9

\* The value is on top, above what was there; a live one is still where it was, too.
LEMMA FetchedStands ==
    ASSUME NEW s \in Seq(Plain), NEW v, NEW live, NEW n, Topmost(s, v, n),
           NEW t, t = Fetched(s, v, live, n), t \in Seq(Plain)
    PROVE  /\ 1 <= Len(t) /\ Stands(t[1], v)
           /\ ~Stands(s[1], v) => 2 <= Len(t) /\ t[2] = s[1]
           /\ NoLess(s, t) /\ (v \in live => Twice(t, v))
           /\ v \notin live => Len(t) = Len(s)
<1>1. n \in Nat /\ n < Len(s) /\ Stands(s[n + 1], v)
  BY DEF Topmost
<1>2. PICK m : m = Len(s) /\ m \in Nat /\ n < m /\ 1 <= m /\ n + 1 \in 1 .. m
  BY <1>1, LenProperties
<1>3. Once(s, v)
  BY <1>1, <1>2 DEF Once
<1>4. CASE v \in live
  <2>1. PICK x : x = s[n + 1] /\ x \in Plain
    BY <1>2, ElementOfSeq
  <2>2. t = << x >> \o s
    BY <1>4, <2>1 DEF Fetched, DupTop, Nth
  <2>3. OnTopOf(Plain, x, s, t)
    BY <2>1, <2>2 DEF OnTopOf
  <2>4. PICK q, one : q = << x >> /\ one = 1 /\ one \in Nat
    <3>1. << x >> = << x >> /\ 1 = 1 /\ 1 \in Nat
      OBVIOUS
    <3> QED BY <3>1
  <2>5. q \in Seq(Plain) /\ Len(q) = one /\ q[1] = x
    BY <2>1, <2>4, Single
  <2>6. Len(t) = one + m /\ (\A j \in 1 .. one : t[j] = q[j]) /\ (\A j \in 1 .. m : t[one + j] = s[j])
    <3>1. Joins(Plain, q, one, s, m, t)
      BY <1>2, <2>2, <2>4, <2>5 DEF Joins
    <3> QED BY <3>1, JoinedParts
  <2>7. 1 \in 1 .. one /\ 1 \in 1 .. m /\ one + 1 = 2
    BY <1>2, <2>4
  <2>8. t[1] = x /\ t[2] = s[1] /\ 2 <= Len(t) /\ 1 <= Len(t)
    BY <1>2, <2>4, <2>5, <2>6, <2>7
  <2>9. Stands(x, v)
    BY <1>1, <2>1
  <2>10. ASSUME NEW w
         PROVE  /\ Once(t, w) <=> Stands(x, w) \/ Once(s, w)
                /\ Twice(t, w) <=> Twice(s, w) \/ (Stands(x, w) /\ Once(s, w))
    BY <2>3, OccursOnTop
  <2>11. NoLess(s, t)
    BY <2>10 DEF NoLess
  <2>12. Twice(t, v)
    BY <1>3, <2>9, <2>10
  <2> QED BY <1>4, <2>8, <2>9, <2>11, <2>12
<1>5. CASE v \notin live
  <2>1. t = Moved(s, n, 0, FALSE)
    BY <1>5 DEF Fetched
  <2>2. PICK zero : zero = 0 /\ zero \in Nat /\ zero <= n /\ zero + 1 = 1
    BY <1>1
  <2>3. Len(t) = m /\ t[1] = s[n + 1]
    <3>1. zero \in Nat /\ zero <= n /\ n \in Nat /\ n < Len(s)
      BY <1>1, <2>2
    <3>2. /\ Moved(s, n, zero, FALSE) \in Seq(Plain)
          /\ Len(Moved(s, n, zero, FALSE)) = Len(s)
          /\ Moved(s, n, zero, FALSE)[zero + 1] = s[n + 1]
          /\ \A j \in 1 .. zero : Moved(s, n, zero, FALSE)[j] = s[j]
      BY <3>1, MovedPoints
    <3> QED BY <1>2, <2>1, <2>2, <3>2
  <2>4. AsOften(s, t)
    <3>1. AsOften(s, Moved(s, n, zero, FALSE))
      BY <1>1, <2>2, MovedOccurs
    <3> QED BY <2>1, <2>2, <3>1
  <2>5. ASSUME ~Stands(s[1], v) PROVE 2 <= m /\ t[2] = s[1]
    <3>1. n # 0
      <4>1. n = 0 => n + 1 = 1
        OBVIOUS
      <4> QED BY <1>1, <2>5, <4>1
    <3>2. 1 <= n /\ 2 <= m /\ 1 \in 1 .. n /\ 1 + 1 = 2
      BY <1>1, <1>2, <3>1
    <3>3. CASE n = 1
      <4>1. t = SwapTop(s, 1)
        <5>1. n # 0 /\ {n, 0} = {0, 1} /\ ~(n > 1)
          BY <3>3
        <5> QED BY <2>1, <5>1 DEF Moved
      <4>2. 1 < Len(s)
        BY <1>2, <3>2
      <4>3. SwapTop(s, 1)[1] = s[2] /\ SwapTop(s, 1)[2] = s[1]
        BY <4>2, SwapTopPoints
      <4> QED BY <3>2, <4>1, <4>3
    <3>4. CASE n # 1
      <4>1. t = MoveUp(s, n)
        <5>1. n # 0 /\ n > 1
          BY <1>1, <3>2, <3>4
        <5>2. {n, 0} # {0, 1}
          <6>1. n \in {n, 0}
            OBVIOUS
          <6>2. n \notin {0, 1}
            BY <5>1
          <6> QED BY <6>1, <6>2
        <5> QED BY <2>1, <5>1, <5>2 DEF Moved
      <4>2. \A j \in 1 .. n : MoveUp(s, n)[j + 1] = s[j]
        BY <1>1, MoveUpPoints
      <4> QED BY <3>2, <4>1, <4>2
    <3> QED BY <3>2, <3>3, <3>4
  <2>6. NoLess(s, t)
    BY <2>4 DEF AsOften, NoLess
  <2>7. Stands(t[1], v) /\ Len(t) = Len(s) /\ 1 <= Len(t)
    BY <1>1, <1>2, <2>3
  <2>8. ~Stands(s[1], v) => 2 <= Len(t) /\ t[2] = s[1]
    BY <1>2, <2>5, <2>7
  <2> QED BY <1>5, <2>6, <2>7, <2>8
<1> QED BY <1>4, <1>5

\* A fetch, in one lemma.
LEMMA FetchKeeps ==
    ASSUME NEW e \in Believed, NEW v, NEW live, NEW f, f = Fetch(e, v, live, FALSE), f.outcome = "ok"
    PROVE  /\ f \in Believed /\ e.outcome = "ok"
           /\ 1 <= Len(f.stack) /\ Stands(f.stack[1], v)
           /\ ~Stands(e.stack[1], v) => 2 <= Len(f.stack) /\ f.stack[2] = e.stack[1]
           /\ NoLess(e.stack, f.stack) /\ (v \in live => Twice(f.stack, v))
<1>1. /\ f \in Believed /\ e.outcome = "ok"
      /\ \E n : Topmost(e.stack, v, n) /\ f.stack = Fetched(e.stack, v, live, n)
  <2>1. MadeByFetch(e, v, live, f)
    BY FetchStack
  <2> QED BY <2>1 DEF MadeByFetch
<1>2. PICK n : Topmost(e.stack, v, n) /\ f.stack = Fetched(e.stack, v, live, n)
  BY <1>1
<1>3. PICK s, t : s = e.stack /\ t = f.stack
  OBVIOUS
<1>4. s \in Seq(Plain) /\ t \in Seq(Plain)
  BY <1>1, <1>3, BelievedGiven
<1>5. Topmost(s, v, n) /\ t = Fetched(s, v, live, n)
  BY <1>2, <1>3
<1>6. /\ 1 <= Len(t) /\ Stands(t[1], v)
      /\ ~Stands(s[1], v) => 2 <= Len(t) /\ t[2] = s[1]
      /\ NoLess(s, t) /\ (v \in live => Twice(t, v))
  BY <1>4, <1>5, FetchedStands
<1> QED BY <1>1, <1>3, <1>6

-----------------------------------------------------------------------------
(* The order in which the arguments of an instruction are fetched.         *)

\* How many of the values are higher than v.
Rank(V, v) == Cardinality({w \in V : w > v})

\* The values of V, each once, highest first.
Descending(d, V, n) ==
    /\ n \in Nat /\ DOMAIN d = 1 .. n
    /\ \A k \in 1 .. n : d[k] \in V
    /\ \A v \in V : \E k \in 1 .. n : d[k] = v
    /\ \A j, k \in 1 .. n : j < k => d[j] > d[k]

\* A higher value has a lower rank, and ranks are less than the number of values.
LEMMA RankFalls ==
    ASSUME NEW V \in SUBSET Nat, IsFiniteSet(V), NEW v \in V
    PROVE  /\ Rank(V, v) \in Nat /\ Rank(V, v) < Cardinality(V)
           /\ \A w \in V : w > v => Rank(V, w) < Rank(V, v)
<1>1. PICK H : H = {w \in V : w > v}
  OBVIOUS
<1>2. H \in SUBSET V /\ v \notin H
  BY <1>1
<1>3. Cardinality(V) \in Nat
  BY FS_CardinalityType
<1>4. /\ IsFiniteSet(H) /\ Cardinality(H) <= Cardinality(V)
      /\ Cardinality(V) = Cardinality(H) => V = H
  BY <1>2, FS_Subset
<1>5. Cardinality(H) \in Nat
  BY <1>4, FS_CardinalityType
<1>6. Rank(V, v) = Cardinality(H)
  BY <1>1 DEF Rank
<1>7. Cardinality(V) # Cardinality(H)
  BY <1>2, <1>4
<1>8. Cardinality(H) < Cardinality(V)
  BY <1>3, <1>4, <1>5, <1>7
<1>9. ASSUME NEW w \in V, w > v PROVE Rank(V, w) < Rank(V, v)
  <2>1. PICK K : K = {u \in V : u > w}
    OBVIOUS
  <2>2. K \in SUBSET H /\ w \in H /\ w \notin K
    <3>1. v \in Nat /\ w \in Nat /\ \A u \in V : u \in Nat
      OBVIOUS
    <3>2. \A u \in V : u > w => u > v
      BY <1>9, <3>1
    <3>3. ~(w > w)
      BY <3>1
    <3> QED BY <1>1, <1>9, <2>1, <3>2, <3>3
  <2>3. /\ IsFiniteSet(K) /\ Cardinality(K) <= Cardinality(H)
        /\ Cardinality(H) = Cardinality(K) => H = K
    BY <1>4, <2>2, FS_Subset
  <2>4. Cardinality(K) \in Nat
    BY <2>3, FS_CardinalityType
  <2>5. Rank(V, w) = Cardinality(K)
    BY <2>1 DEF Rank
  <2>6. Cardinality(H) # Cardinality(K)
    BY <2>2, <2>3
  <2>7. PICK h, k : h = Cardinality(H) /\ k = Cardinality(K)
    OBVIOUS
  <2>8. k < h
    <3>1. h \in Nat /\ k \in Nat /\ k <= h /\ h # k
      BY <1>5, <2>3, <2>4, <2>6, <2>7
    <3> QED BY <3>1
  <2> QED BY <1>6, <2>5, <2>7, <2>8
<1> QED BY <1>5, <1>6, <1>8, <1>9

\* The dependencies of an instruction are its arguments, each once, highest first.
LEMMA DependenciesDescend ==
    ASSUME NEW args \in Seq(Value)
    PROVE  \E n : Descending(Dependencies(args), ToSet(args), n)
<1>1. PICK V, d, n : V = ToSet(args) /\ d = Dependencies(args) /\ n = Cardinality(V)
  OBVIOUS
<1>2. V \in SUBSET Nat /\ IsFiniteSet(V)
  <2>1. V \subseteq Value
    <3>1. PICK m : m \in Nat /\ DOMAIN args = 1 .. m
      BY LenProperties
    <3>2. \A i \in 1 .. m : args[i] \in Value
      BY <3>1, ElementOfSeq, LenProperties
    <3> QED BY <1>1, <3>1, <3>2 DEF ToSet
  <2>2. Value \subseteq Nat /\ IsFiniteSet(Value)
    BY BlockAssumption
  <2> QED BY <2>1, <2>2, FS_Subset
<1>3. n \in Nat
  BY <1>1, <1>2, FS_CardinalityType
<1>4. \A v \in V : /\ Rank(V, v) \in Nat /\ Rank(V, v) < n
                   /\ \A w \in V : w > v => Rank(V, w) < Rank(V, v)
  BY <1>1, <1>2, RankFalls
<1>5. \A v, w \in V : Rank(V, v) = Rank(V, w) => v = w
  <2> SUFFICES ASSUME NEW v \in V, NEW w \in V, Rank(V, v) = Rank(V, w) PROVE v = w
    OBVIOUS
  <2>1. v \in Nat /\ w \in Nat
    BY <1>2
  <2>2. v > w \/ w > v \/ v = w
    BY <2>1
  <2>3. Rank(V, v) \in Nat /\ ~(Rank(V, v) < Rank(V, w)) /\ ~(Rank(V, w) < Rank(V, v))
    <3>1. Rank(V, v) \in Nat
      BY <1>4
    <3> QED BY <3>1
  <2> QED BY <1>4, <2>2, <2>3
<1>6. PICK r : r = [v \in V |-> Rank(V, v)]
  OBVIOUS
<1>7. PICK m : m = n - 1 /\ m \in Int
  BY <1>3
<1>8. r \in Injection(V, 0 .. m)
  <2>1. \A v \in V : r[v] \in 0 .. m
    BY <1>3, <1>4, <1>6, <1>7
  <2>2. r \in [V -> 0 .. m]
    BY <1>6, <2>1
  <2> QED BY <1>5, <1>6, <2>2 DEF Injection, IsInjective
<1>9. IsFiniteSet(0 .. m) /\ Cardinality(0 .. m) = n
  <2>1. 0 \in Int
    OBVIOUS
  <2>2. IsFiniteSet(0 .. m) /\ Cardinality(0 .. m) = IF 0 > m THEN 0 ELSE m - 0 + 1
    BY <1>7, <2>1, FS_Interval
  <2>3. (IF 0 > m THEN 0 ELSE m - 0 + 1) = n
    BY <1>3, <1>7
  <2> QED BY <2>2, <2>3
<1>10. r \in Surjection(V, 0 .. m)
  BY <1>1, <1>8, <1>9, FS_Injection
<1>11. \A k \in 1 .. n : \E v \in V : Rank(V, v) = k - 1
  <2>1. \A j \in 0 .. m : \E v \in V : r[v] = j
    BY <1>10 DEF Surjection
  <2>2. \A k \in 1 .. n : k - 1 \in 0 .. m
    BY <1>3, <1>7
  <2> QED BY <1>6, <2>1, <2>2
<1>12. d = [k \in 1 .. n |-> CHOOSE v \in V : Rank(V, v) = k - 1]
  BY <1>1 DEF Dependencies, Rank
<1>13. DOMAIN d = 1 .. n /\ \A k \in 1 .. n : d[k] \in V /\ Rank(V, d[k]) = k - 1
  <2>1. ASSUME NEW k \in 1 .. n PROVE d[k] \in V /\ Rank(V, d[k]) = k - 1
    <3>1. d[k] = CHOOSE v \in V : Rank(V, v) = k - 1
      BY <1>12
    <3> QED BY <1>11, <3>1
  <2> QED BY <1>12, <2>1
<1>14. \A v \in V : \E k \in 1 .. n : d[k] = v
  <2> SUFFICES ASSUME NEW v \in V PROVE \E k \in 1 .. n : d[k] = v
    OBVIOUS
  <2>1. PICK q : q = Rank(V, v) /\ q \in Nat /\ q < n
    BY <1>4
  <2>2. q + 1 \in 1 .. n /\ (q + 1) - 1 = q
    BY <1>3, <2>1
  <2>3. d[q + 1] \in V /\ Rank(V, d[q + 1]) = q
    BY <1>13, <2>2
  <2> QED BY <1>5, <2>1, <2>2, <2>3
<1>15. \A j, k \in 1 .. n : j < k => d[j] > d[k]
  <2> SUFFICES ASSUME NEW j \in 1 .. n, NEW k \in 1 .. n, j < k PROVE d[j] > d[k]
    OBVIOUS
  <2>1. PICK a, b : a = d[j] /\ b = d[k] /\ a \in V /\ b \in V /\ a \in Nat /\ b \in Nat
    BY <1>2, <1>13
  <2>2. Rank(V, a) = j - 1 /\ Rank(V, b) = k - 1
    BY <1>13, <2>1
  <2>3. a # b
    BY <2>2
  <2>4. ~(b > a)
    <3>1. b > a => Rank(V, b) < Rank(V, a)
      BY <1>4, <2>1
    <3> QED BY <2>2, <3>1
  <2> QED BY <2>1, <2>3, <2>4
<1> QED BY <1>1, <1>3, <1>13, <1>14, <1>15 DEF Descending

\* Two arguments in the order of their numbers are fetched in the other order.
LEMMA DescendingTwo ==
    ASSUME NEW d, NEW n, NEW a \in Nat, NEW b \in Nat, Descending(d, {a, b}, n), a < b
    PROVE  n = 2 /\ d[1] = b /\ d[2] = a
<1>1. PICK i \in 1 .. n, j \in 1 .. n : d[i] = a /\ d[j] = b
  BY DEF Descending
<1>2. \A k \in 1 .. n : k = i \/ k = j
  <2> SUFFICES ASSUME NEW k \in 1 .. n PROVE k = i \/ k = j
    OBVIOUS
  <2>1. d[k] \in {a, b}
    BY DEF Descending
  <2>2. k < i \/ k > i \/ k = i
    OBVIOUS
  <2>3. k < j \/ k > j \/ k = j
    OBVIOUS
  <2>4. k < i => d[k] > a
    BY <1>1 DEF Descending
  <2>5. k > i => a > d[k]
    BY <1>1 DEF Descending
  <2>6. k < j => d[k] > b
    BY <1>1 DEF Descending
  <2>7. k > j => b > d[k]
    BY <1>1 DEF Descending
  <2> QED BY <2>1, <2>2, <2>3, <2>4, <2>5, <2>6, <2>7
<1>3. j < i
  <2>1. i < j => a > b
    BY <1>1 DEF Descending
  <2>2. i # j
    BY <1>1
  <2> QED BY <2>1, <2>2
<1>4. n \in Nat
  BY DEF Descending
<1>5. 1 \in 1 .. n /\ n \in 1 .. n
  BY <1>4
<1>6. j = 1 /\ i = n
  BY <1>2, <1>3, <1>5
<1>7. n = 2
  <2>1. n # 2 => 2 \in 1 .. n
    BY <1>3, <1>4, <1>6
  <2> QED BY <1>2, <1>3, <1>6, <2>1
<1> QED BY <1>1, <1>6, <1>7

\* One argument.
LEMMA DescendingOne ==
    ASSUME NEW d, NEW n, NEW a \in Nat, Descending(d, {a}, n)
    PROVE  n = 1 /\ d[1] = a
<1>1. n \in Nat /\ \E k \in 1 .. n : d[k] = a
  BY DEF Descending
<1>2. 1 \in 1 .. n /\ n \in 1 .. n
  BY <1>1
<1>3. d[1] = a /\ d[n] = a
  BY <1>2 DEF Descending
<1>4. 1 < n => d[1] > d[n]
  BY <1>2 DEF Descending
<1> QED BY <1>1, <1>2, <1>3, <1>4

\* After the first i dependencies are fetched: nothing was lost, each of them that is live is
\* there twice, and the last two are on top.
FetchedSoFar(e, d, live, f, i) ==
    f.outcome = "ok" =>
        /\ e.outcome = "ok" /\ NoLess(e.stack, f.stack)
        /\ \A k \in 1 .. i : d[k] \in live => Twice(f.stack, d[k])
        /\ i >= 1 => 1 <= Len(f.stack) /\ Stands(f.stack[1], d[i])
        /\ i >= 2 => 2 <= Len(f.stack) /\ Stands(f.stack[2], d[i - 1])

\* One more.
LEMMA FetchOneMore ==
    ASSUME NEW e, NEW V, NEW d, NEW n, Descending(d, V, n), V \subseteq Nat, NEW live,
           NEW i \in 1 .. n, NEW f \in Believed, FetchedSoFar(e, d, live, f, i - 1),
           NEW g, g = Fetch(f, d[i], live, FALSE)
    PROVE  g \in Believed /\ FetchedSoFar(e, d, live, g, i)
<1>1. g \in Believed
  <2>1. PICK no : no = FALSE /\ no \in BOOLEAN
    OBVIOUS
  <2>2. Follows(Believed, f, Fetch(f, d[i], live, no))
    BY <2>1, FetchFollows
  <2> QED BY <2>1, <2>2 DEF Follows
<1>2. SUFFICES ASSUME g.outcome = "ok" PROVE FetchedSoFar(e, d, live, g, i)
  BY <1>1 DEF FetchedSoFar
<1>3. PICK v : v = d[i]
  OBVIOUS
<1>4. /\ f.outcome = "ok"
      /\ 1 <= Len(g.stack) /\ Stands(g.stack[1], v)
      /\ ~Stands(f.stack[1], v) => 2 <= Len(g.stack) /\ g.stack[2] = f.stack[1]
      /\ NoLess(f.stack, g.stack) /\ (v \in live => Twice(g.stack, v))
  <2>1. g = Fetch(f, v, live, FALSE)
    BY <1>3
  <2>2. /\ g \in Believed /\ f.outcome = "ok"
        /\ 1 <= Len(g.stack) /\ Stands(g.stack[1], v)
        /\ ~Stands(f.stack[1], v) => 2 <= Len(g.stack) /\ g.stack[2] = f.stack[1]
        /\ NoLess(f.stack, g.stack) /\ (v \in live => Twice(g.stack, v))
    BY <1>2, <2>1, FetchKeeps
  <2> QED BY <2>2
<1>5. /\ e.outcome = "ok" /\ NoLess(e.stack, f.stack)
      /\ \A k \in 1 .. i - 1 : d[k] \in live => Twice(f.stack, d[k])
      /\ i - 1 >= 1 => Stands(f.stack[1], d[i - 1])
  BY <1>4 DEF FetchedSoFar
<1>6. NoLess(e.stack, g.stack)
  BY <1>4, <1>5 DEF NoLess
<1>7. ASSUME NEW k \in 1 .. i, d[k] \in live PROVE Twice(g.stack, d[k])
  <2>1. k = i \/ k \in 1 .. i - 1
    OBVIOUS
  <2>2. CASE k = i
    BY <1>3, <1>4, <1>7, <2>2
  <2>3. CASE k \in 1 .. i - 1
    <3>1. Twice(f.stack, d[k])
      BY <1>5, <1>7, <2>3
    <3> QED BY <1>4, <3>1 DEF NoLess
  <2> QED BY <2>1, <2>2, <2>3
<1>8. ASSUME i >= 2 PROVE 2 <= Len(g.stack) /\ Stands(g.stack[2], d[i - 1])
  <2>1. i - 1 \in 1 .. n /\ i - 1 < i /\ i - 1 >= 1
    BY <1>8 DEF Descending
  <2>2. d[i - 1] > d[i] /\ d[i - 1] \in Nat /\ d[i] \in Nat
    BY <2>1 DEF Descending
  <2>3. d[i - 1] # v
    BY <1>3, <2>2
  <2>4. Stands(f.stack[1], d[i - 1])
    BY <1>5, <2>1
  <2>5. ~Stands(f.stack[1], v)
    BY <2>3, <2>4 DEF Stands
  <2> QED BY <1>4, <2>4, <2>5
<1> QED BY <1>3, <1>4, <1>5, <1>6, <1>7, <1>8 DEF FetchedSoFar

\* All of them.
LEMMA FetchDependenciesKeep ==
    ASSUME NEW e \in Believed, e.outcome = "ok", NEW args \in Seq(Value), NEW live,
           NEW f, f = FetchDependencies(e, args, live, FALSE)
    PROVE  /\ f \in Believed
           /\ \E n : /\ Descending(Dependencies(args), ToSet(args), n)
                     /\ FetchedSoFar(e, Dependencies(args), live, f, n)
<1>1. PICK d, V, no : d = Dependencies(args) /\ V = ToSet(args) /\ no = FALSE
  OBVIOUS
<1>2. PICK n : Descending(d, V, n)
  BY <1>1, DependenciesDescend
<1>3. n \in Nat /\ DOMAIN d = 1 .. n
  BY <1>2 DEF Descending
<1>4. V \subseteq Nat
  <2>1. PICK m : m \in Nat /\ DOMAIN args = 1 .. m
    BY LenProperties
  <2>2. \A i \in 1 .. m : args[i] \in Value
    BY <2>1, ElementOfSeq, LenProperties
  <2> QED BY <1>1, <2>1, <2>2, BlockAssumption DEF ToSet
<1> DEFINE I == [i \in 0 .. n |-> {g \in Believed : FetchedSoFar(e, d, live, g, i)}]
<1>5. e \in I[0]
  <2>1. FetchedSoFar(e, d, live, e, 0)
    <3>1. \A k \in 1 .. 0 : FALSE
      OBVIOUS
    <3>2. NoLess(e.stack, e.stack)
      BY DEF NoLess
    <3> QED BY <3>1, <3>2 DEF FetchedSoFar
  <2>2. 0 \in 0 .. n
    BY <1>3
  <2> QED BY <2>1, <2>2
<1>6. \A i \in 1 .. n : \A acc \in I[i - 1] : Fetch(acc, d[i], live, no) \in I[i]
  <2> SUFFICES ASSUME NEW i \in 1 .. n, NEW acc \in I[i - 1]
               PROVE  Fetch(acc, d[i], live, no) \in I[i]
    OBVIOUS
  <2>1. i - 1 \in 0 .. n /\ i \in 0 .. n
    BY <1>3
  <2>2. acc \in Believed /\ FetchedSoFar(e, d, live, acc, i - 1)
    BY <2>1
  <2>3. PICK g : g = Fetch(acc, d[i], live, FALSE)
    OBVIOUS
  <2>4. g \in Believed /\ FetchedSoFar(e, d, live, g, i)
    BY <1>2, <1>4, <2>2, <2>3, FetchOneMore
  <2> QED BY <1>1, <2>1, <2>3, <2>4
<1>7. I[n] = {g \in Believed : FetchedSoFar(e, d, live, g, n)}
  BY <1>3
<1> HIDE DEF I
<1>8. FD!Fold(live, no, e, d) \in I[n]
  BY <1>3, <1>5, <1>6, FD!FoldFollows
<1>9. f = FD!Fold(live, no, e, d)
  <2>1. f = FetchDependencies(e, args, live, no)
    BY <1>1
  <2>2. FetchDependencies(e, args, live, no) = FD!Fold(live, no, e, Dependencies(args))
    BY DEF FetchDependencies, FD!Fold, FoldLeft, MapThenFoldSet, FD!FoldLeft, FD!MapThenFoldSet, Max, FD!Max
  <2> QED BY <1>1, <2>1, <2>2
<1> QED BY <1>1, <1>2, <1>7, <1>8, <1>9

-----------------------------------------------------------------------------
(* What an instruction is delivered.                                       *)

\* The first operands of a stack.
LEMMA FirstOnes ==
    ASSUME NEW S, NEW s \in Seq(S), NEW n \in Nat, n <= Len(s)
    PROVE  /\ SubSeq(s, 1, n) \in Seq(S) /\ Len(SubSeq(s, 1, n)) = n
           /\ \A i \in 1 .. n : SubSeq(s, 1, n)[i] = s[i]
<1>1. PICK m : m = Len(s) /\ m \in Nat /\ DOMAIN s = 1 .. m
  BY LenProperties
<1>2. \A i \in 1 .. n : s[i] \in S
  BY <1>1, ElementOfSeq
<1>3. /\ SubSeq(s, 1, n) \in Seq(S)
      /\ Len(SubSeq(s, 1, n)) = IF 1 <= n THEN n - 1 + 1 ELSE 0
      /\ \A i \in 1 .. n - 1 + 1 : SubSeq(s, 1, n)[i] = s[1 + i - 1]
  <2>1. 1 \in Int /\ n \in Int
    OBVIOUS
  <2> QED BY <1>2, <2>1, SubSeqProperties
<1>4. /\ (IF 1 <= n THEN n - 1 + 1 ELSE 0) = n /\ n - 1 + 1 = n
      /\ \A i \in 1 .. n : 1 + i - 1 = i
  OBVIOUS
<1> QED BY <1>3, <1>4, Zenon

\* The arguments of a plain instruction are fetched to the top of the stack in their order.
LEMMA ArgumentsFetched ==
    ASSUME Shapes = {}, NEW args \in InstructionArgs(stack), stack \in Seq(Plain),
           NEW e \in Believed, e.outcome = "ok", NEW live,
           NEW f, f = FetchDependencies(e, args, live, FALSE), f.outcome = "ok"
    PROVE  \A i \in 1 .. Len(args) : i <= Len(f.stack) /\ Stands(f.stack[i], args[i])
<1>1. /\ args \in ArgumentLists(stack, 2) /\ args # << >>
      /\ \A i, j \in DOMAIN args : i < j => args[i] <= args[j]
      /\ \A i, j \in DOMAIN args : i # j => args[i] # args[j]
  BY DEF InstructionArgs, ArgumentLists
<1>2. args \in Seq(Value) /\ Len(args) <= 2
  <2>1. 2 \in Nat
    OBVIOUS
  <2> QED BY <1>1, <2>1, ArgumentsType
<1>3. PICK m : m = Len(args) /\ m \in Nat /\ DOMAIN args = 1 .. m /\ m <= 2
  BY <1>2, LenProperties
<1>4. m = 1 \/ m = 2
  <2>1. m # 0
    BY <1>1, <1>2, <1>3, EmptySeq
  <2> QED BY <1>3, <2>1
<1>5. PICK d, n : /\ d = Dependencies(args) /\ Descending(d, ToSet(args), n)
                  /\ FetchedSoFar(e, d, live, f, n)
  BY <1>2, FetchDependenciesKeep
<1>6. /\ n >= 1 => 1 <= Len(f.stack) /\ Stands(f.stack[1], d[n])
      /\ n >= 2 => 2 <= Len(f.stack) /\ Stands(f.stack[2], d[n - 1])
  BY <1>5 DEF FetchedSoFar
<1>7. \A i \in 1 .. m : args[i] \in Nat
  BY <1>2, <1>3, ElementOfSeq, BlockAssumption
<1>8. CASE m = 1
  <2>1. PICK a : a = args[1] /\ a \in Nat
    BY <1>7, <1>8
  <2>2. ToSet(args) = {a}
    <3>1. \A i \in DOMAIN args : i = 1
      BY <1>3, <1>8
    <3>2. 1 \in DOMAIN args
      BY <1>3, <1>8
    <3> QED BY <2>1, <3>1, <3>2 DEF ToSet
  <2>3. n = 1 /\ d[1] = a
    BY <1>5, <2>1, <2>2, DescendingOne
  <2>4. 1 <= Len(f.stack) /\ Stands(f.stack[1], a)
    <3>1. n >= 1 /\ d[n] = a
      BY <2>3
    <3> QED BY <1>6, <3>1
  <2>5. \A i \in 1 .. m : i = 1
    BY <1>8
  <2> QED BY <1>3, <2>1, <2>4, <2>5
<1>9. CASE m = 2
  <2>1. PICK a, b : a = args[1] /\ b = args[2] /\ a \in Nat /\ b \in Nat
    BY <1>7, <1>9
  <2>2. \A i \in 1 .. m : i = 1 \/ i = 2
    BY <1>9
  <2>3. 1 \in DOMAIN args /\ 2 \in DOMAIN args /\ 1 # 2 /\ 1 < 2
    BY <1>3, <1>9
  <2>4. ToSet(args) = {a, b}
    BY <1>3, <2>1, <2>2, <2>3 DEF ToSet
  <2>5. a < b
    <3>1. a <= b /\ a # b
      BY <1>1, <2>1, <2>3
    <3> QED BY <2>1, <3>1
  <2>6. n = 2 /\ d[1] = b /\ d[2] = a
    BY <1>5, <2>1, <2>4, <2>5, DescendingTwo
  <2>7. 1 <= Len(f.stack) /\ Stands(f.stack[1], a) /\ 2 <= Len(f.stack) /\ Stands(f.stack[2], b)
    <3>1. n >= 1 /\ n >= 2 /\ n - 1 = 1
      BY <2>6
    <3>2. d[n] = a /\ d[n - 1] = b
      BY <2>6, <3>1
    <3> QED BY <1>6, <3>1, <3>2
  <2> QED BY <1>3, <2>1, <2>2, <2>7
<1> QED BY <1>3, <1>4, <1>8, <1>9

\* An instruction takes them.
LEMMA InstructionDelivers ==
    ASSUME Shapes = {}, Mirrors, Instruction
    PROVE  ArgumentsDelivered'
<1>1. Emitter \in Believed /\ Emitter.outcome = "ok" /\ stack \in Seq(Plain)
  BY OpenBelieved DEF Instruction
<1>2. PICK args \in InstructionArgs(stack), live \in SUBSET Values(stack), result \in Value :
          Takes(FetchDependencies(Emitter, args, live, FALSE), "instruction", args, live, result)
  <2>1. PICK args \in InstructionArgs(stack), live \in SUBSET Values(stack),
             commutative \in {c \in BOOLEAN : c => "commutative" \in Shapes},
             result \in Value \ Values(stack) :
           LET n == Len(args)
               e == FetchDependencies(Emitter, args, live, commutative /\ n = 2)
               kind == IF commutative /\ n = 2 THEN "commutative" ELSE "instruction"
           IN  Takes(e, kind, args, live, result)
    BY DEF Instruction
  <2>2. ~commutative
    OBVIOUS
  <2>3. (commutative /\ Len(args) = 2) = FALSE
    BY <2>2
  <2> QED BY <2>1, <2>2, <2>3
<1>3. PICK e, n : e = FetchDependencies(Emitter, args, live, FALSE) /\ n = Len(args)
  OBVIOUS
<1>4. args \in Seq(Value)
  <2>1. args \in ArgumentLists(stack, 2) /\ 2 \in Nat
    BY DEF InstructionArgs
  <2> QED BY <1>1, <2>1, ArgumentsType
<1>5. n \in Nat /\ DOMAIN args = 1 .. n
  BY <1>3, <1>4, LenProperties
<1>6. e \in Believed
  BY <1>1, <1>3, <1>4, FetchDependenciesKeep
<1>7. SUFFICES ASSUME outcome' = "ok"
               PROVE  /\ \A i \in DOMAIN request'.got : request'.got[i].kind = "value"
                      /\ [i \in DOMAIN request'.got |-> request'.got[i].value] = request'.args
                      /\ request'.kind # "commutative"
  BY DEF ArgumentsDelivered
<1>8. /\ e.outcome = "ok" /\ n <= Len(e.stack)
      /\ Asks("instruction", args, live, SubSeq(e.stack, 1, n))
  <2>1. PICK asked : asked = (e.outcome = "ok" /\ Len(e.stack) >= n
                              /\ Len(e.vm) >= EffectiveIndex(e.stack, n))
    OBVIOUS
  <2>2. asked
    <3>1. ~asked => IsNow(Require(e, FALSE, e))
      BY <1>2, <1>3, <2>1 DEF Takes
    <3>2. Require(e, FALSE, e).outcome # "ok"
      BY <1>6 DEF Require, Believed, Faithful, Emitters
    <3> QED BY <1>7, <3>1, <3>2 DEF IsNow
  <2>3. Asks("instruction", args, live, SubSeq(e.stack, 1, n))
    BY <1>2, <1>3, <2>1, <2>2 DEF Takes
  <2>4. PICK m : m = Len(e.stack) /\ m \in Nat
    BY <1>6, BelievedGiven, LenProperties
  <2> QED BY <1>5, <2>1, <2>2, <2>3, <2>4
<1>9. PICK got : got = SubSeq(e.stack, 1, n)
  OBVIOUS
<1>10. request'.kind = "instruction" /\ request'.args = args /\ request'.got = got
  BY <1>8, <1>9 DEF Asks
<1>11. Len(got) = n /\ DOMAIN got = 1 .. n /\ \A i \in 1 .. n : got[i] = e.stack[i]
  <2>1. e.stack \in Seq(Plain)
    BY <1>6, BelievedGiven
  <2>2. got \in Seq(Plain) /\ Len(got) = n /\ \A i \in 1 .. n : got[i] = e.stack[i]
    BY <1>5, <1>8, <1>9, <2>1, FirstOnes
  <2> QED BY <2>2, LenProperties
<1>12. \A i \in 1 .. n : Stands(got[i], args[i])
  <2>1. \A i \in 1 .. Len(args) : i <= Len(e.stack) /\ Stands(e.stack[i], args[i])
    BY <1>1, <1>3, <1>8, ArgumentsFetched
  <2> QED BY <1>3, <1>11, <2>1
<1>13. [i \in 1 .. n |-> got[i].value] = args
  <2>1. \A i \in 1 .. n : got[i].value = args[i]
    BY <1>12 DEF Stands
  <2>2. args = [i \in 1 .. n |-> args[i]]
    BY <1>4, <1>5, LenProperties
  <2> QED BY <2>1, <2>2
<1> QED BY <1>10, <1>11, <1>12, <1>13 DEF Stands

\* Every step keeps what was delivered, or asks for something else.
LEMMA NextDelivers ==
    ASSUME Shapes = {}, Mirrors, ArgumentsDelivered, [Next]_vars
    PROVE  ArgumentsDelivered'
<1>1. CASE Instruction
  BY <1>1, InstructionDelivers
<1>2. ASSUME request'.kind \notin {"instruction", "commutative"} PROVE ArgumentsDelivered'
  BY <1>2 DEF ArgumentsDelivered
<1>3. CASE Literal
  BY <1>2, <1>3 DEF Literal, Nothing
<1>4. CASE DropDead
  BY <1>2, <1>4 DEF DropDead, Nothing
<1>5. CASE EmitterCall
  BY <1>2, <1>5 DEF EmitterCall, Nothing
<1>6. CASE Ret
  BY <1>2, <1>6 DEF Ret, Asks
<1>7. CASE RetImm
  BY <1>2, <1>7 DEF RetImm, Asks
<1>8. CASE Br
  BY <1>2, <1>8 DEF Br, Asks
<1>9. CASE CondBr
  <2>1. PICK args \in ArgumentLists(stack, Len(Params)), live \in SUBSET Values(stack),
             drops \in BOOLEAN :
           Asks(IF drops THEN "branch" ELSE "inner branch", args, live, << >>)
    BY <1>9 DEF CondBr
  <2>2. request'.kind \in {"branch", "inner branch"}
    BY <2>1 DEF Asks
  <2> QED BY <1>2, <2>2
<1>10. CASE UNCHANGED vars
  BY <1>10 DEF vars, ArgumentsDelivered
<1> QED BY <1>1, <1>3, <1>4, <1>5, <1>6, <1>7, <1>8, <1>9, <1>10 DEF Next

\* Every instruction finds its own arguments at the top of the operand stack, the first one on
\* top, whatever else the stack holds and whichever of them stay live: emit_inst has each dependency
\* moved or copied to the top in turn, and none of them disturbs the one before.  The arguments are
\* in the order of their numbers (Shapes): dependencies are visited in that order, not in the order
\* of the arguments, and the block_arguments run shows what an instruction gets otherwise.
THEOREM InstructionsGetTheirArguments ==
    ASSUME Shapes = {} PROVE Spec => []ArgumentsDelivered
<1>1. MainShapes
  BY DEF MainShapes
<1>2. Spec => []Mirrors
  BY <1>1, MirrorsAlways
<1>3. Init => ArgumentsDelivered
  BY DEF Init, Nothing, ArgumentsDelivered
<1>4. Mirrors /\ ArgumentsDelivered /\ [Next]_vars => ArgumentsDelivered'
  BY NextDelivers
<1> QED BY <1>2, <1>3, <1>4, PTL DEF Spec

-----------------------------------------------------------------------------
(* What is left when the top of a stack is taken or renamed.               *)

\* The operands on top stand for different arguments.
Tops(s, args) ==
    /\ Len(args) <= Len(s)
    /\ \A i \in 1 .. Len(args) : \E v \in ToSet(args) : Stands(s[i], v)
    /\ \A i, j \in 1 .. Len(args) : s[i].value = s[j].value => i = j

\* Every live value is on the stack, and once more if it is an argument.
Spared(live, args, s) ==
    \A v \in live : Once(s, v) /\ (v \in ToSet(args) => Twice(s, v))

\* Then below the operands on top there is one of each live value.
LEMMA SparedBelow ==
    ASSUME NEW O, NEW s \in Seq(O), NEW V, NEW args \in Seq(V), Tops(s, args),
           NEW live, Spared(live, args, s), NEW v \in live
    PROVE  \E i \in Len(args) + 1 .. Len(s) : Stands(s[i], v)
<1>1. PICK n, m : n = Len(args) /\ n \in Nat /\ m = Len(s) /\ m \in Nat
  BY LenProperties
<1>2. /\ n <= m
      /\ \A i \in 1 .. n : \E w \in ToSet(args) : Stands(s[i], w)
      /\ \A i, j \in 1 .. n : s[i].value = s[j].value => i = j
  BY <1>1 DEF Tops
<1>3. Once(s, v) /\ (v \in ToSet(args) => Twice(s, v))
  BY DEF Spared
<1>4. \A i \in 1 .. m : i \in 1 .. n \/ i \in n + 1 .. m
  BY <1>1
<1>5. CASE v \in ToSet(args)
  <2>1. PICK i \in 1 .. m, j \in 1 .. m : i # j /\ Stands(s[i], v) /\ Stands(s[j], v)
    BY <1>1, <1>3, <1>5 DEF Twice
  <2>2. s[i].value = s[j].value
    BY <2>1 DEF Stands
  <2>3. ~(i \in 1 .. n /\ j \in 1 .. n)
    BY <1>2, <2>1, <2>2
  <2> QED BY <1>1, <1>4, <2>1, <2>3
<1>6. CASE v \notin ToSet(args)
  <2>1. PICK i \in 1 .. m : Stands(s[i], v)
    BY <1>1, <1>3 DEF Once
  <2>2. i \notin 1 .. n
    <3> SUFFICES ASSUME i \in 1 .. n PROVE FALSE
      OBVIOUS
    <3>1. PICK w \in ToSet(args) : Stands(s[i], w)
      BY <1>2
    <3>2. w = v
      BY <2>1, <3>1 DEF Stands
    <3> QED BY <1>6, <3>1, <3>2
  <2> QED BY <1>1, <1>4, <2>1, <2>2
<1> QED BY <1>5, <1>6

\* So it is, when the operands on top are taken off.
LEMMA SparedTaken ==
    ASSUME NEW O, NEW s \in Seq(O), NEW V, NEW args \in Seq(V), Tops(s, args),
           NEW live, Spared(live, args, s), NEW v \in live
    PROVE  Once(Without(s, Len(args)), v)
<1>1. PICK n, m, t : /\ n = Len(args) /\ n \in Nat /\ m = Len(s) /\ m \in Nat
                     /\ t = Without(s, n)
  BY LenProperties
<1>2. n <= m
  BY <1>1 DEF Tops
<1>3. PICK i \in n + 1 .. m : Stands(s[i], v)
  BY <1>1, SparedBelow
<1>4. Len(t) = m - n /\ \A j \in 1 .. m - n : t[j] = s[n + j]
  <2>1. \A j \in n + 1 .. m : s[j] \in O
    BY <1>1, ElementOfSeq
  <2>2. t = SubSeq(s, n + 1, m)
    BY <1>1 DEF Without
  <2>3. /\ Len(SubSeq(s, n + 1, m)) = IF n + 1 <= m THEN m - (n + 1) + 1 ELSE 0
        /\ \A j \in 1 .. m - (n + 1) + 1 : SubSeq(s, n + 1, m)[j] = s[n + 1 + j - 1]
    <3>1. n + 1 \in Int /\ m \in Int
      BY <1>1
    <3> QED BY <2>1, <3>1, SubSeqProperties
  <2>4. /\ (IF n + 1 <= m THEN m - (n + 1) + 1 ELSE 0) = m - n
        /\ m - (n + 1) + 1 = m - n
    BY <1>1, <1>2
  <2>5. \A j \in 1 .. m - n : n + 1 + j - 1 = n + j
    BY <1>1
  <2> QED BY <2>2, <2>3, <2>4, <2>5
<1>5. i - n \in 1 .. m - n /\ n + (i - n) = i
  BY <1>1
<1>6. Stands(t[i - n], v)
  BY <1>3, <1>4, <1>5
<1> QED BY <1>1, <1>4, <1>5, <1>6 DEF Once

\* And when they are renamed.
LEMMA SparedRenamed ==
    ASSUME NEW O, NEW s \in Seq(O), NEW V, NEW args \in Seq(V), Tops(s, args),
           NEW live, Spared(live, args, s), NEW v \in live, NEW params
    PROVE  Once(RenamedTo(s, params, Len(args)), v)
<1>1. PICK n, m, t : /\ n = Len(args) /\ n \in Nat /\ m = Len(s) /\ m \in Nat
                     /\ t = RenamedTo(s, params, n)
  BY LenProperties
<1>2. PICK i \in n + 1 .. m : Stands(s[i], v)
  BY <1>1, SparedBelow
<1>3. t = [j \in 1 .. m |->
             IF j <= n THEN [kind |-> "value", value |-> params[j], size |-> s[j].size] ELSE s[j]]
  BY <1>1 DEF RenamedTo
<1>4. i \in 1 .. m /\ ~(i <= n)
  BY <1>1
<1>5. t[i] = s[i] /\ Len(t) = m
  BY <1>1, <1>3, <1>4
<1> QED BY <1>1, <1>2, <1>4, <1>5 DEF Once

\* Distinct arguments that are placed are on top.
LEMMA PlacedTops ==
    ASSUME NEW V, NEW args \in Seq(V), Distinct(args), NEW s, Placed(args, s, Len(args))
    PROVE  Tops(s, args)
<1>1. PICK n : n = Len(args) /\ n \in Nat /\ DOMAIN args = 1 .. n
  BY LenProperties
<1>2. n <= Len(s) /\ \A i \in 1 .. n : s[i].kind = "value" /\ s[i].value = args[i]
  BY <1>1 DEF Placed, Stands
<1>3. \A i \in 1 .. n : args[i] \in ToSet(args) /\ Stands(s[i], args[i])
  BY <1>1, <1>2 DEF ToSet, Stands
<1>4. \A i, j \in 1 .. n : s[i].value = s[j].value => i = j
  <2>1. \A i, j \in 1 .. n : args[i] = args[j] => i = j
    BY <1>1 DEF Distinct
  <2>2. \A i \in 1 .. n : s[i].value = args[i]
    BY <1>2
  <2> QED BY <2>1, <2>2
<1> QED BY <1>1, <1>2, <1>3, <1>4 DEF Tops

\* The arguments of an instruction, fetched in any order, are on top.
LEMMA FetchedTops ==
    ASSUME NEW args \in Seq(Value), Len(args) \in 1 .. 2, Distinct(args), NEW e, NEW live, NEW f,
           f.outcome = "ok", NEW d, NEW n, Descending(d, ToSet(args), n),
           FetchedSoFar(e, d, live, f, n)
    PROVE  Tops(f.stack, args)
<1>1. PICK m : m = Len(args) /\ m \in Nat /\ DOMAIN args = 1 .. m /\ (m = 1 \/ m = 2)
  <2>1. PICK m \in 1 .. 2 : m = Len(args)
    OBVIOUS
  <2>2. m \in Nat /\ (m = 1 \/ m = 2)
    OBVIOUS
  <2>3. DOMAIN args = 1 .. m
    BY <2>1, LenProperties
  <2> QED BY <2>1, <2>2, <2>3
<1>2. PICK s : s = f.stack
  OBVIOUS
<1>3. /\ n >= 1 => 1 <= Len(s) /\ Stands(s[1], d[n])
      /\ n >= 2 => 2 <= Len(s) /\ Stands(s[2], d[n - 1])
  BY <1>2 DEF FetchedSoFar
<1>4. \A i \in 1 .. m : args[i] \in Nat
  BY <1>1, ElementOfSeq, BlockAssumption
<1>5. CASE m = 1
  <2>1. PICK a : a = args[1] /\ a \in Nat
    BY <1>4, <1>5
  <2>2. \A i \in 1 .. m : i = 1
    BY <1>5
  <2>3. ToSet(args) = {a}
    <3>1. 1 \in DOMAIN args
      BY <1>1, <1>5
    <3> QED BY <1>1, <2>1, <2>2, <3>1 DEF ToSet
  <2>4. n = 1 /\ d[1] = a
    BY <2>1, <2>3, DescendingOne
  <2>5. 1 <= Len(s) /\ Stands(s[1], a)
    <3>1. n >= 1 /\ d[n] = a
      BY <2>4
    <3> QED BY <1>3, <3>1
  <2> QED BY <1>1, <1>2, <1>5, <2>2, <2>3, <2>5 DEF Tops
<1>6. CASE m = 2
  <2>1. PICK p, q : p = args[1] /\ q = args[2] /\ p \in Nat /\ q \in Nat
    BY <1>4, <1>6
  <2>2. \A i \in 1 .. m : i = 1 \/ i = 2
    BY <1>6
  <2>3. 1 \in 1 .. m /\ 2 \in 1 .. m /\ 1 # 2
    BY <1>6
  <2>4. p # q
    BY <1>1, <2>1, <2>3 DEF Distinct
  <2>5. ToSet(args) = {p, q}
    BY <1>1, <2>1, <2>2, <2>3 DEF ToSet
  <2>6. PICK a, b : a \in Nat /\ b \in Nat /\ a < b /\ ToSet(args) = {a, b}
    <3>1. {p, q} = {q, p}
      OBVIOUS
    <3>2. CASE p < q
      BY <2>1, <2>5, <3>2
    <3>3. CASE q < p
      BY <2>1, <2>5, <3>1, <3>3
    <3> QED BY <2>1, <2>4, <3>2, <3>3
  <2>7. n = 2 /\ d[1] = b /\ d[2] = a
    BY <2>6, DescendingTwo
  <2>8. 2 <= Len(s) /\ Stands(s[1], a) /\ Stands(s[2], b)
    <3>1. n >= 1 /\ n >= 2 /\ n - 1 = 1
      BY <2>7
    <3>2. d[n] = a /\ d[n - 1] = b
      BY <2>7, <3>1
    <3> QED BY <1>3, <3>1, <3>2
  <2>9. s[1].value # s[2].value
    BY <2>6, <2>8 DEF Stands
  <2>10. \A i, j \in 1 .. m : s[i].value = s[j].value => i = j
    BY <2>2, <2>9
  <2>11. \A i \in 1 .. m : \E v \in {a, b} : Stands(s[i], v)
    BY <2>2, <2>8
  <2> QED BY <1>1, <1>2, <1>6, <2>6, <2>8, <2>10, <2>11 DEF Tops
<1> QED BY <1>1, <1>5, <1>6

\* What fetching its arguments leaves of the values that are live after an instruction.
LEMMA FetchedSpares ==
    ASSUME NEW args \in Seq(Value), NEW e, NEW live, \A v \in live : Once(e.stack, v),
           NEW f, f.outcome = "ok", NEW d, NEW n, Descending(d, ToSet(args), n),
           FetchedSoFar(e, d, live, f, n)
    PROVE  Spared(live, args, f.stack)
<1>1. NoLess(e.stack, f.stack) /\ \A k \in 1 .. n : d[k] \in live => Twice(f.stack, d[k])
  BY DEF FetchedSoFar
<1>2. \A v \in ToSet(args) : \E k \in 1 .. n : d[k] = v
  BY DEF Descending
<1>3. ASSUME NEW v \in live PROVE Once(f.stack, v) /\ (v \in ToSet(args) => Twice(f.stack, v))
  <2>1. Once(f.stack, v)
    BY <1>1 DEF NoLess
  <2> QED BY <1>1, <1>2, <2>1
<1> QED BY <1>3 DEF Spared

-----------------------------------------------------------------------------
(* Dropping what is not used.                                              *)

\* The second operand trades places with the first.
LEMMA SwapTopOf ==
    ASSUME NEW O, NEW u \in O, NEW x \in O, NEW b \in Seq(O)
    PROVE  SwapTop(<< u >> \o (<< x >> \o b), 1) = << x >> \o (<< u >> \o b)
<1>1. PICK none, zero, one, m, s, t :
         /\ none = << >> /\ zero = 0 /\ one = 1 /\ one = zero + 1 /\ zero \in Nat
         /\ m = Len(b) /\ m \in Nat
         /\ s = << u >> \o (<< x >> \o b) /\ t = << x >> \o (<< u >> \o b)
  <2>1. PICK m : m = Len(b) /\ m \in Nat
    BY LenProperties
  <2>2. 0 \in Nat /\ 1 = 0 + 1
    OBVIOUS
  <2> QED BY <2>1, <2>2
<1>2. none \in Seq(O) /\ Len(none) = zero
  BY <1>1, EmptySeq
<1>3. ASSUME NEW y \in O PROVE << y >> \o b = none \o (<< y >> \o b)
  <2>1. << y >> \o b \in Seq(O)
    BY HeadAndRest
  <2>2. << >> \o (<< y >> \o b) = << y >> \o b
    BY <2>1, ConcatEmptySeq
  <2> QED BY <1>1, <2>2
<1>4. InFour(O, u, none, zero, x, b, m, s) /\ InFour(O, x, none, zero, u, b, m, t)
  BY <1>1, <1>2, <1>3 DEF InFour
<1>5. SwapTop(s, zero + 1) = t
  BY <1>4, SwapPieces
<1> QED BY <1>1, <1>5

\* f is what e becomes when x is dropped from between a and b.
TakesOut(e, n, f, a, x, b) ==
    /\ e \in Believed /\ n \in Nat /\ f = DropOperandAt(e, n) /\ f.outcome = "ok"
    /\ Between(Plain, a, x, b, e.stack) /\ Len(a) = n

\* Dropping the operand at n takes it out.
LEMMA DropTakesOut ==
    ASSUME NEW e, NEW n, NEW f, NEW a, NEW x, NEW b, TakesOut(e, n, f, a, x, b)
    PROVE  f \in Believed /\ e.outcome = "ok" /\ f.stack = a \o b
<1>0. /\ e \in Believed /\ n \in Nat /\ f = DropOperandAt(e, n) /\ f.outcome = "ok"
      /\ Between(Plain, a, x, b, e.stack) /\ Len(a) = n
  BY DEF TakesOut
<1>1. PICK s, c : s = e.stack /\ c = a \o b
  OBVIOUS
<1>2. a \in Seq(Plain) /\ x \in Plain /\ b \in Seq(Plain) /\ s = a \o (<< x >> \o b)
  BY <1>0, <1>1 DEF Between
<1>3. c \in Seq(Plain)
  BY <1>1, <1>2, ConcatProperties
<1>4. Given(Contents, Plain, Element, CallerElements, e)
  BY <1>0, BelievedGiven
<1>5. Follows(Believed, e, f)
  <2>1. Follows(Faithful(Contents, Plain, Element, CallerElements), e, DropOperandAt(e, n))
    BY <1>0, <1>4, DropOperandAtFaithful
  <2> QED BY <1>0, <2>1 DEF Believed
<1>6. ASSUME NEW g \in Believed, NEW t, f = Drop(g), g.outcome = "ok" => g.stack = t
      PROVE  f.stack = Tail(t)
  <2>1. Given(Contents, Plain, Element, CallerElements, g)
    BY <1>6, BelievedGiven
  <2>2. Yields(Faithful(Contents, Plain, Element, CallerElements), g, Drop(g), Tail(g.stack))
    BY <2>1, DropFaithful
  <2> QED BY <1>0, <1>6, <2>2 DEF Yields
<1>7. ASSUME NEW t, t = << x >> \o c PROVE Tail(t) = c
  <2>1. Tail(<< x >> \o c) = c
    BY <1>2, <1>3, HeadAndRest
  <2> QED BY <1>7, <2>1
<1>8. CASE n = 0
  <2>1. f = Drop(e)
    BY <1>0, <1>8 DEF DropOperandAt
  <2>2. f.stack = Tail(s)
    BY <1>0, <1>1, <1>6, <2>1
  <2>3. a = << >>
    BY <1>0, <1>2, <1>8, EmptySeq
  <2>4. c = b /\ s = << x >> \o b
    <3>1. << x >> \o b \in Seq(Plain)
      BY <1>2, HeadAndRest
    <3>2. << >> \o b = b /\ << >> \o (<< x >> \o b) = << x >> \o b
      BY <1>2, <3>1, ConcatEmptySeq
    <3> QED BY <1>1, <1>2, <2>3, <3>2
  <2>5. Tail(s) = c
    BY <1>7, <2>4
  <2> QED BY <1>1, <1>5, <2>2, <2>5, <1>0 DEF Follows
<1>9. CASE n = 1
  <2>1. PICK one, g : one = 1 /\ one \in Nat /\ g = Swap(e, one)
    OBVIOUS
  <2>2. f = Drop(g)
    BY <1>0, <1>9, <2>1 DEF DropOperandAt
  <2>3. Yields(Faithful(Contents, Plain, Element, CallerElements), e, Swap(e, one), SwapTop(e.stack, one))
    BY <1>0, <1>4, <2>1, SwapFaithful
  <2>4. g \in Believed /\ (g.outcome = "ok" => g.stack = SwapTop(s, 1))
    BY <1>1, <2>1, <2>3 DEF Yields, Believed
  <2>5. PICK u : u \in Plain /\ a = << u >>
    BY <1>0, <1>2, <1>9, OnlyOne
  <2>6. s = << u >> \o (<< x >> \o b) /\ c = << u >> \o b
    BY <1>1, <1>2, <2>5
  <2>7. SwapTop(<< u >> \o (<< x >> \o b), 1) = << x >> \o (<< u >> \o b)
    BY <1>2, <2>5, SwapTopOf
  <2>8. SwapTop(s, 1) = << x >> \o c
    BY <2>6, <2>7
  <2>9. f.stack = Tail(SwapTop(s, 1))
    BY <1>6, <2>2, <2>4
  <2>10. Tail(SwapTop(s, 1)) = c
    BY <1>7, <2>8
  <2> QED BY <1>1, <1>5, <2>9, <2>10, <1>0 DEF Follows
<1>10. CASE n > 1
  <2>1. PICK g : g = Movup(e, n)
    OBVIOUS
  <2>2. f = Drop(g)
    BY <1>0, <1>10, <2>1 DEF DropOperandAt
  <2>3. Yields(Faithful(Contents, Plain, Element, CallerElements), e, Movup(e, n), MoveUp(e.stack, n))
    BY <1>0, <1>4, MovupFaithful
  <2>4. g \in Believed /\ (g.outcome = "ok" => g.stack = MoveUp(s, n))
    BY <1>1, <2>1, <2>3 DEF Yields, Believed
  <2>5. PICK t : t = << x >> \o c
    OBVIOUS
  <2>6. Between(Plain, a, x, b, s) /\ Above(Plain, a, x, b, t)
    BY <1>0, <1>1, <1>2, <2>5 DEF Above
  <2>7. MoveUp(s, n) = t
    BY <1>0, <2>6, MoveUpOf
  <2>8. f.stack = Tail(t)
    BY <1>6, <2>2, <2>4, <2>7
  <2> QED BY <1>1, <1>5, <1>7, <2>5, <2>8, <1>0 DEF Follows
<1> QED BY <1>0, <1>8, <1>9, <1>10

\* t is what is passed, of which there is n, above the rest.
Passed(O, w, n, q, t) == w \in Seq(O) /\ Len(w) = n /\ q \in Seq(O) /\ t = w \o q

\* The operands in front are those kept, of which there are index, and the rest are still to come.
KeptSoFar(s, n, kept, acc, i) ==
    acc.e.outcome = "ok" =>
        /\ \E p : Passed(Plain, p, acc.index, SubSeq(s, i + 1, n), acc.e.stack)
        /\ \A v \in kept : /\ Once(s, v) => Once(acc.e.stack, v)
                           /\ Twice(s, v) => Twice(acc.e.stack, v)

\* The next operand is passed.
LEMMA PassedOver ==
    ASSUME NEW O, NEW p, NEW x, NEW q, NEW t, Between(O, p, x, q, t), NEW n \in Nat, Len(p) = n
    PROVE  \E w : Passed(O, w, n + 1, q, t)
<1>1. p \in Seq(O) /\ x \in O /\ q \in Seq(O) /\ t = p \o (<< x >> \o q)
  BY DEF Between
<1>2. << x >> \in Seq(O) /\ Len(<< x >>) = 1
  BY <1>1, Single
<1>3. PICK w : w = p \o << x >>
  OBVIOUS
<1>4. w \in Seq(O) /\ Len(w) = n + 1
  BY <1>1, <1>2, <1>3, ConcatProperties
<1>5. (p \o << x >>) \o q = p \o (<< x >> \o q)
  BY <1>1, <1>2, ConcatAssociative
<1> QED BY <1>1, <1>3, <1>4, <1>5 DEF Passed

\* One operand more is kept or dropped.
LEMMA KeepOneMore ==
    ASSUME NEW s \in Seq(Plain), NEW n \in Nat, Len(s) = n, NEW kept, NEW i \in 1 .. n,
           NEW acc \in [e : Believed, index : Nat], KeptSoFar(s, n, kept, acc, i - 1),
           NEW next, next = KeepOrDrop(kept, acc, s[i]), next \in [e : Believed, index : Nat]
    PROVE  KeptSoFar(s, n, kept, next, i)
<1> SUFFICES ASSUME next.e.outcome = "ok" PROVE KeptSoFar(s, n, kept, next, i)
  BY DEF KeptSoFar
<1>1. PICK e, at, x, c, keep :
         /\ e = acc.e /\ e \in Believed /\ at = acc.index /\ at \in Nat
         /\ x = s[i] /\ c = Indexable(e.stack, at)
         /\ keep = (x.kind = "value" /\ x.value \in kept)
  OBVIOUS
<1>2. ASSUME NEW f, next.e = Require(e, c, f) PROVE e.outcome = "ok" /\ next.e = f
  <2>1. [e EXCEPT !.outcome = "panic"].outcome = "panic"
    BY <1>1 DEF Believed, Faithful, Emitters
  <2> QED BY <1>2, <2>1 DEF Require
<1>3. \/ keep /\ next = [e |-> Require(e, c, e), index |-> at + 1]
      \/ ~keep /\ next = [e |-> Require(e, c, DropOperandAt(e, at)), index |-> at]
  BY <1>1 DEF KeepOrDrop
<1>4. e.outcome = "ok"
  BY <1>2, <1>3
<1>5. PICK p, r : /\ p \in Seq(Plain) /\ Len(p) = at
                  /\ r = SubSeq(s, (i - 1) + 1, n) /\ r \in Seq(Plain) /\ e.stack = p \o r
                  /\ \A v \in kept : /\ Once(s, v) => Once(e.stack, v)
                                     /\ Twice(s, v) => Twice(e.stack, v)
  <2>1. /\ \E p : Passed(Plain, p, at, SubSeq(s, (i - 1) + 1, n), e.stack)
        /\ \A v \in kept : /\ Once(s, v) => Once(e.stack, v)
                           /\ Twice(s, v) => Twice(e.stack, v)
    BY <1>1, <1>4 DEF KeptSoFar
  <2> QED BY <2>1 DEF Passed
<1>6. PICK q : q = SubSeq(s, i + 1, n)
  OBVIOUS
<1>7. r = << x >> \o q /\ q \in Seq(Plain) /\ x \in Plain
  <2>1. i \in 1 .. Len(s) /\ n \in i .. Len(s) /\ (i - 1) + 1 = i
    OBVIOUS
  <2>2. SubSeq(s, i, n) = << s[i] >> \o SubSeq(s, i + 1, n)
    BY <2>1, SubSeqRecursiveFirst
  <2>3. s[i] \in Plain
    BY <2>1, ElementOfSeq
  <2>4. SubSeq(s, i + 1, n) \in Seq(Plain)
    <3>1. \A j \in i + 1 .. n : s[j] \in Plain
      BY ElementOfSeq
    <3>2. i + 1 \in Int /\ n \in Int
      OBVIOUS
    <3> QED BY <3>1, <3>2, SubSeqProperties
  <2> QED BY <1>1, <1>5, <1>6, <2>1, <2>2, <2>3, <2>4
<1>8. CASE keep
  <2>1. next.e = e /\ next.index = at + 1
    <3>1. next.e = Require(e, c, e) /\ next.index = at + 1
      BY <1>3, <1>8
    <3> QED BY <1>2, <3>1
  <2>2. PICK t : t = e.stack
    OBVIOUS
  <2>3. Between(Plain, p, x, q, t)
    BY <1>5, <1>7, <2>2 DEF Between
  <2>4. PICK w : Passed(Plain, w, at + 1, q, t)
    <3>1. at \in Nat /\ Len(p) = at
      BY <1>1, <1>5
    <3> QED BY <2>3, <3>1, PassedOver
  <2>5. Passed(Plain, w, next.index, q, next.e.stack)
    BY <2>1, <2>2, <2>4
  <2>6. \A v \in kept : /\ Once(s, v) => Once(next.e.stack, v)
                        /\ Twice(s, v) => Twice(next.e.stack, v)
    BY <1>5, <2>1
  <2> QED BY <1>6, <2>5, <2>6 DEF KeptSoFar
<1>9. CASE ~keep
  <2>1. PICK f : f = DropOperandAt(e, at)
    OBVIOUS
  <2>2. next.e = f /\ next.index = at
    <3>1. next.e = Require(e, c, f) /\ next.index = at
      BY <1>3, <1>9, <2>1
    <3> QED BY <1>2, <3>1
  <2>3. Between(Plain, p, x, q, e.stack)
    BY <1>5, <1>7 DEF Between
  <2>4. f.stack = p \o q
    <3>1. f.outcome = "ok" /\ e \in Believed /\ at \in Nat /\ Len(p) = at
      BY <1>1, <1>5, <2>2
    <3>2. f \in Believed /\ e.outcome = "ok" /\ f.stack = p \o q
      <4>1. TakesOut(e, at, f, p, x, q)
        BY <2>1, <2>3, <3>1 DEF TakesOut
      <4> QED BY <4>1, DropTakesOut
    <3> QED BY <3>2
  <2>5. PICK t : t = << x >> \o (p \o q)
    OBVIOUS
  <2>6. Above(Plain, p, x, q, t)
    BY <2>3, <2>5 DEF Above, Between
  <2>7. \A v : ~Stands(x, v) => /\ Once(e.stack, v) <=> Once(p \o q, v)
                                /\ Twice(e.stack, v) <=> Twice(p \o q, v)
    BY <2>3, <2>6, OccursPieces
  <2>8. \A v \in kept : ~Stands(x, v)
    BY <1>1, <1>9 DEF Stands
  <2>9. \A v \in kept : /\ Once(s, v) => Once(f.stack, v)
                        /\ Twice(s, v) => Twice(f.stack, v)
    BY <1>5, <2>4, <2>7, <2>8
  <2>10. Passed(Plain, p, next.index, q, next.e.stack)
    BY <1>5, <1>7, <2>2, <2>4 DEF Passed
  <2>11. \A v \in kept : /\ Once(s, v) => Once(next.e.stack, v)
                         /\ Twice(s, v) => Twice(next.e.stack, v)
    BY <2>2, <2>9
  <2> QED BY <1>6, <2>10, <2>11 DEF KeptSoFar
<1> QED BY <1>8, <1>9

\* A step of drop_unused_operands keeps the pair what it is.
LEMMA KeepOrDropType ==
    ASSUME NEW kept, NEW acc \in [e : Believed, index : Nat], NEW operand
    PROVE  KeepOrDrop(kept, acc, operand) \in [e : Believed, index : Nat]
<1>1. PICK f, at, c, d, g, h :
         /\ f = acc.e /\ at = acc.index /\ f \in Believed /\ at \in Nat /\ at + 1 \in Nat
         /\ c = Indexable(f.stack, at) /\ d = DropOperandAt(f, at)
         /\ g = Require(f, c, f) /\ h = Require(f, c, d)
  OBVIOUS
<1>2. Given(Contents, Plain, Element, CallerElements, f)
  BY <1>1, BelievedGiven
<1>3. f \in Faithful(Contents, Plain, Element, CallerElements)
  BY <1>1 DEF Believed
<1>4. g \in Believed
  <2>1. Follows(Faithful(Contents, Plain, Element, CallerElements), f, f)
    BY <1>3 DEF Follows
  <2>2. Follows(Faithful(Contents, Plain, Element, CallerElements), f, Require(f, c, f))
    BY <1>3, <2>1, RequiredFollows
  <2> QED BY <1>1, <2>2 DEF Follows, Believed
<1>5. h \in Believed
  <2>1. Follows(Faithful(Contents, Plain, Element, CallerElements), f, DropOperandAt(f, at))
    BY <1>1, <1>2, DropOperandAtFaithful
  <2>2. Follows(Faithful(Contents, Plain, Element, CallerElements), f, d)
    BY <1>1, <2>1
  <2>3. Follows(Faithful(Contents, Plain, Element, CallerElements), f, Require(f, c, d))
    BY <1>3, <2>2, RequiredFollows
  <2> QED BY <1>1, <2>3 DEF Follows, Believed
<1>6. KeepOrDrop(kept, acc, operand) \in {[e |-> g, index |-> at + 1], [e |-> h, index |-> at]}
  BY <1>1 DEF KeepOrDrop
<1> QED BY <1>1, <1>4, <1>5, <1>6

\* What is used or live is as often on the stack as before.
LEMMA DropUnusedKeeps ==
    ASSUME NEW e \in Believed, e.outcome = "ok", NEW used, NEW live,
           NEW f, f = DropUnused(e, used, live)
    PROVE  /\ f \in Believed
           /\ f.outcome = "ok" =>
                  \A v \in used \union live : /\ Once(e.stack, v) => Once(f.stack, v)
                                              /\ Twice(e.stack, v) => Twice(f.stack, v)
<1>1. PICK s, kept, base, Acc : /\ s = e.stack /\ kept = used \union live
                                /\ base = [e |-> e, index |-> 0]
                                /\ Acc = [e : Believed, index : Nat]
  OBVIOUS
<1>2. s \in Seq(Plain)
  BY <1>1, BelievedGiven
<1>3. PICK n \in Nat : DOMAIN s = 1 .. n /\ Len(s) = n
  BY <1>2, LenProperties
<1> DEFINE I == [i \in 0 .. n |-> {acc \in Acc : KeptSoFar(s, n, kept, acc, i)}]
<1>4. base \in I[0]
  <2>1. base \in Acc /\ base.e = e /\ base.index = 0
    BY <1>1
  <2>2. PICK none : none = << >>
    OBVIOUS
  <2>3. none \in Seq(Plain) /\ Len(none) = 0
    BY <2>2, EmptySeq
  <2>4. SubSeq(s, 0 + 1, n) = s
    <3>1. SubSeq(s, 1, Len(s)) = s
      BY <1>2, SubSeqFull
    <3> QED BY <1>3, <3>1
  <2>5. << >> \o s = s
    BY <1>2, ConcatEmptySeq
  <2>6. Passed(Plain, none, base.index, SubSeq(s, 0 + 1, n), base.e.stack)
    BY <1>1, <1>2, <2>1, <2>2, <2>3, <2>4, <2>5 DEF Passed
  <2>7. \A v \in kept : /\ Once(s, v) => Once(base.e.stack, v)
                        /\ Twice(s, v) => Twice(base.e.stack, v)
    BY <1>1, <2>1
  <2>8. KeptSoFar(s, n, kept, base, 0)
    BY <2>6, <2>7 DEF KeptSoFar
  <2>9. 0 \in 0 .. n
    BY <1>3
  <2> QED BY <2>1, <2>8, <2>9
<1>5. \A i \in 1 .. n : \A acc \in I[i - 1] : KeepOrDrop(kept, acc, s[i]) \in I[i]
  <2> SUFFICES ASSUME NEW i \in 1 .. n, NEW acc \in I[i - 1]
               PROVE  KeepOrDrop(kept, acc, s[i]) \in I[i]
    OBVIOUS
  <2>1. i - 1 \in 0 .. n /\ i \in 0 .. n
    BY <1>3
  <2>2. acc \in Acc /\ KeptSoFar(s, n, kept, acc, i - 1)
    BY <2>1
  <2>3. PICK next : next = KeepOrDrop(kept, acc, s[i])
    OBVIOUS
  <2>4. acc \in [e : Believed, index : Nat] /\ next \in [e : Believed, index : Nat]
    BY <1>1, <2>2, <2>3, KeepOrDropType
  <2>5. KeptSoFar(s, n, kept, next, i)
    BY <1>2, <1>3, <2>2, <2>3, <2>4, KeepOneMore
  <2> QED BY <1>1, <2>1, <2>3, <2>4, <2>5
<1>6. I[n] = {acc \in Acc : KeptSoFar(s, n, kept, acc, n)}
  BY <1>3
<1> HIDE DEF I
<1>7. DU!Fold(kept, 0, base, s) \in I[n]
  BY <1>3, <1>4, <1>5, DU!FoldFollows
<1>8. DropUnused(e, used, live) = DU!Fold(kept, 0, base, s).e
  BY <1>1 DEF DropUnused, DU!Fold, FoldLeft, MapThenFoldSet, DU!FoldLeft, DU!MapThenFoldSet, Max, DU!Max
<1>9. PICK acc : acc \in Acc /\ KeptSoFar(s, n, kept, acc, n) /\ f = acc.e
  BY <1>6, <1>7, <1>8
<1> QED BY <1>1, <1>9 DEF KeptSoFar

-----------------------------------------------------------------------------
(* Placing the arguments of a branch.                                      *)

\* Bringing an argument to its place loses none.
LEMMA FoundOccurs ==
    ASSUME NEW e \in Believed, NEW v, NEW m, NEW f, Brings(e, v, m, f), f.outcome = "ok"
    PROVE  f \in Believed /\ AsOften(e.stack, f.stack)
<1>1. /\ e.outcome = "ok" /\ OnStack(e.stack, v) /\ m \in Nat
      /\ \A j \in 1 .. m : ~Stands(e.stack[j], v)
      /\ f = MoveOperandToPosition(e, Find(e.stack, v), m, FALSE)
  BY DEF Brings
<1>2. PICK s, n, t, no : /\ s = e.stack /\ n = Find(s, v) /\ t = Moved(s, n, m, FALSE)
                         /\ no = FALSE /\ no \in BOOLEAN
  OBVIOUS
<1>3. s \in Seq(Plain) /\ Given(Contents, Plain, Element, CallerElements, e)
  BY <1>2, BelievedGiven
<1>4. n \in Nat /\ n < Len(s) /\ Stands(s[n + 1], v)
  <2>1. Topmost(s, v, Find(s, v))
    BY <1>1, <1>2, <1>3, FindIs
  <2> QED BY <1>2, <2>1 DEF Topmost
<1>5. m <= n
  <2> SUFFICES ASSUME ~(m <= n) PROVE FALSE
    OBVIOUS
  <2>1. n + 1 \in 1 .. m
    BY <1>1, <1>4
  <2> QED BY <1>1, <1>2, <1>4, <2>1
<1>6. f \in Believed /\ f.stack = t
  <2>1. Yields(Faithful(Contents, Plain, Element, CallerElements), e,
               MoveOperandToPosition(e, n, m, no), Moved(e.stack, n, m, no))
    BY <1>1, <1>2, <1>3, <1>4, MoveFaithful
  <2>2. f = MoveOperandToPosition(e, n, m, no) /\ t = Moved(e.stack, n, m, no)
    BY <1>1, <1>2
  <2> QED BY <2>1, <2>2 DEF Yields, Believed
<1>7. AsOften(s, Moved(s, n, m, FALSE))
  BY <1>1, <1>3, <1>4, <1>5, MovedOccurs
<1> QED BY <1>2, <1>6, <1>7

\* The emitter when the first i arguments are placed.
PlacedSoFar(e, args, f, i) ==
    f.outcome = "ok" => /\ e.outcome = "ok" /\ Placed(args, f.stack, i)
                        /\ AsOften(e.stack, f.stack)

\* One more.
LEMMA PlaceOneMore ==
    ASSUME NEW e, NEW V, NEW args \in Seq(V), Distinct(args), NEW i \in 1 .. Len(args),
           NEW f \in Believed, PlacedSoFar(e, args, f, i - 1),
           NEW g, g = PlaceArgument(f, args, i)
    PROVE  g \in Believed /\ PlacedSoFar(e, args, g, i)
<1>1. PICK l : l = Len(args) /\ l \in Nat
  BY LenProperties
<1>2. PICK v, m, c, h : /\ v = args[i] /\ m = i - 1 /\ m \in Nat /\ c = OnStack(f.stack, v)
                        /\ h = MoveOperandToPosition(f, Find(f.stack, v), m, FALSE)
  <2>1. i - 1 \in Nat
    BY <1>1
  <2> QED BY <2>1, Zenon
<1>3. /\ Follows(Believed, f, g)
      /\ g.outcome = "ok" => Placed(args, g.stack, i)
  <2>1. Given(Contents, Plain, Element, CallerElements, f)
    BY BelievedGiven
  <2>2. f.outcome = "ok" => Placed(args, f.stack, i - 1)
    BY DEF PlacedSoFar
  <2>3. /\ Follows(Faithful(Contents, Plain, Element, CallerElements), f, PlaceArgument(f, args, i))
        /\ PlaceArgument(f, args, i).outcome = "ok" =>
               Placed(args, PlaceArgument(f, args, i).stack, i)
    BY <2>1, <2>2, PlaceFollows
  <2> QED BY <2>3 DEF Believed
<1>4. g \in Believed /\ (g.outcome = "ok" => f.outcome = "ok")
  BY <1>3 DEF Follows
<1>5. ASSUME g.outcome = "ok" PROVE AsOften(e.stack, g.stack) /\ e.outcome = "ok"
  <2>1. /\ f.outcome = "ok" /\ e.outcome = "ok" /\ Placed(args, f.stack, m)
        /\ AsOften(e.stack, f.stack)
    BY <1>2, <1>4, <1>5 DEF PlacedSoFar
  <2>2. g = Require(f, c, h)
    <3>1. IsLastUse(args, i)
      <4>1. ASSUME NEW j \in i + 1 .. Len(args), args[j] = args[i] PROVE FALSE
        <5>1. j \in 1 .. Len(args) /\ j # i
          BY <1>1
        <5> QED BY <4>1, <5>1 DEF Distinct
      <4> QED BY <4>1 DEF IsLastUse
    <3> QED BY <1>2, <3>1 DEF PlaceArgument
  <2>3. c /\ g = h
    <3>1. [f EXCEPT !.outcome = "panic"].outcome = "panic"
      BY DEF Believed, Faithful, Emitters
    <3> QED BY <1>5, <2>1, <2>2, <3>1 DEF Require
  <2>4. \A j \in 1 .. m : ~Stands(f.stack[j], v)
    <3>1. ASSUME NEW j \in 1 .. m, Stands(f.stack[j], v) PROVE FALSE
      <4>1. j \in 1 .. Len(args) /\ j # i
        BY <1>1, <1>2
      <4>2. Stands(f.stack[j], args[j])
        BY <2>1 DEF Placed
      <4>3. args[j] = args[i]
        BY <1>2, <3>1, <4>2 DEF Stands
      <4> QED BY <4>1, <4>3 DEF Distinct
    <3> QED BY <3>1
  <2>5. Brings(f, v, m, g)
    BY <1>2, <2>1, <2>3, <2>4 DEF Brings
  <2>6. AsOften(f.stack, g.stack)
    BY <1>5, <2>5, FoundOccurs
  <2> QED BY <2>1, <2>6, AsOftenOn
<1> QED BY <1>3, <1>4, <1>5 DEF PlacedSoFar

\* Placed one after the other, the arguments are on top and nothing is lost.
LEMMA AllPlacedOccur ==
    ASSUME NEW e \in Believed, NEW V, NEW args \in Seq(V), Distinct(args),
           NEW n \in Nat, n = Len(args),
           NEW f, f = PA!Fold(args, 0, e, [i \in 1 .. n |-> i])
    PROVE  f \in Believed /\ PlacedSoFar(e, args, f, n)
<1>1. PICK is : is = [i \in 1 .. n |-> i]
  OBVIOUS
<1> DEFINE I == [i \in 0 .. n |-> {g \in Believed : PlacedSoFar(e, args, g, i)}]
<1>2. e \in I[0]
  <2>1. e.stack \in Seq(Plain)
    BY BelievedGiven
  <2>2. Placed(args, e.stack, 0)
    BY <2>1, LenProperties DEF Placed
  <2>3. AsOften(e.stack, e.stack)
    BY DEF AsOften
  <2>4. PlacedSoFar(e, args, e, 0)
    BY <2>2, <2>3 DEF PlacedSoFar
  <2>5. 0 \in 0 .. n
    OBVIOUS
  <2> QED BY <2>4, <2>5
<1>3. \A i \in 1 .. n : \A g \in I[i - 1] : PlaceArgument(g, args, is[i]) \in I[i]
  <2> SUFFICES ASSUME NEW i \in 1 .. n, NEW g \in I[i - 1]
               PROVE  PlaceArgument(g, args, is[i]) \in I[i]
    OBVIOUS
  <2>1. i - 1 \in 0 .. n /\ i \in 0 .. n /\ is[i] = i /\ i \in 1 .. Len(args)
    BY <1>1
  <2>2. g \in Believed /\ PlacedSoFar(e, args, g, i - 1)
    BY <2>1
  <2>3. PICK h : h = PlaceArgument(g, args, i)
    OBVIOUS
  <2>4. h \in Believed /\ PlacedSoFar(e, args, h, i)
    BY <2>1, <2>2, <2>3, PlaceOneMore
  <2> QED BY <2>1, <2>3, <2>4
<1>4. I[n] = {g \in Believed : PlacedSoFar(e, args, g, n)}
  OBVIOUS
<1>5. DOMAIN is = 1 .. n
  BY <1>1
<1> HIDE DEF I
<1>6. PA!Fold(args, 0, e, is) \in I[n]
  BY <1>2, <1>3, <1>5, PA!FoldFollows
<1> QED BY <1>1, <1>4, <1>6

\* prepare_stack_arguments leaves every live value.
LEMMA PrepareRetains ==
    ASSUME NEW e \in Believed, NEW args \in Seq(Value), Distinct(args), Len(args) <= Len(Params),
           NEW live, Spared(live, args, e.stack),
           NEW f, f = PrepareStackArguments(e, args, Params), f.outcome = "ok"
    PROVE  DOMAIN f.stack = 1 .. Len(f.stack) /\ \A v \in live : Once(f.stack, v)
<1>1. PICK n : n = Len(args) /\ n \in Nat
  BY LenProperties
<1>2. PICK is, p : is = [i \in 1 .. n |-> i] /\ p = PA!Fold(args, 0, e, is)
  OBVIOUS
<1>3. f = RO!Fold(Params, 0, p, is)
  <2>1. PrepareStackArguments(e, args, Params) = RO!Fold(Params, 0, p, is)
    BY <1>1, <1>2 DEF PrepareStackArguments, PA!Fold, RO!Fold, FoldLeft, MapThenFoldSet, Max,
                      PA!FoldLeft, PA!MapThenFoldSet, PA!Max, RO!FoldLeft, RO!MapThenFoldSet, RO!Max
  <2> QED BY <2>1
<1>4. p \in Believed /\ PlacedSoFar(e, args, p, n)
  BY <1>1, <1>2, AllPlacedOccur
<1>5. p \in Emitters(Plain, Element) /\ p.outcome # "fault" /\ p.stack \in Seq(Plain)
  BY <1>4, BelievedGiven DEF Believed, Faithful
<1>6. 1 .. n \subseteq DOMAIN Params
  <2>1. PICK k : k = Len(Params) /\ k \in Nat /\ DOMAIN Params = 1 .. k
    BY BlockAssumption, LenProperties
  <2> QED BY <1>1, <2>1
<1>7. \A o \in Plain : o.size \in 1 .. WordSize
  BY PlainType
<1>8. p.outcome = "ok" /\ f.stack = RenamedTo(p.stack, Params, n)
  <2>1. p.outcome = "ok" => n <= Len(p.stack)
    BY <1>4 DEF PlacedSoFar, Placed
  <2>2. Renames(Plain, Element, p, Params, n, f)
    BY <1>1, <1>2, <1>3, <1>5, <1>6, <1>7, <2>1 DEF Renames
  <2>3. f.outcome = "ok" => p.outcome = "ok" /\ f.stack = RenamedTo(p.stack, Params, n)
    BY <2>2, AllRenamed
  <2> QED BY <2>3
<1>9. Placed(args, p.stack, n) /\ AsOften(e.stack, p.stack)
  BY <1>4, <1>8 DEF PlacedSoFar
<1>10. Tops(p.stack, args)
  BY <1>1, <1>9, PlacedTops
<1>11. Spared(live, args, p.stack)
  BY <1>9 DEF Spared, AsOften
<1>12. \A v \in live : Once(RenamedTo(p.stack, Params, Len(args)), v)
  BY <1>5, <1>10, <1>11, SparedRenamed
<1>13. DOMAIN f.stack = 1 .. Len(f.stack)
  <2>1. PICK k : k = Len(p.stack) /\ k \in Nat
    BY <1>5, LenProperties
  <2>2. DOMAIN f.stack = 1 .. k
    BY <1>8, <2>1 DEF RenamedTo
  <2>3. Len(f.stack) = k
    BY <2>1, <2>2
  <2> QED BY <2>2, <2>3
<1> QED BY <1>1, <1>8, <1>12, <1>13

\* So does a branch, whether it drops the rest or not.
LEMMA LeaveRetains ==
    ASSUME NEW e \in Believed, NEW args \in Seq(Value), Distinct(args), Len(args) <= Len(Params),
           NEW live, e.outcome = "ok" => Spared(live, args, e.stack), NEW drops \in BOOLEAN,
           NEW f, f = LeaveTo(e, args, Params, live, drops), f.outcome = "ok"
    PROVE  DOMAIN f.stack = 1 .. Len(f.stack) /\ \A v \in live : Once(f.stack, v)
<1>1. PICK used, d, g : /\ used = ToSet(args) /\ d = DropUnused(e, used, live)
                        /\ g = IF drops THEN d ELSE e
  OBVIOUS
<1>2. f = PrepareStackArguments(g, args, Params)
  BY <1>1 DEF LeaveTo
<1>3. g \in Believed /\ (g.outcome = "ok" => e.outcome = "ok")
  <2>1. Given(Contents, Plain, Element, CallerElements, e)
    BY BelievedGiven
  <2>2. Follows(Faithful(Contents, Plain, Element, CallerElements), e, DropUnused(e, used, live))
    BY <2>1, DropUnusedFollows
  <2> QED BY <1>1, <2>2 DEF Follows, Believed
<1>4. g.outcome = "ok"
  <2>1. g.outcome # "ok" => f.outcome # "ok"
    <3> SUFFICES ASSUME g.outcome # "ok" PROVE f.outcome # "ok"
      OBVIOUS
    <3>1. PICK n, is, p : /\ n = Len(args) /\ n \in Nat /\ is = [i \in 1 .. n |-> i]
                          /\ p = PA!Fold(args, 0, g, is)
      BY LenProperties
    <3>2. p \in Believed /\ PlacedSoFar(g, args, p, n)
      BY <1>3, <3>1, AllPlacedOccur
    <3>3. p.outcome # "ok"
      BY <3>2 DEF PlacedSoFar
    <3>4. 1 .. n \subseteq DOMAIN Params
      <4>1. PICK k : k = Len(Params) /\ k \in Nat /\ DOMAIN Params = 1 .. k
        BY BlockAssumption, LenProperties
      <4> QED BY <3>1, <4>1
    <3>5. \A o \in Plain : o.size \in 1 .. WordSize
      BY PlainType
    <3>6. p \in Emitters(Plain, Element) /\ p.outcome # "fault"
      BY <3>2 DEF Believed, Faithful
    <3>7. f = RO!Fold(Params, 0, p, is)
      BY <1>2, <3>1 DEF PrepareStackArguments, PA!Fold, RO!Fold, FoldLeft, MapThenFoldSet, Max,
                      PA!FoldLeft, PA!MapThenFoldSet, PA!Max, RO!FoldLeft, RO!MapThenFoldSet, RO!Max
    <3>8. Renames(Plain, Element, p, Params, n, f)
      BY <3>1, <3>3, <3>4, <3>5, <3>6, <3>7 DEF Renames
    <3>9. f.outcome = "ok" => p.outcome = "ok"
      BY <3>8, AllRenamed
    <3> QED BY <3>3, <3>9
  <2> QED BY <2>1
<1>5. Spared(live, args, g.stack)
  <2>1. e.outcome = "ok" /\ Spared(live, args, e.stack)
    BY <1>3, <1>4
  <2>2. CASE drops
    <3>1. \A v \in used \union live : /\ Once(e.stack, v) => Once(d.stack, v)
                                      /\ Twice(e.stack, v) => Twice(d.stack, v)
      BY <1>1, <1>4, <2>1, <2>2, DropUnusedKeeps
    <3> QED BY <1>1, <2>1, <2>2, <3>1 DEF Spared
  <2>3. CASE ~drops
    BY <1>1, <2>1, <2>3
  <2> QED BY <2>2, <2>3
<1> QED BY <1>2, <1>3, <1>5, PrepareRetains

-----------------------------------------------------------------------------
(* What is live stays on the stack.                                        *)

\* The values on a stack are those that occur on it.
LEMMA ValuesOccur ==
    ASSUME NEW s, DOMAIN s = 1 .. Len(s), NEW v
    PROVE  v \in Values(s) <=> Once(s, v)
<1>1. PICK n : n = Len(s) /\ DOMAIN s = 1 .. n
  OBVIOUS
<1>2. v \in Values(s) <=> \E i \in 1 .. n : s[i].kind = "value" /\ s[i].value = v
  BY <1>1 DEF Values
<1> QED BY <1>1, <1>2 DEF Once, Stands

\* An emitter whose stack still has every value that is live.
Retains(e, live) ==
    e.outcome = "ok" => DOMAIN e.stack = 1 .. Len(e.stack) /\ \A v \in live : Once(e.stack, v)

\* A step to one keeps the property.
LEMMA RetainedAfter ==
    ASSUME NEW e, IsNow(e),
           Retains(e, request'.live)
    PROVE  LiveRetained'
<1>1. SUFFICES ASSUME outcome' = "ok", NEW v \in request'.live PROVE v \in Values(stack')
  BY DEF LiveRetained
<1>2. stack' = e.stack /\ e.outcome = "ok"
  BY <1>1 DEF IsNow
<1>3. DOMAIN e.stack = 1 .. Len(e.stack) /\ Once(e.stack, v)
  BY <1>1, <1>2 DEF Retains
<1>4. v \in Values(e.stack)
  BY <1>3, ValuesOccur
<1> QED BY <1>2, <1>4

\* An instruction takes its arguments and leaves the rest.
LEMMA TakesRetains ==
    ASSUME NEW e \in Believed, NEW args \in Seq(Value), NEW live, NEW result \in Value,
           e.outcome = "ok" => Tops(e.stack, args) /\ Spared(live, args, e.stack),
           Takes(e, "instruction", args, live, result)
    PROVE  LiveRetained'
<1>1. PICK n, taken, asked :
         /\ n = Len(args) /\ taken = EffectiveIndex(e.stack, n)
         /\ asked = (e.outcome = "ok" /\ Len(e.stack) >= n /\ Len(e.vm) >= taken)
  OBVIOUS
<1>2. n \in Nat
  BY <1>1, LenProperties
<1>3. request'.live = live
  <2>1. \/ Asks("instruction", args, live, SubSeq(e.stack, 1, n))
        \/ Asks("instruction", args, live, << >>)
    BY <1>1 DEF Takes
  <2> QED BY <2>1 DEF Asks
<1>4. CASE asked
  <2>1. PICK x, b, f : /\ x = Operand(result) /\ b = Without(e.stack, n)
                       /\ f = [e EXCEPT !.stack = << Operand(result) >> \o Without(@, n),
                               !.vm = Limbs(Operand(result)) \o Without(@, EffectiveIndex(e.stack, n))]
    OBVIOUS
  <2>2. IsNow(f)
    BY <1>1, <1>4, <2>1 DEF Takes
  <2>3. e.outcome = "ok" /\ n <= Len(e.stack)
    BY <1>1, <1>2, <1>4, BelievedGiven, LenProperties
  <2>4. f \in Believed
    BY <1>2, <2>1, <2>3, ResultBelieved
  <2>5. e.stack \in Seq(Plain)
    BY BelievedGiven
  <2>6. f.stack = << x >> \o b
    <3>1. e \in Emitters(Plain, Element)
      BY DEF Believed, Faithful
    <3> QED BY <2>1, <3>1 DEF Emitters
  <2>7. OnTopOf(Plain, x, b, f.stack)
    <3>1. x \in Plain
      BY <2>1 DEF Plain
    <3>2. b \in Seq(Plain)
      BY <1>2, <2>1, <2>3, <2>5, WithoutImage, BlockSetting
    <3> QED BY <2>6, <3>1, <3>2 DEF OnTopOf
  <2>8. ASSUME NEW v \in live PROVE Once(f.stack, v)
    <3>1. Once(Without(e.stack, Len(args)), v)
      BY <2>3, <2>5, SparedTaken
    <3> QED BY <1>1, <2>1, <2>7, <3>1, OccursOnTop
  <2>9. f.stack \in Seq(Plain)
    BY <2>4, BelievedGiven
  <2>10. Retains(f, request'.live)
    BY <1>3, <2>8, <2>9, LenProperties DEF Retains
  <2> QED BY <2>2, <2>10, RetainedAfter
<1>5. CASE ~asked
  <2>1. IsNow(Require(e, FALSE, e))
    BY <1>1, <1>5 DEF Takes
  <2>2. Require(e, FALSE, e).outcome # "ok"
    BY DEF Require, Believed, Faithful, Emitters
  <2> QED BY <2>1, <2>2 DEF IsNow, LiveRetained
<1> QED BY <1>4, <1>5

\* What is live is on the stack when an instruction starts.
LEMMA LiveOnStack ==
    ASSUME stack \in Seq(Plain), Emitter.stack = stack, NEW live \in SUBSET Values(stack)
    PROVE  \A v \in live : Once(Emitter.stack, v)
<1>1. DOMAIN stack = 1 .. Len(stack)
  BY LenProperties
<1> QED BY <1>1, ValuesOccur

\* After its dependencies are fetched, below them.
LEMMA DependenciesSpare ==
    ASSUME stack \in Seq(Plain), Emitter.stack = stack, Emitter \in Believed,
           Emitter.outcome = "ok", NEW live \in SUBSET Values(stack), NEW args \in Seq(Value),
           NEW e, e = FetchDependencies(Emitter, args, live, FALSE)
    PROVE  /\ e \in Believed
           /\ e.outcome = "ok" => Spared(live, args, e.stack)
           /\ e.outcome = "ok" /\ Len(args) \in 1 .. 2 /\ Distinct(args) => Tops(e.stack, args)
<1>1. PICK d, f, n : /\ d = Dependencies(args) /\ f = Emitter
                     /\ Descending(d, ToSet(args), n) /\ FetchedSoFar(f, d, live, e, n)
  BY FetchDependenciesKeep
<1>2. e \in Believed
  BY FetchDependenciesKeep
<1>3. \A v \in live : Once(f.stack, v)
  BY <1>1, LiveOnStack
<1>4. e.outcome = "ok" => Spared(live, args, e.stack)
  BY <1>1, <1>3, FetchedSpares
<1>5. e.outcome = "ok" /\ Len(args) \in 1 .. 2 /\ Distinct(args) => Tops(e.stack, args)
  BY <1>1, FetchedTops
<1> QED BY <1>2, <1>4, <1>5

\* What Shapes leaves out when at most "unordered" is in it.
LEMMA OnlyUnordered ==
    ASSUME Shapes \subseteq {"unordered"}
    PROVE  MainShapes /\ "repeated" \notin Shapes /\ "commutative" \notin Shapes
BY DEF MainShapes

\* An instruction.
LEMMA InstructionRetains ==
    ASSUME Shapes \subseteq {"unordered"}, Mirrors, Instruction PROVE LiveRetained'
<1>1. Emitter \in Believed /\ stack \in Seq(Plain) /\ Emitter.stack = stack /\ Emitter.outcome = "ok"
  BY OpenBelieved DEF Instruction
<1>2. PICK args \in InstructionArgs(stack), live \in SUBSET Values(stack), result \in Value :
          Takes(FetchDependencies(Emitter, args, live, FALSE), "instruction", args, live, result)
  <2>1. PICK args \in InstructionArgs(stack), live \in SUBSET Values(stack),
             commutative \in {c \in BOOLEAN : c => "commutative" \in Shapes},
             result \in Value \ Values(stack) :
           LET n == Len(args)
               e == FetchDependencies(Emitter, args, live, commutative /\ n = 2)
               kind == IF commutative /\ n = 2 THEN "commutative" ELSE "instruction"
           IN  Takes(e, kind, args, live, result)
    BY DEF Instruction
  <2>2. ~commutative
    BY OnlyUnordered
  <2>3. (commutative /\ Len(args) = 2) = FALSE
    BY <2>2
  <2> QED BY <2>1, <2>2, <2>3
<1>3. args \in Seq(Value) /\ Len(args) <= 2 /\ Distinct(args)
  <2>1. args \in ArgumentLists(stack, 2) /\ 2 \in Nat
    BY DEF InstructionArgs
  <2> QED BY <1>1, <2>1, ArgumentsType, OnlyUnordered
<1>4. Len(args) \in 1 .. 2
  <2>1. PICK m : m = Len(args) /\ m \in Nat
    BY <1>3, LenProperties
  <2>2. args # << >>
    BY DEF InstructionArgs
  <2>3. m # 0
    BY <1>3, <2>1, <2>2, EmptySeq
  <2> QED BY <1>3, <2>1, <2>3
<1>5. PICK e : e = FetchDependencies(Emitter, args, live, FALSE)
  OBVIOUS
<1>6. /\ e \in Believed
      /\ e.outcome = "ok" => Spared(live, args, e.stack)
      /\ e.outcome = "ok" /\ Len(args) \in 1 .. 2 /\ Distinct(args) => Tops(e.stack, args)
  BY <1>1, <1>3, <1>5, DependenciesSpare
<1>7. Takes(e, "instruction", args, live, result)
  BY <1>2, <1>5
<1> QED BY <1>3, <1>4, <1>6, <1>7, TakesRetains

\* A branch is left with what the emitter before it still has.
LEMMA LeftRetains ==
    ASSUME NEW e \in Believed, NEW args \in Seq(Value), Distinct(args), Len(args) <= Len(Params),
           NEW live, e.outcome = "ok" => Spared(live, args, e.stack), NEW drops \in BOOLEAN,
           IsNow(LeaveTo(e, args, Params, live, drops)), request'.live = live
    PROVE  LiveRetained'
<1>1. PICK f : f = LeaveTo(e, args, Params, live, drops)
  OBVIOUS
<1>2. f.outcome = "ok" => DOMAIN f.stack = 1 .. Len(f.stack) /\ \A v \in live : Once(f.stack, v)
  BY <1>1, LeaveRetains
<1>3. Retains(f, request'.live)
  BY <1>2 DEF Retains
<1>4. IsNow(f)
  BY <1>1
<1> QED BY <1>3, <1>4, RetainedAfter

\* br.
LEMMA BrRetains ==
    ASSUME Shapes \subseteq {"unordered"}, Mirrors, Br PROVE LiveRetained'
<1>1. Emitter \in Believed /\ stack \in Seq(Plain) /\ Emitter.stack = stack /\ Emitter.outcome = "ok"
  BY OpenBelieved DEF Br
<1>2. PICK args \in ArgumentLists(stack, Len(Params)), live \in SUBSET Values(stack) :
         /\ IsNow(LeaveTo(FetchDependencies(Emitter, args, live, FALSE), args, Params, live, TRUE))
         /\ Asks("branch", args, live, << >>)
  BY DEF Br
<1>3. args \in Seq(Value) /\ Len(args) <= Len(Params) /\ Distinct(args)
  <2>1. PICK n : n = Len(Params) /\ n \in Nat
    BY BlockAssumption, LenProperties
  <2> QED BY <1>1, <1>2, <2>1, ArgumentsType, OnlyUnordered
<1>4. PICK e, yes : /\ yes = TRUE /\ yes \in BOOLEAN
                    /\ e = FetchDependencies(Emitter, args, live, FALSE)
  OBVIOUS
<1>5. /\ e \in Believed
      /\ e.outcome = "ok" => Spared(live, args, e.stack)
  BY <1>1, <1>3, <1>4, DependenciesSpare
<1>6. request'.live = live
  BY <1>2 DEF Asks
<1>7. IsNow(LeaveTo(e, args, Params, live, yes))
  BY <1>2, <1>4
<1> QED BY <1>3, <1>4, <1>5, <1>6, <1>7, LeftRetains

\* Taking the condition off, when it was fetched once more than it is live, leaves the others.
LEMMA PoppedSpares ==
    ASSUME NEW e \in Believed, NEW cond, NEW V, NEW args \in Seq(V), cond \notin ToSet(args),
           NEW live, e.outcome = "ok" => Spared(live, args, e.stack)
                         /\ (cond \in live => Twice(e.stack, cond)),
           NEW f, f = Popped(Fetch(e, cond, {}, FALSE)), f.outcome = "ok"
    PROVE  Spared(live, args, f.stack)
<1>1. PICK g, none : none = {} /\ g = Fetch(e, cond, none, FALSE) /\ f = Popped(g)
  OBVIOUS
<1>2. PICK no : no = FALSE /\ no \in BOOLEAN
  OBVIOUS
<1>3. g \in Believed
  <2>1. Follows(Believed, e, Fetch(e, cond, none, no))
    BY <1>2, FetchFollows
  <2> QED BY <1>1, <1>2, <2>1 DEF Follows
<1>4. g.outcome = "ok" /\ f.stack = Tail(g.stack)
  <2>1. g \in Emitters(Plain, Element)
    BY <1>3 DEF Believed, Faithful
  <2>2. [g EXCEPT !.outcome = "panic"].outcome = "panic"
    BY <2>1 DEF Emitters
  <2>3. PICK h : h = [g EXCEPT !.stack = Tail(@), !.vm = Tail(@)]
    OBVIOUS
  <2>4. h.stack = Tail(g.stack) /\ h.outcome = g.outcome
    BY <2>1, <2>3 DEF Emitters
  <2>5. f = Require(g, g.vm # << >>, h)
    BY <1>1, <2>3 DEF Popped
  <2> QED BY <2>2, <2>4, <2>5 DEF Require
<1>5. /\ e.outcome = "ok" /\ 1 <= Len(g.stack) /\ Stands(g.stack[1], cond)
      /\ NoLess(e.stack, g.stack)
  BY <1>1, <1>4, FetchKeeps
<1>6. g.stack \in Seq(Plain)
  BY <1>3, BelievedGiven
<1>7. OnTopOf(Plain, g.stack[1], f.stack, g.stack)
  <2>1. g.stack # << >>
    BY <1>5, EmptySeq
  <2> QED BY <1>4, <1>6, <2>1, TopAndRest
<1>8. ASSUME NEW v \in live PROVE Once(f.stack, v) /\ (v \in ToSet(args) => Twice(f.stack, v))
  <2>1. /\ Once(g.stack, v) <=> Stands(g.stack[1], v) \/ Once(f.stack, v)
        /\ Twice(g.stack, v) <=> Twice(f.stack, v) \/ (Stands(g.stack[1], v) /\ Once(f.stack, v))
    BY <1>7, OccursOnTop
  <2>2. Once(g.stack, v) /\ (v \in ToSet(args) => Twice(g.stack, v))
        /\ (v = cond => Twice(g.stack, v))
    BY <1>5 DEF NoLess, Spared
  <2>3. Stands(g.stack[1], v) => v = cond
    BY <1>5 DEF Stands
  <2>4. Twice(f.stack, v) => Once(f.stack, v)
    BY TwiceIsOnce
  <2> QED BY <2>1, <2>2, <2>3, <2>4
<1> QED BY <1>8 DEF Spared

\* The values of three lists joined.
LEMMA JoinedValues ==
    ASSUME NEW V, NEW x \in V, NEW a \in Seq(V), NEW b \in Seq(V)
    PROVE  /\ << x >> \o a \o b \in Seq(V)
           /\ {x} \union ToSet(a) \subseteq ToSet(<< x >> \o a \o b)
<1>1. PICK q, r, s : q = << x >> /\ r = q \o a /\ s = r \o b /\ s = << x >> \o a \o b
  OBVIOUS
<1>2. q \in Seq(V) /\ Len(q) = 1 /\ q[1] = x
  BY <1>1, Single
<1>3. r \in Seq(V)
  BY <1>1, <1>2, ConcatProperties
<1>4. s \in Seq(V)
  BY <1>1, <1>3, ConcatProperties
<1>5. PICK n, m : n = Len(a) /\ n \in Nat /\ DOMAIN a = 1 .. n /\ m = Len(b) /\ m \in Nat
  BY LenProperties
<1>6. Len(r) = 1 + n /\ r[1] = q[1] /\ \A j \in 1 .. n : r[1 + j] = a[j]
  <2>1. Joins(V, q, 1, a, n, r)
    BY <1>1, <1>2, <1>5 DEF Joins
  <2>2. /\ Len(r) = 1 + n
        /\ \A j \in 1 .. 1 : r[j] = q[j]
        /\ \A j \in 1 .. n : r[1 + j] = a[j]
    BY <2>1, JoinedParts
  <2> QED BY <2>2
<1>7. Len(s) = 1 + n + m /\ \A j \in 1 .. 1 + n : s[j] = r[j]
  <2>1. Joins(V, r, 1 + n, b, m, s)
    BY <1>1, <1>3, <1>5, <1>6 DEF Joins
  <2>2. /\ Len(s) = 1 + n + m
        /\ \A j \in 1 .. 1 + n : s[j] = r[j]
    BY <2>1, JoinedParts
  <2> QED BY <2>2
<1>8. PICK k : k = 1 + n + m /\ k \in Nat /\ DOMAIN s = 1 .. k /\ 1 \in 1 .. k
  <2>1. PICK k : k = 1 + n + m /\ k \in Nat /\ 1 \in 1 .. k
    BY <1>5
  <2> QED BY <1>4, <1>7, <2>1, LenProperties
<1>9. x \in ToSet(s)
  <2>1. s[1] = x
    BY <1>2, <1>5, <1>6, <1>7
  <2> QED BY <1>8, <2>1 DEF ToSet
<1>10. ASSUME NEW v \in ToSet(a) PROVE v \in ToSet(s)
  <2>1. PICK j \in 1 .. n : a[j] = v
    BY <1>5 DEF ToSet
  <2>2. 1 + j \in 1 .. 1 + n /\ 1 + j \in 1 .. k
    BY <1>5, <1>8
  <2>3. s[1 + j] = v
    BY <1>6, <1>7, <2>1, <2>2
  <2> QED BY <1>8, <2>2, <2>3 DEF ToSet
<1> QED BY <1>1, <1>4, <1>9, <1>10

\* cond_br.
LEMMA CondBrRetains ==
    ASSUME Shapes \subseteq {"unordered"}, Mirrors, CondBr PROVE LiveRetained'
<1>1. Emitter \in Believed /\ stack \in Seq(Plain) /\ Emitter.stack = stack /\ Emitter.outcome = "ok"
  BY OpenBelieved DEF CondBr
<1>2. PICK cond \in Values(stack),
           args \in ArgumentLists(stack, Len(Params)), other \in ArgumentLists(stack, 1),
           live \in SUBSET Values(stack), drops \in BOOLEAN :
         /\ WidthOf[cond] = 1
         /\ "repeated" \in Shapes \/ cond \notin ToSet(args) \union ToSet(other)
         /\ IsNow(LeaveTo(Popped(Fetch(FetchDependencies(Emitter, << cond >> \o args \o other, live, FALSE),
                                       cond, {}, FALSE)),
                          args, Params, live, drops))
         /\ Asks(IF drops THEN "branch" ELSE "inner branch", args, live, << >>)
  BY DEF CondBr
<1>3. args \in Seq(Value) /\ Len(args) <= Len(Params) /\ Distinct(args)
  <2>1. PICK n : n = Len(Params) /\ n \in Nat
    BY BlockAssumption, LenProperties
  <2> QED BY <1>1, <1>2, <2>1, ArgumentsType, OnlyUnordered
<1>4. cond \in Value /\ other \in Seq(Value) /\ cond \notin ToSet(args)
  <2>1. 1 \in Nat
    OBVIOUS
  <2>2. cond \notin ToSet(args)
    BY <1>2, OnlyUnordered
  <2> QED BY <1>1, <2>1, <2>2, ValuesType, ArgumentsType
<1>5. PICK all : /\ all = << cond >> \o args \o other /\ all \in Seq(Value)
                 /\ {cond} \union ToSet(args) \subseteq ToSet(all)
  BY <1>3, <1>4, JoinedValues
<1>6. PICK e, g, f : /\ e = FetchDependencies(Emitter, all, live, FALSE)
                     /\ g = Fetch(e, cond, {}, FALSE) /\ f = Popped(g)
  OBVIOUS
<1>7. e \in Believed /\ (e.outcome = "ok" => Spared(live, all, e.stack))
  BY <1>1, <1>5, <1>6, DependenciesSpare
<1>8. e.outcome = "ok" => Spared(live, args, e.stack) /\ (cond \in live => Twice(e.stack, cond))
  BY <1>5, <1>7 DEF Spared
<1>9. f.outcome = "ok" => Spared(live, args, f.stack)
  BY <1>3, <1>4, <1>6, <1>7, <1>8, PoppedSpares
<1>10. f \in Believed
  <2>1. PICK none, no : none = {} /\ no = FALSE /\ no \in BOOLEAN
    OBVIOUS
  <2>2. Follows(Believed, e, Fetch(e, cond, none, no))
    BY <1>7, <2>1, FetchFollows
  <2>3. g \in Believed
    BY <1>6, <2>1, <2>2 DEF Follows
  <2>4. g.outcome = "ok" => g.stack # << >> /\ Stands(g.stack[1], cond)
    BY <1>6, <1>7, FetchOnTop
  <2> QED BY <1>2, <1>4, <1>6, <2>3, <2>4, PoppedBelieved
<1>11. request'.live = live
  BY <1>2 DEF Asks
<1>12. IsNow(LeaveTo(f, args, Params, live, drops))
  BY <1>2, <1>5, <1>6
<1> QED BY <1>3, <1>9, <1>10, <1>11, <1>12, LeftRetains

\* Every step keeps it: one that asks for nothing, or returns, leaves nothing live.
LEMMA NextRetains ==
    ASSUME Shapes \subseteq {"unordered"}, Mirrors, LiveRetained, [Next]_vars
    PROVE  LiveRetained'
<1>1. ASSUME request'.live = {} PROVE LiveRetained'
  BY <1>1 DEF LiveRetained
<1>2. CASE Literal
  BY <1>1, <1>2 DEF Literal, Nothing
<1>3. CASE Instruction
  BY <1>3, InstructionRetains
<1>4. CASE DropDead
  BY <1>1, <1>4 DEF DropDead, Nothing
<1>5. CASE EmitterCall
  BY <1>1, <1>5 DEF EmitterCall, Nothing
<1>6. CASE Ret
  BY <1>1, <1>6 DEF Ret, Asks
<1>7. CASE RetImm
  BY <1>1, <1>7 DEF RetImm, Asks
<1>8. CASE Br
  BY <1>8, BrRetains
<1>9. CASE CondBr
  BY <1>9, CondBrRetains
<1>10. CASE UNCHANGED vars
  BY <1>10 DEF vars, LiveRetained, Values
<1> QED BY <1>2, <1>3, <1>4, <1>5, <1>6, <1>7, <1>8, <1>9, <1>10 DEF Next

\* No instruction and no branch uses up the last copy of a value that something after it uses: what
\* liveness analysis says is live is on the operand stack afterwards, although emit_stack_dependency
\* moves arguments that it finds dead, cond_br pops its condition, and drop_unused_operands counts
\* positions on the stack it is changing.  Arguments may come in any order, but none twice: an
\* argument that is repeated is fetched once, and taken off the stack as often as it is named.
THEOREM LiveStaysOnStack ==
    ASSUME Shapes \subseteq {"unordered"} PROVE Spec => []LiveRetained
<1>1. Spec => []Mirrors
  BY OnlyUnordered, MirrorsAlways
<1>2. Init => LiveRetained
  BY DEF Init, Nothing, LiveRetained
<1>3. Mirrors /\ LiveRetained /\ [Next]_vars => LiveRetained'
  BY NextRetains
<1> QED BY <1>1, <1>2, <1>3, PTL DEF Spec

=============================================================================

---------------------------- MODULE IntegerSpec ----------------------------
(***************************************************************************)
(* What an instruction of the IR on integers promises, from the comments   *)
(* on the methods that emit it and on enum Overflow (hir/src               *)
(* instruction.rs): the values it leaves, when it traps, and what it       *)
(* leaves to its caller.                                                   *)
(*                                                                         *)
(* A value is a number of its type, the negative ones of a signed type     *)
(* included.  The operands of an instruction come with the top of the      *)
(* stack first: the right operand of a binary one, then the left.          *)
(***************************************************************************)
EXTENDS EmitCode

Modulus(ty) == IF ty = "Felt" THEN FeltM ELSE 2^Width[ty]
Least(ty) == IF ty \in Signed THEN -(Modulus(ty) \div 2) ELSE 0
InRange(ty, v) == v >= Least(ty) /\ v < Least(ty) + Modulus(ty)

\* The bits of a value, and the value of a number of bits.
Pattern(ty, v) == v % Modulus(ty)
ValueOf(ty, p) == ((p - Least(ty)) % Modulus(ty)) + Least(ty)

\* The elements of a value, the high bits first.
Limbs(ty, v) ==
    LET p == Pattern(ty, v)
        n == SizeOf(ty)
    IN  IF n = 1 THEN <<p>> ELSE [k \in 1..n |-> (p \div U32P^(n - k)) % U32P]

Right(o, a) == IF HasImm(o) THEN ValueOf(o.ty, ImmOf(o)) ELSE a[1]
Left(o, a)  == a[Len(a)]

\* x^n, or the first power that is beyond limit.
Power(x, n, limit) ==
    LET P[k \in 0..n] == IF k = 0 THEN 1 ELSE LET last == P[k - 1]
                                              IN  IF last > limit THEN last ELSE last * x
    IN  P[n]

-----------------------------------------------------------------------------
(* The values.                                                             *)

\* Truncation goes by bits; no felt is negative.
Truncated(src, dst, x) ==
    IF dst = "Felt" /\ x < 0 THEN 0 ELSE ValueOf(dst, Pattern(src, x))

\* An i1 is never signed; a felt has no bits.
Extended(src, dst, x) ==
    LET p == Pattern(src, x)
    IN  IF src \in {"I1", "Felt"} \/ 2 * p < Modulus(src) THEN p ELSE p - Modulus(src)

ExactOf(o, a) ==
    CASE o.op \in Arithmetic -> Exact(o.op, Left(o, a), Right(o, a))
      [] o.op = "Exp"        -> Power(Left(o, a), Right(o, a), Modulus(o.ty))
      [] o.op = "Pow2"       -> Power(2, a[1], Modulus(o.ty))

BitsOf(o, x, y) ==
    LET w == Width[o.ty]
        p == Pattern(o.ty, x)
        q == Pattern(o.ty, y)
    IN  ValueOf(o.ty, CASE o.op \in {"Band", "And"} -> BitAnd(w, p, q)
                        [] o.op \in {"Bor", "Or"}   -> BitOr(w, p, q)
                        [] o.op \in {"Bxor", "Xor"} -> BitXor(w, p, q)
                        [] o.op = "Shl"  -> (p * 2^q) % 2^w
                        [] o.op = "Shr"  -> p \div 2^q
                        [] o.op = "Rotl" -> RotateLeft(w, p, q)
                        [] o.op = "Rotr" -> RotateRight(w, p, q))

UnaryAnswer(o, x) ==
    CASE o.op = "IsOdd"    -> x % 2
      [] o.op = "Popcnt"   -> CountOnes(Width[o.ty], Pattern(o.ty, x))
      [] o.op = "Bnot"     -> ValueOf(o.ty, Modulus(o.ty) - 1 - Pattern(o.ty, x))
      [] o.op = "Not"      -> 1 - x
      [] o.op = "Pow2"     -> IF o.ty = "Felt" THEN FeltExp(2, x) ELSE 2^x
      [] o.op = "Incr"     -> ValueOf(o.ty, x + 1)
      [] o.op = "Inv"      -> FeltInv(x)
      [] o.op = "Neg"      -> FeltNeg(x)
      [] o.op = "IntToPtr" -> x

\* The values left on the stack, the top first.
Answers(o, a) ==
    LET x == Left(o, a)
        y == Right(o, a)
    IN  CASE o.op = "Literal"  -> <<ValueOf(o.ty, ImmOf(o))>>
          [] o.op = "Trunc"    -> <<Truncated(o.ty, o.dst, x)>>
          [] o.op = "Zext"     -> <<Pattern(o.ty, x)>>
          [] o.op = "Sext"     -> <<Extended(o.ty, o.dst, x)>>
          [] o.op = "Cast"     -> <<x>>
          [] o.op \in UnaryOps -> <<UnaryAnswer(o, x)>>
          [] o.op \in Equalities \cup Orderings -> <<Bool(Compare(o.op, x, y))>>
          [] o.op \in Arithmetic -> (IF o.mode = "Overflowing" THEN <<Bool(~InRange(o.ty, ExactOf(o, a)))>> ELSE << >>)
                                    \o <<ValueOf(o.ty, ExactOf(o, a))>>
          [] o.op \in Divisions  -> IF o.ty = "Felt" THEN <<FeltDiv(x, y)>> ELSE DivMods(o.op, x, y)
          [] o.op = "Exp"        -> <<IF o.ty = "Felt" THEN FeltExp(x, y) ELSE ExactOf(o, a)>>
          [] o.op \in Logical \cup BitwiseOps \cup Shifts \cup Rotations -> <<BitsOf(o, x, y)>>
          [] o.op \in Extremes   -> <<MinMax(o.op, x, y)>>
          [] o.op \in Assertions -> << >>
          [] o.op = "Select"     -> <<IF a[1] = 1 THEN a[2] ELSE a[3]>>

-----------------------------------------------------------------------------
(* The traps, and what is left to the caller.                              *)

Traps(o, a) ==
    LET x == Left(o, a)
        y == Right(o, a)
    IN  CASE o.op = "Cast"     -> ~InRange(o.dst, x)
          [] o.op = "Sext"     -> o.ty = "Felt" /\ ~InRange(o.dst, x)
          [] o.op = "IntToPtr" -> x >= U32P
          [] o.op = "Pow2"     -> x >= Exponents \/ (o.ty # "Felt" /\ ~InRange(o.ty, ExactOf(o, a)))
          [] o.op = "Exp"      -> y >= Exponents \/ (o.ty # "Felt" /\ ~InRange(o.ty, ExactOf(o, a)))
          [] o.op \in Arithmetic -> o.ty # "Felt" /\ o.mode = "Checked" /\ ~InRange(o.ty, ExactOf(o, a))
          [] o.op \in Divisions  -> o.mode = "Checked" /\ o.ty # "Felt" /\ y = 0
              [] o.op = "Assert"   -> x # 1
          [] o.op = "Assertz"  -> x # 0
          [] o.op = "AssertEq" -> x # y
          [] OTHER             -> FALSE

Expects(o, a) ==
    LET y == Right(o, a)
    IN  CASE o.op \in Arithmetic -> (o.ty # "Felt" /\ o.mode = "Unchecked") => InRange(o.ty, ExactOf(o, a))
          [] o.op \in Divisions  -> (o.ty = "Felt" \/ o.mode # "Checked") => y # 0
          [] o.op \in Shifts \cup Rotations -> y < Width[o.ty]
          [] o.op = "Inv"        -> a[1] # 0
          [] OTHER               -> TRUE

=============================================================================

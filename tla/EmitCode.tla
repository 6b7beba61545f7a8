----------------------------- MODULE EmitCode ------------------------------
(***************************************************************************)
(* What the backend emits for an instruction of the IR on integers:        *)
(* unary.rs, binary.rs, primop.rs and push_immediate of                    *)
(* codegen/masm/src/stackify/emit, chosen by the dispatch of               *)
(* stackify/pass.rs.                                                       *)
(*                                                                         *)
(* An instruction is a record: its opcode, the type of its operands, the   *)
(* overflow mode, the type of its result where the opcode converts, and    *)
(* its immediate, a sequence of at most one value.  An immediate is the    *)
(* bit pattern of its value.                                               *)
(***************************************************************************)
EXTENDS EmitInt

Width == [I1 |-> 1, U8 |-> Bits - 2, I8 |-> Bits - 2, U16 |-> Bits - 1, I16 |-> Bits - 1,
          U32 |-> Bits, I32 |-> Bits, U64 |-> 2 * Bits, I64 |-> 2 * Bits, I128 |-> 4 * Bits,
          Felt |-> Bits]        \* size_in_bits, which counts a felt as a u32
IntegerType == DOMAIN Width

Wide     == {"U64", "I64"}
Signed   == {"I8", "I16", "I32", "I64", "I128"}
Unsigned == {"U8", "U16", "U32", "U64"}            \* is_unsigned_integer
Uint     == {"U8", "U16"}
Native   == {"I1", "U8", "I8", "U16", "I16", "U32", "I32"}    \* in one element, as a u32

\* The elements of an operand on the stack.
SizeOf(ty) == IF ty = "I128" THEN 4 ELSE IF ty \in Wide THEN 2 ELSE 1

-----------------------------------------------------------------------------
(* Immediates.                                                             *)

PushImmediate(ty, imm) ==
    CASE ty \in {"I1", "I8", "U8"} -> <<With("PushU8", imm)>>
      [] ty \in {"U16", "I16", "U32", "I32"} -> <<With("PushU32", imm)>>
      [] ty \in Wide   -> PushU64(imm)
      [] ty = "I128"   -> PushI128(imm)
      [] ty = "Felt"   -> <<With("Push", imm)>>

\* as_u32 of an unsigned immediate, as_i64 of a signed one, in the u32 of an instruction.
AsU32(ty, imm) ==
    IF ty \in Signed /\ imm >= 2^(Width[ty] - 1) THEN imm + U32P - 2^Width[ty] ELSE imm

Negative(ty, imm) == ty \in Signed /\ imm >= 2^(Width[ty] - 1)

-----------------------------------------------------------------------------
(* unary.rs: conversions.  A pair of types without a case is refused.      *)

TruncCode(src, dst) ==
    LET n == Width[dst]
    IN  CASE src = dst -> << >>
          [] src = "Felt" /\ dst # "Felt"                   -> TruncFelt(n)
          [] src = "I128" /\ dst = "Felt"                   -> TruncI128ToFelt
          [] src = "I128" /\ dst \notin {"Felt", "I128"}    -> TruncI128(n)
          [] src \in Wide /\ dst = "Felt"                   -> TruncInt64ToFelt
          [] src \in Wide /\ dst \notin {src, "Felt"}       -> TruncInt64(n)
          [] src \in Native /\ dst # src                    -> TruncInt32(n)

TruncSupported(src, dst) ==
    \/ src = dst
    \/ src = "Felt" /\ dst \in Native
    \/ src = "I128" /\ dst \in Native \cup Wide \cup {"Felt"}
    \/ src \in Wide /\ dst \in Native \cup {"Felt"}
    \/ src \in Native \ {"I1"} /\ dst \in Native \cup {"Felt"} /\ Width[dst] <= Width[src]

ZextCode(src, dst) ==
    CASE src = dst                                             -> << >>
      [] src = "U64" /\ dst = "I128"                           -> PushU64(0)
      [] src = "U32" /\ dst \in Wide \cup {"I128"}             -> ZextInt32(Width[dst])
      [] src \in Uint /\ dst \in Wide \cup {"I128"}            -> ZextSmallint(Width[src], Width[dst])
      [] src \in Uint \cup {"U32"} /\ dst \in {"U32", "I32", "Felt"} /\ dst # src -> << >>

ZextSupported(src, dst) ==
    /\ src \in Unsigned
    /\ \/ src = dst
       \/ src = "U64" /\ dst = "I128"
       \/ src = "U32" /\ dst \in Wide \cup {"I128", "Felt"}
       \/ src \in Uint /\ dst \in Wide \cup {"I128", "U32", "I32", "Felt"}

SextCode(src, dst) ==
    CASE src = dst                        -> << >>
      [] src \in Wide /\ dst # src        -> SextInt64(Width[dst])
      [] src = "Felt"                     -> SextFelt(Width[dst])
      [] src \in {"U32", "I32"} /\ dst # src -> SextInt32(Width[dst])
      [] src \in Native \ {"U32", "I32"} /\ dst # src -> SextSmallint(Width[src], Width[dst])

SextSupported(src, dst) ==
    \/ src = dst /\ dst \in Signed
    \/ src \in Wide /\ dst = "I128"
    \/ src \in {"Felt", "I32", "U32"} /\ dst \in {"I64", "I128"}
    \/ src \in Native \ {"U32", "I32"} /\ dst \in {"I32", "I64", "I128"}

\* The widths of a cast are unsigned targets and signed ones.
UintTargets == {"U32", "U16", "U8", "I1"}
IntTargets  == {"I32", "I16", "I8"}

CastCode(src, dst) ==
    LET n == Width[dst]
        w == Width[src]
    IN  CASE src = "I128" /\ dst = "I64"            -> I128ToI64
          [] src = "I128" /\ dst = "U64"            -> I128ToU64
          [] src = "I128" /\ dst = "Felt"           -> I128ToFelt
          [] src = "I128" /\ dst \in UintTargets    -> I128ToU64 \o U64ToUint(n)
          [] src = "I128" /\ dst \in IntTargets     -> I128ToI64 \o I64ToInt(n)
          [] src = "I64"  /\ dst = "I128"           -> SextInt64(n)
          [] src = "I64"  /\ dst = "U64"            -> AssertUnsignedInt32
          [] src = "I64"  /\ dst = "Felt"           -> AssertUnsignedInt32 \o U64ToFelt
          [] src = "I64"  /\ dst \in UintTargets    -> AssertUnsignedInt32 \o U64ToUint(n)
          [] src = "I64"  /\ dst \in IntTargets     -> I64ToInt(n)
          [] src = "U64"  /\ dst = "I64"            -> AssertI64
          [] src = "U64"  /\ dst = "Felt"           -> U64ToFelt
          [] src = "U64"  /\ dst \in UintTargets    -> U64ToUint(n)
          [] src = "U64"  /\ dst \in IntTargets     -> U64ToUint(n) \o AssertUnsignedSmallint(n)
          [] src = "Felt" /\ dst \in {"I64", "I128"} -> SextFelt(n)
          [] src = "Felt" /\ dst = "U64"            -> FeltToU64
          [] src = "Felt" /\ dst \in UintTargets    -> FeltToUint(n)
          [] src = "Felt" /\ dst \in IntTargets     -> FeltToInt(n)
          [] src = "U32"  /\ dst \in Wide \cup {"I128"} -> ZextInt32(n)
          [] src \in {"U32", "I32"} /\ dst \in {"U32", "I32"} -> AssertUnsignedInt32
          [] src \in {"U32", "I32"} /\ dst \in UintTargets \ {"U32"} -> Int32ToUint(n)
          [] src \in {"U32", "I32"} /\ dst \in IntTargets \ {"I32"}  -> Int32ToInt(n)
          [] src = "I32"  /\ dst \in {"I64", "I128"} -> SextInt32(n)
          [] src = "I32"  /\ dst = "U64"            -> AssertUnsignedInt32 \o <<With("PushU32", 0)>>
          [] src \in {"I8", "I16"} /\ dst \in {"I32", "I64", "I128"} -> SextSmallint(w, n)
          [] src \in {"I8", "I16"} /\ dst \in {"U32", "U64"} ->
                 AssertUnsignedSmallint(w) \o ZextSmallint(w, n)
          [] src \in {"I8", "I16"} /\ dst \in Uint /\ n = w -> AssertUnsignedSmallint(w)
          [] src = "I16"  /\ dst \in {"U8", "I8", "I1"} -> Int32ToInt(n)
          [] src = "I8"   /\ dst = "I1" ->
                 <<With("Dup", 0), With("PushU32", 2), Do("Lt"), Do("Assert")>>
          [] src = "I1"                             -> ZextSmallint(w, n)

\* A signed cast to one bit fails in the compiler, at 2^32 in a u32.
CastSupported(src, dst) ==
    \/ src \in {"I128", "I64", "U64", "Felt"} /\ dst \in Native \cup Wide \cup {"I128", "Felt"}
       /\ src # dst /\ ~(src = "U64" /\ dst = "I128")
    \/ src = "U32" /\ dst \in Native \cup Wide \cup {"I128"} /\ src # dst
    \/ src = "I32" /\ dst \in Native \cup Wide \cup {"I128"} /\ src # dst
    \/ src \in {"I8", "I16"} /\ dst \in {"I32", "I64", "I128", "U32", "U64"}
    \/ <<src, dst>> \in {<<"I16", "U16">>, <<"I8", "U8">>, <<"I16", "U8">>, <<"I16", "I8">>, <<"I8", "I1">>}
    \/ src = "I1"

-----------------------------------------------------------------------------
(***************************************************************************)
(* The code of each instruction: the other methods of unary.rs, those of   *)
(* binary.rs and the assertions and selection of primop.rs.                *)
(***************************************************************************)

Conversions == {"Trunc", "Zext", "Sext", "Cast"}
UnaryOps    == {"IsOdd", "Popcnt", "Bnot", "Not", "Pow2", "Incr", "Inv", "Neg", "IntToPtr"}
Equalities  == {"Eq", "Neq"}
Orderings   == {"Gt", "Gte", "Lt", "Lte"}
Arithmetic  == {"Add", "Sub", "Mul"}
Divisions   == {"Div", "Mod", "DivMod"}
Logical     == {"And", "Or", "Xor"}
BitwiseOps  == {"Band", "Bor", "Bxor"}
Shifts      == {"Shl", "Shr"}
Rotations   == {"Rotl", "Rotr"}
Extremes    == {"Min", "Max"}
BinaryOps   == Equalities \cup Orderings \cup Arithmetic \cup Divisions \cup {"Exp"} \cup Logical
               \cup BitwiseOps \cup Shifts \cup Rotations \cup Extremes
Assertions  == {"Assert", "Assertz", "AssertEq"}

HasImm(o) == o.imm # << >>
ImmOf(o) == o.imm[1]

-----------------------------------------------------------------------------
(* unary.rs                                                                *)

PopcntCode(ty) ==
    LET count == Checked("Popcnt")
    IN  CASE ty = "I128" -> <<count, With("Swap", 1), count, Do("Add"), With("Movdn", 2), count,
                              With("Swap", 1), count, <<"U32Wrapping", "Add3">> >>
          [] ty \in Wide -> <<count, With("Swap", 1), count, Do("Add")>>
          [] OTHER       -> <<count>>

\* The limbs of an i128 are rotated by less than their number.
BnotCode(ty) ==
    CASE ty = "I1"   -> <<Do("Not")>>
      [] ty \in Wide -> <<With("Swap", 1), Checked("Not"), With("Swap", 1), Checked("Not")>>
      [] ty = "I128" -> [k \in 1..8 |-> IF k % 2 = 1 THEN With("Movup", k \div 2) ELSE Checked("Not")]
      [] OTHER       -> <<Checked("Not")>>

Pow2Code(ty) ==
    CASE ty = "U64"    -> <<Do("Assertz"), Do("Pow2"), Do("U32Split")>>
      [] ty = "Felt"   -> <<Do("Pow2")>>
      [] ty = "U32"    -> <<Do("Pow2"), Do("U32Assert")>>
      [] ty \in Uint   -> <<Do("Pow2"), Do("U32Assert")>> \o Int32ToUint(Width[ty])

IncrCode(ty) ==
    CASE ty \in Wide           -> PushU64(1) \o Exec64("wrapping", "Add")
      [] ty = "Felt"           -> <<Do("Incr")>>
      [] ty \in {"U32", "I32"} -> ArithImmU32("Add", 1, "Wrapping")
      [] OTHER -> ArithImmU32("Add", 1, "Wrapping") \o << <<"U32Unchecked", "Mod", 2^Width[ty]>> >>

UnaryCode(op, ty) ==
    CASE op = "IsOdd"    -> Times(SizeOf(ty) - 1, Do("Drop")) \o <<Do("IsOdd")>>
      [] op = "Popcnt"   -> PopcntCode(ty)
      [] op = "Bnot"     -> BnotCode(ty)
      [] op = "Pow2"     -> Pow2Code(ty)
      [] op = "Incr"     -> IncrCode(ty)
      [] op \in {"Not", "Inv", "Neg"} -> <<Do(op)>>
      [] op = "IntToPtr" -> IF ty = "Felt" THEN <<Do("U32Assert")>> ELSE << >>

UnarySupported(op, ty) ==
    CASE op = "IsOdd"             -> TRUE
      [] op \in {"Popcnt", "Bnot"} -> ty # "Felt"
      [] op = "Not"               -> ty = "I1"
      [] op = "Pow2"              -> ty \in {"U64", "Felt", "U32"} \cup Uint
      [] op = "Incr"              -> ty \notin {"I1", "I128"}
      [] op \in {"Inv", "Neg"}    -> ty = "Felt"
      [] op = "IntToPtr"          -> ty \in {"U32", "Felt"}

-----------------------------------------------------------------------------
(* binary.rs                                                               *)

\* neq of two i128 forgets the negation that neq_imm makes.
EqualityCode(o) ==
    LET negate == IF o.op = "Neq" THEN <<Do("Not")>> ELSE << >>
    IN  CASE o.ty = "I128" -> IF HasImm(o) THEN PushI128(ImmOf(o)) \o EqI128 \o negate ELSE EqI128
          [] o.ty \in Wide -> (IF HasImm(o) THEN PushU64(ImmOf(o)) ELSE << >>) \o <<Do("Eqw")>> \o negate
          [] o.ty = "Felt" -> IF HasImm(o) THEN <<With(ImmName[o.op], ImmOf(o))>> ELSE <<Do(o.op)>>
          [] o.ty \in Native -> IF HasImm(o) THEN << <<"U32Checked", o.op, AsU32(o.ty, ImmOf(o))>> >>
                                ELSE <<Checked(o.op)>>

OrderingCode(o) ==
    CASE o.ty = "Felt" -> IF HasImm(o) THEN <<With(ImmName[o.op], ImmOf(o))>> ELSE <<Do(o.op)>>
      [] OTHER         -> IF HasImm(o) THEN PushedU32(o.op, ImmOf(o)) ELSE <<Checked(o.op)>>

\* The operands of a u64 procedure are both on the stack.
On64(o, variant, of) == (IF HasImm(o) THEN PushU64(ImmOf(o)) ELSE << >>) \o Exec64(variant, of)

ArithmeticCode(o) ==
    CASE o.ty = "Felt" -> IF HasImm(o) THEN <<With(ImmName[o.op], ImmOf(o))>> ELSE <<Do(o.op)>>
      [] o.ty = "U64"  -> On64(o, ModeOf64(o.mode), o.op)
      [] o.ty = "U32"  -> IF HasImm(o) THEN ArithImmU32(o.op, ImmOf(o), o.mode)
                          ELSE ArithU32(o.op, o.mode)
      [] OTHER         -> IF HasImm(o) THEN ArithImmUint(o.op, ImmOf(o), Width[o.ty], o.mode)
                          ELSE ArithUint(o.op, Width[o.ty], o.mode)

\* Dividing a felt by an immediate emits the instruction that takes both from the stack.
DivisionCode(o) ==
    CASE o.ty = "Felt" -> <<Do("Div")>>
      [] o.ty = "U64"  -> On64(o, IF o.mode = "Checked" THEN "checked" ELSE "unchecked", o.op)
      [] o.ty = "U32"  -> IF HasImm(o) THEN DivImmU32(o.op, ImmOf(o), o.mode) ELSE DivU32(o.op, o.mode)
      [] OTHER         -> IF HasImm(o) THEN DivImmUint(o.op, ImmOf(o), Width[o.ty], o.mode)
                          ELSE DivUint(o.op, Width[o.ty], o.mode)

ExpCode(o) ==
    <<IF HasImm(o) THEN With("ExpImm", ImmOf(o)) ELSE Do("Exp")>>
    \o (IF o.ty = "Felt" THEN << >> ELSE <<Do("U32Assert")>>)
    \o (IF o.ty \in Uint THEN Int32ToUint(Width[o.ty]) ELSE << >>)

LogicalCode(o) == IF HasImm(o) THEN <<With(ImmName[o.op], ImmOf(o))>> ELSE <<Do(o.op)>>

BitName == [Band |-> "And", Bor |-> "Or", Bxor |-> "Xor"]

\* bor_imm of a boolean emits the conjunction.
BitwiseCode(o) ==
    CASE o.ty \in Wide -> On64(o, "checked", BitName[o.op])
      [] o.ty = "I1"   -> IF ~HasImm(o) THEN <<Do(BitName[o.op])>>
                          ELSE <<With(IF o.op = "Bxor" THEN "XorImm" ELSE "AndImm", ImmOf(o))>>
      [] OTHER -> (IF HasImm(o) THEN PushedU32(BitName[o.op], AsU32(o.ty, ImmOf(o)))
                   ELSE <<Checked(BitName[o.op])>>)
                  \o (IF o.op = "Bxor" THEN TruncInt32(Width[o.ty]) ELSE << >>)

ShiftCode(o) ==
    CASE o.ty = "U64" -> On64(o, "unchecked", o.op)
      [] OTHER -> << IF HasImm(o) THEN <<"U32Checked", o.op, ImmOf(o)>> ELSE Checked(o.op)>>
                  \o (IF o.op = "Shl" THEN TruncInt32(Width[o.ty]) ELSE << >>)

ExtremeCode(o) ==
    CASE o.ty = "U64" -> On64(o, "checked", o.op)
      [] OTHER        -> IF HasImm(o) THEN PushedU32(o.op, ImmOf(o)) ELSE <<Checked(o.op)>>

BinaryCode(o) ==
    CASE o.op \in Equalities -> EqualityCode(o)
      [] o.op \in Orderings  -> OrderingCode(o)
      [] o.op \in Arithmetic -> ArithmeticCode(o)
      [] o.op \in Divisions  -> DivisionCode(o)
      [] o.op = "Exp"        -> ExpCode(o)
      [] o.op \in Logical    -> LogicalCode(o)
      [] o.op \in BitwiseOps -> BitwiseCode(o)
      [] o.op \in Shifts \cup Rotations -> ShiftCode(o)
      [] o.op \in Extremes   -> ExtremeCode(o)

Narrow == {"U32", "U16", "U8"}

BinarySupported(op, ty) ==
    CASE op \in Equalities     -> TRUE
      [] op \in Orderings      -> ty \in {"Felt", "I1"} \cup Narrow
      [] op \in {"Add", "Sub"} -> ty \in {"Felt", "U64", "I1"} \cup Narrow
      [] op \in {"Mul", "Div"} -> ty \in {"Felt", "U64"} \cup Narrow
      [] op \in {"Mod", "DivMod"} \cup Shifts -> ty \in {"U64"} \cup Narrow
      [] op = "Exp"            -> ty \in {"Felt"} \cup Narrow
      [] op \in Logical        -> ty = "I1"
      [] op \in BitwiseOps     -> ty \notin {"Felt", "I128"}
      [] op \in Rotations      -> ty \in {"U64", "U32"}
      [] op \in Extremes       -> ty \in {"U64", "I1"} \cup Narrow

\* What an immediate must be for the compiler not to panic.
ImmSupported(o) ==
    CASE o.op \in Divisions /\ o.ty # "Felt"    -> ImmOf(o) # 0
      [] o.op \in Shifts \cup Rotations /\ o.ty # "U64" -> ImmOf(o) < Bits
      [] o.op \in Shifts /\ o.ty = "U64"        -> ImmOf(o) < 2 * Bits
      [] o.op = "AssertEq" /\ o.ty \in Native   -> ~Negative(o.ty, ImmOf(o))
      [] OTHER                                  -> TRUE

-----------------------------------------------------------------------------
(* primop.rs                                                               *)

AssertCode(ty)  == Times(SizeOf(ty) - 1, Do("Assertz")) \o <<Do("Assert")>>
AssertzCode(ty) == Times(SizeOf(ty), Do("Assertz"))

\* Variant: the halves are compared as they lie, without bringing the other one up.
AssertEqAsTheyLie(o) == IF HasImm(o) THEN <<With("EqImm", ImmOf(o)), Do("Assert")>>
                        ELSE Times(SizeOf(o.ty), Do("AssertEq"))

AssertEqCode(o) ==
    CASE o.ty = "I128" -> (IF HasImm(o) THEN PushI128(ImmOf(o)) ELSE << >>) \o <<Do("AssertEqw")>>
      [] o.ty \in Wide ->
             IF HasImm(o)
             THEN LET raw == ToRawParts(ImmOf(o))
                  IN  <<With("EqImm", raw.hi), Do("Assert"), With("EqImm", raw.lo), Do("Assert")>>
             ELSE <<With("Movup", 2), Do("AssertEq"), Do("AssertEq")>>
      [] OTHER -> IF HasImm(o) THEN <<With("EqImm", ImmOf(o)), Do("Assert")>> ELSE <<Do("AssertEq")>>

SelectCode(ty) ==
    CASE ty = "I128" -> <<Do("Cdropw")>>
      [] ty \in Wide ->
             <<With("Dup", 0), With("Movdn", 6), With("Movup", 3), With("Movup", 2), With("Movup", 6),
               Do("Cdrop"), With("Movdn", 4), Do("Cdrop"), With("Swap", 1)>>
      [] OTHER       -> <<Do("Cdrop")>>

-----------------------------------------------------------------------------
(* The dispatch of pass.rs.                                                *)

Code(o) ==
    CASE o.op = "Literal"      -> PushImmediate(o.ty, ImmOf(o))
      [] o.op = "Trunc"        -> TruncCode(o.ty, o.dst)
      [] o.op = "Zext"         -> ZextCode(o.ty, o.dst)
      [] o.op = "Sext"         -> SextCode(o.ty, o.dst)
      [] o.op = "Cast"         -> CastCode(o.ty, o.dst)
      [] o.op \in UnaryOps     -> UnaryCode(o.op, o.ty)
      [] o.op \in BinaryOps    -> BinaryCode(o)
      [] o.op = "Assert"       -> AssertCode(o.ty)
      [] o.op = "Assertz"      -> AssertzCode(o.ty)
      [] o.op = "AssertEq"     -> AssertEqCode(o)
      [] o.op = "Select"       -> SelectCode(o.ty)

\* Multiplication of felts knows no overflow.
Supported(o) ==
    /\ CASE o.op = "Trunc"     -> TruncSupported(o.ty, o.dst)
         [] o.op = "Zext"      -> ZextSupported(o.ty, o.dst)
         [] o.op = "Sext"      -> SextSupported(o.ty, o.dst)
         [] o.op = "Cast"      -> CastSupported(o.ty, o.dst)
         [] o.op \in UnaryOps  -> UnarySupported(o.op, o.ty)
         [] o.op \in BinaryOps -> BinarySupported(o.op, o.ty)
         [] OTHER              -> TRUE
    /\ HasImm(o) => ImmSupported(o)
    /\ (o.op = "Mul" /\ o.ty = "Felt") => o.mode \in {"Unchecked", "Wrapping"}

\* The types of the operands taken, and of those pushed, the top of the stack first.
Takes(o) ==
    CASE o.op = "Literal"  -> << >>
      [] o.op = "Select"   -> <<"I1", o.ty, o.ty>>
      [] o.op \in BinaryOps \cup {"AssertEq"} -> IF HasImm(o) THEN <<o.ty>> ELSE <<o.ty, o.ty>>
      [] OTHER             -> <<o.ty>>

Leaves(o) ==
    CASE o.op \in Assertions                -> << >>
      [] o.op \in Conversions               -> <<o.dst>>
      [] o.op \in Equalities \cup Orderings \cup {"IsOdd"} -> <<"I1">>
      [] o.op = "DivMod"                    -> <<o.ty, o.ty>>
      [] o.op = "IntToPtr"                  -> <<"U32">>
      [] o.op \in Arithmetic /\ o.mode = "Overflowing" -> <<"I1", o.ty>>
      [] OTHER                              -> <<o.ty>>

=============================================================================

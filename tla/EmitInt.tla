------------------------------ MODULE EmitInt ------------------------------
(***************************************************************************)
(* The instruction sequences OpEmitter emits for integers of every width:  *)
(* int32.rs, smallint.rs, int64.rs, int128.rs and felt.rs of               *)
(* codegen/masm/src/stackify/emit.  A method of the source that emits code *)
(* is an operator whose value is that code; no method looks at the stack.  *)
(*                                                                         *)
(* Widths are MasmMachine's: an element holds a "u32" of Bits bits, a      *)
(* "u64" is two elements and an "i128" four, the high bits on top.         *)
(***************************************************************************)
EXTENDS MasmMachine

Modes == {"Unchecked", "Checked", "Wrapping", "Overflowing"}

U32Max  == U32P - 1
SignBit == U32P \div 2

Times(n, op) == [k \in 1..n |-> op]
Do(name) == <<name>>
With(name, imm) == <<name, imm>>
Checked(of) == <<"U32Checked", of>>
\* A procedure of std::math::u64, which the source calls by name only: checked_add is
\* <<"Exec", "checked", "Add">>.
Exec64(variant, of) == << <<"Exec", variant, of>> >>

-----------------------------------------------------------------------------
(* int32.rs: flags, masks and selections.                                  *)

ConstMaskU32(mask) == <<With("PushU32", mask), Checked("And")>>

IsConstFlagSetU32(flags) == <<With("Dup", 0)>> \o ConstMaskU32(flags) \o <<With("EqImm", flags)>>

IsSignedInt32       == IsConstFlagSetU32(SignBit)
AssertUnsignedInt32 == IsSignedInt32 \o <<Do("Assertz")>>

\* True of what is no more than the least negative number, that is of the unsigned.
IsI32 == <<With("Dup", 0), With("PushU32", SignBit), Checked("Lte")>>

AssertEqU32 == <<With("Dup", 1), Do("AssertEq")>>

\* The flag on top picks a when it is set, b when it is not.
SelectInt32(a, b) == <<With("PushU32", b), With("PushU32", a), With("Movup", 2), Do("Cdrop")>>

\* The bits from n on, and the bits from the sign of an n-bit number on.
ReservedMask(n) == U32P - 2^n
SignedMask(n)   == U32P - 2^(n - 1)

Int32ToInt(n) ==
    IsI32 \o SelectInt32(SignedMask(n), 0)
    \o <<With("Dup", 1), With("Dup", 1), Checked("And"), Do("AssertEq")>>

\* The element it tests is the second one.
MaskedReserved(n) == <<With("Dup", 1), With("PushU32", ReservedMask(n)), Checked("And")>>
Int32ToUint(n)    == MaskedReserved(n) \o <<Do("Assertz")>>
TryInt32ToUint(n) == MaskedReserved(n) \o <<With("EqImm", 0)>>

TruncInt32(n) == IF n = Bits THEN << >> ELSE ConstMaskU32(2^(n - 1))

-----------------------------------------------------------------------------
(* int32.rs: extension to a width of whole elements.                       *)

ZextInt32(n) == IF n <= Bits THEN << >>
                ELSE Times((n + Bits - 1) \div Bits - 1, With("PushU32", 0))

\* The value and the pad it copies are counted among the elements needed.
PadInt32(n) == Times(IF n \div Bits < 2 THEN 0 ELSE n \div Bits - 2, With("Dup", 0))
\* Variant: the value is not counted among the elements needed.
SextInt32PadOneMore(n) == IsSignedInt32 \o SelectInt32(U32Max, 0) \o PadInt32(n + Bits)
SextInt32(n) == IsSignedInt32 \o SelectInt32(U32Max, 0) \o PadInt32(n)

-----------------------------------------------------------------------------
(* int32.rs: arithmetic.                                                   *)

\* The instruction on field elements that takes the upper operand as an immediate.
ImmName == [Add |-> "AddImm", Sub |-> "SubImm", Mul |-> "MulImm", Eq |-> "EqImm",
            Neq |-> "NeqImm", Gt |-> "GtImm", Gte |-> "GteImm", Lt |-> "LtImm", Lte |-> "LteImm",
            And |-> "AndImm", Or |-> "OrImm", Xor |-> "XorImm"]
U32Mode(mode) == CASE mode = "Checked"     -> "U32Checked"
                   [] mode = "Wrapping"    -> "U32Wrapping"
                   [] mode = "Overflowing" -> "U32Overflowing"

\* add_u32, sub_u32 and mul_u32.
ArithU32(of, mode) ==
    IF mode = "Unchecked" THEN <<Do(of)>> ELSE << <<U32Mode(mode), of>> >>

\* Adding or subtracting nothing, and multiplying by one, emits nothing in every mode.
ArithImmU32(of, imm, mode) ==
    IF imm = (IF of = "Mul" THEN 1 ELSE 0) THEN << >>
    ELSE IF of = "Mul" /\ imm = 0 THEN <<Do("Drop"), With("PushU32", 0)>>
    ELSE IF mode # "Unchecked" THEN << <<U32Mode(mode), of, imm>> >>
    ELSE IF of = "Add" /\ imm = 1 THEN <<Do("Incr")>>
    ELSE <<With(ImmName[of], imm)>>

\* Division is checked or it is not; the other modes count as unchecked.
DivMode(mode) == IF mode = "Checked" THEN "U32Checked" ELSE "U32Unchecked"
DivU32(of, mode) == << <<DivMode(mode), of>> >>
DivImmU32(of, imm, mode) == << <<DivMode(mode), of, imm>> >>

\* band_imm_u32 to bxor_imm_u32, and min_imm_u32 and max_imm_u32.
PushedU32(of, imm) == <<With("PushU32", imm), Checked(of)>>

-----------------------------------------------------------------------------
(* smallint.rs: integers of n bits, n at most the width of a u32.          *)

\* An i1 is never signed.
IsSignedSmallint(n) ==
    IF n = 1 THEN <<With("PushU32", 0)>> ELSE IsConstFlagSetU32(2^(n - 1))

AssertUnsignedSmallint(n) ==
    IF n = 1 THEN << >> ELSE IsSignedSmallint(n) \o <<Do("Assert")>>

SextSmallint(n, m) ==
    CASE n = m -> << >>
      [] n # m /\ m > Bits ->
             IsSignedSmallint(n) \o <<With("Dup", 0)>> \o SelectInt32(ReservedMask(n), 0)
             \o <<With("Movup", 2), Checked("Or"), With("Swap", 1)>>
             \o SelectInt32(U32Max, 0) \o PadInt32(m)
      [] OTHER -> IsSignedSmallint(n) \o SelectInt32(ReservedMask(n), 0) \o <<Checked("Or")>>

ZextSmallint(n, m) == IF n = m THEN << >> ELSE ZextInt32(m)

HandleUintOverflow(n, mode) ==
    LET wrap == <<"U32Checked", "Mod", 2^n>>
    IN  CASE mode = "Unchecked" -> << >>
          [] mode = "Checked"   -> Int32ToUint(n)
          [] mode = "Wrapping"  -> <<wrap>>
          [] mode = "Overflowing" ->
                 TryInt32ToUint(n) \o <<With("Swap", 1), wrap, With("Swap", 1), Do("Not")>>

\* Addition and multiplication are checked as u32 first; subtraction is done in the mode itself.
FirstMode(of, mode) == IF mode = "Unchecked" \/ of = "Sub" THEN mode ELSE "Checked"

ArithUint(of, n, mode) == ArithU32(of, FirstMode(of, mode)) \o HandleUintOverflow(n, mode)

ArithImmUint(of, imm, n, mode) ==
    IF of = "Sub" /\ imm = 0 THEN << >>
    ELSE ArithImmU32(of, imm, FirstMode(of, mode)) \o HandleUintOverflow(n, mode)

\* The quotient alone is tested again.
FitsAfter(of, n, mode) == IF of = "Div" /\ mode = "Checked" THEN Int32ToUint(n) ELSE << >>
DivUint(of, n, mode) == DivU32(of, mode) \o FitsAfter(of, n, mode)
DivImmUint(of, imm, n, mode) == DivImmU32(of, imm, mode) \o FitsAfter(of, n, mode)

-----------------------------------------------------------------------------
(* int64.rs                                                                *)

LowHalf(x)  == x % U32P
HighHalf(x) == x \div U32P

\* to_raw_parts takes the low bytes for the high part; both calls of it pass that on.
ToRawParts(x) == [hi |-> LowHalf(x), lo |-> HighHalf(x)]
PushU64(x) == LET raw == ToRawParts(x) IN << <<"Push2", raw.lo, raw.hi>> >>

CopyInt64 == Times(2, With("Dup", 1))
MoveInt64Up(n) ==
    CASE n = 0 -> << >> [] n = 1 -> <<With("Movdn", 2)>> [] OTHER -> Times(2, With("Movup", n + 1))

U64ToFelt ==
    CopyInt64 \o PushU64(FeltM) \o Exec64("checked", "Lte") \o <<Do("Assert"), Do("Mul")>>

AssertI64 == CopyInt64 \o PushU64(SignBit * U32P) \o Exec64("checked", "Lte") \o <<Do("Assert")>>

\* The answer of the comparison stays on the stack.
U64ToUint(n) ==
    <<With("PushU32", 0), Do("AssertEq"), With("Dup", 0), With("Push", 2^n - 1),
      <<"U32Unchecked", "Lte">> >>

I64ToInt(n) ==
    <<With("Dup", 0), With("EqImm", 0), With("Dup", 0), With("Movdn", 2)>>
    \o SelectInt32(0, U32Max)
    \o <<Do("AssertEq"), With("Dup", 1)>>
    \o ConstMaskU32(SignedMask(n))
    \o <<With("Dup", 0), With("PushU32", 0), With("Movup", 3), Do("Cdrop"), Do("AssertEq")>>

TruncInt64ToFelt == <<With("MulImm", U32P), Do("Add")>>
TruncInt64(n) == <<Do("Drop")>> \o TruncInt32(n)

\* The element the value has beyond a u32 is taken off the width.
SextInt64(n) == IsSignedInt32 \o SelectInt32(U32Max, 0) \o PadInt32(n - Bits)
ZextInt64(n) == ZextInt32(n - Bits)

\* There is no unchecked variant of the arithmetic on u64.
ModeOf64(mode) == CASE mode = "Checked"     -> "checked"
                    [] mode = "Overflowing" -> "overflowing"
                    [] OTHER                -> "wrapping"

-----------------------------------------------------------------------------
(* felt.rs                                                                 *)

AssertFeltIsZero == <<With("Dup", 0), Do("Assertz")>>
FeltToU64  == <<Do("U32Split")>>
FeltToI64  == FeltToU64 \o AssertUnsignedInt32
FeltToI128 == << Do("U32Split"), <<"Push2", 0, 0>> >>

HighIsZero == <<Do("U32Split"), With("EqImm", 0), Do("Assert")>>
FeltToUint(n) == HighIsZero \o IF n < Bits THEN Int32ToUint(n) ELSE << >>
FeltToInt(n)  == HighIsZero \o AssertUnsignedInt32 \o IF n < Bits THEN Int32ToInt(n) ELSE << >>

SextFelt(n) == IF n = 2 * Bits THEN FeltToI64 ELSE FeltToI128
TruncFelt(n) == <<Do("U32Cast")>> \o TruncInt32(n)

-----------------------------------------------------------------------------
(* int128.rs                                                               *)

PushI128(x) == LET high == x \div U32P^2
                   low  == x % U32P^2
               IN  PushU64(high) \o PushU64(low)

\* The top element is tested twice: on its own, and against the next one.
I128ToU64  == AssertFeltIsZero \o <<Do("AssertEq")>>
I128ToFelt == I128ToU64 \o U64ToFelt

I128ToI64 ==
    IsSignedInt32 \o <<With("Dup", 0)>> \o SelectInt32(U32Max, 0) \o MoveInt64Up(2)
    \o <<With("Movup", 2)>> \o AssertEqU32 \o <<Do("AssertEq"), With("Swap", 1)>>
    \o IsConstFlagSetU32(SignBit) \o <<With("Movup", 2), Do("AssertEq")>>

TruncI128ToFelt == Times(2, Do("Drop")) \o TruncInt64ToFelt

\* Below 32 bits, no element is dropped.
TruncI128(n) ==
    CASE n = 2 * Bits -> Times(2, Do("Drop"))
      [] n = Bits     -> Times(3, Do("Drop"))
      [] n < Bits     -> TruncInt32(n)

EqI128 == <<Do("Eqw"), With("Movdn", 8), Do("Dropw"), Do("Dropw")>>

=============================================================================

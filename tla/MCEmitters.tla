----------------------------- MODULE MCEmitters ----------------------------
EXTENDS Emitters

\* A few values of every type: the ends of the range, the boundaries of the limbs and between.
Some(ty) ==
    CASE ty = "I1"   -> {0, 1}
      [] ty \in {"U8", "U16", "U32"} -> {0, 1, 2, Modulus(ty) \div 2, Modulus(ty) - 1}
      [] ty \in {"I8", "I16", "I32"} -> {0, 1, -1, Least(ty), -Least(ty) - 1}
      [] ty = "U64"  -> {0, 1, 5, U32P - 1, U32P, U32P + 2, FeltM - 1, FeltM, U32P^2 - 1}
      [] ty = "I64"  -> {0, 1, -1, U32P, -U32P, Least(ty), -Least(ty) - 1}
      [] ty = "I128" -> {0, 1, -1, U32P, -(U32P^2), U32P^3, Least(ty), -Least(ty) - 1}
      [] ty = "Felt" -> {0, 1, 2, U32P - 1, U32P, FeltM - 1}

Operand(ty, v) == [ty |-> ty, value |-> v]

\* What the caller keeps below.
Kept == <<Operand("Felt", FeltM - 9)>>

StacksOf(ty) == {<<Operand(ty, x), Operand(ty, y)>> \o Kept : x \in Some(ty), y \in Some(ty)}
ChoicesOf(ty) == {<<Operand("I1", c), Operand(ty, x), Operand(ty, y)>> \o Kept :
                    c \in {0, 1}, x \in Some(ty), y \in Some(ty)}
SinglesOf(ty) == {<<Operand(ty, x)>> \o Kept : x \in Some(ty)}
AllStacks == UNION {SinglesOf(ty) \cup StacksOf(ty) \cup ChoicesOf(ty) : ty \in IntegerType}

Instruction(op, ty) == [op |-> op, ty |-> ty, mode |-> "Checked", dst |-> ty, imm |-> << >>]
ModesOf(op) == IF op \in Arithmetic THEN Modes
               ELSE IF op \in Divisions THEN {"Checked", "Unchecked"} ELSE {"Checked"}

Immediates(ty) == {<<Pattern(ty, v)>> : v \in Some(ty)}

AllOperations ==
    UNION {
      {[Instruction(op, ty) EXCEPT !.dst = dst] : op \in Conversions, dst \in IntegerType}
      \cup {Instruction(op, ty) : op \in UnaryOps \cup Assertions \cup {"Select"}}
      \cup UNION {{[Instruction(op, ty) EXCEPT !.mode = m, !.imm = i] :
                      m \in ModesOf(op), i \in Immediates(ty) \cup {<< >>}} : op \in BinaryOps \cup {"AssertEq"}}
      \cup {[Instruction("Literal", ty) EXCEPT !.imm = i] : i \in Immediates(ty)} : ty \in IntegerType}

-----------------------------------------------------------------------------
(***************************************************************************)
(* The instructions whose code is not what they promise, each with its     *)
(* cause; the run compiles all the others.  README.md lists the causes.    *)
(***************************************************************************)

Narrowing(o) == o.dst \in {"I1", "U8", "I8", "U16", "I16"}
Halved(o) == HasImm(o) /\ ToRawParts(ImmOf(o)).hi # ToRawParts(ImmOf(o)).lo

\* int64.rs:522: the high and the low half of a constant of two elements change places.
SwappedHalves(o) ==
    \/ o.ty \in Wide /\ (Halved(o) \/ o.op = "Incr")
    \/ o.ty = "I128" /\ HasImm(o) /\ Cardinality(Range(Limbs("I128", ImmOf(o)))) > 1

\* int32.rs:268: what tests a small unsigned result looks at the element below it.
TestsWrongElement(o) ==
    o.ty \in Uint \cup {"I1"} /\ \/ o.op \in Arithmetic /\ o.mode \in {"Checked", "Overflowing"}
                                 \/ o.op = "Div" /\ o.mode = "Checked"
                                 \/ o.op \in {"Exp", "Pow2"}

\* int32.rs:309: the mask of a truncation to n bits is the one bit n - 1; unary.rs:418 and
\* smallint.rs leave the bits beyond a small integer as the 32-bit operation left them.
WrongMask(o) ==
    \/ o.op \in {"Shl", "Bxor", "Bnot"} /\ o.ty \in Native \ {"I1", "U32", "I32"}
    \/ o.op = "Trunc" /\ o.ty # o.dst /\ Narrowing(o) /\ (o.dst = "I1" => o.ty = "I128")
    \/ o.op \in {"Bor", "Eq", "Neq"} /\ o.ty \in {"I8", "I16"} /\ HasImm(o) /\ Negative(o.ty, ImmOf(o))
    \/ o.op = "Bor" /\ o.ty = "I1" /\ HasImm(o)

\* int128.rs:127, int64.rs:111 and unary.rs:50: the sign is not looked at, as unary.rs:19 has it.
NegativeTrunc(o) == o.op = "Trunc" /\ o.ty \in {"I32", "I64", "I128"} /\ o.dst = "Felt"

\* Casts: int32.rs:216 and :268, int64.rs:12, :33 and :48, int128.rs:61 and :86, smallint.rs:44.
WrongCast(o) ==
    o.op = "Cast" /\ \/ o.dst # o.ty /\ Narrowing(o) /\ o.ty # "I1" /\ <<o.ty, o.dst>> # <<"I8", "I1">>
                     \/ o.ty = "U64"
                     \/ o.ty \in {"I64", "I128"} /\ o.dst \in {"Felt", "U32"}
                     \/ o.ty = "I64" /\ o.dst = "I32"
                     \/ o.ty \in {"I8", "I16"} /\ o.dst \in {"U32", "U64"}

\* binary.rs:8 to :130: the instructions on words compare four elements, whatever the type.
WrongComparison(o) == o.op \in Equalities /\ o.ty \in Wide \cup {"I128"}

\* A flag of overflow is announced and none is pushed: int32.rs:408, :439 and :472, binary.rs:254
\* and :306.
NoFlag(o) ==
    /\ o.op \in Arithmetic
    /\ o.mode = "Overflowing"
    /\ \/ o.ty = "Felt"
       \/ o.ty = "U32" /\ HasImm(o) /\ ImmOf(o) \in (IF o.op = "Mul" THEN {0, 1} ELSE {0})

\* The product of two u16 fits a u32 of the program, not one of the model.
OutOfScale(o) == o.op = "Mul" /\ o.mode = "Wrapping" /\ o.ty = "U16"

\* The rest, one by one: binary.rs:501, the emulator's unchecked division of
\* u32, the procedures on u64 that take a count of one element, primop.rs:161, unary.rs:323
\* and :363.
Others(o) ==
    \/ o.op = "Div" /\ ((o.ty = "Felt" /\ HasImm(o)) \/ (o.mode = "Unchecked" /\ o.ty \in Narrow /\ o.imm # <<1>>))
    \/ o.op \in Shifts \cup Rotations /\ o.ty = "U64"
    \/ o.op = "Select" /\ o.ty \in Wide
    \/ o.op = "IsOdd"
    \/ o.op = "Popcnt" /\ o.ty \in Wide \cup {"I128"}
    \/ o.op = "Bnot" /\ o.ty = "I128"

HandledOps(o) ==
    ~(\/ SwappedHalves(o) \/ TestsWrongElement(o) \/ WrongMask(o) \/ NegativeTrunc(o) \/ WrongCast(o)
      \/ WrongComparison(o) \/ NoFlag(o) \/ Others(o) \/ OutOfScale(o))
=============================================================================

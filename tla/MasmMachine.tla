---------------------------- MODULE MasmMachine ----------------------------
(***************************************************************************)
(* What each instruction of Miden Assembly does to the operand stack and   *)
(* the memory: the data half of Emulator::next_instruction                 *)
(* (codegen/masm/src/emulator.rs).                                         *)
(*                                                                         *)
(* An instruction is a sequence: its name in enum MasmOp, then its         *)
(* immediates.  The stack is a sequence with the top first.  An            *)
(* instruction looks at its first Arity elements; it panics when they are  *)
(* not there or are not Valid, and otherwise replaces them by its Result.  *)
(*                                                                         *)
(* Elements are those of a field of 2^64 - 2^32 + 1, which is B^2 - B + 1  *)
(* for B = 2^32.  Here a "u32" has Bits bits: with Bits = 4, B is 16 and   *)
(* the field has 241 elements, a prime as well, and a "u64" is a number    *)
(* below 256, so that a u64 that is no element exists, as in the program.  *)
(***************************************************************************)
EXTENDS Integers, Functions, SequencesExt

CONSTANTS
    Bits,      \* the bits of a "u32"
    MemSize    \* words of memory

ASSUME BitsAssumption == Bits \in {2, 4}   \* so that U32P^2 - U32P + 1 is a prime

U32P  == 2^Bits              \* U32_P of the emulator
FeltM == U32P * U32P - U32P + 1    \* the modulus

Felt == 0..FeltM - 1
U32  == 0..U32P - 1

-----------------------------------------------------------------------------
(* The field, of crate winter-math.                                        *)

FeltAdd(x, y) == (x + y) % FeltM
FeltSub(x, y) == (x - y) % FeltM
FeltMul(x, y) == (x * y) % FeltM
FeltNeg(x) == (FeltM - x) % FeltM

FeltExp(x, n) ==
    LET Power[k \in 0..n] == IF k = 0 THEN 1 ELSE FeltMul(x, Power[k - 1])
    IN  Power[n]

\* x^(M - 2): the inverse of zero is zero.
FeltInv(x) == IF x = 0 THEN 0 ELSE CHOOSE y \in Felt : FeltMul(x, y) = 1
FeltDiv(x, y) == FeltMul(x, FeltInv(y))

-----------------------------------------------------------------------------
(* Unsigned integers of a number of bits, of core.                         *)

BitOf(x, i) == (x \div 2^i) % 2
Bool(p) == IF p THEN 1 ELSE 0

\* The number whose bit i is F(i).
FromBits(width, F(_)) ==
    LET Sum[i \in 0..width] == IF i = 0 THEN 0 ELSE Sum[i - 1] + 2^(i - 1) * F(i - 1)
    IN  Sum[width]

BitAnd(width, x, y) == FromBits(width, LAMBDA i : BitOf(x, i) * BitOf(y, i))
BitOr(width, x, y)  == FromBits(width, LAMBDA i : Bool(BitOf(x, i) + BitOf(y, i) > 0))
BitXor(width, x, y) == FromBits(width, LAMBDA i : (BitOf(x, i) + BitOf(y, i)) % 2)
BitNot(width, x) == 2^width - 1 - x

RotateLeft(width, x, n)  == FromBits(width, LAMBDA i : BitOf(x, (i - n) % width))
RotateRight(width, x, n) == FromBits(width, LAMBDA i : BitOf(x, (i + n) % width))

CountOnes(width, x) == FoldFunction(+, 0, [i \in 0..width - 1 |-> BitOf(x, i)])

-----------------------------------------------------------------------------
Name(op) == op[1]
Imm(op) == op[2]
Imm2(op) == op[3]

Word(m, addr) == m[addr]
IsBool(x) == x < 2
IsU32(x) == x < U32P
AllU32(args) == \A i \in DOMAIN args : IsU32(args[i])

-----------------------------------------------------------------------------
(***************************************************************************)
(* The moves of trait Stack, and the instructions that push.               *)
(***************************************************************************)
Pushes == {"Padw", "Push", "Push2", "Pushw", "PushU8", "PushU16", "PushU32"}
Moves == {"Dup", "Dupw", "Swap", "Swapw", "Movup", "Movupw", "Movdn", "Movdnw"}
Drops == {"Drop", "Dropw", "Cdrop", "Cdropw", "Cswap", "Cswapw"}

Pushed(op) ==
    CASE Name(op) = "Padw"  -> <<0, 0, 0, 0>>
      [] Name(op) = "Push2" -> <<Imm2(op), Imm(op)>>
      [] Name(op) = "Pushw" -> Tail(op)
      [] OTHER              -> <<Imm(op)>>

\* movupw and movdnw ask for one element more than they move.
MoveArity(op) ==
    CASE Name(op) \in {"Dup", "Swap", "Movup", "Movdn"} -> Imm(op) + 1
      [] Name(op) \in {"Dupw", "Swapw"}                 -> 4 * Imm(op) + 4
      [] Name(op) \in {"Movupw", "Movdnw"}              -> 4 * Imm(op) + 5

MoveValid(op) == Name(op) \in {"Dup", "Dupw"} \/ Imm(op) # 0

Moved(op, a) ==
    LET n == Imm(op)
        Words(i, j) == SubSeq(a, 4 * i + 1, 4 * j)
        all == Len(a)
    IN  CASE Name(op) = "Dup"    -> <<a[n + 1]>> \o a
          [] Name(op) = "Dupw"   -> Words(n, n + 1) \o a
          [] Name(op) = "Swap"   -> [a EXCEPT ![1] = a[n + 1], ![n + 1] = a[1]]
          [] Name(op) = "Swapw"  -> Words(n, n + 1) \o Words(1, n) \o Words(0, 1)
          [] Name(op) = "Movup"  -> <<a[n + 1]>> \o SubSeq(a, 1, n)
          [] Name(op) = "Movdn"  -> SubSeq(a, 2, n + 1) \o <<a[1]>>
          [] Name(op) = "Movupw" -> Words(n, n + 1) \o Words(0, n) \o <<a[all]>>
          [] Name(op) = "Movdnw" -> Words(1, n + 1) \o Words(0, 1) \o <<a[all]>>

\* A conditional swap looks at what it swaps only when it does.
DropArity(op, s) ==
    LET swaps == s # << >> /\ s[1] = 1
    IN  CASE Name(op) = "Drop"   -> 1
          [] Name(op) = "Dropw"  -> 4
          [] Name(op) = "Cswap"  -> IF swaps THEN 3 ELSE 1
          [] Name(op) = "Cswapw" -> IF swaps THEN 9 ELSE 1
          [] Name(op) = "Cdrop"  -> 3
          [] Name(op) = "Cdropw" -> 9

\* The condition is on top; a true one keeps, or brings up, the upper of the two.
Dropped(op, a) ==
    LET words == SubSeq(a, 2, 5)
        below == SubSeq(a, 6, 9)
    IN  CASE Name(op) \in {"Drop", "Dropw"} -> << >>
          [] Name(op) = "Cswap"  -> IF a[1] = 1 THEN <<a[3], a[2]>> ELSE Tail(a)
          [] Name(op) = "Cdrop"  -> IF a[1] = 1 THEN <<a[2]>> ELSE <<a[3]>>
          [] Name(op) = "Cswapw" -> IF a[1] = 1 THEN below \o words ELSE Tail(a)
          [] Name(op) = "Cdropw" -> IF a[1] = 1 THEN words ELSE below

-----------------------------------------------------------------------------
(***************************************************************************)
(* Memory.  Loading a word replaces the word on top of the stack; storing  *)
(* one leaves it there.                                                    *)
(***************************************************************************)
Loads == {"MemLoad", "MemLoadImm", "MemLoadOffset", "MemLoadOffsetImm", "MemLoadw", "MemLoadwImm"}
Stores == {"MemStore", "MemStoreImm", "MemStoreOffset", "MemStoreOffsetImm", "MemStorew", "MemStorewImm"}

MemArity(op) ==
    CASE Name(op) \in {"MemLoadImm", "MemLoadOffsetImm"}                  -> 0
      [] Name(op) \in {"MemLoad", "MemStoreImm", "MemStoreOffsetImm"}     -> 1
      [] Name(op) \in {"MemLoadOffset", "MemStore"}                       -> 2
      [] Name(op) = "MemStoreOffset"                                      -> 3
      [] Name(op) \in {"MemLoadwImm", "MemStorewImm"}                     -> 4
      [] Name(op) \in {"MemLoadw", "MemStorew"}                           -> 5

MemAddr(op, a) ==
    CASE Name(op) \in {"MemLoad", "MemStore", "MemLoadw", "MemStorew"} -> a[1]
      [] Name(op) \in {"MemLoadOffset", "MemStoreOffset"}              -> a[2]
      [] OTHER                                                         -> Imm(op)

MemOffset(op, a) ==
    CASE Name(op) \in {"MemLoadOffset", "MemStoreOffset"}       -> a[1]
      [] Name(op) \in {"MemLoadOffsetImm", "MemStoreOffsetImm"} -> Imm2(op)
      [] OTHER                                                  -> 0

\* A word named by an immediate must be four words away from the end.
MemValid(op, a) ==
    /\ MemOffset(op, a) < 4
    /\ MemAddr(op, a) < U32P
    /\ MemAddr(op, a) < IF Name(op) \in {"MemLoadwImm", "MemStorewImm"} THEN MemSize - 4 ELSE MemSize

Loaded(op, a, m) ==
    IF Name(op) \in {"MemLoadw", "MemLoadwImm"} THEN Word(m, MemAddr(op, a))
    ELSE <<Word(m, MemAddr(op, a))[MemOffset(op, a) + 1]>>

StoredLeft(op, a) ==
    CASE Name(op) = "MemStorew"    -> Tail(a)
      [] Name(op) = "MemStorewImm" -> a
      [] OTHER                     -> << >>

MemAfter(op, a, m) ==
    CASE Name(op) = "MemStorew"    -> [m EXCEPT ![a[1]] = Tail(a)]
      [] Name(op) = "MemStorewImm" -> [m EXCEPT ![Imm(op)] = a]
      [] OTHER -> [m EXCEPT ![MemAddr(op, a)][MemOffset(op, a) + 1] = a[Len(a)]]

-----------------------------------------------------------------------------
(***************************************************************************)
(* Field elements and booleans.  The upper operand is y, the lower one x.  *)
(***************************************************************************)
FeltUnary == {"AddImm", "SubImm", "MulImm", "DivImm", "Neg", "Inv", "Incr", "Pow2", "ExpImm"}
FeltBinary == {"Add", "Sub", "Mul", "Div", "Exp"}
BoolUnary == {"Not", "AndImm", "OrImm", "XorImm"}
BoolBinary == {"And", "Or", "Xor"}
Comparisons == {"Eq", "Neq", "Gt", "Gte", "Lt", "Lte"}
ComparisonImms == {"EqImm", "NeqImm", "GtImm", "GteImm", "LtImm", "LteImm"}

Exponents == 2 * Bits   \* pow2 and exp take exponents below 64

FeltValid(op, a) ==
    CASE Name(op) \in {"Pow2", "Exp"} -> a[1] < Exponents
      [] Name(op) = "ExpImm"          -> Imm(op) < Exponents
      [] OTHER                        -> TRUE

FeltUnaryValue(op, x) ==
    CASE Name(op) = "AddImm" -> FeltAdd(x, Imm(op))
      [] Name(op) = "SubImm" -> FeltSub(x, Imm(op))
      [] Name(op) = "MulImm" -> FeltMul(x, Imm(op))
      [] Name(op) = "DivImm" -> FeltDiv(x, Imm(op))
      [] Name(op) = "Neg"    -> FeltNeg(x)
      [] Name(op) = "Inv"    -> FeltInv(x)
      [] Name(op) = "Incr"   -> FeltAdd(x, 1)
      [] Name(op) = "Pow2"   -> FeltExp(2, x)
      [] Name(op) = "ExpImm" -> FeltExp(x, Imm(op))

FeltBinaryValue(op, x, y) ==
    CASE Name(op) = "Add" -> FeltAdd(x, y)
      [] Name(op) = "Sub" -> FeltSub(x, y)
      [] Name(op) = "Mul" -> FeltMul(x, y)
      [] Name(op) = "Div" -> FeltDiv(x, y)
      [] Name(op) = "Exp" -> FeltExp(x, y)

BoolValue(op, x, y) ==
    CASE Name(op) = "Not"               -> 1 - x
      [] Name(op) \in {"And", "AndImm"} -> x * y
      [] Name(op) \in {"Or", "OrImm"}   -> Bool(x + y > 0)
      [] Name(op) \in {"Xor", "XorImm"} -> (x + y) % 2

Compare(kind, x, y) ==
    CASE kind = "Eq"  -> x = y
      [] kind = "Neq" -> x # y
      [] kind = "Gt"  -> x > y
      [] kind = "Gte" -> x >= y
      [] kind = "Lt"  -> x < y
      [] kind = "Lte" -> x <= y

\* is_odd answers whether the element is even.
IsOddValue(x) == Bool(x % 2 = 0)

-----------------------------------------------------------------------------
(***************************************************************************)
(* Assertions and tests.  u32assert2 looks at the top element twice.       *)
(***************************************************************************)
Asserts == {"Assert", "Assertz", "AssertEq", "AssertEqw", "U32Assert", "U32Assert2", "U32Assertw"}
Tests == {"U32Test", "U32Testw", "Eqw", "IsOdd", "U32Cast", "U32Split"}

AssertArity(op) ==
    CASE Name(op) \in {"Assert", "Assertz", "U32Assert", "U32Assert2"} -> 1
      [] Name(op) = "AssertEq"   -> 2
      [] Name(op) = "U32Assertw" -> 4
      [] Name(op) = "AssertEqw"  -> 8

AssertHolds(op, a) ==
    CASE Name(op) = "Assert"  -> a[1] = 1
      [] Name(op) = "Assertz" -> a[1] = 0
      [] Name(op) \in {"AssertEq", "AssertEqw"} ->
             SubSeq(a, 1, Len(a) \div 2) = SubSeq(a, Len(a) \div 2 + 1, Len(a))
      [] OTHER -> AllU32(a)

AssertLeft(op, a) == IF Name(op) \in {"U32Assert", "U32Assert2", "U32Assertw"} THEN a ELSE << >>

TestArity(op) ==
    CASE Name(op) = "U32Testw" -> 4 [] Name(op) = "Eqw" -> 8 [] OTHER -> 1

Tested(op, a) ==
    CASE Name(op) \in {"U32Test", "U32Testw"} -> <<Bool(AllU32(a))>> \o a
      [] Name(op) = "Eqw"      -> <<Bool(SubSeq(a, 1, 4) = SubSeq(a, 5, 8))>>
      [] Name(op) = "IsOdd"    -> <<IsOddValue(a[1])>>
      [] Name(op) = "U32Cast"  -> <<a[1] % U32P>>
      [] Name(op) = "U32Split" -> <<a[1] \div U32P, a[1] % U32P>>

-----------------------------------------------------------------------------
(***************************************************************************)
(* Operations on u32 values.  The name of the instruction is the way it    *)
(* treats a value out of range, followed by the operation; an immediate,   *)
(* where there is one, stands for the upper operand: <<"U32Checked",       *)
(* "Add">> is U32CheckedAdd, and <<"U32Checked", "Add", 1>> is             *)
(* U32CheckedAddImm(1).                                                    *)
(***************************************************************************)
U32Modes == {"U32Checked", "U32Overflowing", "U32Wrapping", "U32Unchecked"}
Of(op) == op[2]
U32Ternary == {"Add3", "Madd"}

U32Arity(op) ==
    IF Of(op) \in U32Ternary THEN 3
    ELSE IF Len(op) = 3 \/ Of(op) \in {"Popcnt", "Not"} THEN 1 ELSE 2

Upper(op, a) == IF Len(op) = 3 THEN op[3] ELSE a[1]
Lower(op, a) == a[U32Arity(op)]

Exact(of, x, y) ==
    CASE of = "Add" -> x + y [] of = "Sub" -> x - y [] of = "Mul" -> x * y

DivMods(of, x, y) ==
    CASE of = "Div"    -> <<x \div y>>
      [] of = "Mod"    -> <<x % y>>
      [] of = "DivMod" -> <<x % y, x \div y>>

Shifted(of, x, y) ==
    CASE of = "Shl" -> (x * 2^y) % U32P [] of = "Shr" -> x \div 2^y

Rotated(of, width, x, y) ==
    CASE of = "Rotl" -> RotateLeft(width, x, y) [] of = "Rotr" -> RotateRight(width, x, y)

MinMax(of, x, y) == IF (of = "Min") = (x < y) THEN x ELSE y

Bitwise(op, x, y) ==
    CASE Of(op) = "And" -> BitAnd(Bits, x, y)
      [] Of(op) = "Or"  -> BitOr(Bits, x, y)
      [] Of(op) = "Xor" -> BitXor(Bits, x, y)
      [] Of(op) = "Not" -> BitNot(Bits, x)

CheckedValid(op, a, x, y) ==
    /\ AllU32(a)
    /\ CASE Of(op) \in {"Add", "Sub", "Mul"}    -> Exact(Of(op), x, y) \in U32
         [] Of(op) \in {"Div", "Mod", "DivMod"} -> y # 0
         [] Of(op) \in {"Shl", "Shr"}           -> y < Bits
         [] OTHER                               -> TRUE

CheckedResult(op, x, y) ==
    CASE Of(op) \in {"Add", "Sub", "Mul"}        -> <<Exact(Of(op), x, y)>>
      [] Of(op) \in {"Div", "Mod", "DivMod"}     -> DivMods(Of(op), x, y)
      [] Of(op) \in {"Shl", "Shr"}               -> <<Shifted(Of(op), x, y)>>
      [] Of(op) \in {"Rotl", "Rotr"}             -> <<Rotated(Of(op), Bits, x, y)>>
      [] Of(op) = "Popcnt"                       -> <<CountOnes(Bits, x)>>
      [] Of(op) \in {"Min", "Max"}               -> <<MinMax(Of(op), x, y)>>
      [] Of(op) \in {"And", "Or", "Xor", "Not"}  -> <<Bitwise(op, x, y)>>
      [] Of(op) \in Comparisons                  -> <<Bool(Compare(Of(op), x, y))>>

\* Rust's overflowing operations: the wrapped value, and whether it was.
OverflowingResult(op, a, x, y) ==
    IF Of(op) = "Madd" THEN LET r == x * y + a[3] IN <<r \div U32P, r % U32P>>
    ELSE LET r == Exact(Of(op), x, y) IN <<Bool(r \notin U32), r % U32P>>

WrappingResult(op, a, x, y) ==
    IF Of(op) = "Madd" THEN <<(x * y + a[3]) % U32P>> ELSE <<Exact(Of(op), x, y) % U32P>>

\* Unchecked division is division in the field; unchecked rotation is that of a u64.
UncheckedValid(op, a, y) ==
    CASE Of(op) \in {"Mod", "DivMod"} -> y # 0
      [] Of(op) \in {"Shl", "Shr"}    -> AllU32(a)
      [] Of(op) \in {"Rotl", "Rotr"}  -> IsU32(y)
      [] OTHER                        -> TRUE

UncheckedResult(op, x, y) ==
    CASE Of(op) = "Div"                -> <<FeltDiv(x, y)>>
      [] Of(op) \in {"Mod", "DivMod"} -> DivMods(Of(op), x, y)
      [] Of(op) \in {"Shl", "Shr"}    -> <<Shifted(Of(op), x, y % Bits)>>
      [] Of(op) \in {"Rotl", "Rotr"}  -> <<Rotated(Of(op), 2 * Bits, x, y) % FeltM>>
      [] Of(op) = "Popcnt"            -> <<CountOnes(2 * Bits, x)>>
      [] Of(op) \in {"Min", "Max"}    -> <<MinMax(Of(op), x, y)>>
      [] Of(op) \in Comparisons       -> <<Bool(Compare(Of(op), x, y))>>

\* The three-operand addition is not implemented.
U32Valid(op, a) ==
    LET x == IF Of(op) = "Madd" THEN a[2] ELSE Lower(op, a)
        y == Upper(op, a)
    IN  /\ Of(op) # "Add3"
        /\ CASE Name(op) = "U32Checked"   -> CheckedValid(op, a, x, y)
             [] Name(op) = "U32Unchecked" -> UncheckedValid(op, a, y)
             [] OTHER                     -> AllU32(a)

U32Result(op, a) ==
    LET x == IF Of(op) = "Madd" THEN a[2] ELSE Lower(op, a)
        y == Upper(op, a)
    IN  CASE Name(op) = "U32Checked"     -> CheckedResult(op, x, y)
          [] Name(op) = "U32Overflowing" -> OverflowingResult(op, a, x, y)
          [] Name(op) = "U32Wrapping"    -> WrappingResult(op, a, x, y)
          [] Name(op) = "U32Unchecked"   -> UncheckedResult(op, x, y)

-----------------------------------------------------------------------------
(***************************************************************************)
(* One instruction.                                                        *)
(***************************************************************************)
Arity(op, s) ==
    CASE Name(op) \in Pushes                              -> 0
      [] Name(op) \in Moves                               -> MoveArity(op)
      [] Name(op) \in Drops                               -> DropArity(op, s)
      [] Name(op) \in Loads \cup Stores                   -> MemArity(op)
      [] Name(op) \in Asserts                             -> AssertArity(op)
      [] Name(op) \in Tests                               -> TestArity(op)
      [] Name(op) \in FeltUnary \cup BoolUnary \cup ComparisonImms -> 1
      [] Name(op) \in FeltBinary \cup BoolBinary \cup Comparisons  -> 2
      [] Name(op) \in U32Modes                            -> U32Arity(op)

Valid(op, a) ==
    CASE Name(op) \in Moves                               -> MoveValid(op)
      [] Name(op) \in {"Cswap", "Cswapw", "Cdrop", "Cdropw"} -> IsBool(a[1])
      [] Name(op) \in Loads \cup Stores                   -> MemValid(op, a)
      [] Name(op) \in Asserts                             -> AssertHolds(op, a)
      [] Name(op) \in FeltUnary \cup FeltBinary           -> FeltValid(op, a)
      [] Name(op) \in BoolUnary \cup BoolBinary           -> \A i \in DOMAIN a : IsBool(a[i])
      [] Name(op) \in U32Modes                            -> U32Valid(op, a)
      [] OTHER                                            -> TRUE

\* The comparison a comparison with an immediate makes.
Against == [EqImm |-> "Eq", NeqImm |-> "Neq", GtImm |-> "Gt", GteImm |-> "Gte",
            LtImm |-> "Lt", LteImm |-> "Lte"]

Result(op, a, m) ==
    CASE Name(op) \in Pushes         -> Pushed(op)
      [] Name(op) \in Moves          -> Moved(op, a)
      [] Name(op) \in Drops          -> Dropped(op, a)
      [] Name(op) \in Loads          -> Loaded(op, a, m)
      [] Name(op) \in Stores         -> StoredLeft(op, a)
      [] Name(op) \in Asserts        -> AssertLeft(op, a)
      [] Name(op) \in Tests          -> Tested(op, a)
      [] Name(op) \in FeltUnary      -> <<FeltUnaryValue(op, a[1])>>
      [] Name(op) \in FeltBinary     -> <<FeltBinaryValue(op, a[2], a[1])>>
      [] Name(op) = "Not"            -> <<BoolValue(op, a[1], 0)>>
      [] Name(op) \in BoolUnary      -> <<BoolValue(op, a[1], Imm(op))>>
      [] Name(op) \in BoolBinary     -> <<BoolValue(op, a[2], a[1])>>
      [] Name(op) \in Comparisons    -> <<Bool(Compare(Name(op), a[2], a[1]))>>
      [] Name(op) \in ComparisonImms -> <<Bool(Compare(Against[Name(op)], a[1], Imm(op)))>>
      [] Name(op) \in U32Modes       -> U32Result(op, a)

(***************************************************************************)
(* A machine is its stack, its memory and how it fares: a panic for want   *)
(* of an element is told apart from a panic over the value of one.         *)
(***************************************************************************)
Machine(s, m) == [stack |-> s, memory |-> m, status |-> "running", steps |-> 0]

Perform(op, machine) ==
    LET s == machine.stack
        n == Arity(op, s)
        a == SubSeq(s, 1, n)
    IN  IF Len(s) < n THEN [machine EXCEPT !.status = "underflow"]
        ELSE IF ~Valid(op, a) THEN [machine EXCEPT !.status = "trapped"]
        ELSE [machine EXCEPT
                !.stack = Result(op, a, machine.memory) \o SubSeq(s, n + 1, Len(s)),
                !.memory = IF Name(op) \in Stores THEN MemAfter(op, a, @) ELSE @]

=============================================================================

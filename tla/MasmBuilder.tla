---------------------------- MODULE MasmBuilder ----------------------------
(***************************************************************************)
(* The builder of inline assembly, hir/src/asm/builder.rs: it appends      *)
(* instructions to blocks while it follows, on a stack of types, what they *)
(* will do to the operand stack.                                           *)
(*                                                                         *)
(* An assertion that fails ends the construction, so it is a guard of the  *)
(* action that makes it.                                                   *)
(***************************************************************************)
EXTENDS MasmMachine

CONSTANTS
    Import,       \* what may be called: [params, results, cc] of each function
    MaxBlocks     \* blocks of one inline assembly

Function == DOMAIN Import

-----------------------------------------------------------------------------
(***************************************************************************)
(* The types an element may have, of hir-type.                             *)
(***************************************************************************)
Type == {"I1", "U8", "U16", "U32", "I32", "Felt", "U64", "Ptr"}

Pointee(type) == "Felt"   \* every pointer here is one to a field element
U32Like == {"U8", "U16", "U32", "Ptr"}
FeltLike == {"U8", "U16", "U32", "I32", "Felt"}

(* Type::is_compatible_operand *)
CompatibleOperand(l, r) ==
    CASE l \in {"I1", "U8"}   -> r = l
      [] l = "U16"            -> r \in {"U8", "U16"}
      [] l = "I32"            -> r \in {"U8", "U16", "I32"}
      [] l \in {"U32", "Ptr"} -> r \in {"U8", "U16", "U32"}
      [] l = "Felt"           -> r \in FeltLike
      [] l = "U64"            -> r \in {"U8", "U16", "U32", "U64"}

(* Type::size_in_felts, and the number of Type::to_raw_parts *)
SizeInFelts(type) == 1
RawParts(type) == IF type = "U64" THEN 2 ELSE 1

Size(types) == FoldLeft(LAMBDA n, t : n + SizeInFelts(t), 0, types)
RawSize(types) == FoldLeft(LAMBDA n, t : n + RawParts(t), 0, types)

\* What is pushed for a type: a wide one is an array of bytes for each element.
Parts(type) == IF type = "U64" THEN <<"Bytes", "Bytes">> ELSE <<type>>

-----------------------------------------------------------------------------
(***************************************************************************)
(* MasmOpBuilder: the instruction each method appends.  A method is its    *)
(* name, then its arguments.                                               *)
(***************************************************************************)
StackMethods ==
    [padw |-> "Padw", push |-> "Push", pushw |-> "Pushw", push_u8 |-> "PushU8", push_u16 |-> "PushU16",
     push_u32 |-> "PushU32", drop |-> "Drop", dropw |-> "Dropw", dup |-> "Dup", dupw |-> "Dupw",
     swap |-> "Swap", swapw |-> "Swapw", movup |-> "Movup", movupw |-> "Movupw", movdn |-> "Movdn",
     movdnw |-> "Movdnw"]

\* assert_eqw appends the assertion about two elements.
ConditionalMethods ==
    [cswap |-> "Cswap", cswapw |-> "Cswapw", cdrop |-> "Cdrop", cdropw |-> "Cdropw",
     assert |-> "Assert", assertz |-> "Assertz", assert_eq |-> "AssertEq", assert_eqw |-> "AssertEq"]

MemoryMethods ==
    [load |-> "MemLoad", load_imm |-> "MemLoadImm", load_offset |-> "MemLoadOffset",
     load_offset_imm |-> "MemLoadOffsetImm", loadw |-> "MemLoadw", loadw_imm |-> "MemLoadwImm",
     store |-> "MemStore", store_imm |-> "MemStoreImm", store_offset |-> "MemStoreOffset",
     store_offset_imm |-> "MemStoreOffsetImm", storew |-> "MemStorew", storew_imm |-> "MemStorewImm"]

CallNames == {"Exec", "Syscall"}
CallMethods == [exec |-> "Exec", syscall |-> "Syscall"]

FeltMethods ==
    [add |-> "Add", add_imm |-> "AddImm", sub |-> "Sub", sub_imm |-> "SubImm", mul |-> "Mul",
     mul_imm |-> "MulImm", div |-> "Div", div_imm |-> "DivImm", neg |-> "Neg", inv |-> "Inv",
     incr |-> "Incr", pow2 |-> "Pow2", exp |-> "Exp", exp_imm |-> "ExpImm", not |-> "Not",
     and |-> "And", and_imm |-> "AndImm", or |-> "Or", or_imm |-> "OrImm", xor |-> "Xor",
     xor_imm |-> "XorImm"]

ComparisonMethods ==
    [eq |-> "Eq", eq_imm |-> "EqImm", eqw |-> "Eqw", neq |-> "Neq", neq_imm |-> "NeqImm", gt |-> "Gt",
     gt_imm |-> "GtImm", gte |-> "Gte", gte_imm |-> "GteImm", lt |-> "Lt", lt_imm |-> "LtImm",
     lte |-> "Lte", lte_imm |-> "LteImm", is_odd |-> "IsOdd"]

TestMethods ==
    [test_u32 |-> "U32Test", testw_u32 |-> "U32Testw", assert_u32 |-> "U32Assert",
     assert2_u32 |-> "U32Assert2", assertw_u32 |-> "U32Assertw", cast_u32 |-> "U32Cast",
     split_u32 |-> "U32Split"]

SimpleMethods == [set \in {"stack", "conditional", "memory", "call", "felt", "comparison", "test"} |->
    CASE set = "stack"       -> StackMethods
      [] set = "conditional" -> ConditionalMethods
      [] set = "memory"      -> MemoryMethods
      [] set = "call"        -> CallMethods
      [] set = "felt"        -> FeltMethods
      [] set = "comparison"  -> ComparisonMethods
      [] set = "test"        -> TestMethods]

\* Methods that take what to do about overflow: unchecked means in the field.
OverflowMethods == [add_u32 |-> "Add", sub_u32 |-> "Sub", mul_u32 |-> "Mul"]
OverflowImmMethods ==
    [add_imm_u32 |-> <<"AddImm", "Add">>, sub_imm_u32 |-> <<"SubImm", "Sub">>,
     mul_imm_u32 |-> <<"MulImm", "Mul">>]
OverflowModes ==
    [Checked |-> "U32Checked", Overflowing |-> "U32Overflowing", Wrapping |-> "U32Wrapping"]

\* Methods of three operands, and division.
WideMethods ==
    [add3_overflowing_u32 |-> <<"U32Overflowing", "Add3">>, add3_wrapping_u32 |-> <<"U32Wrapping", "Add3">>,
     madd_overflowing_u32 |-> <<"U32Overflowing", "Madd">>, madd_wrapping_u32 |-> <<"U32Wrapping", "Madd">>]

DivisionMethods ==
    [div_u32 |-> <<"U32Checked", "Div">>, div_imm_u32 |-> <<"U32Checked", "Div">>,
     div_unchecked_u32 |-> <<"U32Unchecked", "Div">>, div_imm_unchecked_u32 |-> <<"U32Unchecked", "Div">>,
     mod_u32 |-> <<"U32Checked", "Mod">>, mod_imm_u32 |-> <<"U32Checked", "Mod">>,
     mod_unchecked_u32 |-> <<"U32Unchecked", "Mod">>, mod_imm_unchecked_u32 |-> <<"U32Unchecked", "Mod">>,
     divmod_u32 |-> <<"U32Checked", "DivMod">>, divmod_imm_u32 |-> <<"U32Checked", "DivMod">>,
     divmod_unchecked_u32 |-> <<"U32Unchecked", "DivMod">>,
     divmod_imm_unchecked_u32 |-> <<"U32Unchecked", "DivMod">>]

BitwiseMethods ==
    [band_u32 |-> <<"U32Checked", "And">>, bor_u32 |-> <<"U32Checked", "Or">>,
     bxor_u32 |-> <<"U32Checked", "Xor">>, bnot_u32 |-> <<"U32Checked", "Not">>,
     popcnt_u32 |-> <<"U32Checked", "Popcnt">>, popcnt_unchecked_u32 |-> <<"U32Unchecked", "Popcnt">>]

ShiftMethods ==
    [shl_u32 |-> <<"U32Checked", "Shl">>, shl_imm_u32 |-> <<"U32Checked", "Shl">>,
     shl_unchecked_u32 |-> <<"U32Unchecked", "Shl">>, shl_unchecked_imm_u32 |-> <<"U32Unchecked", "Shl">>,
     shr_u32 |-> <<"U32Checked", "Shr">>, shr_imm_u32 |-> <<"U32Checked", "Shr">>,
     shr_unchecked_u32 |-> <<"U32Unchecked", "Shr">>, shr_unchecked_imm_u32 |-> <<"U32Unchecked", "Shr">>,
     rotl_u32 |-> <<"U32Checked", "Rotl">>, rotl_imm_u32 |-> <<"U32Checked", "Rotl">>,
     rotl_unchecked_u32 |-> <<"U32Unchecked", "Rotl">>, rotl_unchecked_imm_u32 |-> <<"U32Unchecked", "Rotl">>,
     rotr_u32 |-> <<"U32Checked", "Rotr">>, rotr_imm_u32 |-> <<"U32Checked", "Rotr">>,
     rotr_unchecked_u32 |-> <<"U32Unchecked", "Rotr">>, rotr_unchecked_imm_u32 |-> <<"U32Unchecked", "Rotr">>]

CompareU32Methods ==
    [eq_u32 |-> <<"U32Checked", "Eq">>, eq_imm_u32 |-> <<"U32Checked", "Eq">>,
     neq_u32 |-> <<"U32Checked", "Neq">>, neq_imm_u32 |-> <<"U32Checked", "Neq">>,
     lt_u32 |-> <<"U32Checked", "Lt">>, lt_unchecked_u32 |-> <<"U32Unchecked", "Lt">>,
     lte_u32 |-> <<"U32Checked", "Lte">>, lte_unchecked_u32 |-> <<"U32Unchecked", "Lte">>,
     gt_u32 |-> <<"U32Checked", "Gt">>, gt_unchecked_u32 |-> <<"U32Unchecked", "Gt">>,
     gte_u32 |-> <<"U32Checked", "Gte">>, gte_unchecked_u32 |-> <<"U32Unchecked", "Gte">>,
     min_u32 |-> <<"U32Checked", "Min">>, min_unchecked_u32 |-> <<"U32Unchecked", "Min">>,
     max_u32 |-> <<"U32Checked", "Max">>, max_unchecked_u32 |-> <<"U32Unchecked", "Max">>]

U32Methods ==
    <<WideMethods, DivisionMethods, BitwiseMethods, ShiftMethods, CompareU32Methods>>

\* The instruction that the call m of a method appends.
Built(m) ==
    IF m[1] \in DOMAIN OverflowMethods THEN
        IF m[2] = "Unchecked" THEN <<OverflowMethods[m[1]]>>
        ELSE <<OverflowModes[m[2]], OverflowMethods[m[1]]>>
    ELSE IF m[1] \in DOMAIN OverflowImmMethods THEN
        IF m[3] = "Unchecked" THEN <<OverflowImmMethods[m[1]][1], m[2]>>
        ELSE <<OverflowModes[m[3]], OverflowImmMethods[m[1]][2], m[2]>>
    ELSE IF \E i \in DOMAIN U32Methods : m[1] \in DOMAIN U32Methods[i] THEN
        LET i == CHOOSE i \in DOMAIN U32Methods : m[1] \in DOMAIN U32Methods[i]
        IN  U32Methods[i][m[1]] \o Tail(m)
    ELSE
        LET set == CHOOSE set \in DOMAIN SimpleMethods : m[1] \in DOMAIN SimpleMethods[set]
        IN  <<SimpleMethods[set][m[1]]>> \o Tail(m)

-----------------------------------------------------------------------------
(***************************************************************************)
(* apply_op_stack_effects: how many types an instruction takes from the    *)
(* stack, what it asserts of them, and what it puts there.  Where the code *)
(* pops y and then x, y is a[1] and x is a[2].                             *)
(***************************************************************************)
Felts(n) == [i \in 1..n |-> "Felt"]

PushedTypes(op) ==
    CASE Name(op) \in {"Padw", "Pushw"} -> Felts(4)
      [] Name(op) = "Push2"             -> Felts(2)
      [] Name(op) = "Push"              -> <<"Felt">>
      [] Name(op) = "PushU8"            -> <<"U8">>
      [] Name(op) = "PushU16"           -> <<"U16">>
      [] Name(op) = "PushU32"           -> <<"U32">>

\* A conditional drop drops the upper of the two, whatever the condition will be.
DropTypes(op) ==
    CASE Name(op) \in {"Drop", "Cswap", "Cswapw", "Assert", "Assertz"} -> 1
      [] Name(op) \in {"Cdrop", "AssertEq"}                            -> 2
      [] Name(op) = "Dropw"                                            -> 4
      [] Name(op) = "Cdropw"                                           -> 5
      [] Name(op) = "AssertEqw"                                        -> 8

NeedsBool == {"Cswap", "Cswapw", "Cdrop", "Cdropw"}
ByPointer == {"MemLoad", "MemLoadOffset", "MemLoadw", "MemStore", "MemStoreOffset", "MemStorew"}

MemTypes(op) ==
    CASE Name(op) \in {"MemLoad", "MemLoadOffset", "MemLoadw"}              -> 1
      [] Name(op) \in {"MemLoadImm", "MemLoadOffsetImm", "MemLoadwImm"}     -> 0
      [] Name(op) \in {"MemStore", "MemStoreOffset"}                        -> 2
      [] Name(op) \in {"MemStoreImm", "MemStoreOffsetImm"}                  -> 1
      [] Name(op) = "MemStorew"                                             -> 5
      [] Name(op) = "MemStorewImm"                                          -> 4

LoadedTypes(op, a) ==
    CASE Name(op) \in {"MemLoad", "MemLoadOffset"}       -> <<Pointee(a[1])>>
      [] Name(op) \in {"MemLoadImm", "MemLoadOffsetImm"} -> <<"Felt">>
      [] Name(op) \in {"MemLoadw", "MemLoadwImm"}        -> Felts(4)
      [] OTHER                                           -> << >>

\* Tests look at elements and leave them; U32Assert2 asks for two.
Looks == {"U32Test", "U32Testw", "U32Assert", "U32Assert2", "U32Assertw"}
LookTypes(op) ==
    CASE Name(op) \in {"U32Test", "U32Assert"}   -> 1
      [] Name(op) = "U32Assert2"                 -> 2
      [] Name(op) \in {"U32Testw", "U32Assertw"} -> 4

TestTypes(op, a) ==
    CASE Name(op) = "U32Cast"  -> <<"U32">>
      [] Name(op) = "U32Split" -> <<"U32", "U32">>
      [] OTHER                 -> <<"I1">>

CompatibleFelts(x, y) == x \in FeltLike /\ CompatibleOperand(x, y)
CompatibleU32s(x, y) == x \in U32Like /\ CompatibleOperand(x, y)
CompatibleU32(x) == x \in U32Like

U32TypesValid(op, a) ==
    LET x == Lower(op, a)
    IN  CASE Of(op) = "Add3" -> CompatibleU32s(x, a[2]) /\ CompatibleU32s(x, a[1])
          [] Of(op) = "Madd" -> CompatibleU32s(a[2], a[1]) /\ CompatibleU32s(a[2], a[3])
          [] Len(a) = 1      -> CompatibleU32(x)
          [] Of(op) \in Comparisons /\ x = "Ptr" -> CompatibleU32(a[1])
          [] OTHER           -> CompatibleU32s(x, a[1])

\* The quotient and the remainder of a divmod are one type here.
U32Types(op, a) ==
    LET x == IF Of(op) = "Madd" THEN a[2] ELSE Lower(op, a)
    IN  CASE Of(op) \in Comparisons                            -> <<"I1">>
          [] Of(op) \in U32Ternary /\ Name(op) = "U32Overflowing" -> <<"U32", x>>
          [] Name(op) = "U32Overflowing"                       -> <<"I1", x>>
          [] OTHER                                             -> <<x>>

(* execute_call, of exec and of syscall alike: no kernel function *)
CallValid(op, s) == Import[Imm(op)].cc # "Kernel" /\ Size(Import[Imm(op)].params) <= Len(s)
CallTypes(op) == FlattenSeq([i \in DOMAIN Import[Imm(op)].results |-> Parts(Import[Imm(op)].results[i])])

TypeArity(op) ==
    CASE Name(op) \in Pushes                             -> 0
      [] Name(op) \in Moves                              -> MoveArity(op)
      [] Name(op) \in Drops \cup (Asserts \ Looks)       -> DropTypes(op)
      [] Name(op) \in Loads \cup Stores                  -> MemTypes(op)
      [] Name(op) \in Looks                              -> LookTypes(op)
      [] Name(op) \in CallNames                          -> Size(Import[Imm(op)].params)
      [] OTHER                                           -> Arity(op, << >>)

TypesValid(op, a) ==
    CASE Name(op) \in Moves                -> MoveValid(op)
      [] Name(op) \in NeedsBool            -> a[1] = "I1"
      [] Name(op) \in ByPointer            -> a[1] = "Ptr"
      [] Name(op) \in {"U32Cast", "U32Split"} -> a[1] = "Felt"
      [] Name(op) \in FeltUnary \cup ComparisonImms \cup {"IsOdd"} -> CompatibleOperand("Felt", a[1])
      [] Name(op) \in FeltBinary \cup Comparisons -> CompatibleFelts(a[2], a[1])
      [] Name(op) \in BoolUnary \cup BoolBinary -> \A i \in DOMAIN a : a[i] = "I1"
      [] Name(op) \in U32Modes             -> U32TypesValid(op, a)
      [] Name(op) \in CallNames            -> CallValid(op, a)
      [] OTHER                             -> TRUE

TypesAfter(op, a) ==
    CASE Name(op) \in Pushes                -> PushedTypes(op)
      [] Name(op) \in Moves                 -> Moved(op, a)
      [] Name(op) \in Drops \cup (Asserts \ Looks) -> << >>
      [] Name(op) \in Loads \cup Stores     -> LoadedTypes(op, a)
      [] Name(op) \in {"U32Test", "U32Testw"} -> <<"I1">> \o a
      [] Name(op) \in Looks                 -> a
      [] Name(op) \in Tests                 -> TestTypes(op, a)
      [] Name(op) \in FeltUnary             -> a
      [] Name(op) \in FeltBinary \cup BoolUnary \cup BoolBinary -> <<Last(a)>>
      [] Name(op) \in Comparisons \cup ComparisonImms -> <<"I1">>
      [] Name(op) \in U32Modes              -> U32Types(op, a)
      [] Name(op) \in CallNames             -> CallTypes(op)

Applies(op, types) ==
    /\ Len(types) >= TypeArity(op)
    /\ TypesValid(op, SubSeq(types, 1, TypeArity(op)))

Apply(op, types) ==
    LET n == TypeArity(op)
    IN  TypesAfter(op, SubSeq(types, 1, n)) \o SubSeq(types, n + 1, Len(types))

=============================================================================

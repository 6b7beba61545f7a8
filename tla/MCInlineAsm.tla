---------------------------- MODULE MCInlineAsm ----------------------------
(***************************************************************************)
(* Small instances of InlineAsm.                                           *)
(***************************************************************************)
EXTENDS InlineAsm

MCImport == [f |-> [params |-> <<"U32", "U32">>, results |-> <<"I1">>, cc |-> "Fast"],
             g |-> [params |-> <<"U32">>, results |-> <<"U64">>, cc |-> "SystemV"],
             k |-> [params |-> << >>, results |-> <<"U32">>, cc |-> "Kernel"]]

Use(args, methods) == [args |-> args, methods |-> methods]

\* Moves and conditions; field elements; u32 values; memory; calls.
MCUses ==
    {Use(<<"I1", "U32", "I1">>,
         {<<"push_u32", 1>>, <<"drop">>, <<"dup", 1>>, <<"movup", 2>>, <<"not">>, <<"cdrop">>, <<"cswap">>}),
     Use(<<"Felt", "I1">>,
         {<<"push", 1>>, <<"add">>, <<"eq_imm", 1>>, <<"xor">>, <<"assert">>, <<"split_u32">>, <<"swap", 1>>}),
     Use(<<"U32", "U32">>,
         {<<"dup", 0>>, <<"add_u32", "Overflowing">>, <<"sub_imm_u32", 1, "Wrapping">>,
          <<"madd_overflowing_u32">>, <<"lt_unchecked_u32">>, <<"assert_eq">>}),
     Use(<<"Ptr", "U32", "I1">>,
         {<<"dup", 0>>, <<"load">>, <<"store">>, <<"store_imm", 0>>, <<"padw">>, <<"dropw">>, <<"neq_imm", 1>>}),
     Use(<<"U32", "U32">>,
         {<<"exec", "f">>, <<"exec", "g">>, <<"syscall", "k">>, <<"push_u32", 1>>, <<"movdn", 2>>, <<"test_u32">>})}

MCResultTypes == {<< >>, <<"U32">>, <<"Felt", "I1">>, <<"U32", "I1", "U32">>}

\* The builder asks a conditional drop or swap for its condition and for the elements it
\* drops; the machine takes both of the two it chooses between.
OperandsPresent(op, types) ==
    /\ Name(op) \in {"Cdrop", "Cswap"} => Len(types) >= 3
    /\ Name(op) \in {"Cdropw", "Cswapw"} => Len(types) >= 9

\* Which of the two is kept, or comes up, is known when it runs; the builder leaves the
\* types as they lie.
SameTypes(op, types) ==
    /\ Name(op) \in {"Cdrop", "Cswap"} /\ Len(types) >= 3 => types[2] = types[3]
    /\ Name(op) \in {"Cdropw", "Cswapw"} /\ Len(types) >= 9 => SubSeq(types, 2, 5) = SubSeq(types, 6, 9)

AlikeOperands(op, types) == OperandsPresent(op, types) /\ SameTypes(op, types)

\* A repeated body with a branch or a loop in it leaves the types it met.
SameDepth(after, before) == after = before
AnyDepth(after, before) == TRUE

\* The smallest body that does not: a loop that looks below what it was built on.
DeepUses == {Use(<<"I1", "I1", "I1">>, {<<"dup", 1>>})}

\* Instructions whose reckoned effect is not that of the machine: a division leaves a
\* quotient and a remainder, one type to the builder; loading a word overwrites one;
\* an offset is an element of its own; a word that is stored stays.
DivModUses == {Use(<<"U32", "U32">>, {<<"divmod_u32">>, <<"drop">>})}
LoadwUses  == {Use(<<"Ptr">>, {<<"loadw">>, <<"loadw_imm", 0>>, <<"drop">>})}
OffsetUses == {Use(<<"Ptr", "U32">>, {<<"load_offset">>, <<"store_offset">>, <<"drop">>})}
StorewUses == {Use(<<"Ptr">>, {<<"padw">>, <<"movup", 4>>, <<"storew">>})}

=============================================================================

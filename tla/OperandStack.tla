---------------------------- MODULE OperandStack ----------------------------
(***************************************************************************)
(* The two stacks of the code generator.  OperandStack, in                 *)
(* codegen/masm/src/stackify/operand_stack.rs, is what the compiler        *)
(* believes: a stack of operands, each one to four field elements wide.    *)
(* The trait Stack, in hir/src/asm/stack.rs, is what the emitted           *)
(* instructions act on: a stack of field elements.  Both are sequences     *)
(* here, with the top first, and both count positions from 0 at the top.   *)
(***************************************************************************)
EXTENDS Integers, Sequences, SequencesExt

CONSTANT Reach   \* how many elements are directly accessible, 16 in the code

WordSize == 4

-----------------------------------------------------------------------------
(* Moves, the same for operands and for elements.                          *)

Nth(s, n) == s[n + 1]
Without(s, n) == SubSeq(s, n + 1, Len(s))
DupTop(s, n) == << Nth(s, n) >> \o s
SwapTop(s, n) == [s EXCEPT ![1] = Nth(s, n), ![n + 1] = s[1]]
MoveUp(s, n) == << Nth(s, n) >> \o RemoveAt(s, n + 1)
MoveDown(s, n) == InsertAt(Tail(s), n + 1, Head(s))

\* What the moves assert of the position.
CanMove(s, n) == n # 0 /\ n < Len(s)

-----------------------------------------------------------------------------
(* Operands: the value one stands for, and its width in elements.          *)

RawLen(s) == FoldLeft(LAMBDA sum, operand : sum + operand.size, 0, s)

\* Where the first and the last element of the nth operand are on the stack of elements.
EffectiveIndex(s, n) == RawLen(SubSeq(s, 1, n))
EffectiveIndexInclusive(s, n) == RawLen(SubSeq(s, 1, n + 1)) - 1

\* What indexing asserts: every element down to the end of the operand is accessible.
Indexable(s, n) == n < Len(s) /\ EffectiveIndexInclusive(s, n) < Reach

\* The topmost operand that stands for v.
OnStack(s, v) == \E i \in DOMAIN s : s[i].kind = "value" /\ s[i].value = v
Find(s, v) ==
    (CHOOSE i \in DOMAIN s : /\ s[i].kind = "value" /\ s[i].value = v
                             /\ \A j \in 1 .. i - 1 : ~(s[j].kind = "value" /\ s[j].value = v)) - 1

\* The type, so the width, is assumed to remain unchanged.
Rename(s, n, v) == [s EXCEPT ![n + 1] = [kind |-> "value", value |-> v, size |-> @.size]]

=============================================================================

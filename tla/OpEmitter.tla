----------------------------- MODULE OpEmitter -----------------------------
(***************************************************************************)
(* OpEmitter, codegen/masm/src/stackify/emit/mod.rs: every method changes  *)
(* the compiler's operand stack and emits the instructions that are to     *)
(* change the machine's stack in the same way.                             *)
(*                                                                         *)
(* An emitter is a record: the operand stack, the instructions emitted so  *)
(* far and the stack of the machine after them, how the compilation stands *)
(* ("ok", "panic" when an assertion of the compiler failed, "fault" when   *)
(* an emitted instruction cannot run), and whether an emitted instruction  *)
(* names an element that is not directly accessible.                       *)
(***************************************************************************)
EXTENDS OperandStack

Require(e, condition, next) ==
    IF e.outcome # "ok" THEN e ELSE IF condition THEN next ELSE [e EXCEPT !.outcome = "panic"]

-----------------------------------------------------------------------------
(* The stack instructions, as the emulator runs them.                      *)

Op(name, at) == [name |-> name, at |-> at]
Copies(n, op) == [k \in 1 .. n |-> op]

Runnable(op, vm) ==
    CASE op.name = "dup"   -> op.at < Len(vm) /\ op.at < Reach
      [] op.name = "drop"  -> Len(vm) >= 1
      [] op.name = "dropw" -> Len(vm) >= WordSize
      [] OTHER             -> CanMove(vm, op.at)

Run(op, vm) ==
    CASE op.name = "dup"   -> DupTop(vm, op.at)
      [] op.name = "swap"  -> SwapTop(vm, op.at)
      [] op.name = "movup" -> MoveUp(vm, op.at)
      [] op.name = "movdn" -> MoveDown(vm, op.at)
      [] op.name = "drop"  -> Without(vm, 1)
      [] op.name = "dropw" -> Without(vm, WordSize)

Execute(e, op) ==
    IF e.outcome # "ok" THEN e
    ELSE IF Runnable(op, e.vm)
         THEN [e EXCEPT !.vm = Run(op, e.vm), !.far = e.far \/ op.at >= Reach,
                        !.code = Append(@, op)]
         ELSE [e EXCEPT !.outcome = "fault"]

Emit(e, ops) == FoldLeft(Execute, e, ops)

\* The operand stack becomes s, and ops are emitted.
Becomes(e, s, ops) == Emit([e EXCEPT !.stack = s], ops)

-----------------------------------------------------------------------------
(* The methods.                                                            *)

Dup(e, i) ==
    LET size == Nth(e.stack, i).size
        at == EffectiveIndex(e.stack, i) + size - 1
    IN  Require(e, i < Reach /\ Indexable(e.stack, i),
                Becomes(e, DupTop(e.stack, i), Copies(size, Op("dup", at))))

\* Neither move looks at how deep the elements of the operand are, only at its position.
Movup(e, i) ==
    LET size == Nth(e.stack, i).size
        at == EffectiveIndex(e.stack, i) + size - 1
    IN  Require(e, i < Reach /\ CanMove(e.stack, i),
                Becomes(e, MoveUp(e.stack, i), Copies(size, Op("movup", at))))

\* Variant: above the operand, not below it.
MovdnToFirst(e, i) ==
    Require(e, i < Reach /\ CanMove(e.stack, i),
            Becomes(e, MoveDown(e.stack, i),
                    Copies(e.stack[1].size, Op("movdn", EffectiveIndex(e.stack, i)))))

Movdn(e, i) ==
    LET at == EffectiveIndexInclusive(e.stack, i)
    IN  Require(e, i < Reach /\ CanMove(e.stack, i),
                Becomes(e, MoveDown(e.stack, i), Copies(e.stack[1].size, Op("movdn", at))))

\* An operand of n elements trades places with one of m, whose first element is at `at`.
SwapOps(n, m, at) ==
    CASE n = 1 /\ m = 1           -> << Op("swap", at) >>
      [] at = n /\ m = 1 /\ n > 1 -> << Op("movup", at) >>
      [] at = n /\ m > 1          -> Copies(n, Op("movdn", at + m - 1))
      [] OTHER -> Copies(n, Op("movdn", at + m - 1)) \o
                    (IF at + m - n = 2 THEN << Op("swap", 1) >>
                                       ELSE Copies(m, Op("movup", at + m - n - 1)))

Swap(e, i) ==
    LET n == e.stack[1].size
        m == Nth(e.stack, i).size
        at == EffectiveIndex(e.stack, i)
        generic == at # n /\ ~(n = 1 /\ m = 1)
    IN  Require(e, /\ 0 < i /\ i < Reach /\ Indexable(e.stack, 0) /\ Indexable(e.stack, i)
                   /\ generic => (at >= n /\ (at + m - n = 2 => m = 1)),
                Becomes(e, SwapTop(e.stack, i), SwapOps(n, m, at)))

\* As few instructions as drop n elements.
DropOps(n) == Copies(n \div WordSize, Op("dropw", 0)) \o Copies(n % WordSize, Op("drop", 0))

Drop(e) == Require(e, e.stack # << >>, Becomes(e, Tail(e.stack), DropOps(e.stack[1].size)))

Dropn(e, n) == Require(e, n # 0 /\ n <= Len(e.stack),
                       Becomes(e, Without(e.stack, n), DropOps(EffectiveIndex(e.stack, n))))

DropOperandAt(e, n) ==
    CASE n = 0 -> Drop(e)
      [] n = 1 -> Drop(Swap(e, 1))
      [] n > 1 -> Drop(Movup(e, n))

\* Emptying the stack drops a word for every element that is left over.
TruncateStack(e, n) ==
    LET size == Len(e.stack)
        raw == RawLen(e.stack)
    IN  IF n = 0
        THEN Becomes(e, << >>, Copies((raw \div WordSize) + (raw % WordSize), Op("dropw", 0)))
        ELSE Require(e, n <= size,
                     FoldLeft(DropOperandAt, e, [k \in 1 .. size - n |-> size - k]))

\* A commutative operator takes the two top operands in either order.
CopyOperandToPosition(e, n, m, commutative) ==
    CASE m = 0                -> Dup(e, n)
      [] m = 1 /\ commutative  -> Dup(e, n)
      [] m = 1 /\ ~commutative -> Swap(Dup(e, n), 1)
      [] m > 1                -> Movdn(Dup(e, n), m)

MoveOperandToPosition(e, n, m, commutative) ==
    CASE n = m                                  -> e
      [] {n, m} = {0, 1} /\ commutative         -> e
      [] {n, m} = {0, 1} /\ ~commutative        -> Swap(e, 1)
      [] n > 1 /\ m = 0                         -> Movup(e, n)
      [] n > 1 /\ m = 1                         -> Swap(Movup(e, n), 1)
      [] n # m /\ m > 1                         -> Movdn(Movup(e, n), m)

RenameOperand(e, n, v) == Require(e, Indexable(e.stack, n), [e EXCEPT !.stack = Rename(@, n, v)])

-----------------------------------------------------------------------------
(* How MasmEmitter, in stackify/pass.rs, leaves the stack to a successor.  *)

\* An operand that is kept is passed over, another is dropped; index is where it has got to.
KeepOrDrop(kept, acc, operand) ==
    IF operand.kind = "value" /\ operand.value \in kept
    THEN [e |-> Require(acc.e, Indexable(acc.e.stack, acc.index), acc.e), index |-> acc.index + 1]
    ELSE [e |-> Require(acc.e, Indexable(acc.e.stack, acc.index), DropOperandAt(acc.e, acc.index)),
          index |-> acc.index]

\* Drops, from the top down, what is neither used nor live.
DropUnused(e, used, live) ==
    FoldLeft(LAMBDA acc, operand : KeepOrDrop(used \union live, acc, operand),
             [e |-> e, index |-> 0], e.stack).e

\* Whether any later argument is the same value.
IsLastUse(args, i) == \A j \in i + 1 .. Len(args) : args[j] # args[i]

PlaceArgument(e, args, i) ==
    Require(e, OnStack(e.stack, args[i]),
            IF IsLastUse(args, i)
            THEN MoveOperandToPosition(e, Find(e.stack, args[i]), i - 1, FALSE)
            ELSE CopyOperandToPosition(e, Find(e.stack, args[i]), i - 1, FALSE))

\* Variant: the first argument ends up below the others.
PrepareFirstDeepest(e, args, params) ==
    LET indices == [i \in 1 .. Len(args) |-> i]
        placed == FoldLeft(LAMBDA f, i : MoveOperandToPosition(f, Find(f.stack, args[i]), 0, FALSE),
                           e, indices)
    IN  FoldLeft(LAMBDA f, i : RenameOperand(f, Len(args) - i, params[i]), placed, indices)

PrepareStackArguments(e, args, params) ==
    LET indices == [i \in 1 .. Len(args) |-> i]
        placed == FoldLeft(LAMBDA f, i : PlaceArgument(f, args, i), e, indices)
    IN  FoldLeft(LAMBDA f, i : RenameOperand(f, i - 1, params[i]), placed, indices)

\* Variant: arguments count as unused.
LeaveDropping(e, args, params, live, drops) ==
    PrepareStackArguments(IF drops THEN DropUnused(e, {}, live) ELSE e, args, params)

LeaveTo(e, args, params, live, drops) ==
    PrepareStackArguments(IF drops THEN DropUnused(e, ToSet(args), live) ELSE e, args, params)

=============================================================================

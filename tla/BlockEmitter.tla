---------------------------- MODULE BlockEmitter ----------------------------
(***************************************************************************)
(* How MasmEmitter, codegen/masm/src/stackify/pass.rs, emits the code of   *)
(* one basic block: instructions whose arguments are values on the operand *)
(* stack, and the terminator, which leaves the stack as the successor      *)
(* expects it.  The block starts with any of the values on the stack in    *)
(* any order, above what the function's caller keeps there.                *)
(*                                                                         *)
(* Instructions are emitted and run in the same step, so that vm is always *)
(* the stack of the machine at the point the compiler has reached.  Values *)
(* are numbers, because dependencies are visited in the order of their     *)
(* numbers.  What liveness analysis says is an input of every step.        *)
(***************************************************************************)
EXTENDS OpEmitter, FiniteSets

CONSTANTS
    Value,         \* the SSA values, numbered
    WidthOf,       \* how many elements a value takes
    Params,        \* the parameters of the successor block, other values
    CallerDepth,   \* how many elements of the caller are below
    MaxOperands,   \* bound: how many operands the block has on the stack
    Shapes         \* what the block contains besides the plain forms

ASSUME BlockAssumption ==
    /\ Reach \in Nat /\ CallerDepth \in Nat /\ MaxOperands \in Nat
    /\ Value \subseteq Nat /\ IsFiniteSet(Value) /\ WidthOf \in [Value -> 1 .. WordSize]
    /\ Params \in Seq(Nat \ Value) /\ IsInjective(Params)
    /\ Shapes \subseteq {"unordered", "repeated", "commutative", "global", "empty return"}

VARIABLES
    stack,     \* what the compiler believes
    vm,        \* the machine's stack
    outcome,   \* how the compilation stands
    far,       \* whether an instruction names an element out of reach
    request    \* what the last instruction or terminator asked for, and got

vars == << stack, vm, outcome, far, request >>

-----------------------------------------------------------------------------
(* Operands and the elements they stand for.                               *)

Operand(v) == [kind |-> "value", value |-> v, size |-> WidthOf[v]]
Constant == [kind |-> "const", value |-> 0, size |-> 1]

Limbs(operand) == [k \in 1 .. operand.size |-> << operand.kind, operand.value, k >>]
CallerElements == [k \in 1 .. CallerDepth |-> << "caller", 0, k >>]

\* A parameter of the successor means the argument passed for it.
Meaning(args, operand) ==
    IF operand.kind = "value" /\ operand.value \in ToSet(Params)
    THEN LET i == CHOOSE i \in DOMAIN Params : Params[i] = operand.value
         IN  Limbs([operand EXCEPT !.value = args[i]])
    ELSE Limbs(operand)

Elements(args, s) == FoldLeft(LAMBDA es, operand : es \o Meaning(args, operand), << >>, s)

Values(s) == {s[i].value : i \in {j \in DOMAIN s : s[j].kind = "value"}}

Emitter == [stack |-> stack, code |-> << >>, vm |-> vm, outcome |-> outcome, far |-> far]
IsNow(e) == /\ stack' = e.stack /\ vm' = e.vm
            /\ outcome' = e.outcome /\ far' = e.far

\* What was asked for: the values, in order, what is live afterwards, and what was delivered.
Asks(kind, args, live, got) ==
    request' = [kind |-> kind, args |-> args, live |-> live, got |-> got]

Open == outcome = "ok" /\ request.kind \in {"none", "instruction", "commutative"}

-----------------------------------------------------------------------------
(* The arguments of an instruction.                                        *)

\* Variant: the order is not reversed.
DependenciesInOrder(args) ==
    LET values == ToSet(args)
    IN  [k \in 1 .. Cardinality(values) |->
            CHOOSE v \in values : Cardinality({w \in values : w < v}) = k - 1]

\* The dependencies of an instruction, in the order they are emitted: each value once, highest
\* first, so that the kth has k - 1 above it.
Dependencies(args) ==
    LET values == ToSet(args)
    IN  [k \in 1 .. Cardinality(values) |->
            CHOOSE v \in values : Cardinality({w \in values : w > v}) = k - 1]

\* Variant: liveness is not asked.
FetchMoving(e, v, live, commutative) ==
    Require(e, OnStack(e.stack, v),
            MoveOperandToPosition(e, Find(e.stack, v), 0, commutative))

\* A value that is used later is copied to the top, another is moved there.
Fetch(e, v, live, commutative) ==
    Require(e, OnStack(e.stack, v),
            IF v \in live
            THEN CopyOperandToPosition(e, Find(e.stack, v), 0, commutative)
            ELSE MoveOperandToPosition(e, Find(e.stack, v), 0, commutative))

FetchDependencies(e, args, live, commutative) ==
    FoldLeft(LAMBDA f, v : Fetch(f, v, live, commutative), e, Dependencies(args))

\* The condition of a branch is taken off the top of both stacks.
Popped(e) == Require(e, e.vm # << >>, [e EXCEPT !.stack = Tail(@), !.vm = Tail(@)])

\* Lists of at most n arguments; plain ones have every value once.
ArgumentLists(s, n) ==
    {args \in BoundedSeq(Values(s), n) :
        "repeated" \in Shapes \/ \A i, j \in DOMAIN args : i # j => args[i] # args[j]}

\* In a plain instruction the values are in the order of their numbers.
InstructionArgs(s) ==
    {args \in ArgumentLists(s, 2) \ {<< >>} :
        "unordered" \in Shapes \/ \A i, j \in DOMAIN args : i < j => args[i] <= args[j]}

-----------------------------------------------------------------------------
Nothing == [kind |-> "none", args |-> << >>, live |-> {}, got |-> << >>]

Init ==
    /\ \E order \in UNION {SetToSeqs(vs) : vs \in SUBSET Value} :
           /\ Len(order) <= MaxOperands
           /\ stack = [i \in DOMAIN order |-> Operand(order[i])]
    /\ request = Nothing
    /\ vm = Elements(request.args, stack) \o CallerElements
    /\ outcome = "ok"
    /\ far = FALSE

\* An immediate is pushed on both stacks, but the address of a global variable is pushed on the
\* compiler's only.
PushLiterals(e, n) == [e EXCEPT !.stack = Copies(n, Constant) \o @,
                                !.vm = Copies(n, Limbs(Constant)[1]) \o @]
GlobalAddress(e) == [e EXCEPT !.stack = << Constant >> \o @]

Literal ==
    /\ Open /\ Len(stack) < MaxOperands
    /\ \E emitted \in {TRUE} \union {"global" \notin Shapes} :
           IsNow(IF emitted THEN PushLiterals(Emitter, 1) ELSE GlobalAddress(Emitter))
    /\ request' = Nothing

\* The fetched arguments are taken off the top, and the result is left there, named when the
\* emitter of the instruction is dropped.
Takes(e, kind, args, live, result) ==
    LET n == Len(args)
        taken == EffectiveIndex(e.stack, n)
    IN  IF e.outcome = "ok" /\ Len(e.stack) >= n /\ Len(e.vm) >= taken
        THEN /\ IsNow([e EXCEPT !.stack = << Operand(result) >> \o Without(@, n),
                                !.vm = Limbs(Operand(result)) \o Without(@, taken)])
             /\ Asks(kind, args, live, SubSeq(e.stack, 1, n))
        ELSE /\ IsNow(Require(e, FALSE, e))
             /\ Asks(kind, args, live, << >>)

\* An instruction of one or two arguments.
Instruction ==
    /\ Open
    /\ \E args \in InstructionArgs(stack), live \in SUBSET Values(stack),
          commutative \in {c \in BOOLEAN : c => "commutative" \in Shapes},
          result \in Value \ Values(stack) :
           LET n == Len(args)
               e == FetchDependencies(Emitter, args, live, commutative /\ n = 2)
               kind == IF commutative /\ n = 2 THEN "commutative" ELSE "instruction"
           IN  /\ kind = "commutative" => WidthOf[args[1]] = WidthOf[args[2]]
               /\ Len(stack) - n + Cardinality(ToSet(args) \intersect live) < MaxOperands
               /\ Takes(e, kind, args, live, result)

\* A value of a predecessor that nothing in this block or after it uses.
DropDead ==
    /\ Open
    /\ \E v \in Values(stack) : IsNow(DropOperandAt(Emitter, Find(stack, v)))
    /\ request' = Nothing

\* The methods themselves, at every position they can be given.
EmitterCall ==
    /\ Open
    /\ \E i \in 0 .. Len(stack) - 1 :
           \/ Len(stack) < MaxOperands /\ IsNow(Dup(Emitter, i))
           \/ i > 0 /\ (IsNow(Movup(Emitter, i)) \/ IsNow(Movdn(Emitter, i)) \/ IsNow(Swap(Emitter, i)))
           \/ IsNow(Dropn(Emitter, i + 1))
    /\ request' = Nothing

\* ret with a value: it is brought to the top and everything else is dropped.  Inside loops, a
\* zero is pushed for each of them.
Ret ==
    /\ Open
    /\ \E v \in Values(stack), level \in 0 .. 1 :
           /\ IsNow(PushLiterals(TruncateStack(Fetch(Emitter, v, {}, FALSE), 1), level))
           /\ Asks("return", << v >>, {}, << >>)

\* ret with an immediate: everything is dropped, and the immediate is pushed.
RetImm ==
    /\ Open
    /\ "empty return" \in Shapes \/ RawLen(stack) % WordSize = 0
    /\ \E level \in 0 .. 1 : IsNow(PushLiterals(TruncateStack(Emitter, 0), 1 + level))
    /\ Asks("return", << >>, {}, << >>)

\* A first-visit br: the arguments are fetched as dependencies, then placed.
Br ==
    /\ Open
    /\ \E args \in ArgumentLists(stack, Len(Params)), live \in SUBSET Values(stack) :
           LET e == FetchDependencies(Emitter, args, live, FALSE)
           IN  /\ IsNow(LeaveTo(e, args, Params, live, TRUE))
               /\ Asks("branch", args, live, << >>)

\* A first-visit cond_br, seen along one of its edges: the arguments of both are dependencies,
\* the condition is consumed, and inside a loop the unused operands stay.
CondBr ==
    /\ Open
    /\ \E cond \in {v \in Values(stack) : WidthOf[v] = 1},
          args \in ArgumentLists(stack, Len(Params)), other \in ArgumentLists(stack, 1),
          live \in SUBSET Values(stack), drops \in BOOLEAN :
           LET e == FetchDependencies(Emitter, << cond >> \o args \o other, live, FALSE)
               f == Popped(Fetch(e, cond, {}, FALSE))
           IN  /\ "repeated" \in Shapes \/ cond \notin ToSet(args) \union ToSet(other)
               /\ IsNow(LeaveTo(f, args, Params, live, drops))
               /\ Asks(IF drops THEN "branch" ELSE "inner branch", args, live, << >>)

Next == \/ Literal \/ Instruction \/ DropDead \/ EmitterCall
        \/ Ret \/ RetImm \/ Br \/ CondBr

Spec == Init /\ [][Next]_vars

-----------------------------------------------------------------------------
(* Properties.                                                             *)

\* While the compiler does not give up, the machine's stack is element for element what the
\* operand stack says, with all that the caller had below it: the comment on OperandStack says
\* that it is modified 1:1 with the instructions emitted.
StackMirrored ==
    /\ outcome # "fault"
    /\ outcome = "ok" => vm = Elements(request.args, stack) \o CallerElements

\* An instruction takes its own arguments off the stack, the first one from the top; a
\* commutative operator may take them in either order.
ArgumentsDelivered ==
    LET taken == [i \in DOMAIN request.got |-> request.got[i].value]
        values == \A i \in DOMAIN request.got : request.got[i].kind = "value"
    IN  /\ (request.kind = "instruction" /\ outcome = "ok") => values /\ taken = request.args
        /\ (request.kind = "commutative" /\ outcome = "ok") =>
               values /\ taken \in {request.args, Reverse(request.args)}

\* A branch leaves the parameters of the successor on top, in order and as wide as their
\* arguments, whatever order the arguments were found in.
ParametersOnTop ==
    (outcome = "ok" /\ request.kind \in {"branch", "inner branch"}) =>
        /\ Len(request.args) <= Len(stack)
        /\ \A i \in DOMAIN request.args :
               stack[i] = [Operand(request.args[i]) EXCEPT !.value = Params[i]]

\* Neither an instruction nor a branch uses up a value that is still live, although both move
\* arguments and drop operands.
LiveRetained == outcome = "ok" => request.live \subseteq Values(stack)

\* While the operands, and a copy of each, fit in what is directly accessible, no assertion of
\* the compiler fails: the positions it works out are always valid.
ShallowNeverPanics == [][2 * RawLen(stack) <= Reach => outcome' # "panic"]_vars

=============================================================================

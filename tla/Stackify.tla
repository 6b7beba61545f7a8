------------------------------ MODULE Stackify ------------------------------
(***************************************************************************)
(* Stackification, codegen/masm/src/stackify/pass.rs: a rewritten function *)
(* is turned into structured code for the stack machine.  MasmEmitter      *)
(* walks the control flow graph from the entry block by recursive calls of *)
(* emit; it emits a loop as a while.true whose body the header's branch    *)
(* leads to, and on an edge back to a header it emits the instructions of  *)
(* the header once more, and the flags that end or continue the loops      *)
(* between.                                                                *)
(*                                                                         *)
(* The calls of emit in progress are frames, the innermost one first.      *)
(* There is an action for each step of a block's schedule and for each     *)
(* form of terminator.  The rewrites that come first are those of          *)
(* RewritePipeline.  Every value is one element wide.                      *)
(***************************************************************************)
EXTENDS RewriteProperties, BlockSchedule, OpEmitter

CONSTANT Commutative   \* the opcodes whose two operands may come in either order

VARIABLES
    code,          \* the code blocks of the function that is made
    emitted,       \* the blocks emitted so far (visited, in the code)
    controlling,   \* the header of the controlling loop, or None
    frames,        \* the calls of emit in progress
    joins          \* history: the stack at the end of a header, each time it is emitted

svars == <<code, emitted, controlling, frames, joins>>

live == The(analysis.liveness)

-----------------------------------------------------------------------------
(***************************************************************************)
(* Operands, and the instructions that are not moves of the stack.         *)
(***************************************************************************)
Operand(v) == [kind |-> "value", value |-> v, size |-> 1]
Constant == [kind |-> "const", value |-> 0, size |-> 1]

\* What the caller keeps on the machine's stack below the arguments.
Below == [i \in 1..WordSize |-> "below"]

Body == 1   \* the code block that is the body of the function

Frame(b, into, first, stack, outer) ==
    [block |-> b, into |-> into, first |-> first, stack |-> stack, outer |-> outer,
     steps |-> EmitSchedule(fn, live, b), calls |-> << >>]

\* An edge that is to be emitted, with the stack the block leaves and what is still to do to it.
Call(target, into, stack, drops) ==
    [dest |-> target.dest, args |-> target.args, into |-> into, stack |-> stack, drops |-> drops]

Top == Head(frames)
Stepping == phase = "emitting" /\ Top.calls = << >> /\ Top.steps # << >>
Now == Head(Top.steps)
Instruction == Insts(fn, Top.block)[Now.index]

NewEmitter(stack) ==
    [stack |-> stack, vm |-> stack \o Below, outcome |-> "ok", far |-> FALSE, code |-> << >>]

Produce(e, n, op, results) ==
    [e EXCEPT !.stack = [i \in DOMAIN results |-> Operand(results[i])] \o Without(@, n),
              !.vm = results \o Without(@, n),
              !.code = Append(@, op)]

\* emit_op: an instruction takes its operands off the top and leaves its result.
Apply(e, inst) ==
    Require(e, Len(inst.args) <= Len(e.stack), Produce(e, Len(inst.args), Op("apply", inst), inst.results))

Literal(e, n) ==
    [e EXCEPT !.stack = <<Constant>> \o @, !.vm = <<n>> \o @, !.code = Append(@, Op("push", n))]
Literals(e, n, count) == FoldLeft(LAMBDA f, x : Literal(f, x), e, [i \in 1..count |-> n])

\* What a branch on the top of the stack does to it.
Taken(e) == Require(e, e.stack # << >>, [e EXCEPT !.stack = Tail(@), !.vm = Tail(@)])

\* Where a value is brought to the top, and need not be found.
ToTop(e, v, consumes, either) ==
    Require(e, OnStack(e.stack, v),
            IF consumes THEN MoveOperandToPosition(e, Find(e.stack, v), 0, either)
                        ELSE CopyOperandToPosition(e, Find(e.stack, v), 0, either))

-----------------------------------------------------------------------------
(***************************************************************************)
(* How an action ends: the frame on top has the stack of e and goes on     *)
(* with steps and calls, and what e emitted is added to its code block.    *)
(***************************************************************************)
Emitted(c, into, ops) == [c EXCEPT ![into] = @ \o ops]

Proceed(e, calls, more) ==
    /\ frames' = <<[Top EXCEPT !.stack = e.stack, !.steps = Tail(@), !.calls = calls]>> \o Tail(frames)
    /\ code' = Emitted(code, Top.into, e.code) \o more
    /\ phase' = IF e.outcome = "ok" THEN "emitting" ELSE "panicked"
    /\ UNCHANGED <<fn, original, analysis, worklist, visited, root, edges, queue, rewrites, changed>>

Continue(e) == Proceed(e, << >>, << >>) /\ UNCHANGED <<emitted, controlling, joins>>

-----------------------------------------------------------------------------
\* Variant: what is not needed any more stays.
LeaveAll(e, b, target, drops) == LeaveTo(e, target.args, Params(fn, target.dest), {}, FALSE)

\* drop_unused_operands_after and prepare_stack_arguments
Leave(e, b, target, drops) ==
    LeaveTo(e, target.args, Params(fn, target.dest), DOMAIN live.out[<<b, 0>>], drops)

Joined(b, stack) == joins' = joins \cup {[header |-> b, stack |-> stack]}

(***************************************************************************)
(* run: the parameters are on the stack, the first on top.                 *)
(***************************************************************************)
Start ==
    /\ phase = "ready"
    /\ LET params == Params(fn, Entry)
       IN  frames' = <<Frame(Entry, Body, TRUE, [i \in DOMAIN params |-> Operand(params[i])], None)>>
    /\ emitted' = {Entry}
    /\ code' = << << >> >>
    /\ phase' = "emitting"
    /\ UNCHANGED <<fn, original, analysis, worklist, visited, root, edges, queue, rewrites, changed>>
    /\ UNCHANGED <<controlling, joins>>

(***************************************************************************)
(* emit: what it asserts of the loops of the block it comes from and of b, *)
(* and which loop controls from then on.                                   *)
(***************************************************************************)
LevelOf(b) == LoopLevel(loops, b)
InnermostLoop(b) == loops.innermost[b]

Deeper(from, b) == InnermostLoop(b) # None /\ LevelOf(from) < LevelOf(b)
Leaves(from, b) == InnermostLoop(from) # None /\ LevelOf(from) > LevelOf(b)

EmitPanics(from, b) ==
    LET first == b \notin emitted
    IN  \/ InnermostLoop(from) = None /\ (~first \/ controlling # None)
        \/ InnermostLoop(from) # None /\ InnermostLoop(b) = None /\ (~first \/ controlling = None)
        \/ first /\ Leaves(from, b) /\ ~Dominates(domtree, from, b)
        \/ ~first /\ ~IsLoopHeader(loops, b)

\* Variant: a nested loop does not take control.
ControlOutermost(from, b) ==
    IF b \notin emitted /\ Deeper(from, b) /\ controlling = None THEN InnermostLoop(b) ELSE controlling

NewControlling(from, b) ==
    IF b \notin emitted /\ Deeper(from, b) THEN InnermostLoop(b) ELSE controlling

Enter(c, e) ==
    /\ frames' = <<Frame(c.dest, c.into, c.dest \notin emitted, e.stack, controlling)>>
                    \o <<[Top EXCEPT !.calls = Tail(@)]>> \o Tail(frames)
    /\ code' = Emitted(code, c.into, e.code)
    /\ phase' = IF e.outcome # "ok" \/ EmitPanics(Top.block, c.dest) THEN "panicked" ELSE "emitting"
    /\ controlling' = NewControlling(Top.block, c.dest)
    /\ emitted' = emitted \cup {c.dest}

EnterBlock ==
    /\ phase = "emitting"
    /\ Top.calls # << >>
    /\ LET c == Head(Top.calls)
       IN  Enter(c, Leave(NewEmitter(c.stack), Top.block, c, c.drops))
    /\ UNCHANGED <<fn, original, analysis, worklist, visited, root, edges, queue, rewrites, changed>>
    /\ joins' = joins

(* the end of emit: what controlled before controls again *)
LeaveBlock ==
    /\ phase = "emitting"
    /\ Top.calls = << >>
    /\ Top.steps = << >>
    /\ controlling' = Top.outer
    /\ frames' = Tail(frames)
    /\ phase' = IF Tail(frames) = << >> THEN "compiled" ELSE "emitting"
    /\ UNCHANGED <<fn, original, analysis, worklist, visited, root, edges, queue, rewrites, changed>>
    /\ UNCHANGED <<code, emitted, joins>>

-----------------------------------------------------------------------------
(***************************************************************************)
(* emit_node                                                               *)
(***************************************************************************)
FetchValue ==
    /\ Stepping
    /\ Now.does = "fetch"
    /\ LET either == Instruction.op \in Commutative
       IN  Continue(ToTop(NewEmitter(Top.stack), Now.value, Now.consumes, either))

KeepResult ==
    /\ Stepping
    /\ Now.does = "keep"
    /\ Continue(Dup(NewEmitter(Top.stack), 0))

TurnOfStackValue ==
    /\ Stepping
    /\ Now.does = "turn"
    /\ LET e == NewEmitter(Top.stack)
       IN  Continue(Require(e, OnStack(e.stack, Now.value),
                            IF Now.consumes THEN DropOperandAt(e, Find(e.stack, Now.value)) ELSE e))

EmitOperation ==
    /\ Stepping
    /\ Now.does = "emit"
    /\ Instruction.op \notin Terminators
    /\ Continue(Apply(NewEmitter(Top.stack), Instruction))

-----------------------------------------------------------------------------
(***************************************************************************)
(* emit_inst, the terminators.                                             *)
(***************************************************************************)
Terminating(op) == Stepping /\ Now.does = "emit" /\ Instruction.op = op

ControllingLevel == IF controlling # None THEN LevelOf(controlling) ELSE LevelOf(Top.block)

\* A zero for each loop that is left.
Return ==
    /\ Terminating("ret")
    /\ LET e == NewEmitter(Top.stack)
           ready == Top.first /\ e.stack # << >> /\ e.stack[1] = Operand(Instruction.args[1])
       IN  Continue(Require(e, ready, Literals(TruncateStack(e, 1), 0, ControllingLevel)))

\* An immediate is a result that no operand gives.
ReturnImm ==
    /\ Terminating("ret_imm")
    /\ LET e == TruncateStack(NewEmitter(Top.stack), 0)
       IN  Continue(Require(e, Top.first,
                            Literals(Apply(e, [Instruction EXCEPT !.results = <<0>>]), 0, ControllingLevel)))

\* A header's target is the body of the loop; any other block's is emitted where it ends.
Branch(e, b) ==
    LET target == Target(Instruction.targets[1].dest, << >>)
        body == Len(code) + 1
        loop == [e EXCEPT !.code = @ \o <<Op("push", 1), Op("while", body)>>]
    IN  IF IsLoopHeader(loops, b)
        THEN Proceed(loop, <<Call(target, body, e.stack, FALSE)>>, << << >> >>) /\ Joined(b, e.stack)
        ELSE Proceed(e, <<Call(target, Top.into, e.stack, FALSE)>>, << >>) /\ joins' = joins

FirstBr ==
    /\ Terminating("br")
    /\ Top.first
    /\ Branch(Leave(NewEmitter(Top.stack), Top.block, Instruction.targets[1], TRUE), Top.block)
    /\ UNCHANGED <<emitted, controlling>>

\* Variant: the loops between are not ended.
ContinueInnermost(e, b) ==
    /\ Proceed(Require(e, controlling # None /\ LevelOf(controlling) >= LevelOf(b), Literal(e, 1)), << >>, << >>)
    /\ Joined(b, e.stack)

\* Continues the target loop, and ends those between it and the controlling loop.
ContinueLoop(e, b) ==
    /\ Proceed(Require(e, controlling # None /\ LevelOf(controlling) >= LevelOf(b),
                       Literals(Literal(e, 1), 0, LevelOf(controlling) - LevelOf(b))), << >>, << >>)
    /\ Joined(b, e.stack)

BrBack ==
    /\ Terminating("br")
    /\ ~Top.first
    /\ ContinueLoop(Leave(NewEmitter(Top.stack), Top.block, Instruction.targets[1], TRUE), Top.block)
    /\ UNCHANGED <<emitted, controlling>>

\* Within the loop of a header nothing is dropped.
Drops(b, target) == IsLoopHeader(loops, b) => ~IsInLoop(loops, target.dest, b)

Fork(e, b) ==
    LET then == Len(code) + 1
        else == Len(code) + 2
        body == Len(code) + 3
        if == Op("if", <<then, else>>)
        loop == [e EXCEPT !.code = @ \o <<Op("push", 1), Op("while", body)>>]
        calls(stack) == [i \in 1..2 |-> Call(Instruction.targets[i], <<then, else>>[i], stack,
                                             Drops(b, Instruction.targets[i]))]
    IN  IF IsLoopHeader(loops, b)
        THEN Proceed(Taken(loop), calls(Without(e.stack, 1)), << << >>, << >>, <<if>> >>) /\ Joined(b, e.stack)
        ELSE Proceed(Taken([e EXCEPT !.code = Append(@, if)]), calls(Without(e.stack, 1)), << << >>, << >> >>)
             /\ joins' = joins

Condition == ToTop(NewEmitter(Top.stack), Instruction.args[1], TRUE, FALSE)

FirstCondBr ==
    /\ Terminating("cond_br")
    /\ Top.first
    /\ Fork(Condition, Top.block)
    /\ UNCHANGED <<emitted, controlling>>

CondBrBack ==
    /\ Terminating("cond_br")
    /\ ~Top.first
    /\ ContinueLoop(Condition, Top.block)
    /\ UNCHANGED <<emitted, controlling>>

-----------------------------------------------------------------------------
Rewriting == phase # "ready" /\ Next /\ UNCHANGED svars

\* The code is handed on; nothing else may stop.
Compiled == phase = "compiled" /\ UNCHANGED <<vars, svars>>

StackifyInit ==
    /\ Init
    /\ code = << >> /\ emitted = {} /\ controlling = None /\ frames = << >> /\ joins = {}

StackifyNext ==
    \/ Rewriting
    \/ Start \/ EnterBlock \/ LeaveBlock
    \/ FetchValue \/ KeepResult \/ TurnOfStackValue \/ EmitOperation
    \/ Return \/ ReturnImm \/ FirstBr \/ BrBack \/ FirstCondBr \/ CondBrBack
    \/ Compiled

StackifySpec == StackifyInit /\ [][StackifyNext]_<<vars, svars>>

-----------------------------------------------------------------------------
(***************************************************************************)
(* Executions of a function and of its code.  A value is the term that     *)
(* made it, so that it does not matter when an operation without effect is *)
(* performed; an event is an operation with effects, a decision, or the    *)
(* return with the stack it leaves, on the terms they read.                *)
(***************************************************************************)
Term(op, at, args) == [op |-> op, at |-> at, args |-> args]
BelowTerms == [i \in 1..WordSize |-> Term("below", i, << >>)]
Flag(n) == Term("flag", n, << >>)
IsFlag(term) == term.op = "flag"
Trap == Term("trap", 0, << >>)

InAnyOrder(args) == CHOOSE order \in {args, Reverse(args)} : TRUE

(* an operation with effects makes another value each time *)
Made(events, op, args) ==
    Term(op, IF op \in Effectful THEN Len(events) ELSE 0, IF op \in Commutative THEN InAnyOrder(args) ELSE args)
Observed(events, op, term) == IF op \in Effectful THEN Append(events, term) ELSE events

PerformInst(s, inst) ==
    LET term == Made(s.events, inst.op, Read(s.env, inst.args))
    IN  [s EXCEPT !.events = Observed(@, inst.op, term),
                  !.env = Bind(@, inst.results, [i \in DOMAIN inst.results |-> term])]

LeaveFunction(f, s, inst) ==
    CASE Len(inst.targets) = 1 -> Jump(f, s, inst.targets[1])
      [] Len(inst.targets) = 2 ->
             IF s.decisions = << >> THEN [s EXCEPT !.at = {}]
             ELSE Jump(f, [s EXCEPT !.events = Append(@, Term("decide", 0, Read(s.env, inst.args))),
                                    !.decisions = Tail(@)], inst.targets[Head(s.decisions)])
      [] Len(inst.targets) = 0 ->
             LET result == IF inst.op = "ret_imm" THEN <<Made(s.events, "ret_imm", << >>)>> ELSE Read(s.env, inst.args)
             IN  [s EXCEPT !.at = {}, !.events = Append(@, Term("return", 0, result \o BelowTerms))]

PerformBlock(f, s) ==
    IF s.at = {} THEN s
    ELSE LET b == The(s.at)
         IN  LeaveFunction(f, FoldLeft(PerformInst, s, Front(Insts(f, b))), LastInst(f, b))

Arguments(f) == [i \in DOMAIN Params(f, Entry) |-> Term("param", i, << >>)]

SourceEvents(f, decisions) ==
    LET params == Params(f, Entry)
        After[n \in Nat] ==
            IF n = 0
            THEN [at |-> {Entry}, decisions |-> decisions, events |-> << >>,
                  env |-> [x \in ToSet(params) |-> Arguments(f)[SelectInSeq(params, LAMBDA y : y = x)]]]
            ELSE PerformBlock(f, After[n - 1])
    IN  After[Blocks].events

(***************************************************************************)
(* The machine: todo is the code still to run, the innermost first.  A     *)
(* step runs up to the next branch, and takes it.                          *)
(***************************************************************************)
IsBranch(op) == op.name \in {"if", "while"}

(* nothing is left to run, and there is no return *)
Stopped(m) == [m EXCEPT !.todo = << >>, !.over = TRUE]
Trapped(m) == [Stopped(m) EXCEPT !.events = Append(@, Trap)]
Returned(m) == [Stopped(m) EXCEPT !.events = Append(@, Term("return", 0, m.stack))]

Then(ops, todo) == IF ops = << >> THEN todo ELSE <<ops>> \o todo

Perform(m, inst) ==
    LET n == Len(inst.args)
        term == Made(m.events, inst.op, SubSeq(m.stack, 1, n))
    IN  IF n > Len(m.stack) THEN Trapped(m)
        ELSE [m EXCEPT !.events = Observed(@, inst.op, term),
                       !.stack = [i \in DOMAIN inst.results |-> term] \o Without(@, n)]

RunOp(m, op) ==
    CASE m.over              -> m
      [] op.name = "push"    -> [m EXCEPT !.stack = <<Flag(op.at)>> \o @]
      [] op.name = "apply"   -> Perform(m, op.at)
      [] OTHER -> IF Runnable(op, m.stack) THEN [m EXCEPT !.stack = Run(op, @)] ELSE Trapped(m)

TakeIf(c, m, op, rest) ==
    IF IsFlag(m.stack[1]) THEN Trapped(m)
    ELSE IF m.decisions = << >> THEN Stopped(m)
    ELSE [m EXCEPT !.todo = Then(c[op.at[Head(m.decisions)]], rest),
                   !.stack = Tail(@),
                   !.events = Append(@, Term("decide", 0, <<m.stack[1]>>)),
                   !.decisions = Tail(@)]

TakeWhile(c, m, op, rest) ==
    IF ~IsFlag(m.stack[1]) THEN Trapped(m)
    ELSE [m EXCEPT !.todo = IF m.stack[1] = Flag(1) THEN Then(c[op.at], Then(<<op>>, rest)) ELSE rest,
                   !.stack = Tail(@)]

RunToBranch(c, m) ==
    LET ops == Head(m.todo)
        at == SelectInSeq(ops, IsBranch)
        ran == FoldLeft(RunOp, m, IF at = 0 THEN ops ELSE SubSeq(ops, 1, at - 1))
        rest == Then(SubSeq(ops, at + 1, Len(ops)), Tail(m.todo))
    IN  IF ran.over THEN ran
        ELSE IF at = 0 THEN [ran EXCEPT !.todo = Tail(@)]
        ELSE IF ran.stack = << >> THEN Trapped(ran)
        ELSE IF ops[at].name = "if" THEN TakeIf(c, ran, ops[at], rest)
        ELSE TakeWhile(c, ran, ops[at], rest)

RunCode(c, m) == IF m.over THEN m ELSE IF m.todo = << >> THEN Returned(m) ELSE RunToBranch(c, m)

CodeEvents(c, args, decisions) ==
    LET After[n \in Nat] ==
            IF n = 0
            THEN [todo |-> Then(c[Body], << >>), over |-> FALSE, stack |-> args \o BelowTerms,
                  events |-> << >>, decisions |-> decisions]
            ELSE RunCode(c, After[n - 1])
    IN  After[4 * Blocks].events

-----------------------------------------------------------------------------
(***************************************************************************)
(* No assertion fails and no operand is missing, whatever the order in     *)
(* which blocks, trees and dependencies are visited (pass.rs:405, 620).    *)
(***************************************************************************)
EmissionCompletes == phase \notin {"panicked", "undefined"}

(***************************************************************************)
(* However a loop is entered or continued, its header leaves the same      *)
(* operands, in the same order, to the code of the loop, which is emitted  *)
(* once (pass.rs:1355).                                                    *)
(***************************************************************************)
StacksAgree == \A j, k \in joins : j.header = k.header => j.stack = k.stack

(***************************************************************************)
(* Whatever the conditions turn out to be, the structured code performs    *)
(* the operations of the function it was given, those with effects in      *)
(* their order, decides on the same values, and returns the same result    *)
(* with the stack of the caller below it (pass.rs:313).                    *)
(***************************************************************************)
SameBehaviour ==
    phase = "compiled" =>
        \A decisions \in [1..Decisions -> {1, 2}] :
            CodeEvents(code, Arguments(original), decisions) = SourceEvents(original, decisions)

=============================================================================

----------------------------- MODULE InlineAsm -----------------------------
(***************************************************************************)
(* An inline assembly block, from the first call of its builder to the end *)
(* of its execution: MasmBuilder, IfTrueBuilder and LoopBuilder of         *)
(* hir/src/asm/builder.rs put the blocks together, emit_inline_asm copies  *)
(* them into a function, and the machine runs them.                        *)
(***************************************************************************)
EXTENDS MasmBuilder

CONSTANTS
    Uses,         \* ways to use a builder: the types of the arguments the block is given,
                  \* and the calls of MasmOpBuilder, each a name and its arguments
    Handled(_, _),  \* instructions, with the types they meet, that are built
    Repeats(_, _),  \* repeats, as the types its body leaves and those it met, that are built
    ResultTypes,  \* types of the results it may be declared with
    Counts,       \* iteration counts of repeat
    MaxOps,       \* instructions built, the structured ones included
    MaxSteps      \* instructions run

VARIABLES
    blocks,    \* the code of each block created so far; the body is the first
    open,      \* the builders that are open, the innermost first
    use,       \* the use that is made of it
    results,   \* the types of the results
    stage,     \* "building", "running" or "done"
    frames,    \* where the machine is: a block, an index and the passes left, innermost first
    machine

vars == <<blocks, open, use, results, stage, frames, machine>>

-----------------------------------------------------------------------------
(* Builders.  Each has the block it appends to and a stack of types.       *)

Body(types) == [kind |-> "body", block |-> 1, types |-> types]
Branch(kind, block, types) == [kind |-> kind, block |-> block, types |-> types]
Loop(block, types, style, n) == [kind |-> style, block |-> block, types |-> types, count |-> n]
If(out) == [kind |-> "if", out |-> out, then |-> 0, else |-> 0]

Top == Head(open)
Parent == open[2]
OpCount == FoldLeft(LAMBDA n, code : n + Len(code), 0, blocks) + Len(SelectSeq(open, LAMBDA b : b.kind # "body"))

\* Instructions are built only while the innermost builder is one of a block.
Inserting == stage = "building" /\ Top.kind # "if" /\ OpCount < MaxOps

NewBlock == Len(blocks) + 1
CanCreate == NewBlock <= MaxBlocks
Pushing(block, op) == [blocks EXCEPT ![block] = Append(@, op)]

(* MasmOpBuilder::build *)
Ins ==
    /\ Inserting
    /\ \E m \in use.methods :
          LET op == Built(m)
          IN  /\ Handled(op, Top.types) /\ Applies(op, Top.types)
              /\ open' = [open EXCEPT ![1].types = Apply(op, @)]
              /\ blocks' = Pushing(Top.block, op)
    /\ UNCHANGED <<use, results, stage, frames, machine>>

\* Variant: an element of any type is a condition.
PopsAny == Top.types # << >>

PopsCondition == Top.types # << >> /\ Head(Top.types) = "I1"

(* MasmOpBuilder::if_true *)
IfTrue ==
    /\ Inserting /\ PopsCondition
    /\ open' = <<If(Tail(Top.types))>> \o [open EXCEPT ![1].types = Tail(@)]
    /\ UNCHANGED <<blocks, use, results, stage, frames, machine>>

(* IfTrueBuilder::build_then, build_else: once each, in either order *)
BuildBranch ==
    /\ stage = "building" /\ Top.kind = "if" /\ CanCreate
    /\ \E kind \in {"then", "else"} :
          /\ Top[kind] = 0
          /\ open' = <<Branch(kind, NewBlock, Parent.types)>> \o open
    /\ blocks' = Append(blocks, << >>)
    /\ UNCHANGED <<use, results, stage, frames, machine>>

\* Variant: the second branch is not compared with the first.
JoinsUnchecked(if, kind, block, types) ==
    [if EXCEPT ![kind] = block, !.out = IF if.then = 0 /\ if.else = 0 THEN types ELSE @]

(* Drop for IfTrueBlockBuilder: the first branch says what the second must leave *)
Join(if, kind, block, types) ==
    IF if.then = 0 /\ if.else = 0 THEN [if EXCEPT ![kind] = block, !.out = types]
    ELSE IF types = if.out THEN [if EXCEPT ![kind] = block]
    ELSE [kind |-> "panic"]

EndBranch ==
    /\ stage = "building" /\ Top.kind \in {"then", "else"}
    /\ LET joined == Join(Parent, Top.kind, Top.block, Top.types)
       IN  /\ joined.kind # "panic"
           /\ open' = <<joined>> \o SubSeq(open, 3, Len(open))
    /\ UNCHANGED <<blocks, use, results, stage, frames, machine>>

(* IfTrueBuilder::build *)
BuildIf ==
    /\ stage = "building" /\ Top.kind = "if" /\ Top.then # 0 /\ Top.else # 0
    /\ open' = <<[Parent EXCEPT !.types = Top.out]>> \o SubSeq(open, 3, Len(open))
    /\ blocks' = Pushing(Parent.block, <<"If", Top.then, Top.else>>)
    /\ UNCHANGED <<use, results, stage, frames, machine>>

(* MasmOpBuilder::while_true *)
WhileTrue ==
    /\ Inserting /\ CanCreate /\ PopsCondition
    /\ open' = <<Loop(NewBlock, Tail(Top.types), "while", 0)>> \o [open EXCEPT ![1].types = Tail(@)]
    /\ blocks' = Append(blocks, << >>)
    /\ UNCHANGED <<use, results, stage, frames, machine>>

(* MasmOpBuilder::repeat *)
Repeat ==
    /\ Inserting /\ CanCreate
    /\ \E n \in Counts : open' = <<Loop(NewBlock, Top.types, "repeat", n)>> \o open
    /\ blocks' = Append(blocks, << >>)
    /\ UNCHANGED <<use, results, stage, frames, machine>>

-----------------------------------------------------------------------------
(***************************************************************************)
(* LoopBuilder::build.  The effects of a repeat body are applied once more *)
(* for each further iteration; of an if, those of its then branch, and of  *)
(* a while, those of its condition.  << >> stands for a failed assertion   *)
(* and <<types>> for the types left.                                       *)
(***************************************************************************)
RECURSIVE ApplyOp(_, _), ApplyBlock(_, _)

Times(n, F(_), types) == FoldLeft(LAMBDA ts, i : IF ts = << >> THEN ts ELSE F(ts[1]), <<types>>, [i \in 1..n |-> i])

\* Variant: a nested repeat is applied once.
ApplyOpOnce(op, types) ==
    CASE Name(op) = "If"     -> IF types # << >> /\ Head(types) = "I1" THEN ApplyBlock(op[2], Tail(types)) ELSE << >>
      [] Name(op) = "While"  -> IF types # << >> /\ Head(types) = "I1" THEN <<Tail(types)>> ELSE << >>
      [] Name(op) = "Repeat" -> ApplyBlock(op[3], types)
      [] OTHER               -> IF Handled(op, types) /\ Applies(op, types)
                               THEN <<Apply(op, types)>> ELSE << >>

ApplyOp(op, types) ==
    CASE Name(op) = "If"     -> IF types # << >> /\ Head(types) = "I1" THEN ApplyBlock(op[2], Tail(types)) ELSE << >>
      [] Name(op) = "While"  -> IF types # << >> /\ Head(types) = "I1" THEN <<Tail(types)>> ELSE << >>
      [] Name(op) = "Repeat" -> Times(op[2], LAMBDA ts : ApplyBlock(op[3], ts), types)
      [] OTHER               -> IF Handled(op, types) /\ Applies(op, types)
                               THEN <<Apply(op, types)>> ELSE << >>

ApplyBlock(block, types) ==
    FoldLeft(LAMBDA ts, op : IF ts = << >> THEN ts ELSE ApplyOp(op, ts[1]), <<types>>, blocks[block])

WhileTypes(loop, parent) ==
    IF loop.types # << >> /\ Head(loop.types) = "I1" /\ Tail(loop.types) = parent.types
    THEN <<parent.types>> ELSE << >>

RepeatTypes(loop) == Times(loop.count - 1, LAMBDA ts : ApplyBlock(loop.block, ts), loop.types)

LoopTypes(loop, parent) == IF loop.kind = "while" THEN WhileTypes(loop, parent) ELSE RepeatTypes(loop)

\* A repeat of one iteration is inlined; its block stays, empty.
LoopBlocks(loop, parent) ==
    CASE loop.kind = "while" -> Pushing(parent.block, <<"While", loop.block>>)
      [] loop.kind = "repeat" /\ loop.count = 1 ->
             [blocks EXCEPT ![parent.block] = @ \o blocks[loop.block], ![loop.block] = << >>]
      [] OTHER -> Pushing(parent.block, <<"Repeat", loop.count, loop.block>>)

\* A body that does not do the same whatever it meets.
RECURSIVE Branches(_)
Branches(block) ==
    \E i \in DOMAIN blocks[block] :
        LET op == blocks[block][i]
        IN  Name(op) \in {"If", "While"} \/ (Name(op) = "Repeat" /\ Branches(op[3]))

BuildLoop ==
    /\ stage = "building" /\ Top.kind \in {"while", "repeat"}
    /\ Top.kind = "repeat" => blocks[Top.block] # << >>   \* the machine runs no empty repeat
    /\ Top.kind = "repeat" /\ Top.count > 1 /\ Branches(Top.block) => Repeats(Top.types, Parent.types)
    /\ LET after == LoopTypes(Top, Parent)
       IN  /\ after # << >>
           /\ open' = <<[Parent EXCEPT !.types = after[1]]>> \o SubSeq(open, 3, Len(open))
    /\ blocks' = LoopBlocks(Top, Parent)
    /\ UNCHANGED <<use, results, stage, frames, machine>>

-----------------------------------------------------------------------------
(***************************************************************************)
(* MasmBuilder::new and build; emit_inline_asm with                        *)
(* rewrite_inline_assembly_block.                                          *)
(***************************************************************************)
Init ==
    /\ use \in Uses
    /\ blocks = <<<< >>>>
    /\ open = <<Body(use.args)>>
    /\ results = << >>
    /\ stage = "building"
    /\ frames = << >>
    /\ machine = Machine(<< >>, << >>)

CanFinish(types, declared) ==
    IF declared = << >> THEN types = << >> ELSE Size(declared) = Len(types)

\* The body goes into the current block of the function, here its first; the other
\* blocks are created after those it has, here two.
MappedBlock(b) == b + 1
Rewritten(op) ==
    CASE Name(op) = "If"     -> <<"If", MappedBlock(op[2]), MappedBlock(op[3])>>
      [] Name(op) = "While"  -> <<"While", MappedBlock(op[2])>>
      [] Name(op) = "Repeat" -> <<"Repeat", op[2], MappedBlock(op[3])>>
      [] OTHER               -> op

Ported == [b \in 1..Len(blocks) + 1 |-> CASE b = 1 -> [i \in DOMAIN blocks[1] |-> Rewritten(blocks[1][i])]
                                          [] b = 2 -> << >>
                                          [] OTHER -> [i \in DOMAIN blocks[b - 1] |-> Rewritten(blocks[b - 1][i])]]

\* A boolean of either value; one value that is a boolean and one that is not, for a
\* field element one that is no u32 either; a pointer into memory.
Values(type) ==
    CASE type = "I1"   -> {0, 1}
      [] type = "Ptr"  -> {1}
      [] type = "Felt" -> {1, U32P + 2}
      [] OTHER         -> {1, 2}
Memory == [addr \in 0..MemSize - 1 |-> <<1, 0, 1, 0>>]

\* The elements of values of these types.
Stacks(types) ==
    LET n == RawSize(types)
        raw == FlattenSeq([i \in DOMAIN types |-> Parts(types[i])])
    IN  {s \in [1..n -> UNION {Values(raw[i]) : i \in 1..n}] : \A i \in 1..n : s[i] \in Values(raw[i])}

Finish ==
    /\ stage = "building" /\ Len(open) = 1
    /\ \E declared \in ResultTypes :
          CanFinish(Top.types, declared) /\ results' = declared
    /\ blocks' = Ported
    /\ stage' = "running"
    /\ frames' = <<[block |-> 1, index |-> 1, passes |-> 1]>>
    /\ \E s \in Stacks(use.args) : machine' = Machine(s, Memory)
    /\ UNCHANGED <<open, use>>

-----------------------------------------------------------------------------
(***************************************************************************)
(* Running, as enum MasmOp describes it: if, while.true and repeat.n       *)
(* around the instructions of MasmMachine.  What a call computes is not    *)
(* modelled, only the elements its signature takes and gives.              *)
(***************************************************************************)
Frame == Head(frames)
Code == blocks[Frame.block]
AtEnd == Frame.index > Len(Code)
Op == Code[Frame.index]
Inside(block, n) == [block |-> block, index |-> 1, passes |-> n]
Past == <<[Frame EXCEPT !.index = @ + 1]>> \o Tail(frames)
Running == stage = "running" /\ machine.status = "running" /\ frames # << >> /\ machine.steps < MaxSteps

Stepped(m) == [m EXCEPT !.steps = @ + 1]

Return ==
    /\ Running /\ AtEnd
    /\ frames' = IF Frame.passes > 1 THEN <<Inside(Frame.block, Frame.passes - 1)>> \o Tail(frames)
                 ELSE Tail(frames)
    /\ stage' = IF frames' = << >> THEN "done" ELSE stage
    /\ machine' = Stepped(machine)
    /\ UNCHANGED <<blocks, open, use, results>>

\* The condition on top of the stack.
Conditional ==
    /\ Running /\ ~AtEnd /\ Name(Op) \in {"If", "While"}
    /\ LET s == machine.stack
       IN  IF s = << >> THEN machine' = [machine EXCEPT !.status = "underflow"] /\ UNCHANGED frames
           ELSE IF ~IsBool(s[1]) THEN machine' = [machine EXCEPT !.status = "nonboolean"] /\ UNCHANGED frames
           ELSE /\ machine' = Stepped([machine EXCEPT !.stack = Tail(@)])
                /\ frames' = CASE Name(Op) = "If" /\ s[1] = 1    -> <<Inside(Op[2], 1)>> \o Past
                               [] Name(Op) = "If" /\ s[1] = 0    -> <<Inside(Op[3], 1)>> \o Past
                               [] Name(Op) = "While" /\ s[1] = 1 -> <<Inside(Op[2], 1)>> \o frames
                               [] OTHER                         -> Past
    /\ UNCHANGED <<blocks, open, use, results, stage>>

EnterRepeat ==
    /\ Running /\ ~AtEnd /\ Name(Op) = "Repeat"
    /\ frames' = <<Inside(Op[3], Op[2])>> \o Past
    /\ machine' = Stepped(machine)
    /\ UNCHANGED <<blocks, open, use, results, stage>>

Call ==
    /\ Running /\ ~AtEnd /\ Name(Op) \in CallNames
    /\ LET taken == RawSize(Import[Imm(Op)].params)
       IN  IF Len(machine.stack) < taken
           THEN machine' = [machine EXCEPT !.status = "underflow"]
           ELSE \E s \in Stacks(Import[Imm(Op)].results) :
                   machine' = Stepped([machine EXCEPT !.stack = s \o SubSeq(@, taken + 1, Len(@))])
    /\ frames' = Past
    /\ UNCHANGED <<blocks, open, use, results, stage>>

BooleanOps == NeedsBool \cup BoolUnary \cup BoolBinary

Execute ==
    /\ Running /\ ~AtEnd /\ Name(Op) \notin {"If", "While", "Repeat"} \cup CallNames
    /\ LET after == Perform(Op, machine)
       IN  machine' = IF after.status = "trapped" /\ Name(Op) \in BooleanOps
                      THEN [after EXCEPT !.status = "nonboolean"] ELSE Stepped(after)
    /\ frames' = Past
    /\ UNCHANGED <<blocks, open, use, results, stage>>

Next ==
    \/ Ins \/ IfTrue \/ BuildBranch \/ EndBranch \/ BuildIf
    \/ WhileTrue \/ Repeat \/ BuildLoop \/ Finish
    \/ Return \/ Conditional \/ EnterRepeat \/ Call \/ Execute

Spec == Init /\ [][Next]_vars

-----------------------------------------------------------------------------
(* Properties *)

\* The block never reaches for an element it was not given or did not push ("it is
\* not permitted to access anything else on the operand stack", asm/mod.rs), whichever
\* branches are taken and however often a loop runs.
Isolated == machine.status # "underflow"

\* When it ends, the elements of its results are what it leaves: the depth the builder
\* reckoned along one path is that of every path through branches, loops and calls.
ResultsDelivered == stage = "done" => Len(machine.stack) = RawSize(results)

\* What the builder takes for a boolean is zero or one when the machine tests it.
ConditionsBoolean == machine.status # "nonboolean"

=============================================================================

----------------------------- MODULE Activation -----------------------------
(***************************************************************************)
(* The activation record of codegen/masm/src/emulator.rs: how the emulator *)
(* walks through the blocks of one function.                               *)
(*                                                                         *)
(* `ip` is a block and a zero-based index into it.  On entering a block    *)
(* the continuation goes on ip_stack and a repeat counter (or none) on     *)
(* repeat_stack.  The two stacks are pushed together but popped apart:     *)
(* leaving a block pops one repeat entry and as many saved pointers as it  *)
(* takes to find one with an operation under it.                           *)
(***************************************************************************)
EXTENDS MasmProgram, FiniteSetsExt

InstructionPointer == [block : BlockId, index : Nat]

\* The None entries of repeat_stack; a counter proper starts at 1.
NoRepeat == [count |-> 0, n |-> 0]
RepeatEntry == [count : Nat, n : Nat]

ActivationRecord ==
    [function     : Function,
     ip           : InstructionPointer,
     repeat_stack : Seq(RepeatEntry),
     ip_stack     : Seq(InstructionPointer)]

StartOf(block) == [block |-> block, index |-> 0]

\* Activation::new
NewActivation(f) ==
    [function     |-> f,
     ip           |-> StartOf(f.body),
     repeat_stack |-> << >>,
     ip_stack     |-> << >>]

Code(a, ip) == a.function.blocks[ip.block]
HasOp(a, ip) == ip.index < Len(Code(a, ip))
OpAt(a, ip) == Code(a, ip)[ip.index + 1]

\* Both readers of an activation compare the index with the block's length.
AtEnd(a) == a.ip.index = Len(Code(a, a.ip))

TopRepeat(a) ==
    IF a.repeat_stack = << >> THEN NoRepeat ELSE a.repeat_stack[Len(a.repeat_stack)]

RepeatsAgain(r) == r # NoRepeat /\ r.count <= r.n

\* The saved pointers that still have an operation under them; the last one is next.
LiveSaved(a) == {i \in DOMAIN a.ip_stack : HasOp(a, a.ip_stack[i])}

(***************************************************************************)
(* Activation::pending_ip: where control goes next, without going there.   *)
(***************************************************************************)
PendingIp(a) ==
    IF ~AtEnd(a) THEN [ip |-> a.ip, jump |-> "None"]
    ELSE IF RepeatsAgain(TopRepeat(a)) THEN [ip |-> StartOf(a.ip.block), jump |-> "Repeat"]
    ELSE IF LiveSaved(a) # {} THEN [ip |-> a.ip_stack[Max(LiveSaved(a))], jump |-> "Branch"]
    ELSE [ip |-> a.ip, jump |-> "Return"]

Advance(ip) == [ip EXCEPT !.index = @ + 1]
\* Variant: two operations back.
StepBackTwice(a) == [a EXCEPT !.ip.index = @ - 2]
StepBack(a) == [a EXCEPT !.ip.index = @ - 1]

(***************************************************************************)
(* Activation::next_instruction, by the jump it reports.                   *)
(***************************************************************************)
RepeatBody(a) ==
    [a EXCEPT !.repeat_stack[Len(a.repeat_stack)].count = @ + 1,
              !.ip.index = 1]

PopRepeat(a) ==
    IF a.repeat_stack = << >> THEN << >>
    ELSE SubSeq(a.repeat_stack, 1, Len(a.repeat_stack) - 1)

BranchTo(a, i) ==
    [a EXCEPT !.repeat_stack = PopRepeat(a),
              !.ip_stack = SubSeq(a.ip_stack, 1, i - 1),
              !.ip = Advance(a.ip_stack[i])]

NextInstruction(a) ==
    CASE PendingIp(a).jump = "None"   -> [a EXCEPT !.ip = Advance(a.ip)]
      [] PendingIp(a).jump = "Repeat" -> RepeatBody(a)
      [] PendingIp(a).jump = "Branch" -> BranchTo(a, Max(LiveSaved(a)))
      [] PendingIp(a).jump = "Return" -> a

(***************************************************************************)
(* Entering the block of an if, a while.true or a repeat.  `a` is the      *)
(* activation after next_instruction, so its ip is one past the operation; *)
(* a while saves the pointer of the while itself, to test it again.        *)
(***************************************************************************)
Enter(a, block, saved, entry) ==
    [a EXCEPT !.ip_stack = Append(@, saved),
              !.repeat_stack = Append(@, entry),
              !.ip = StartOf(block)]

\* Variants: the continuation is one too far; a while is not tested again.
EnterBlockSkipping(a, block) == Enter(a, block, Advance(a.ip), NoRepeat)
EnterWhileOnce(a, block) == Enter(a, block, a.ip, NoRepeat)

EnterBlock(a, block) == Enter(a, block, a.ip, NoRepeat)
EnterWhileLoop(a, block) == Enter(a, block, StepBack(a).ip, NoRepeat)
EnterRepeat(a, block, n) == Enter(a, block, a.ip, [count |-> 1, n |-> n])

(***************************************************************************)
(* What both readers rely on and nothing checks.  Every pointer, current   *)
(* or saved, is at most one past its block's last operation, so that the   *)
(* test for equality finds every end of block.  There is a repeat entry    *)
(* for every saved pointer.  And a block about to be run again has a first *)
(* operation: next_instruction takes code[0].                              *)
(***************************************************************************)
PointerOk(a, ip) == ip.index <= Len(Code(a, ip))

ActivationOk(a) ==
    /\ PointerOk(a, a.ip)
    /\ \A i \in DOMAIN a.ip_stack : PointerOk(a, a.ip_stack[i])
    /\ Len(a.ip_stack) <= Len(a.repeat_stack)
    /\ AtEnd(a) /\ RepeatsAgain(TopRepeat(a)) => Code(a, a.ip) # << >>

=============================================================================

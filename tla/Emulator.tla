------------------------------ MODULE Emulator ------------------------------
(***************************************************************************)
(* The MASM emulator's interpreter loop and debugger                       *)
(* (codegen/masm/src/emulator.rs): invoke, resume, run and step, the       *)
(* breakpoints that suspend them, and the cycle budget.                    *)
(*                                                                         *)
(* A host (a test, in this repository) sets breakpoints and budgets while  *)
(* the emulator is stopped, and calls invoke or resume, which return when  *)
(* the run loop ends.  One action is one pass through the loop; the passes *)
(* that return from functions without counting a cycle are Unwind.         *)
(* The operand stack is left out: a condition is either value.             *)
(***************************************************************************)
EXTENDS Activation, SequencesExt

CONSTANTS
    Programs,      \* the function tables load_program may leave behind
    Breakpoints,   \* the breakpoints the host may set
    Budgets,       \* the cycle budgets the host may set
    Invoked,       \* the functions the host may invoke
    MaxCycles,     \* usize::MAX of clk and clk_limit, scaled down
    MaxDepth       \* bound on the activations under a host's invoke

NoBreakpoint == [kind |-> "None"]

\* enum Breakpoint
Breakpoint ==
    [kind : {"None", "Step", "StepOnce", "StepOut", "StepOver", "Loop"}]
    \cup [kind : {"StepN"}, n : Nat \ {0}]
    \cup [kind : {"StepUntil"}, ip : InstructionPointer]
    \cup [kind : {"Call"}, callee : FunctionIdent]
    \cup [kind : {"MemoryWrite"}, addr : Addr, size : Nat]

ASSUME ProgramsAssumption == \A fs \in Programs : IsFunctionTable(fs)
ASSUME BreakpointsAssumption == Breakpoints \subseteq Breakpoint
ASSUME AddrAssumption == Addr \subseteq Nat
ASSUME BoundsAssumption ==
    MaxCycles \in Nat /\ MaxDepth \in Nat /\ Budgets \subseteq 0..MaxCycles

VARIABLES
    functions,    \* the loaded functions
    callstack,    \* activations, the running one last
    bp,           \* the breakpoint set
    clk,          \* cycles counted
    clk_limit,    \* the cycle budget
    status,       \* where the run loop is, or how the last call ended
    resuming,     \* run's flag: this pass is the first of the call
    step_until,   \* run's step_until_cycle
    began         \* history: breakpoint and clock when the call entered run,
                  \* and whether it has executed an operation since

vars == <<functions, callstack, bp, clk, clk_limit, status, resuming, step_until, began>>
hostOwned == <<functions, clk_limit, step_until>>

\* The history of no call.  Once the host acts, the last call is history no more,
\* and step_until, a local of run, is gone.
NoCall == [bp |-> NoBreakpoint, clk |-> 0, worked |-> FALSE]
Forget == began' = NoCall /\ step_until' = MaxCycles

Running == status \in {"running", "unwinding"}

Init ==
    /\ functions \in Programs
    /\ callstack = << >>
    /\ bp = NoBreakpoint
    /\ clk = 0
    /\ clk_limit = MaxCycles
    /\ status = "ready"
    /\ resuming = FALSE
    /\ step_until = MaxCycles
    /\ began = NoCall

-----------------------------------------------------------------------------
(***************************************************************************)
(* The host, while the emulator is stopped.                                *)
(***************************************************************************)
SetBreakpoint(b) ==
    /\ ~Running
    /\ bp' = b
    /\ Forget
    /\ UNCHANGED <<functions, callstack, clk, clk_limit, status, resuming>>

ClearBreakpoint == SetBreakpoint(NoBreakpoint)

SetMaxCycles(max) ==
    /\ ~Running
    /\ clk_limit' = max
    /\ Forget
    /\ UNCHANGED <<functions, callstack, bp, clk, status, resuming>>

(***************************************************************************)
(* The head of run, before its loop.                                       *)
(***************************************************************************)
\* Variant: the step budget counts from the next cycle.
EnterRunLate ==
    /\ status' = "running"
    /\ resuming' = TRUE
    /\ step_until' = IF bp.kind = "StepN" THEN clk + bp.n ELSE MaxCycles
    /\ began' = [bp |-> bp, clk |-> clk, worked |-> FALSE]

EnterRun ==
    /\ status' = "running"
    /\ resuming' = TRUE
    /\ step_until' = IF bp.kind = "StepN" THEN clk + (bp.n - 1) ELSE MaxCycles
    /\ began' = [bp |-> bp, clk |-> clk, worked |-> FALSE]

\* resume
Resume ==
    /\ ~Running
    /\ clk <= MaxCycles
    /\ EnterRun
    /\ UNCHANGED <<functions, callstack, bp, clk, clk_limit>>

(***************************************************************************)
(* invoke of a MASM function: schedule it, then break at once or run.  The *)
(* callstack need not be empty: nothing in the code asks for that.         *)
(***************************************************************************)
BreaksOnEntry(f) == bp.kind = "Step" \/ (bp.kind = "Call" /\ bp.callee = f)

Invoke(f) ==
    /\ ~Running
    /\ clk <= MaxCycles /\ Len(callstack) < MaxDepth
    /\ callstack' = Append(callstack, NewActivation(functions[f]))
    /\ IF BreaksOnEntry(f)
         THEN /\ status' = "suspended"
              /\ Forget
              /\ UNCHANGED resuming
         ELSE EnterRun
    /\ UNCHANGED <<functions, bp, clk, clk_limit>>

Host ==
    \/ \E b \in Breakpoints : SetBreakpoint(b)
    \/ ClearBreakpoint
    \/ \E max \in Budgets : SetMaxCycles(max)
    \/ Resume
    \/ \E f \in Invoked \cap DOMAIN functions : Invoke(f)

-----------------------------------------------------------------------------
(***************************************************************************)
(* run: the head of a pass.  The cycle is counted before anything is       *)
(* looked at.                                                              *)
(***************************************************************************)
BudgetExceeded ==
    /\ status = "running" /\ clk >= clk_limit
    /\ clk' = clk + 1
    /\ status' = "exhausted"
    /\ resuming' = FALSE
    /\ UNCHANGED <<hostOwned, callstack, bp, began>>

Tick ==
    /\ status = "running" /\ clk < clk_limit
    /\ clk' = clk + 1
    /\ resuming' = FALSE

(***************************************************************************)
(* On the first pass of a call run takes these two breakpoints away from   *)
(* step and puts them back after it, unless step failed.                   *)
(***************************************************************************)
\* Variant: loops are not masked.
MaskedWritesOnly == resuming /\ bp.kind = "MemoryWrite"
Masked == resuming /\ bp.kind \in {"Loop", "MemoryWrite"}
StepBp == IF Masked THEN NoBreakpoint ELSE bp

(***************************************************************************)
(* handle_action for Action::Suspend: callstack cs, breakpoint b, after    *)
(* step.                                                                   *)
(***************************************************************************)
Breaks(cs, b) ==
    \/ b.kind \in {"Step", "StepOver", "StepOnce"}
    \/ b.kind = "StepN" /\ clk' >= step_until
    \/ b.kind = "StepUntil" /\ cs # << >> /\ PendingIp(Last(cs)).ip = b.ip

Suspend(cs, b) ==
    /\ callstack' = cs
    /\ IF Breaks(cs, b)
         THEN /\ status' = "suspended"
              /\ bp' = IF b.kind \in {"StepOnce", "StepUntil"} THEN NoBreakpoint ELSE b
         ELSE status' = "running" /\ bp' = b

(***************************************************************************)
(* step: the next instruction of the innermost activation.                 *)
(***************************************************************************)
Current == Last(callstack)
Jumped == PendingIp(Current).jump
Fetched == NextInstruction(Current)          \* the activation after the fetch
Ix == OpAt(Current, PendingIp(Current).ip) \* the operation fetched
Resched(a) == Append(Front(callstack), a)

\* Breakpoints that go off on the jump itself.
BreaksOnJump ==
    \/ StepBp.kind = "StepOut" /\ Jumped = "Branch"
    \/ StepBp.kind = "Loop" /\ Jumped = "Repeat"

Fetches(op) ==
    /\ Tick
    /\ callstack # << >> /\ Jumped # "Return" /\ ~BreaksOnJump
    /\ Ix.op = op

\* An early BreakpointHit that puts the activation back, on this operation.
BreakBefore ==
    /\ callstack' = Resched(StepBack(Fetched))
    /\ status' = "suspended"
    /\ UNCHANGED <<bp, began>>

Executed == began' = [began EXCEPT !.worked = TRUE]

\* StepOver at an operation with code nested in it; `a` is as yet outside that code.
OverBp(a) ==
    IF StepBp.kind = "StepOver"
      THEN [kind |-> "StepUntil", ip |-> PendingIp(a).ip]
      ELSE bp

Halt ==
    /\ Tick /\ callstack = << >>
    /\ status' = "done"
    /\ UNCHANGED <<hostOwned, callstack, bp, began>>

\* Jump::Return: the activation is gone; Halt or Return by what is left.
\* Variant: the activation that returns is looked at, not popped.
ReturnFromPeeking(cs) ==
    /\ callstack' = callstack
    /\ status' = "unwinding"

ReturnFrom(cs) ==
    /\ callstack' = cs
    /\ status' = IF cs = << >> THEN "done" ELSE "unwinding"

Return ==
    /\ Tick /\ callstack # << >> /\ Jumped = "Return"
    /\ ReturnFrom(Front(callstack))
    /\ Executed
    /\ UNCHANGED <<hostOwned, bp>>

(***************************************************************************)
(* BreakpointHit returned from inside step before the activation, which    *)
(* step has popped, is put back.                                           *)
(***************************************************************************)
BreakOnJump ==
    /\ Tick /\ callstack # << >> /\ Jumped # "Return" /\ BreaksOnJump
    /\ callstack' = Front(callstack)
    /\ status' = "suspended"
    /\ UNCHANGED <<hostOwned, bp, began>>

Plain ==
    /\ Fetches("Plain")
    /\ Suspend(Resched(Fetched), bp)
    /\ Executed
    /\ UNCHANGED hostOwned

\* MemStore and its variants.
Touches(addr) ==
    StepBp.kind = "MemoryWrite" /\ addr \in StepBp.addr .. (StepBp.addr + StepBp.size - 1)

Store ==
    /\ Fetches("Store")
    /\ IF Touches(Ix.addr) THEN BreakBefore
       ELSE Suspend(Resched(Fetched), bp) /\ Executed
    /\ UNCHANGED hostOwned

If ==
    /\ Fetches("If")
    /\ \E block \in {Ix.then, Ix.else} :
         Suspend(Resched(EnterBlock(Fetched, block)), OverBp(Fetched))
    /\ Executed
    /\ UNCHANGED hostOwned

While ==
    /\ Fetches("While")
    /\ IF StepBp.kind = "Loop" THEN BreakBefore
       ELSE /\ \/ Suspend(Resched(EnterWhileLoop(Fetched, Ix.body)), OverBp(Fetched))
               \/ Suspend(Resched(Fetched), OverBp(Fetched))
            /\ Executed
    /\ UNCHANGED hostOwned

Repeat ==
    /\ Fetches("Repeat")
    /\ IF StepBp.kind = "Loop" THEN BreakBefore
       ELSE /\ Suspend(Resched(EnterRepeat(Fetched, Ix.body, Ix.n)), OverBp(Fetched))
            /\ Executed
    /\ UNCHANGED hostOwned

Exec ==
    /\ Fetches("Exec") /\ Ix.callee \in DOMAIN functions
    /\ LET cs == Append(Resched(Fetched), NewActivation(functions[Ix.callee]))
       IN  IF StepBp.kind = "Call" /\ StepBp.callee = Ix.callee
             THEN callstack' = cs /\ status' = "suspended" /\ bp' = bp
             ELSE Suspend(cs, OverBp(Fetched))
    /\ Executed
    /\ UNCHANGED hostOwned

\* UndefinedFunction: the caller was popped and a masked breakpoint is not put back.
ExecUndefined ==
    /\ Fetches("Exec") /\ Ix.callee \notin DOMAIN functions
    /\ callstack' = Front(callstack)
    /\ bp' = StepBp
    /\ status' = "failed"
    /\ UNCHANGED <<hostOwned, began>>

(***************************************************************************)
(* handle_action for Action::Return: step through callers that have        *)
(* nothing left either, at no cost in cycles, then treat the rest as a     *)
(* suspension.                                                             *)
(***************************************************************************)
Unwind ==
    /\ status = "unwinding"
    /\ clk' = clk
    /\ IF Jumped = "Return"
         THEN ReturnFrom(Front(callstack)) /\ UNCHANGED bp
         ELSE Suspend(callstack, bp)
    /\ UNCHANGED <<hostOwned, resuming, began>>

Run ==
    \/ BudgetExceeded \/ Halt \/ Return \/ BreakOnJump
    \/ Plain \/ Store \/ If \/ While \/ Repeat \/ Exec \/ ExecUndefined
    \/ Unwind

Next == Host \/ Run

Spec == Init /\ [][Next]_vars

\* run is a loop on the caller's own thread: once entered it keeps going.
FairSpec == Spec /\ WF_vars(Run)

-----------------------------------------------------------------------------
(***************************************************************************)
(* Properties                                                              *)
(***************************************************************************)

TypeOK ==
    /\ functions \in Programs
    /\ callstack \in Seq(ActivationRecord)
    /\ bp \in Breakpoint
    /\ clk \in Nat
    /\ clk_limit \in Nat
    /\ status \in {"ready", "running", "unwinding", "suspended", "exhausted", "done", "failed"}
    /\ resuming \in BOOLEAN
    /\ step_until \in Nat
    /\ began \in [bp : Breakpoint, clk : Nat, worked : BOOLEAN]

(***************************************************************************)
(* Every activation, running or waiting, stays one the two readers of it   *)
(* can continue: no pointer is past an end that the equality tests would   *)
(* miss, whatever mix of branches, returns, breakpoints that step the      *)
(* pointer back and exhausted budgets the call went through.              *)
(***************************************************************************)
ActivationsOk == \A i \in DOMAIN callstack : ActivationOk(callstack[i])

(***************************************************************************)
(* A budget of cycles is exact: under Step and StepOnce a call that goes   *)
(* through run stops after one cycle, and under StepN(n) after n - 1 (one  *)
(* for n = 1), never later, though returning from a function takes passes  *)
(* of its own.  (The comment on StepN says n cycles: see the README.)      *)
(***************************************************************************)
StepCycles(b) == IF b.kind = "StepN" /\ b.n > 1 THEN b.n - 1 ELSE 1

StepsCounted ==
    began.bp.kind \in {"Step", "StepOnce", "StepN"} =>
        LET target == began.clk + StepCycles(began.bp)
        IN  /\ status = "suspended" => clk = target
            /\ status = "running" => clk < target
            /\ status = "unwinding" => clk <= target

(***************************************************************************)
(* A call that ends at a breakpoint has executed something, so a host that *)
(* keeps resuming is never stopped twice before the same instruction: what *)
(* the resuming flag is for.  Not so under StepOut, which is not masked.   *)
(***************************************************************************)
ResumeProgresses ==
    status = "suspended" /\ began.bp.kind \notin {"None", "StepOut"} => began.worked

(***************************************************************************)
(* EmulationError::BreakpointHit: "A breakpoint was reached, so execution  *)
(* was suspended and can be resumed".  There is an activation to resume.   *)
(***************************************************************************)
BreakpointHitCanBeResumed == status = "suspended" => callstack # << >>

(***************************************************************************)
(* isa.rs on Op::Repeat: "Repeatedly evaluates the given block, n times".  *)
(* The pass through a body that is under way is the count-th.              *)
(***************************************************************************)
RepeatRunsNTimes ==
    \A i \in DOMAIN callstack : \A j \in DOMAIN callstack[i].repeat_stack :
        callstack[i].repeat_stack[j].count <= callstack[i].repeat_stack[j].n

(***************************************************************************)
(* A call of the host comes back: the run loop ends by the program, a      *)
(* breakpoint or the budget, even in a program that loops for ever.        *)
(***************************************************************************)
CallsReturn == Running ~> ~Running

-----------------------------------------------------------------------------
(***************************************************************************)
(* What is left of an activation: the saved pointers and its own, each     *)
(* with the passes left of the repeat it is in.  The counters belong to    *)
(* the innermost pointers.                                                 *)
(***************************************************************************)
PassesLeft(r) == IF RepeatsAgain(r) THEN r.n - r.count + 1 ELSE 0

FramesOf(a) ==
    LET ips == Append(a.ip_stack, a.ip)
        stale == Len(a.repeat_stack) - Len(a.ip_stack)
    IN  [i \in DOMAIN ips |->
            [function |-> a.function, block |-> ips[i].block, index |-> ips[i].index,
             again |-> IF i = 1 THEN 0 ELSE PassesLeft(a.repeat_stack[stale + i - 1])]]

\* The shape of what is left does not depend on the parameters of StructuredExec.
Shape == INSTANCE StructuredExec WITH
            remaining <- << >>, Passes <- LAMBDA n : n + 1, LosesCall <- {}

\* The bound variable makes TLC evaluate the frames once.
WithCall(rest, a) ==
    CHOOSE calls \in {Shape!Under(rest, frames) : frames \in {FramesOf(a)}} : TRUE

CallsOf(cs) == FoldLeft(WithCall, << >>, cs)

RemainingCalls == CallsOf(callstack)

(***************************************************************************)
(* Stepping, suspending, exhausting the budget, resuming and returning are *)
(* invisible: whatever the host does, the operations executed are those of *)
(* the structured program, in order, each exactly once.  The code's        *)
(* differences from the promise are the two parameters: repeat.n runs its  *)
(* body n + 1 times, and StepOut and Loop breakpoints can drop the         *)
(* innermost call.                                                         *)
(***************************************************************************)
S == INSTANCE StructuredExec WITH
        remaining <- RemainingCalls,
        Passes <- LAMBDA n : n + 1,
        LosesCall <- {"StepOut", "Loop"}

ImplementsStructured == S!Spec

(***************************************************************************)
(* It is so only of programs whose repeats keep their counters: leaving a  *)
(* block takes one counter off, and as many saved pointers as are done     *)
(* with.  So no block nested in a repeat ends in an operation whose saved  *)
(* pointer is done with at once, an if or a repeat.                        *)
(***************************************************************************)
RepeatsKeepCount == \A fs \in Programs : \A id \in DOMAIN fs : KeepsCount(fs[id])

=============================================================================

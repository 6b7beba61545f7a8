# TLA+ models of the Miden IR compiler

The repository is a compiler back end: an SSA intermediate representation (HIR), a linker for
its modules, analyses and transforms of its control flow, a code generator to Miden Assembly
(MASM), a builder of inline assembly, and an emulator that runs the MASM it generates. This
directory holds models of these parts, the TLC runs that check them on small instances, and the
proofs that lift the main invariants of four of them to instances of every size. `PROJECT.json` is
the index: components, runs, the source lines of every definition, the hazards of the code, the
divergences found and the theorems.

To check a run: `tlc -workers 2 -config Linker.cfg MCLinker`. To check the proofs of a module:
`tlapm LinkerProofs.tla`.

## 1. Inventory

| Component | Source | State | Operations | Interacts with |
|---|---|---|---|---|
| MASM emulator | `codegen/masm/src/emulator.rs` | function table, locals, memory, heap and locals pointers, operand stack, call stack of activations, clock, breakpoint | `load_program/module/function/nif`, `malloc`, `write_bytes_to_memory`, `invoke`, `resume`, `step`, breakpoint and budget setters | the host (a test) drives it; it executes `masm::Function`s |
| Linker | `hir/src/program/linker.rs` | program under construction, pending modules, call graph, graph of globals, renames of the module being added | `with_entrypoint`, `add`, `link` | drains a `Module`'s tables into the `Program`'s |
| Global variable table | `hir/src/globals.rs` | list of globals, names, constants | `declare`, `try_insert`, `remove`, `offset_of`, `size_in_bytes` | linker; the address computation of the code generator |
| Data segment table | `hir/src/segments.rs`, `hir-type/src/layout.rs` | sorted list of segments | `declare`/`insert`, `next_available_offset`; `align_up` | linker |
| Symbol interner | `hir-symbol/src/lib.rs` | two maps behind an `RwLock` | `Symbol::intern`, `as_str` | every component and every thread |
| Control flow analyses | `hir-analysis/src/{lib,control_flow,dominance,loops,liveness}.rs` | lazily computed graphs of one function | `compute`, `ensure_*`, `cfg_changed`, `recompute_block` | computed from the IR, read and partly updated by the transforms, read by the code generator |
| Control flow transforms | `hir-transform/src/*` | the function and its analyses | `SplitCriticalEdges`, `Treeify`, `InlineBlocks` | one pipeline (`rewrite_function` of `codegen/masm/src/lib.rs`) |
| Operand stack | `codegen/masm/src/stackify/operand_stack.rs`, `hir/src/asm/stack.rs` | compile-time stack of operands of several elements; run-time stack of elements | `push/pop/dup/swap/movup/movdn`, `rename`, `find` | stackification; emulator and MASM builder |
| Stackification | `codegen/masm/src/stackify/{pass,dependency_graph,treegraph}.rs` | operand stack, controlling loop, visited blocks, schedules of loop headers, the code made so far | visit blocks of the treeified function, schedule operands, emit | analyses, operand stack, emitters |
| Code emitters | `codegen/masm/src/stackify/emit/*`, `intrinsics/mem.masm` | the code being emitted and the operand stack | one method per IR operation and width | operand stack; the MASM they emit |
| MASM builder | `hir/src/asm/{builder,mod,isa}.rs` | blocks of instructions, a stack of types, the builders that are open | one method per instruction, `if_true`, `while_true`, `repeat`, `build` | inline assembly in the IR, copied by the code generator |
| MASM IR | `codegen/masm/src/masm/*` | blocks of operations, import table | append | emitters, emulator |
| IR data structures and builders | `hir/src/{dataflow,layout,block,instruction,builder,...}.rs` | arenas and intrusive lists | create, append, detach | everything |
| Validation | `hir-analysis/src/validation/*` | none (diagnostics) | rules over one node | the IR |
| Pass manager, types, text output, driver, test tools | `hir-pass`, `hir-type`, `hir/src/{write,display}.rs`, `tools/*` | none of interest | | |

There is one process and, but for the interner, one thread. What is hard is therefore mostly not
concurrency but *long sequences of legal calls over state that is kept in pieces*:

* **Emulator.** The nesting of a program's blocks is represented by two stacks that are pushed and
  popped by different operations, beside a call stack; a debugger can stop between any two
  operations, and a host may then resume, change the breakpoint, or call another function. It is
  correct if, whatever the host does, the operations executed are those of the structured program
  in order; if resuming always progresses; and if every call hands control back.
* **Emulator memory.** Modules are loaded in any order, some loads fail half way, and the heap grows
  from below towards the locals. It is correct if frames and allocations do not overlap and no
  loaded function is replaced.
* **Linker and tables.** Modules come in any order and may be refused half way, after part of their
  data was imported; symbols are merged or renamed and references rewritten; layout is computed in
  several walks. It is correct if the layout has no overlaps, references mean what the module meant,
  a program that links is closed, and what a refused module left behind misleads no later step.
* **Interner.** Lookup and insertion are separate steps under a lock that a panic can poison. It is
  correct if it looks atomic to every thread, and if no call keeps the lock.
* **Analyses and transforms.** Analyses are cached while the transforms edit the function and patch
  the graph beside it, block by block. They are correct if what is read from a cache is true of the
  function as it is now, if the fixpoints (dominators, loops, liveness) equal their definitions by
  paths, and if the transforms leave a tree with the same executions.
* **Stackification.** Two stacks that count differently, operands and elements, are changed side by
  side, and each fetch moves what the next one looks for; blocks are emitted by recursion, with the
  controlling loop saved and restored by hand, and the header of a loop is emitted once more on every
  edge back to it. It is correct if the compile-time stack describes the run-time stack after every
  emitted operation, if an instruction gets its own arguments, if what is live is kept and the rest
  dropped, if every way into a loop arrives with the same stack, and if the code does what the
  function does.
* **Emitters.** Each method changes a stack of typed operands and, separately, emits code that moves
  elements. It is correct if the code computes the operation's value, or traps, for every operand of
  its width, and leaves the rest of the stack alone.
* **MASM builder.** The effect of branches, loops and repeats on the stack is reckoned along one path.
  It is correct if what it accepts, run along any path, stays on the elements it was given and leaves
  those it announces.

## 2. Plan

| Modules | Composes | Abstract specification | Runs | Theorems |
|---|---|---|---|---|
| `MasmProgram`, `Activation`, `Emulator` | Emulator uses Activation | `StructuredExec` | `emulator` | types, activations, counted steps, progress of resume, refinement of `StructuredExec` |
| `EmulatorMemory` | | | `emulator_memory` | frames, imports, allocations, no replacement |
| `Alignable`, `DataSegmentTable`, `GlobalVariableTable`, `Linker` | Linker uses the tables | | `linker` | segments disjoint and imported, layout of globals, references, closedness, calls known to `link` |
| `SymbolTable` | | `Interner` | `symbol_table` | types, uniqueness, round trip, poisoning, refinement |
| `OperandStack`, `OpEmitter`, `BlockEmitter` | each over the one before | the elements that an operand stack stands for (`Elements`) | `block_emitter`, `block_arguments` | the two stacks agree, arguments of instructions, parameters of successors, live values |
| `FunctionIR`, `Dominance`, `Loops`, `Liveness`, `RewritePipeline` | the pipeline runs over the function and its cached analyses | `RewriteProperties`: paths and executions | `rewrites`, `treeify_loop`, `liveness_nested` | open: symmetry of the graph under its block-wise updates |
| `BlockSchedule`, `Stackify` | over `RewritePipeline` and `OpEmitter` | executions of the function | `stackify` | open |
| `MasmMachine`, `EmitInt`, `EmitCode`, `Emitters` | the emitted code runs on the machine | `IntegerSpec` | `emitters` | |
| `MasmMachine`, `MasmBuilder`, `InlineAsm` | what is built runs on the machine | | `inline_asm` | |

The emulator came first because it is the component whose behaviour the tests of the repository
exercise least (no test sets a breakpoint) and the one on which all generated code is tested; then
what everything else is built from; then the compiler from the middle to both ends. The modules with
theorems, and those they use, declare no `RECURSIVE` operator; `InlineAsm`, which no proof uses, declares
one for its nested code blocks.

## 3. What is modelled

### Emulator: control (`MasmProgram`, `Activation`, `Emulator`)

`MasmProgram` is the code the emulator runs: operations that only touch the operand stack are one
`Plain` operation, stores carry their address, and `If`, `While`, `Repeat` and `Exec` carry their
blocks or callee. The two assumptions about functions are `RepeatBodiesNonEmpty` (the code indexes
`code[0]` of a repeat's body) and that block ids are valid.

`Activation` is `struct Activation`: `ip`, `ip_stack`, `repeat_stack`, with `PendingIp`
(`pending_ip`), `NextInstruction` (`next_instruction`) and the three ways to enter a block. Indices of
operations start at 0 as in the code. `repeat_stack` is not popped when a branch leaves its block at
the end of a nested one, exactly as in the code. `KeepsCount`, in `MasmProgram`, names the functions for which
this does no harm.

`Emulator` has one action per call of the host (`SetBreakpoint`, `ClearBreakpoint`, `SetMaxCycles`,
`Invoke`, `Resume`) and one per outcome of a pass through the loop of `run` with the `step` it calls:
`Halt`, `Return`, `BreakOnJump`, `Plain`, `Store`, `If`, `While`, `Repeat`, `Exec`, `ExecUndefined`,
and `Unwind` for the passes of the inner loop, which count no cycle. `status` is where the loop is or
how the last call ended. A condition on the operand stack is a choice. `began` is a history variable
for the properties: the breakpoint and clock with which `run` was entered, and whether it has worked.

`StructuredExec` is the abstract specification: a call is a sequence of frames, each with what is left
of its block, and `Execute` takes the next operation off. There is no clock, breakpoint or return. The
mapping is `RemainingCalls` of `Emulator`: `FramesOf` pairs an activation's pointers with the counters that are
on top of `repeat_stack` (those below are stale), and `CallsOf` leaves out, call by call, what has no operation
left. The specification has two parameters for what the code does differently from the documentation of the
operations (how often a repeat body runs, and that a `StepOut` or `Loop` breakpoint may lose the innermost
call), so the divergences are visible in one place and everything else is shown to agree. A third divergence
is excluded by `RepeatsKeepCount`: the programs in which a block in a repeat ends in an `if` or a `repeat`,
whose passes the emulator loses (section 6).

### Emulator: loading and memory (`EmulatorMemory`)

`LoadProgram` starts on a program, `LoadModule` takes the next module (imports and the two sets of
module names), `LoadFunction` the next function of it, `Loaded` ends the call; each of the errors ends
it there, with what was loaded kept. `WriteBytes` and `Malloc` move `hp`; `regions` is a history of
what they gave out, in words. A panic (`assert!`, or an index outside the memory) ends the host.
`malloc`'s truncation of the size to 32 bits is `size % U32Range`. A write leaves `hp` on the last word it wrote,
so the next allocation overlaps it: `AllocationsDisjoint`, which the comment on `write_bytes_to_memory` promises,
is violated (section 6), and what is checked and proved is the code's `OverlapsOnlyLastWord`.

### Linker (`Linker`, `GlobalVariableTable`, `DataSegmentTable`, `Alignable`)

The tables are sequences with one operator per method; a method that can fail has a second operator
for when it does (`DeclareConflicts`, `Stops`, ...). Removed globals stay in the sequence with
`live = FALSE`, since ids of the arena stay valid. `Linker` has an action per phase: `WithEntrypoint`,
`Add` (the module is taken), `ImportSegment` and `ImportGlobal` (one iteration of each loop),
`AddFunctions` (the edges of the call graph, the local order, rewriting of references), then
`PopulateBuiltins`, `VerifyCalls` and `CollectGlobals` of `link`. `status` is where the linker is and `error`
what the last call returned. `add` and `with_entrypoint` borrow the linker, so after an error of theirs
(`Refuse`) it is open again: segments, globals and calls of the refused module stay in the tables and in
`callgraph`, its name is free, and the same or another module may be added under it; only `pending` and
`added` do not have it. `link` consumes the linker (`Fail`). A panic is a state of its own. The code of a
function is the functions it imports and the globals it refers to.

One consequence the model shows: a module refused for a cycle leaves that cycle in the call graph, so every
later `link` fails with `InvalidCycle`. It is also what keeps `link` from worse: it looks up the caller of
every edge and expects its import to be there ("dependency graph is outdated"), which a refused module's is
not. `GraphCurrentAtLink` says that it never comes to that.

### Symbol interner (`SymbolTable`, `Interner`)

Each thread is idle, waiting for the lock, or under it; under the write lock, lookup, push and insert
are separate steps, so that atomicity is shown and not assumed. The assertion on the index limit is
`NotFound` without an index left: the guard is dropped in a panic and the lock poisoned, and every later
`expect` on the lock panics. `Interner` is the atomic table; `interned` records what callers were told.

### Operand stack and the code of a block (`OperandStack`, `OpEmitter`, `BlockEmitter`)

`OperandStack` has the moves, which `operand_stack.rs` (operands) and `asm/stack.rs` (elements) define
alike, and what is particular to operands: widths, the conversion from a position to the elements it
covers, `find` and `rename`. Sequences start at the top; positions count from 0 as in the code.

`OpEmitter` has one operator per method of `struct OpEmitter`, from one emitter to the next. It changes
the operand stack, emits instructions, and runs them on the machine's stack at once, so an assertion of
the compiler ends in `"panic"` and an instruction that cannot run in `"fault"`. `far` records
`movup.16` and the like, which the emulator runs and the target machine does not have; `code` is what was
emitted. `drop_unused_operands_after` and `prepare_stack_arguments`, free functions of `pass.rs`, are
`DropUnused` and `PrepareStackArguments`, together `LeaveTo`.

`BlockEmitter` is one block, with everything around it arbitrary: `Literal`, `Instruction` (the arguments
are fetched as `emit_stack_dependency` does, taken off the top, and the result is named as
`InstOpEmitter::drop` does), `DropDead`, `Ret`, `RetImm`, `Br` and `CondBr`, and `EmitterCall` for the
methods at every position. What liveness analysis says, and with it whether a use is the last one, is any
subset of the values: the properties hold whatever the analysis answers, and for values of every width.
`request` is a history variable: what the step was to deliver. `Shapes` names the forms of code for which
the compiler does not do what it should (section 6); the passing run leaves them out, by guards.

### The rewrites and their analyses (`FunctionIR`, `Dominance`, `Loops`, `Liveness`, `RewritePipeline`, `RewriteProperties`)

`FunctionIR` is a function: numbered blocks with parameters and instructions, and the set of blocks in
the layout. A detached block keeps its contents, as in the arena; an edit of the intrusive list at a block
that is not in it makes the function undefined. The four analyses are operators of a function, one per
method of the code, in the order the code works: the post-order and the iteration of Cooper, Harvey and
Kennedy, pre-order and frontiers; loop headers in reverse post-order and the walk that re-parents loops;
next-use distances with the worklist of `compute_liveness`, which is bounded by `MaxRounds`.

`RewritePipeline` is `rewrite_function` and the `ensure_all` after it. Its state is the function and the
`FunctionAnalysis`, whose members are empty until computed; each iteration of a pass's loop is an action,
so that every intermediate pair of function and graph is a state: `SplitTake`, `SplitSkip`, `SplitEdge`,
`SplitRecompute`, `SplitDone`; `TreeifyBlock`, `CopyTree`, `CopyBlock`, `DetachOriginal`, `TreeifyDone`;
`InlinePass`, `InlineCandidate`, `Inline`, `InlineStop`, `InlineDone`; `EnsureAll`. An assertion ends in
`panicked`. Removing a block that is in no list any more, or inserting next to one, ends in `undefined`.

`RewriteProperties` says what this is to achieve without the analyses: dominance, natural loops and
liveness over paths, and executions (the events of a function for every sequence of decisions).

### Stackification of a function (`BlockSchedule`, `Stackify`)

`BlockSchedule` is what is computed for a block before any code is emitted: `build_dependency_graph`, the
`TreeGraph` with its topological sort, and the steps `emit_schedule` takes: which value is fetched for
which instruction, and whether it is moved or copied. `Stackify` takes a function through `RewritePipeline`
and then emits it. `emit` is recursive; its calls in progress are `frames`, each with the block, the code
block it goes to, its own copy of the operand stack, the steps of its schedule and the calls it has yet to
make. `EnterBlock` has the assertions on loops and the change of the controlling loop, `LeaveBlock`
restores it. A step of the schedule is `FetchValue`, `KeepResult`, `TurnOfStackValue` or `EmitOperation`; a
terminator is `Return`, `ReturnImm`, `FirstBr` or `FirstCondBr`, and on the way back to a header `BrBack`
or `CondBrBack`, which push the flags that continue one loop and end those inside it. `joins` is a history
variable: the stack at the end of a header, each time the header is emitted. Values are one element wide
(widths are `BlockEmitter`'s), and an operation is its name: what the code of an addition is, is
`EmitCode`'s.

### Code emitters (`MasmMachine`, `EmitInt`, `EmitCode`, `IntegerSpec`, `Emitters`)

`MasmMachine` is the data half of the emulator, which `Emulator` leaves out: what each instruction does to
operand stack and memory, and when it traps, with the field and the unsigned integers it rests on.
`EmitInt` and `EmitCode` are the emitters, one operator per method, whose value is the
sequence of instructions. `IntegerSpec` is what an instruction of the IR promises: the values it leaves and
when it traps, from the comments on the methods and on `enum Overflow`, as functions of integers. In `Emitters`,
`Compile` changes the stack of typed operands as the promise says and puts the code in place; `Step` runs an
instruction of it on the machine. The procedures of `std::math::u64` are not in the repository; they are
modelled from how `int64.rs` describes them and marked external. The left operand of an operation is the
lower one, as the emitted code has it.

Scale: a `u32` has `Bits` = 4 bits, so the field has 241 elements. `i8`/`u8` have 2 bits, `i16`/`u16` 3, the
64-bit types two elements and `i128` four. With these a limb boundary, a sign bit in the middle of an element
and a `u64` that is no field element all exist. One relation is lost: the product of two `u16` fits a `u32`
in the program and not here (`OutOfScale`).

### MASM builder (`MasmBuilder`, `InlineAsm`)

`MasmBuilder` has the methods of `MasmOpBuilder`, as the instruction each builds and its effect on a stack of
types; an assertion is a guard. `InlineAsm` is the life of one assembly: `open` are the builders that are
open, innermost first; `Ins`, `IfTrue`, `BuildBranch`, `EndBranch`, `BuildIf`, `WhileTrue`, `Repeat`,
`BuildLoop` and `Finish` are the calls, with the checks where branches join and loops return. Then the machine
runs what was built, with `Return`, `Conditional`, `EnterRepeat`, `Call` and `Execute`. The arguments, and what
a call returns, take each combination of a few values: both booleans, for an integer one value that is a
boolean and one that is not, for a field element one that is no `u32`; a pointer is the one into memory
(`Values`). `Handled` and `Repeats` are parameters: the passing run leaves out with them what section 6 lists
for the builder, and the names there give the instance in which TLC finds the violation.

## 4. Runs

| Run | Checks | Instance | States |
|---|---|---|---|
| `emulator` | types, activations, counted cycles, progress, refinement of `StructuredExec`, termination of calls | four programs: nests of `if` and `while` in last position; repeat in repeat; calls in last position; recursion with an undefined callee. Every breakpoint kind, budgets 2 and 9, two activations under an invoke | 187,311 |
| `emulator_memory` | frames, imports, allocations | three modules, two importing each other and two with the same function; heap of four words | 42,730 |
| `linker` | layout, references, closedness, calls known to `link` | ten modules of six names, added in every order and any number, refused and added again; up to eight globals | 25,942 |
| `symbol_table` | types, uniqueness, round trip, poisoning, release, atomicity | three threads, three strings, two indices | 573,140 |
| `block_emitter` | the two stacks agree, arguments, parameters, liveness, no panic | values of one, four and two elements, up to four operands on the stack in every order, above five elements of the caller; successors with up to three parameters | 11,482 |
| `block_arguments` | `ArgumentsDelivered`, violated | the same, arguments in any order | |
| `rewrites` | the passes finish, the graph and the analyses are current, tree form, executions, analyses and liveness by paths | every handled shape of three and four blocks, each block reading all it can see; the three examples of `treeify.rs`; for three and four blocks also one value read in one other block, with block parameters and without | 87,011 |
| `treeify_loop` | `OriginalsUnreferenced`, violated | an if/else inside a loop | |
| `liveness_nested` | `LivenessMatchesPaths`, violated | a loop in a loop | |
| `stackify` | no assertion of `emit` fails, a header is left with one stack, the code behaves as the function | 1574 functions: every handled block of two or three operations, every loop of one header and one body operation, a loop in a loop with each way to go on, and the functions of `codegen/masm/src/tests.rs` and `hir/src/testing.rs` | 49,381 |
| `emitters` | results and traps of every instruction | every instruction and overflow mode on every type, with and without immediates, from the ends and the limb boundaries of each type, above an operand of the caller | 211,455 |
| `inline_asm` | isolation, results, booleans | five sets of methods, each with arguments of its own; up to five instructions in four blocks, 18 steps of the machine; conditional drops and swaps of two alike operands | 2,959,332 |

**Why the bounds are enough.** The emulator's loop looks at no more than the current block, the top of
`repeat_stack`, and the first live entry of `ip_stack`; four blocks give every nesting of two constructs
with and without an operation behind them, which is all those reads can tell apart. `MaxCycles` (9) is
`usize::MAX` scaled down and bounds the clock; the longest of the programs' straight runs fits under it,
and the loops exceed it, so `exhausted` is reached. `MaxDepth` (2) lets a callee return into a caller that
is itself at its end. In the linker, the properties relate at most three modules (closedness: a caller, a
callee, one refused before either), and five can be present at once beside those refused; `MaxGlobals` (8)
bounds what refused modules may leave: a module that is refused and tried again leaves a renamed global each
time, of which the properties tell no more than two apart. The modules were chosen so that each error and each branch of the two tables is
reached by some order. The interner's two indices with one predefined string leave room for one of two
new strings, so both threads race for the last index and the limit is hit. The cases of `swap` and of the
moves depend on the widths of two operands and on whether something lies between them: three widths and
four operands give them all, and with copies and constants go beyond the sixteenth element, so the
assertions on positions fail in some steps and `far` is reached.

`MaxBlocks` (22, and 12 for `stackify`) bounds the blocks copying may make; no handled function reaches it,
which the check of deadlock would show. `Decisions` (4) and `Blocks` (8 and 10) bound the executions that are
compared: four decisions go twice round every loop and once round an inner one within an outer one.
`Infinity`, `LoopExitDistance` and `MaxRounds` of `Liveness` and `Fuel` of `Dominance` are above
anything a function of this size reaches; a worklist that is not empty after `MaxRounds` would violate
`LivenessMatchesPaths`. Four blocks hold every kind of edge (forward, back, critical, to a join), the loop
with two entries, and a join followed by a loop; nested loops, joins behind joins and copies of copies need
five to nine and are in the examples of `treeify.rs`. For `stackify` the block with three operations is the
smallest in which a value has two users in one tree with a third operation above them; the nested loop has
the four ways to leave an inner body (continue the inner, continue the outer, return, leave).

Deadlock is checked for the emulator, the interner, `rewrites` and `stackify`. It is not for the loader, the
linker, the block emitter, the emitters and inline assembly, whose runs end: a panic, `link`, a
terminator, a trap or the last instruction leaves nothing to do.

**Fairness.** `Emulator`: weak fairness of `Run`, because `run` is a loop on the caller's thread that waits
for nothing; none of the host's calls is fair. `SymbolTable`: weak fairness of each thread's steps *under
the lock*, because nothing there blocks; no fairness of acquiring it, which `std::sync::RwLock` does not
promise. So `CallsReturn` and `LockReleased` say that control or the lock comes back, and nothing says that
a thread gets the lock. The compiler's passes are sequential and deterministic; no liveness is
claimed for them, only that they do not stop before the end (deadlock) and end well (`Completes`,
`EmissionCompletes`).

**Mutants.** Every property of a passing run is paired, in `PROJECT.json`, with a plausible mistake in one
modelled definition (they are the definitions commented as variants) that makes TLC find it violated.

## 5. Proofs

Proofs are for all values of the constants under the named `ASSUME`s of the modules.

* **`StackLemmas`**: what `Front`, `Last`, `Append`, `Max`/`Min` of positions and `InsertAt` do to sequences, and
  how a stack is split at a position and popped to it.
* **`EmulatorProofs`**: `NextInstruction` and the ways to enter a block take a good activation to a good one. The
  inductive invariant `IInv` is `TypeOK`, that every activation is good
  (`ActivationsOk` and saved pointers that are typed), and that `unwinding` has something to unwind. It is
  needed because `ActivationsOk` alone does not bound the pointers a branch will pop. From it
  `TypeCorrect` and `ActivationsStayOk`. `CallsProgress` adds `ResumeInv` (a running call that has not
  worked is in its first pass), `StepsAreCounted` adds `StepInv` (the clock against the target, and
  `step_until` as `run` computed it). `Implementation` is the refinement of `StructuredExec`: the fairness-free
  specification implies `ImplementsStructured`, step by step (`NextSimulates`). Its invariant `KInv` adds to
  `IInv` that every activation is a `KeptActivation`. A good activation may have counters that belong to no
  pointer any more, and then what is left to run is not what the two stacks say; a kept one has its counters
  only in blocks of a set closed under nesting that holds the bodies of all repeats, and the pointers saved in
  such blocks still have an operation, so that a counter and the pointer above which it lies are popped
  together. `FetchContinues` says that a fetch leaves the frames that follow the first operation of what was
  left (by the end of a pass, `RepeatContinues`, or of a block, `BranchContinues`), `EnterKeeps` that entering
  a block puts its frame under the others, and `CallsPush`, from `FoldLemmas`, that the innermost call is the
  only one a step touches. The hypothesis of the theorem is `RepeatsKeepCount`; without it the conclusion is
  false, and it is about the programs only: breakpoints, budgets, functions and calls of the host are arbitrary.
* **`EmulatorMemoryProofs`**: `IInv` is `TypeOK`, `FramesOk` and `HeapInv`: `hp` is past every region
  but the last word of the last write, and below `lp`. `FramesStayOk`, `OverlapsStayInLastWord`,
  `FunctionsAreKept`, and `ImportsStayAwaited`, which is inductive with the types.
* **`LinkerProofs`**: `IInv` has three parts. *Segments*: the table and what is left to
  import are sorted and disjoint, and those taken from the module under way are in the table or left; the
  lemma `InsertedOrdered` is the argument that the early stop of `insert` misses no overlap
  (`SegmentsStayDisjoint`, `SegmentsStayImported`). *Globals*: names are unique; what a name stands for never
  changes, since the table only grows and a declaration keeps the rest (`DeclareElsewhere`); a global of the
  module under way is either left or represented by the name its references will get (`Meant`); nothing
  referred to is collected. `ReferencesResolve` alone says nothing of a module that is half imported, nor
  of the uniqueness that makes a lookup by name find the right variable. `UnusedSuffix` shows that
  `try_insert` always finds a free suffix, `BuiltinsDeclared` that the globals of the heap conflict with nothing
  once the check before them passed (`ReferencesAlwaysResolve`). The layout needs no history: `offset_of` and
  `size_in_bytes` are folds over prefixes of one list, and each padded global starts no sooner than its
  predecessors end (`SizeSteps`, `SizesGrow`, `LaidOut`; `GlobalsStayLaidOut`). *Functions*: those pending are
  those of the modules added, in another order and with other references (`PendingAdded`, through
  `FunctionsAdded`), the graph has their calls (`CallsRecorded`), and once `link` collects, the checks of the
  calls found nothing and nothing they read changes (`CallsVerified`; `LinkedProgramsClosed`). The graph may
  also have calls of refused modules, but then it has a cycle, and a cycle stays (`CyclesStay`); without one
  every edge has its import in a module that was accepted (`GraphCurrent`; `GraphStaysCurrent`). Assumed are the shapes of modules and
  `TypeAssumption`: an alignment is at least one byte, as `min_alignment` returns.
* **`SymbolTableProofs`**: `IInv` states the lock's discipline, that `names` and `strings` mirror each other but
  between push and insert, and that every answer given agrees with them. `TypeCorrect`,
  `SymbolsStayUnique`, `SymbolsRoundTrip`, `Refinement` (a locked insert is the atomic `Intern`), and `PoisonStays`,
  which adds `PoisonStops`: while the table is poisoned no thread holds the lock to write.

* **`FoldLemmas`**: what `FoldLeft` computes. `FoldAppend` adds a step, `FoldFollows` and `FoldKeeps` carry what
  holds of the accumulator through all the steps. The module has the folded operator as a constant; who folds
  instantiates it. The induction is over a *set* of numbers (`NatInduct`, from the library's `WFMin`), because
  the library's induction theorems, which take an operator, cannot be instantiated by the provers.
* **`OpEmitterProofs`**: the methods of `OpEmitter`, for operands of one to four elements, on stacks of any depth,
  whatever elements an operand stands for. `Flat` lists the elements of a stack of operands; `Leads(S, ops, x, y)`
  says that the instructions can all run and take the machine's stack from `x` to `y`; `Faithful` is the set of
  emitters whose two stacks agree (`Image` of the one is the other) or which panicked, and none of which is at
  fault. The argument goes up by layers: a stack in pieces (`Between`, `Above`, `InFour`) and what one
  instruction makes of the pieces (`StepDup` to `StepDropw`); as many copies of it as an operand has elements
  (`CopiesMovup`, `CopiesMovdn`, ...: the same index each time, which works because the elements that are moved
  slide past it); the cases `swap` distinguishes by the two widths and the distance (`SwapOpsLeads`); where an operand of the stack has its
  elements (`Locate`, `LocateTwo`); and each method (`DupFaithful`, `MovupFaithful`, `MovdnFaithful`,
  `SwapFaithful`, `DropnFaithful`, `MoveFaithful`, ...): if no assertion of the compiler fails, the instructions
  emitted run, and do to the elements what the method does to the operands. Last,
  `PrepareStackArgumentsFaithful`: placing the i-th argument leaves those before it alone (`PlaceFollows`, with
  `MovedPoints` and `FindIs`), so after the last one all are on top in order.
* **`BlockEmitterProofs`**: every action of a block is made of these methods. The inductive invariant `Mirrors` says
  that before the terminator the emitter is faithful for the operands a block can have (`Believed`), and that after
  a branch the stack is one prepared for the successor. `StackMirrored` alone is not inductive: it says nothing of
  which operands the stack holds, whose widths decide which instructions are chosen. `MachineMirrorsStack` and
  `BranchesLeaveParameters` follow, under `MainShapes`: without a repeated argument, the address of a global
  and a return of an immediate over a part of a word. In these three shapes TLC finds the stacks to disagree
  (section 6); the other two, which concern the order of arguments, are covered. For the other two properties
  the positions of a value on the stack are counted (`Once`, `Twice`): a method that only rearranges keeps the
  count (`MovedOccurs`), fetching adds one to a value that stays live (`FetchKeeps`), `drop_unused_operands` takes none of what
  is used or live (`DropUnusedKeeps`, carried along the operands it has passed by `KeptSoFar`), and taking
  arguments off takes one of each (`SparedTaken`). An invariant on the set of values alone does not carry through a
  fetch, since a move and a copy leave the same set. `LiveStaysOnStack` holds for arguments in any order, none repeated and no operator
  treated as commutative (with the shape `"commutative"` TLC finds it to hold as well; the proof follows the plain
  moves).
  `InstructionsGetTheirArguments` has the arguments in the order of their numbers, the only one in which it is
  true: the dependencies are the values in descending order (`DependenciesDescend`), so the last two fetched
  are the first argument and the second. The assumptions on the constants
  are that the values of a function are finitely many, that the parameters of a block differ from one another and
  from the values, and that a value has one to four elements.

**Only model-checked.** Liveness (`CallsReturn`, `LockReleased`) and the conjuncts that need `ENABLED`
are out of the prover's reach. `ShallowNeverPanics` of the block emitter, and everything about the rewrites,
`stackify`, `emitters` and `inline_asm` are checked and not proved. `ShallowNeverPanics` would need a lemma on the
raw length of the stack for each method of the operand stack, carried through every fetch of an instruction; the
lemmas on what a method keeps (`StackLemmas`) are about values and their positions, not about widths in total. The analyses and the
schedule are recursive functions over graphs, whose correctness needs an induction of its own for each traversal; the
emitters compute with the bits of a fixed small width, which TLC enumerates.

## 6. Where the code differs from its documentation

`PROJECT.json` lists each with the line that says otherwise. Three have a run of their own; of the others,
those marked with an operator can be seen with TLC when that operator is left out of what the passing run
handles.

**Emulator, memory, linker.** A repeat body runs n + 1 times; a repeat with a block that ends in an `if` or a
`repeat` loses passes (`RepeatEndsInIf` of `MCEmulator`, left out by `KeepsCount`); `StepOut` and `Loop` breakpoints lose the
activation they stop in; the heap limit is compared with the moved `lp`; the last word of a write is handed
out again (`AllocationsDisjoint`); the offset of a global is padded by what its own size lacks and need not be
aligned (`GlobalsAligned` of `Linker`); `HEAP_BASE` lies before the end of
the globals; equal internal globals of two modules are merged; `StepN(n)` stops after max(1, n - 1) cycles;
returning passes count a cycle; `malloc(0)` returns a word address; `IsOdd` answers whether a number is even;
functions are ordered callers first; direct recursion is not detected; unreferenced `odr` globals are
removed; `has_entrypoint` is inverted.
Noticed, and modelled as the code does it: `StepOver` forgets the function and depth it was set in; a
`MemoryWrite` or `Loop` breakpoint that is masked is lost when that step fails; `Exec` of an undefined
function drops the caller, and the host may go on with what is left; `invoke` on a suspended emulator pushes
onto the suspended call stack; a module whose loading failed half way is taken for present; `link` panics
when the segments or globals reach the end of memory; an imported function missing from its own module panics.

**Arguments of an instruction** (`Shapes`). They are fetched in the order of their value numbers
(`block_arguments`); the operands of a commutative operator may end up below a third (`"commutative"`); an
argument used twice is fetched once (`"repeated"`); the address of a global is never pushed (`"global"`);
`truncate_stack(0)` drops words for left-over elements (`"empty return"`); moves name an element out of reach
(`far`).

**Rewrites** (`Handled` of `MCRewritePipeline`). Both targets of a branch equal: its two edges are one
(`Strict`). Treeify detaches a header that is still branched to when a join lies in a loop (`treeify_loop`,
`JoinsApart`). Of four blocks in a row one is inlined twice (`LongChain`). A parameter that stands for another
inlined parameter is replaced by a value that is gone. Liveness does not put predecessors back on the worklist
(`liveness_nested`), nor a header that its latch has met first and whose set comes out empty. `live_at` lists what is live after the point.

**Stackification of a function** (`HandledFunction` of `MCStackify`). The order of dependencies as above
(`OrderedArgs`; a commutative operator is handled if one operand is computed for it). Of two users in one tree the
lower one moves the value away, as pre-order numbers are compared with a post-order emission
(`UsedAtOneLevel`). Instructions with effects are not kept in order (`EffectsApart`). A result used twice in its
block and live after it is moved. A loop whose exit block branches again trips an assertion, so the exits
of the instance's loops return. Nested loops that do not use a value of the outer one meet the finding on liveness.
Dead-code elimination never finds a dead instruction.

**Emitters** (`HandledOps` of `MCEmitters`, with the lines at each operator). The halves of a 64-bit constant are
exchanged (`SwappedHalves`); the check of a small unsigned result looks at the element below it
(`TestsWrongElement`); truncation keeps one bit (`WrongMask`); truncation to a felt ignores the sign
(`NegativeTrunc`); casts assert the opposite, assert nothing, or leave an element behind (`WrongCast`);
equality of 64-bit and 128-bit values compares whole words (`WrongComparison`); a flag of overflow is announced and
not pushed (`NoFlag`); and one by one (`Others`) division of a felt by an immediate, shifts of `u64`, `select` on
two elements, `popcnt` and `bnot` of wide types. Instructions that are not commutative take the lower
operand for their left one, which the schedule puts on top.

**MASM builder.** The second iteration of a repeat with a nested loop or branch is reckoned by the condition or
first branch only (`Repeats`); a syscall is taken for an exec; `assert_eqw` builds `AssertEq`; a u64 parameter is one
element and a u64 result two. For some instructions the effect reckoned is not the machine's, and the passing run
does without them: `cdrop` and `cswap` and their word forms do not ask for both operands (without
`OperandsPresent` the caller's elements are taken) and keep the type of one (without `SameTypes` a condition is no
boolean), `divmod` of two `u32` counts as one element (`DivModUses`), `loadw` overwrites a word that was not asked
for (`LoadwUses`), an offset is not asked for (`OffsetUses`), and `storew` leaves the word it stores
(`StorewUses`). Without consequence for isolation: `u32.assert2` looks at the top twice, `movupw` and
`movdnw` ask for an element more than they move, `add3` of three `u32` is not implemented in the emulator. For
every other method, arity and number of results of the two agree.

## 7. Not modelled

* **Loads and stores** (`emit/mem.rs`, `intrinsics/mem.masm`). The stores and the memory copies are `todo!()`, so
  nothing can be said of a value that is stored and loaded. Where the bytes of a value lie is contradictory:
  `mem.rs:601` has a little-endian machine whose "most significant bytes come first". And most loads do not
  work: only those that begin on an element and need no move past the others do. They reach the caller's element
  (`mem.rs:325`), shift by bytes where bits are meant (`mem.rs:182`), or call a procedure that is not there
  (`mem.rs:442`).
* **`switch`, inline assembly inside a scheduled block, instructions with several results**: stackification
  panics on a `switch` (`pass.rs:1376`) and so do the passes; the other two are not reached by the handled
  instructions. The contents of an inline assembly are the builder's part.
* **Word operations of the compile-time stack**: nothing in the modelled code uses them.
* Of the emulator: native functions' effects, `StepUntil` set by the host, `u8` overflow of the counter
  for `repeat.255`. Its arithmetic is in `MasmMachine`, apart from its control.
* Of the linker: attributes, spans, and kernel modules. Of the layout: aggregate types.
* **Validation, pass manager, builders, types, text output, driver and test tools**: stateless rules, plain
  containers or formatting; the reasons are in `PROJECT.json`.

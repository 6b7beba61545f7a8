--------------------------- MODULE StructuredExec ---------------------------
(***************************************************************************)
(* What running a MASM program promises, without a callstack to walk, a    *)
(* clock or a debugger: if, while.true, repeat.n and exec executed one     *)
(* operation at a time (the comments on enum Op, hir/src/asm/isa.rs).      *)
(*                                                                         *)
(* The state is what is left to execute: a sequence of calls, each a       *)
(* sequence of frames, the innermost last.  Finished frames and calls are  *)
(* never kept, so returning is no step at all.                             *)
(*                                                                         *)
(* Two constants let the specification say how the code differs from those *)
(* comments: Passes(n), the number of times the body of repeat.n runs, and *)
(* LosesCall, the breakpoints at which the innermost call may be dropped.  *)
(* The comments' own reading is Passes(n) = n and LosesCall = {}.          *)
(***************************************************************************)
EXTENDS MasmProgram, SequencesExt

CONSTANTS Passes(_), LosesCall

VARIABLES functions, bp, remaining

(***************************************************************************)
(* A frame is a place in a block of a function, and how many more times    *)
(* the block is to be run after this one.                                  *)
(***************************************************************************)
Frame(f, block, index, again) ==
    [function |-> f, block |-> block, index |-> index, again |-> again]

BlockOf(fr) == fr.function.blocks[fr.block]
Finished(fr) == fr.index >= Len(BlockOf(fr)) /\ fr.again = 0

Rewound(fr) ==
    IF fr.index >= Len(BlockOf(fr)) THEN [fr EXCEPT !.index = 0, !.again = @ - 1] ELSE fr

\* Drop what is finished, and begin the next pass of a repeat that is not.
Normal(frames) ==
    LET live == {i \in DOMAIN frames : ~Finished(frames[i])}
    IN  IF live = {} THEN << >>
        ELSE Append(SubSeq(frames, 1, Max(live) - 1), Rewound(frames[Max(live)]))

\* The calls under way, and one more that may be finished.
Under(rest, frames) ==
    LET left == Normal(frames) IN IF left = << >> THEN rest ELSE Append(rest, left)

Call(f) == << Frame(f, f.body, 0, 0) >>

Init == remaining = << >>

\* The host calls a function.
Invoke ==
    \E f \in DOMAIN functions : remaining' = Under(remaining, Call(functions[f]))

-----------------------------------------------------------------------------
(***************************************************************************)
(* What may be left after the next operation of the innermost call, that   *)
(* has `rest` under it: the call itself and, after exec, the one it made.  *)
(* An exec of a function that is not there ends the call.                  *)
(***************************************************************************)
NextOp(frames) == BlockOf(Last(frames))[Last(frames).index + 1]
Past(frames) == Append(Front(frames), [Last(frames) EXCEPT !.index = @ + 1])
Within(frames, block, again) == Append(frames, Frame(Last(frames).function, block, 0, again))

Outcomes(rest, frames) ==
    LET op   == NextOp(frames)
        past == Past(frames)
    IN  CASE op.op \in {"Plain", "Store"} -> {Under(rest, past)}
          [] op.op = "If"     -> {Under(rest, Within(past, block, 0)) : block \in {op.then, op.else}}
          [] op.op = "While"  -> {Under(rest, Within(frames, op.body, 0)), Under(rest, past)}
          [] op.op = "Repeat" -> {Under(rest, Within(past, op.body, Passes(op.n) - 1))}
          [] op.op = "Exec"   -> IF op.callee \in DOMAIN functions
                                   THEN {Under(Under(rest, past), Call(functions[op.callee]))}
                                   ELSE {rest}

Execute ==
    /\ remaining # << >>
    /\ remaining' \in Outcomes(Front(remaining), Last(remaining))

LoseCall ==
    /\ remaining # << >> /\ bp.kind \in LosesCall
    /\ remaining' = Front(remaining)

\* A step of the host or the debugger alone: it is named, and named first, because
\* most steps of the emulator are this one and TLC need not try the others on them.
Idle == UNCHANGED remaining

Next == Idle \/ Execute \/ LoseCall \/ Invoke

Spec == Init /\ [][Next]_remaining

=============================================================================

---------------------------- MODULE MasmProgram ----------------------------
(***************************************************************************)
(* MASM programs as the emulator sees them: functions made of blocks, and  *)
(* blocks made of operations (codegen/masm: masm/function.rs, Op of        *)
(* hir/src/asm/isa.rs).                                                    *)
(*                                                                         *)
(* Only the operations that touch control state or a breakpoint are kept   *)
(* apart.  Every other operation works on the operand stack, memory or the *)
(* advice provider alone and is a "Plain" one here.                        *)
(***************************************************************************)
EXTENDS Integers, Sequences

CONSTANTS
    FunctionIdent,   \* names of functions, loaded or not
    BlockId,         \* ids of the blocks of one function (each function has its own)
    Addr             \* word addresses a store may name

(***************************************************************************)
(* isa.rs, enum Op.                                                        *)
(***************************************************************************)
PlainOp  == [op : {"Plain"}]
StoreOp  == [op : {"Store"}, addr : Addr]
IfOp     == [op : {"If"}, then : BlockId, else : BlockId]
WhileOp  == [op : {"While"}, body : BlockId]
RepeatOp == [op : {"Repeat"}, n : Nat, body : BlockId]
ExecOp   == [op : {"Exec"}, callee : FunctionIdent]

Op == PlainOp \cup StoreOp \cup IfOp \cup WhileOp \cup RepeatOp \cup ExecOp

(***************************************************************************)
(* A function: its name, the block it starts at and the code of each of    *)
(* its blocks.                                                             *)
(***************************************************************************)
Function == [name : FunctionIdent, body : BlockId, blocks : [BlockId -> Seq(Op)]]

(***************************************************************************)
(* The emulator indexes the first operation of a repeat body without a     *)
(* bounds check (code[0] in next_instruction), so a program it can run has *)
(* no empty repeat body.                                                   *)
(***************************************************************************)
RepeatBodiesNonEmpty(f) ==
    \A b \in BlockId : \A i \in DOMAIN f.blocks[b] :
        f.blocks[b][i].op = "Repeat" => f.blocks[f.blocks[b][i].body] # << >>

(***************************************************************************)
(* A set of blocks that has the bodies of all repeats and what is nested   *)
(* in them; and the functions none of whose blocks in such a set ends in   *)
(* an if or a repeat.                                                      *)
(***************************************************************************)
Entered(op) ==
    IF op.op = "If" THEN {op.then, op.else}
    ELSE IF op.op \in {"While", "Repeat"} THEN {op.body} ELSE {}

RepeatNest(f, inside) ==
    \A b \in BlockId : \A i \in DOMAIN f.blocks[b] :
        LET op == f.blocks[b][i]
        IN  /\ op.op = "Repeat" => op.body \in inside
            /\ b \in inside =>
                 /\ Entered(op) \subseteq inside
                 /\ i = Len(f.blocks[b]) => op.op \notin {"If", "Repeat"}

KeepsCount(f) == \E inside \in SUBSET BlockId : RepeatNest(f, inside)

(***************************************************************************)
(* The functions map of an emulator: a loaded function under its own name. *)
(***************************************************************************)
IsFunctionTable(fs) ==
    /\ DOMAIN fs \subseteq FunctionIdent
    /\ \A id \in DOMAIN fs : /\ fs[id] \in Function
                             /\ fs[id].name = id
                             /\ RepeatBodiesNonEmpty(fs[id])

=============================================================================

----------------------------- MODULE FunctionIR -----------------------------
(***************************************************************************)
(* A function of the intermediate representation (hir: dataflow.rs,        *)
(* layout.rs, block.rs, instruction.rs): blocks with parameters, which     *)
(* hold instructions, the last of which is the terminator.                 *)
(*                                                                         *)
(* Blocks and values are numbered as they are made.  A block that is       *)
(* detached leaves the layout but keeps its number, its parameters and its *)
(* instructions, as in the arena.  The layout is the set of the blocks in  *)
(* it, as no pass looks at their order; the list the code keeps is an      *)
(* intrusive one, and inserting next to a block that is not in it, or      *)
(* removing that block again, follows a dangling link.  Then nothing is    *)
(* defined any more, and defined is FALSE.                                 *)
(***************************************************************************)
EXTENDS Integers, Sequences, FiniteSets, SequencesExt

CONSTANT MaxBlocks   \* bound: block numbers a function may use

ASSUME MaxBlocksAssumption == MaxBlocks \in Nat \ {0}

Block == 1..MaxBlocks

(***************************************************************************)
(* The entry block is the first that is made.                              *)
(***************************************************************************)
Entry == 1

(***************************************************************************)
(* An instruction: what it is, the values it uses (for a conditional       *)
(* branch, the condition), the values it makes, and for a branch its       *)
(* targets with their arguments, the "then" one first.                     *)
(***************************************************************************)
Target(b, args) == [dest |-> b, args |-> args]
Inst(op, args, results, targets) ==
    [op |-> op, args |-> args, results |-> results, targets |-> targets]

Params(f, b) == f.blocks[b].params
Insts(f, b) == f.blocks[b].insts
LastInst(f, b) == Last(Insts(f, b))

Attached(f) == f.layout

(***************************************************************************)
(* analyze_branch: no target, a single one, or several.                    *)
(***************************************************************************)
Targets(f, b) == LastInst(f, b).targets
Successors(f, b) == {t.dest : t \in ToSet(Targets(f, b))}

-----------------------------------------------------------------------------
(***************************************************************************)
(* Edits of a function.                                                    *)
(***************************************************************************)
NumBlocks(f) == Len(f.blocks)
EmptyBlock == [params |-> << >>, insts |-> << >>]

(* create_block_after: the new block is the one with the next number *)
CreateBlockAfter(f, b) ==
    [f EXCEPT !.blocks = Append(@, EmptyBlock),
              !.layout = @ \cup {NumBlocks(f) + 1},
              !.defined = @ /\ b \in Attached(f)]

DetachBlock(f, b) ==
    [f EXCEPT !.layout = @ \ {b}, !.defined = @ /\ b \in Attached(f)]

AppendInst(f, b, inst) == [f EXCEPT !.blocks[b].insts = Append(@, inst)]

(* the terminator of a block, replaced *)
SetTerminator(f, b, inst) == [f EXCEPT !.blocks[b].insts = Append(Front(@), inst)]

(***************************************************************************)
(* clone_block_params: as many new values as the source has parameters.    *)
(***************************************************************************)
FreshValues(f, n) == [i \in 1..n |-> f.values + i]

CloneBlockParams(f, src, dest) ==
    LET n == Len(Params(f, src))
    IN  [f EXCEPT !.blocks[dest].params = FreshValues(f, n), !.values = @ + n]

(***************************************************************************)
(* An instruction with its values looked up in a map; a value that is not  *)
(* a key stays.                                                            *)
(***************************************************************************)
Lookup(map, x) == IF x \in DOMAIN map THEN map[x] ELSE x
Renamed(map, xs) == [i \in DOMAIN xs |-> Lookup(map, xs[i])]

RewriteUse(inst, map) ==
    [inst EXCEPT !.args = Renamed(map, @),
                 !.targets = [i \in DOMAIN @ |-> [@[i] EXCEPT !.args = Renamed(map, @)]]]

=============================================================================

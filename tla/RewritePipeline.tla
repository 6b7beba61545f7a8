-------------------------- MODULE RewritePipeline --------------------------
(***************************************************************************)
(* The rewrites that prepare a function for code generation                *)
(* (rewrite_function in codegen/masm/src/lib.rs): SplitCriticalEdges, then *)
(* Treeify, then InlineBlocks, sharing a FunctionAnalysis whose control    *)
(* flow graph, dominator tree and loops each of them reads, keeps up to    *)
(* date or recomputes.  Afterwards ensure_all makes liveness available.    *)
(*                                                                         *)
(* There is one action for each iteration of a pass's loop.  An assertion  *)
(* that fails ends in "panicked"; an edit of the layout that has no        *)
(* meaning (see FunctionIR) in "undefined".                                *)
(***************************************************************************)
EXTENDS Liveness

CONSTANT Functions   \* the functions that may be compiled

ASSUME FunctionsAssumption ==
    \A f \in Functions : f.defined /\ Len(f.blocks) <= MaxBlocks /\ Attached(f) = DOMAIN f.blocks

VARIABLES
    fn,         \* the function
    original,   \* history: the function as it was given
    analysis,   \* the FunctionAnalysis; an analysis not computed is {}, else a singleton
    phase,      \* which loop of which pass is running
    worklist,   \* blocks that loop has yet to take
    visited,    \* blocks it has taken
    root,       \* the block being split, the join being copied, or the block inlined into
    edges,      \* its successors still to split, or its predecessors still to give a copy
    queue,      \* treeify: copies still to be made
    rewrites,   \* inline: values that stand for parameters
    changed     \* whether this pass has changed the graph

vars == <<fn, original, analysis, phase, worklist, visited, root, edges, queue, rewrites, changed>>

The(option) == CHOOSE x \in option : TRUE

cfg == analysis.cfg
domtree == The(analysis.domtree)
loops == The(analysis.loops)

Phases == {"split", "edge", "treeify", "copy", "inline", "chain", "rewritten", "ready", "panicked", "undefined"}

(***************************************************************************)
(* Each action says where it goes if nothing has gone wrong.               *)
(***************************************************************************)
GoTo(next, panics) ==
    phase' = IF ~fn'.defined THEN "undefined" ELSE IF panics THEN "panicked" ELSE next

-----------------------------------------------------------------------------
(***************************************************************************)
(* FunctionAnalysis                                                        *)
(***************************************************************************)
NewAnalysis(f) == [cfg |-> ComputeCfg(f), domtree |-> {}, loops |-> {}, liveness |-> {}]

EnsureDomtree(a, f) == IF a.domtree # {} THEN a ELSE [a EXCEPT !.domtree = {ComputeDomtree(f, a.cfg)}]

EnsureLoops(a, f) ==
    LET d == EnsureDomtree(a, f)
    IN  IF d.loops # {} THEN d ELSE [d EXCEPT !.loops = {ComputeLoops(d.cfg, The(d.domtree))}]

EnsureLiveness(a, f) ==
    LET l == EnsureLoops(a, f)
    IN  IF l.liveness # {} THEN l
        ELSE [l EXCEPT !.liveness = {ComputeLiveness(f, The(l.domtree), The(l.loops))}]

\* Variant: the loops are kept.
CfgChangedKeeping(a, f) == [a EXCEPT !.domtree = IF @ = {} THEN {} ELSE {ComputeDomtree(f, a.cfg)}]

(* what has been computed, once more from the graph at hand *)
CfgChanged(a, f) ==
    LET d == [a EXCEPT !.domtree = IF @ = {} THEN {} ELSE {ComputeDomtree(f, a.cfg)}]
        l == [d EXCEPT !.loops = IF @ = {} THEN {} ELSE {ComputeLoops(a.cfg, The(d.domtree))}]
    IN  [l EXCEPT !.liveness = IF @ = {} THEN {} ELSE {ComputeLiveness(f, The(l.domtree), The(l.loops))}]

Recompute(a, f) == CfgChanged([a EXCEPT !.cfg = ComputeCfg(f)], f)

-----------------------------------------------------------------------------
(***************************************************************************)
(* SplitCriticalEdges                                                      *)
(***************************************************************************)
SplitFunction(f, p, b) ==
    LET split == NumBlocks(f) + 1
        branch == LastInst(f, p)
        i == IF branch.targets[1].dest = b THEN 1 ELSE 2
    IN  AppendInst(SetTerminator(CreateBlockAfter(f, p), p,
                                 [branch EXCEPT !.targets[i] = Target(split, << >>)]),
                   split, Inst("br", << >>, << >>, <<Target(b, branch.targets[i].args)>>))

(* a block that forks is split towards each of the successors it has before *)
SplitTake ==
    /\ phase = "split"
    /\ worklist # << >>
    /\ LET p == Head(worklist)
           seen == p \in visited
           fork == ~seen /\ NumSuccessors(cfg, p) >= 2
       IN  /\ worklist' = Tail(worklist) \o (IF seen THEN << >> ELSE SuccIter(cfg, p))
           /\ visited' = visited \cup {p}
           /\ root' = p
           /\ edges' = IF fork THEN SuccIter(cfg, p) ELSE << >>
           /\ phase' = IF fork THEN "edge" ELSE "split"
    /\ UNCHANGED <<fn, original, analysis, queue, rewrites, changed>>

SplitSkip ==
    /\ phase = "edge"
    /\ edges # << >>
    /\ NumPredecessors(cfg, Head(edges)) < 2
    /\ edges' = Tail(edges)
    /\ UNCHANGED <<fn, original, analysis, phase, worklist, visited, root, queue, rewrites, changed>>

SplitEdge ==
    /\ phase = "edge"
    /\ edges # << >>
    /\ NumPredecessors(cfg, Head(edges)) >= 2
    /\ NumBlocks(fn) < MaxBlocks
    /\ fn' = SplitFunction(fn, root, Head(edges))
    /\ analysis' = [analysis EXCEPT !.cfg = RecomputeBlock(@, fn', NumBlocks(fn'))]
    /\ edges' = Tail(edges)
    /\ GoTo("edge", FALSE)
    /\ UNCHANGED <<original, worklist, visited, root, queue, rewrites, changed>>

\* Variant: the graph keeps the edge that was split.
SplitForgetful ==
    /\ phase = "edge"
    /\ edges = << >>
    /\ phase' = "split"
    /\ UNCHANGED <<fn, original, analysis, worklist, visited, root, edges, queue, rewrites, changed>>

SplitRecompute ==
    /\ phase = "edge"
    /\ edges = << >>
    /\ analysis' = [analysis EXCEPT !.cfg = RecomputeBlock(@, fn, root)]
    /\ phase' = "split"
    /\ UNCHANGED <<fn, original, worklist, visited, root, edges, queue, rewrites, changed>>

(* the end of the pass, and the start of Treeify *)
SplitDone ==
    /\ phase = "split"
    /\ worklist = << >>
    /\ LET ensured == EnsureLoops(analysis, fn)
       IN  analysis' = ensured /\ worklist' = The(ensured.domtree).postorder
    /\ fn' = fn
    /\ GoTo("treeify", DomtreePanics(fn, cfg))
    /\ UNCHANGED <<original, visited, root, edges, queue, rewrites, changed>>

-----------------------------------------------------------------------------
(***************************************************************************)
(* Treeify.  A copy to be made: of a block, for a predecessor, under the   *)
(* values and blocks that have been copied on the way to it.               *)
(***************************************************************************)
CopyOf(b, p, values, blocks) == [block |-> b, pred |-> p, values |-> values, blocks |-> blocks]

Correspond(from, to) == [x \in {from[i] : i \in DOMAIN from \cap DOMAIN to} |->
                    to[CHOOSE i \in DOMAIN from \cap DOMAIN to : from[i] = x]]

(* update_predecessor, which asserts "unexpected critical edge" *)
Retarget(f, p, b, copy, keepArgs) ==
    SetTerminator(f, p,
        [LastInst(f, p) EXCEPT !.targets = [i \in DOMAIN @ |->
            IF @[i].dest # b THEN @[i] ELSE Target(copy, IF keepArgs THEN @[i].args ELSE << >>)]])

SameTargets(f, p) == Len(Targets(f, p)) = 2 /\ Cardinality(Successors(f, p)) = 1

\* Variant: what follows goes on using the results of the original.
CopyInstUnmapped(s, copy, inst, blocks) ==
    LET results == FreshValues(s.fn, Len(inst.results))
    IN  [fn |-> [AppendInst(s.fn, copy,
                    [RewriteUse(inst, s.values) EXCEPT !.results = results,
                        !.targets = [i \in DOMAIN @ |-> [@[i] EXCEPT !.dest = Lookup(blocks, @)]]])
                 EXCEPT !.values = @ + Len(results)],
         values |-> s.values]

(* copy_instructions, one: with new results and its values and targets mapped *)
CopyInst(s, copy, inst, blocks) ==
    LET results == FreshValues(s.fn, Len(inst.results))
        mapped == RewriteUse(inst, s.values)
    IN  [fn |-> [AppendInst(s.fn, copy,
                    [mapped EXCEPT !.results = results,
                                   !.targets = [i \in DOMAIN @ |-> [@[i] EXCEPT !.dest = Lookup(blocks, @)]]])
                 EXCEPT !.values = @ + Len(results)],
         values |-> Correspond(inst.results, results) @@ s.values]

(* the arguments the predecessor passes, of its first edge to the block *)
PassedArgs(f, p, b) ==
    LET to == SelectSeq(Targets(f, p), LAMBDA t : t.dest = b)
    IN  IF Len(Targets(f, p)) = 1 THEN Targets(f, p)[1].args
        ELSE IF to = << >> THEN << >> ELSE to[1].args

(***************************************************************************)
(* treeify and treeify_loop: the copy of a loop header keeps parameters,   *)
(* that of another block does without.                                     *)
(***************************************************************************)
MakeCopy(f, c) ==
    LET copy == NumBlocks(f) + 1
        header == IsLoopHeader(loops, c.block)
        made == CreateBlockAfter(f, c.pred)
        cloned == IF header THEN CloneBlockParams(made, c.block, copy) ELSE made
        stand == IF header THEN Params(cloned, copy) ELSE PassedArgs(f, c.pred, c.block)
        blocks == (c.block :> copy) @@ c.blocks
        copied == FoldLeft(LAMBDA s, inst : CopyInst(s, copy, inst, blocks),
                           [fn |-> Retarget(cloned, c.pred, c.block, copy, header),
                            values |-> Correspond(Params(f, c.block), stand) @@ c.values],
                           Insts(f, c.block))
        (* copy_children: a header copied already is a target, the others are copied *)
        isBack(s) == s \in DOMAIN blocks /\ IsLoopHeader(loops, s)
        backs == SelectSeq(SuccIter(cfg, c.block), isBack)
        children == SelectSeq(SuccIter(cfg, c.block), LAMBDA s : ~isBack(s))
    IN  [fn |-> FoldLeft(LAMBDA g, s : Retarget(g, copy, s, blocks[s], TRUE), copied.fn, backs),
         panics |-> SameTargets(f, c.pred) \/ (backs # << >> /\ SameTargets(copied.fn, copy)),
         queue |-> [i \in DOMAIN children |-> CopyOf(children[i], copy, copied.values, blocks)]]

\* Variants: a block is detached as often as it is met; only the root is detached.
DetachAgain(s) ==
    IF s.queue = << >> THEN s
    ELSE [fn |-> DetachBlock(s.fn, Head(s.queue)), queue |-> Tail(s.queue) \o SuccIter(cfg, Head(s.queue)),
          seen |-> s.seen]
DetachRoot(f, b) == DetachBlock(f, b)

(* detach_tree, by the graph as it was *)
DetachStep(s) ==
    LET fresh == SelectSeq(SuccIter(cfg, Head(s.queue)), LAMBDA b : b \notin s.seen)
    IN  IF s.queue = << >> THEN s
        ELSE [fn |-> DetachBlock(s.fn, Head(s.queue)), queue |-> Tail(s.queue) \o fresh,
              seen |-> s.seen \cup ToSet(fresh)]

DetachTree(f, b) ==
    LET After[n \in Nat] ==
            IF n = 0 THEN [fn |-> f, queue |-> <<b>>, seen |-> {b}] ELSE DetachStep(After[n - 1])
    IN  After[NumBlocks(f)].fn

(***************************************************************************)
(* The blocks are taken in post-order; loop headers, and blocks with one   *)
(* predecessor, are left alone.                                            *)
(***************************************************************************)
TreeifyBlock ==
    /\ phase = "treeify"
    /\ worklist # << >>
    /\ LET b == Head(worklist)
           join == ~IsLoopHeader(loops, b) /\ NumPredecessors(cfg, b) > 1
       IN  /\ root' = b
           /\ edges' = IF join THEN PredIter(cfg, b) ELSE << >>
           /\ phase' = IF join THEN "copy" ELSE "treeify"
    /\ worklist' = Tail(worklist)
    /\ UNCHANGED <<fn, original, analysis, visited, queue, rewrites, changed>>

CopyTree ==
    /\ phase = "copy"
    /\ queue = << >>
    /\ edges # << >>
    /\ queue' = <<CopyOf(root, Head(edges), << >>, << >>)>>
    /\ edges' = Tail(edges)
    /\ UNCHANGED <<fn, original, analysis, phase, worklist, visited, root, rewrites, changed>>

CopyBlock ==
    /\ phase = "copy"
    /\ queue # << >>
    /\ NumBlocks(fn) < MaxBlocks
    /\ LET made == MakeCopy(fn, Head(queue))
       IN  /\ fn' = made.fn
           /\ queue' = Tail(queue) \o made.queue
           /\ GoTo("copy", made.panics)
    /\ UNCHANGED <<original, analysis, worklist, visited, root, edges, rewrites, changed>>

DetachOriginal ==
    /\ phase = "copy"
    /\ queue = << >>
    /\ edges = << >>
    /\ fn' = DetachTree(fn, root)
    /\ changed' = TRUE
    /\ GoTo("treeify", FALSE)
    /\ UNCHANGED <<original, analysis, worklist, visited, root, edges, queue, rewrites>>

(* the end of the pass, and the start of InlineBlocks *)
TreeifyDone ==
    /\ phase = "treeify"
    /\ worklist = << >>
    /\ LET panics == changed /\ DomtreePanics(fn, ComputeCfg(fn))
       IN  /\ analysis' = IF changed /\ ~panics THEN Recompute(analysis, fn) ELSE analysis
           /\ fn' = fn
           /\ GoTo("inline", panics)
    /\ worklist' = <<Entry>>
    /\ visited' = {}
    /\ changed' = FALSE
    /\ UNCHANGED <<original, root, edges, queue, rewrites>>

-----------------------------------------------------------------------------
(***************************************************************************)
(* InlineBlocks.  A block that has been taken already, or that has several *)
(* successors or predecessors, is passed; any other one starts a chain.    *)
(***************************************************************************)
InlinePass ==
    /\ phase = "inline"
    /\ worklist # << >>
    /\ LET p == Head(worklist)
           several == NumSuccessors(cfg, p) > 1 \/ NumPredecessors(cfg, p) > 1
       IN  /\ p \in visited \/ several
           /\ worklist' = Tail(worklist) \o (IF p \in visited THEN << >> ELSE SuccIter(cfg, p))
           /\ visited' = visited \cup {p}
    /\ UNCHANGED <<fn, original, analysis, phase, root, edges, queue, rewrites, changed>>

InlineCandidate ==
    /\ phase = "inline"
    /\ worklist # << >>
    /\ LET p == Head(worklist)
       IN  /\ p \notin visited
           /\ NumSuccessors(cfg, p) <= 1
           /\ NumPredecessors(cfg, p) <= 1
           /\ root' = p
           /\ visited' = visited \cup {p}
    /\ worklist' = Tail(worklist)
    /\ phase' = "chain"
    /\ UNCHANGED <<fn, original, analysis, edges, queue, rewrites, changed>>

(***************************************************************************)
(* inline: the instructions of a block, rewritten, in place of the         *)
(* terminator of the block before.  The emptied block keeps a copy of its  *)
(* terminator and is detached.                                             *)
(***************************************************************************)
InlineInto(f, b, p, map) ==
    LET moved == [i \in DOMAIN Insts(f, b) |-> RewriteUse(Insts(f, b)[i], map)]
    IN  DetachBlock([f EXCEPT !.blocks[p].insts = Front(@) \o moved,
                              !.blocks[b].insts = <<Last(moved)>>], b)

Inline ==
    /\ phase = "chain"
    /\ Len(Targets(fn, root)) = 1
    /\ LET target == Targets(fn, root)[1]
           b == target.dest
           map == Correspond(Params(fn, b), target.args) @@ rewrites
           inlined == InlineInto(fn, b, root, map)
       IN  /\ NumPredecessors(cfg, b) <= 1
           /\ rewrites' = map
           /\ fn' = IF b = root THEN fn ELSE inlined
           /\ worklist' = worklist \o [i \in DOMAIN Targets(fn, b) |-> Targets(fn, b)[i].dest]
           /\ analysis' = IF b = root THEN analysis
                          ELSE [analysis EXCEPT !.cfg = RecomputeBlock(DetachFromCfg(@, b), inlined, root)]
           /\ GoTo("chain", b = root)
    /\ changed' = TRUE
    /\ UNCHANGED <<original, visited, root, edges, queue>>

(* a return, several targets, or a target with other predecessors *)
InlineStop ==
    /\ phase = "chain"
    /\ LET targets == Targets(fn, root)
       IN  /\ Len(targets) = 1 => NumPredecessors(cfg, targets[1].dest) > 1
           /\ worklist' = worklist \o (IF Len(targets) = 1 THEN <<targets[1].dest>> ELSE << >>)
    /\ phase' = "inline"
    /\ UNCHANGED <<fn, original, analysis, visited, root, edges, queue, rewrites, changed>>

(***************************************************************************)
(* rewrite_uses: every block that can be reached by branches.              *)
(***************************************************************************)
Reached(f) ==
    LET After[n \in Nat] ==
            IF n = 0 THEN {Entry}
            ELSE LET last == After[n - 1] IN last \cup UNION {Successors(f, b) : b \in last}
    IN  After[NumBlocks(f)]

RewriteUses(f, map) ==
    [f EXCEPT !.blocks = [b \in DOMAIN @ |->
        IF b \in Reached(f)
        THEN [@[b] EXCEPT !.insts = [i \in DOMAIN @ |-> RewriteUse(@[i], map)]]
        ELSE @[b]]]

InlineDone ==
    /\ phase = "inline"
    /\ worklist = << >>
    /\ fn' = RewriteUses(fn, rewrites)
    /\ LET panics == changed /\ DomtreePanics(fn', cfg)
       IN  /\ analysis' = IF changed /\ ~panics THEN CfgChanged(analysis, fn') ELSE analysis
           /\ GoTo("rewritten", panics)
    /\ UNCHANGED <<original, worklist, visited, root, edges, queue, rewrites, changed>>

(***************************************************************************)
(* compile_module, before the function is lowered.                         *)
(***************************************************************************)
EnsureAll ==
    /\ phase = "rewritten"
    /\ fn' = fn
    /\ LET panics == LivenessPanics(fn, cfg, domtree)
       IN  /\ analysis' = IF panics THEN analysis ELSE EnsureLiveness(analysis, fn)
           /\ GoTo("ready", panics)
    /\ UNCHANGED <<original, worklist, visited, root, edges, queue, rewrites, changed>>

(* the function is handed on; nothing else may stop the pipeline *)
Lowered ==
    /\ phase = "ready"
    /\ UNCHANGED vars

-----------------------------------------------------------------------------
Init ==
    /\ fn \in Functions
    /\ original = fn
    /\ analysis = NewAnalysis(fn)
    /\ phase = "split"
    /\ worklist = <<Entry>>
    /\ visited = {}
    /\ root = Entry
    /\ edges = << >>
    /\ queue = << >>
    /\ rewrites = << >>
    /\ changed = FALSE

Next ==
    \/ SplitTake \/ SplitSkip \/ SplitEdge \/ SplitRecompute \/ SplitDone
    \/ TreeifyBlock \/ CopyTree \/ CopyBlock \/ DetachOriginal \/ TreeifyDone
    \/ InlinePass \/ InlineCandidate \/ Inline \/ InlineStop \/ InlineDone
    \/ EnsureAll
    \/ Lowered

Spec == Init /\ [][Next]_vars

=============================================================================

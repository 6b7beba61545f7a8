------------------------- MODULE RewriteProperties -------------------------
(***************************************************************************)
(* What RewritePipeline is to achieve, stated over the paths and the       *)
(* executions of a function, without the analyses.                         *)
(***************************************************************************)
EXTENDS RewritePipeline

CONSTANTS
    Decisions,   \* bound: conditional branches taken by an execution
    Blocks       \* bound: blocks entered by an execution

ASSUME BoundsAssumption == Decisions \in Nat /\ Blocks \in Nat

-----------------------------------------------------------------------------
(***************************************************************************)
(* Paths.                                                                  *)
(***************************************************************************)
ReachedAvoiding(f, start, a) ==
    LET After[n \in Nat] ==
            IF n = 0 THEN start \ {a}
            ELSE LET last == After[n - 1] IN last \cup (UNION {Successors(f, b) : b \in last} \ {a})
    IN  After[NumBlocks(f)]

PathDominates(f, a, b) == b \in Reached(f) /\ b \notin ReachedAvoiding(f, {Entry}, a)

Preds(f, b) == {p \in Reached(f) : b \in Successors(f, p)}

Latches(f, h) == Preds(f, h) \ ReachedAvoiding(f, {Entry}, h)

(* the header, and what reaches a latch without passing it *)
NaturalLoop(f, h) ==
    {h} \cup {b \in Reached(f) \ {h} : ReachedAvoiding(f, {b}, h) \cap Latches(f, h) # {}}

Headers(f) == {h \in Reached(f) : Latches(f, h) # {}}

DefinedIn(f, b) == UNION {ToSet(i.results) : i \in ToSet(Insts(f, b))}

(* used in the block, before the block defines it if it does *)
UsedIn(f, b) == UNION {InstUses(i) : i \in ToSet(Insts(f, b))} \ DefinedIn(f, b)

(***************************************************************************)
(* The blocks at whose head a value is live: those from which a use is     *)
(* reached and no other definition of it on the way.                       *)
(***************************************************************************)
LiveHeads(f, v) ==
    LET Before[n \in Nat] ==
            IF n = 0 THEN {b \in Reached(f) : v \in UsedIn(f, b)}
            ELSE LET last == Before[n - 1]
                 IN  last \cup {p \in Reached(f) :
                        /\ v \notin DefinedIn(f, p)
                        /\ \E s \in Successors(f, p) : s \in last /\ v \notin ToSet(Params(f, s))}
    IN  Before[NumBlocks(f)]

-----------------------------------------------------------------------------
(***************************************************************************)
(* Executions.  An event is an operation with the values it reads, or a    *)
(* decision, or the return.  A value is the number of the event that made  *)
(* it, a negative number for a parameter of the function, and 0 if it has  *)
(* not been defined.                                                       *)
(***************************************************************************)
Read(env, xs) == [i \in DOMAIN xs |-> IF xs[i] \in DOMAIN env THEN env[xs[i]] ELSE 0]

Bind(env, names, values) ==
    [x \in DOMAIN env \cup ToSet(names) |->
        IF x \in ToSet(names) THEN values[SelectInSeq(names, LAMBDA y : y = x)] ELSE env[x]]

Operate(s, inst) ==
    LET event == <<inst.op, Read(s.env, inst.args)>>
    IN  [s EXCEPT !.events = Append(@, event),
                  !.env = Bind(@, inst.results, [i \in DOMAIN inst.results |-> Len(s.events) + i])]

Jump(f, s, target) ==
    [s EXCEPT !.at = {target.dest}, !.env = Bind(@, Params(f, target.dest), Read(s.env, target.args))]

Terminate(f, s, inst) ==
    IF Len(inst.targets) = 0 THEN [Operate(s, inst) EXCEPT !.at = {}]
    ELSE IF Len(inst.targets) = 1 THEN Jump(f, s, inst.targets[1])
    ELSE IF s.decisions = << >> THEN [s EXCEPT !.at = {}]
    ELSE Jump(f, [Operate(s, [inst EXCEPT !.results = << >>]) EXCEPT !.decisions = Tail(@)],
              inst.targets[Head(s.decisions)])

RunBlock(f, s) ==
    IF s.at = {} THEN s
    ELSE LET b == The(s.at)
         IN  Terminate(f, FoldLeft(Operate, s, Front(Insts(f, b))), LastInst(f, b))

Execution(f, decisions) ==
    LET After[n \in Nat] ==
            IF n = 0
            THEN [at |-> {Entry}, decisions |-> decisions, events |-> << >>,
                  env |-> [x \in ToSet(Params(f, Entry)) |-> -SelectInSeq(Params(f, Entry), LAMBDA y : y = x)]]
            ELSE RunBlock(f, After[n - 1])
    IN  After[3 * Blocks].events

(* as far as both have to be followed *)
Prefix(events) == SubSeq(events, 1, IF Len(events) < Blocks THEN Len(events) ELSE Blocks)

-----------------------------------------------------------------------------
(***************************************************************************)
(* No pass trips an assertion or edits the layout at a block that has left *)
(* it (treeify.rs:646, inline_blocks.rs:129, dominance.rs:390,             *)
(* liveness.rs:523, layout.rs:332).                                        *)
(***************************************************************************)
Completes == phase \notin {"panicked", "undefined"}

(***************************************************************************)
(* While a pass edits the function and patches the graph beside it, the    *)
(* graph has the edges of every block of the layout, except the one being  *)
(* split; only Treeify lets it go stale, and recomputes it                 *)
(* (control_flow.rs:88, split_critical_edges.rs:115, inline_blocks.rs:177).*)
(***************************************************************************)
GraphCurrent ==
    phase \in {"split", "edge", "inline", "chain", "rewritten", "ready"} =>
        \A a \in Attached(fn) : (phase = "edge" => a # root) =>
            /\ cfg.succ[a] = Successors(fn, a)
            /\ \A b \in Block : (a \in cfg.pred[b]) <=> (b \in Successors(fn, a))

(***************************************************************************)
(* What FunctionAnalysis hands to the next pass is what a fresh analysis   *)
(* of the function would be: the graph the passes patched block by block,  *)
(* and every analysis that is present (hir-analysis/src/lib.rs:34).        *)
(***************************************************************************)
Boundary ==
    \/ phase \in {"split", "inline"} /\ worklist = << >>
    \/ phase = "treeify" /\ worklist = domtree.postorder
    \/ phase \in {"rewritten", "ready"}

AnalysesCurrent ==
    Boundary =>
        LET graph == ComputeCfg(fn)
            dom == ComputeDomtree(fn, graph)
        IN  /\ \A b \in Attached(fn) : cfg.succ[b] = graph.succ[b] /\ cfg.pred[b] = graph.pred[b]
            /\ phase # "inline" =>
                 /\ analysis.domtree \subseteq {dom}
                 /\ analysis.loops \subseteq {ComputeLoops(graph, dom)}

(***************************************************************************)
(* What code generation relies on (stackify/pass.rs:86): the layout holds  *)
(* each block that is reached; only loop headers have several              *)
(* predecessors; no edge is critical (split_critical_edges.rs:25); and a   *)
(* block that is not a loop header never just branches to a block of its   *)
(* own, as that one has been inlined.                                      *)
(***************************************************************************)
SeveralPreds(f) == {b \in Reached(f) : Cardinality(Preds(f, b)) > 1}

TreeForm ==
    phase = "ready" =>
        /\ Attached(fn) = Reached(fn)
        /\ SeveralPreds(fn) \subseteq Headers(fn)
        /\ \A b \in Reached(fn) :
             /\ Cardinality(Successors(fn, b)) > 1 => Successors(fn, b) \cap SeveralPreds(fn) = {}
             /\ (b \notin Headers(fn) /\ Len(Targets(fn, b)) = 1) => Targets(fn, b)[1].dest \in Headers(fn)

(***************************************************************************)
(* Whatever the conditions turn out to be, the rewritten function performs *)
(* the operations of the original one, on the same values, in the same     *)
(* order (SplitCriticalEdges moves arguments, Treeify duplicates blocks    *)
(* and renames values, InlineBlocks substitutes parameters).               *)
(***************************************************************************)
SameExecutions ==
    phase = "ready" =>
        \A decisions \in [1..Decisions -> {1, 2}] :
            Prefix(Execution(fn, decisions)) = Prefix(Execution(original, decisions))

(***************************************************************************)
(* The dominator tree, its pre-order and the frontiers say what paths say  *)
(* (dominance.rs), and each loop of the loop tree holds the blocks of its  *)
(* natural loop, and nests as they do (loops.rs).                          *)
(***************************************************************************)
DominanceMatchesPaths(f) ==
    LET reached == Reached(f)
        below == [a \in reached |-> reached \ ReachedAvoiding(f, {Entry}, a)]
        order == Preorder(domtree)
    IN  /\ {b \in Block : IsReachable(domtree, b)} = reached
        /\ \A a \in reached :
            /\ {b \in reached : Dominates(domtree, a, b)} = below[a]
            /\ {b \in reached : PreorderDominates(order, a, b)} = below[a]
            /\ Frontier(domtree, cfg, a) =
                 {b \in reached : Preds(f, b) \cap below[a] # {} /\ b \notin below[a] \ {a}}

LoopsMatchPaths(f) ==
    /\ ToSet(loops.headers) = Headers(f)
    /\ \A b \in Reached(f) :
         LoopLevel(loops, b) = Cardinality({h \in Headers(f) : b \in NaturalLoop(f, h)})
    /\ \A h \in ToSet(loops.headers) :
         /\ {b \in Reached(f) : IsInLoop(loops, b, h)} = NaturalLoop(f, h)
         /\ \A o \in ToSet(loops.headers) : IsChildLoop(loops, h, o) = (h \in NaturalLoop(f, o))

AnalysesMatchPaths ==
    phase \in {"treeify", "ready"} /\ Boundary => DominanceMatchesPaths(fn) /\ LoopsMatchPaths(fn)

(***************************************************************************)
(* The worklist is worked off and the values live at the head of a block,  *)
(* and those live after its terminator, are those some path uses           *)
(* (liveness.rs:371: "working until a fixpoint is reached").               *)
(***************************************************************************)
LivenessMatchesPaths ==
    phase = "ready" =>
        LET live == The(analysis.liveness)
            heads == [v \in 1..fn.values |-> LiveHeads(fn, v)]
        IN  /\ live.worklist = << >>
            /\ \A b \in Reached(fn) :
                 /\ LiveValues(live.in[<<b, 0>>]) = {v \in DOMAIN heads : b \in heads[v]}
                 /\ LiveValues(live.out[<<b, 0>>]) =
                      {v \in DOMAIN heads : \E s \in Successors(fn, b) :
                                                s \in heads[v] /\ v \notin ToSet(Params(fn, s))}

(***************************************************************************)
(* "After treeification, the original subtree blocks cannot possibly be    *)
(* referenced by other blocks in the function" (treeify.rs:324).           *)
(***************************************************************************)
OriginalsUnreferenced == phase = "treeify" => Reached(fn) \subseteq Attached(fn)

=============================================================================

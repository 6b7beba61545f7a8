----------------------------- MODULE Dominance -----------------------------
(***************************************************************************)
(* hir-analysis: control_flow.rs and dominance.rs.                         *)
(***************************************************************************)
EXTENDS FunctionIR

-----------------------------------------------------------------------------
(***************************************************************************)
(* The control flow graph is kept beside the function and is told of       *)
(* changes block by block.                                                 *)
(*                                                                         *)
(* Predecessors are keyed by their terminator in the code; a block has one *)
(* terminator, so a set of blocks stands for the map.  A branch with both  *)
(* targets equal is one edge.                                              *)
(***************************************************************************)

NumPredecessors(cfg, b) == Cardinality(cfg.pred[b])
NumSuccessors(cfg, b) == Cardinality(cfg.succ[b])

(* pred_iter and succ_iter, in order *)
PredIter(cfg, b) == SetToSortSeq(cfg.pred[b], <)
SuccIter(cfg, b) == SetToSortSeq(cfg.succ[b], <)

(***************************************************************************)
(* compute, over the blocks in the layout                                  *)
(***************************************************************************)
ComputeCfg(f) ==
    [pred |-> [b \in Block |-> {a \in Block : a \in Attached(f) /\ b \in Successors(f, a)}],
     succ |-> [b \in Block |-> IF b \in Attached(f) THEN Successors(f, b) ELSE {}]]

InvalidateSuccessors(cfg, b) ==
    [pred |-> [s \in Block |-> IF s \in cfg.succ[b] THEN cfg.pred[s] \ {b} ELSE cfg.pred[s]],
     succ |-> [cfg.succ EXCEPT ![b] = {}]]

(* compute_block, with add_edge for each target *)
ComputeBlock(cfg, f, b) ==
    [pred |-> [s \in Block |-> IF s \in Successors(f, b) THEN cfg.pred[s] \cup {b} ELSE cfg.pred[s]],
     succ |-> [cfg.succ EXCEPT ![b] = @ \cup Successors(f, b)]]

RecomputeBlock(cfg, f, b) == ComputeBlock(InvalidateSuccessors(cfg, b), f, b)

(* detach_block: the edges out of the block, not those into it *)
DetachFromCfg(cfg, b) == InvalidateSuccessors(cfg, b)

-----------------------------------------------------------------------------
(***************************************************************************)
(* The dominator tree as Cooper, Harvey and Kennedy compute it over a      *)
(* post-order of the graph, its pre-order numbering, and dominance         *)
(* frontiers.                                                              *)
(*                                                                         *)
(* The immediate dominator is the terminator of a block in the code; the   *)
(* block stands for it, and 0 for none.  An iteration is a recursive       *)
(* function of the number of steps, bounded by Fuel; a step that has       *)
(* nothing left to do changes nothing.                                     *)
(***************************************************************************)

None == 0
Fuel(n) == 3 * n + 1   \* bound: pushes of a traversal of n blocks with two targets each

(***************************************************************************)
(* compute_postorder.  The stack starts at its top.  The targets of a      *)
(* branch are pushed last one first, so the first one is visited first.    *)
(***************************************************************************)
Visit(kind, b) == [visit |-> kind, block |-> b]

PostorderStep(f, s) ==
    IF s.stack = << >> THEN s
    ELSE LET b == Head(s.stack).block
             fresh == SelectSeq(Targets(f, b), LAMBDA t : t.dest \notin s.seen \cup {b})
         IN  IF Head(s.stack).visit = "Last"
             THEN [s EXCEPT !.stack = Tail(@), !.order = Append(@, b)]
             ELSE IF b \in s.seen
             THEN [s EXCEPT !.stack = Tail(@)]
             ELSE [s EXCEPT !.seen = @ \cup {b},
                            !.stack = [i \in DOMAIN fresh |-> Visit("First", fresh[i].dest)]
                                        \o <<Visit("Last", b)>> \o Tail(@)]

Postorder(f) ==
    LET After[n \in Nat] ==
            IF n = 0 THEN [stack |-> <<Visit("First", Entry)>>, seen |-> {}, order |-> << >>]
            ELSE PostorderStep(f, After[n - 1])
    IN  After[Fuel(NumBlocks(f))].order

(***************************************************************************)
(* compute_domtree                                                         *)
(***************************************************************************)
Stride == 4

(* common_dominator: the fingers climb until they meet *)
CommonDominator(t, a0, b0) ==
    LET Meet[a \in Block \cup {None}, b \in Block \cup {None}] ==
            IF t.rpo[a] < t.rpo[b] THEN Meet[a, t.idom[b]]
            ELSE IF t.rpo[a] > t.rpo[b] THEN Meet[t.idom[a], b]
            ELSE a
    IN  Meet[a0, b0]

(* compute_idom, over the predecessors that have a number *)
ComputeIdom(t, cfg, b) ==
    LET reachable == SelectSeq(PredIter(cfg, b), LAMBDA p : t.rpo[p] > 1)
    IN  FoldLeft(LAMBDA a, p : CommonDominator(t, a, p), Head(reachable), Tail(reachable))

SetIdom(t, cfg, b) == [t EXCEPT !.idom[b] = ComputeIdom(t, cfg, b)]

ComputeDomtree(f, cfg) ==
    LET post == Postorder(f)
        rest == Tail(Reverse(post))
        start == [postorder |-> post,
                  rpo |-> [b \in Block |-> IF b = Entry THEN 2 * Stride
                                           ELSE IF b \in ToSet(post) THEN 1 ELSE 0],
                  idom |-> [b \in Block |-> None]]
        first == FoldLeft(LAMBDA t, i : [SetIdom(t, cfg, rest[i]) EXCEPT !.rpo[rest[i]] = (i + 2) * Stride],
                          start, [i \in DOMAIN rest |-> i])
        Pass[n \in Nat] ==
            IF n = 0 THEN first
            ELSE FoldLeft(LAMBDA t, b : SetIdom(t, cfg, b), Pass[n - 1], rest)
        Converge[n \in Nat] == IF Pass[n + 1] = Pass[n] THEN Pass[n] ELSE Converge[n + 1]
    IN  Converge[0]

(* "block node must have one reachable predecessor" *)
DomtreePanics(f, cfg) ==
    LET rpo == Reverse(Postorder(f))
    IN  \E i \in 2..Len(rpo) : \A j \in 1..i - 1 : rpo[j] \notin cfg.pred[rpo[i]]

IsReachable(t, b) == t.rpo[b] # 0

(* dominates, of a block and the terminator of another, by last_dominator *)
Dominates(t, a, b0) ==
    LET Climb[b \in Block \cup {None}] ==
            IF b = None THEN FALSE
            ELSE IF t.rpo[a] < t.rpo[b] THEN Climb[t.idom[b]]
            ELSE a = b
    IN  Climb[b0]

-----------------------------------------------------------------------------
(***************************************************************************)
(* DominatorTreePreorder: the children of a block are linked in reverse    *)
(* post-order, a walk over the links numbers the blocks, and each block    *)
(* gets the greatest number below it.                                      *)
(***************************************************************************)
Children(t, b) == SelectSeq(Reverse(t.postorder), LAMBDA c : t.idom[c] = b)

PreorderStep(t, s) ==
    IF s.stack = << >> THEN s
    ELSE [stack |-> Children(t, Head(s.stack)) \o Tail(s.stack),
          numbered |-> Append(s.numbered, Head(s.stack))]

Preorder(t) ==
    LET After[n \in Nat] ==
            IF n = 0 THEN [stack |-> <<Entry>>, numbered |-> << >>]
            ELSE PreorderStep(t, After[n - 1])
        numbered == After[Len(t.postorder)].numbered
        pre == [b \in Block |-> IF b \in ToSet(numbered) THEN SelectInSeq(numbered, LAMBDA x : x = b) ELSE 0]
        Raise(m, b) == IF t.idom[b] = None THEN m
                       ELSE [m EXCEPT ![t.idom[b]] = IF m[b] > @ THEN m[b] ELSE @]
    IN  [pre |-> pre, max |-> FoldLeft(Raise, pre, t.postorder)]

PreorderDominates(p, a, b) == p.pre[a] <= p.pre[b] /\ p.max[a] >= p.max[b]

\* Variant: only a join of three or more.
FrontierOfMany(t, cfg, b) ==
    LET Up[p \in Block \cup {None}, stop \in Block \cup {None}] ==
            IF p = stop \/ p = None THEN {} ELSE {p} \cup Up[t.idom[p], stop]
    IN  {j \in ToSet(t.postorder) : /\ NumPredecessors(cfg, j) > 2
                                    /\ \E p \in cfg.pred[j] : b \in Up[p, t.idom[j]]}

(***************************************************************************)
(* DominanceFrontier: from each predecessor of a join, up to the join's    *)
(* immediate dominator.                                                    *)
(***************************************************************************)
Frontier(t, cfg, b) ==
    LET Up[p \in Block \cup {None}, stop \in Block \cup {None}] ==
            IF p = stop \/ p = None THEN {} ELSE {p} \cup Up[t.idom[p], stop]
    IN  {j \in ToSet(t.postorder) : /\ NumPredecessors(cfg, j) >= 2
                                    /\ \E p \in cfg.pred[j] : b \in Up[p, t.idom[j]]}

=============================================================================

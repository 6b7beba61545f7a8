------------------------------- MODULE Loops -------------------------------
(***************************************************************************)
(* hir-analysis: loops.rs.  The loop tree of a function: its headers in    *)
(* reverse post-order, the parent of each loop, and the innermost loop of  *)
(* each block.  A loop is named by its header; None where there is none.   *)
(***************************************************************************)
EXTENDS Dominance

(* find_loop_headers: a block that dominates one of its predecessors *)
BackEdges(cfg, dom, h) == {p \in cfg.pred[h] : Dominates(dom, h, p)}

FindLoopHeaders(cfg, dom) ==
    SelectSeq(Reverse(dom.postorder), LAMBDA b : BackEdges(cfg, dom, b) # {})

(***************************************************************************)
(* discover_loop_blocks, innermost header first: from the sources of its   *)
(* back edges, backwards.  A block of no loop joins this one; a block of   *)
(* an inner loop makes the outermost loop round it that has no parent yet  *)
(* a child of this one, and the walk goes on at that loop's header.        *)
(***************************************************************************)
Outermost(l, h, loop) ==
    LET Up[x \in Block] == IF l.parent[x] \in {None, h} THEN x ELSE Up[l.parent[x]]
    IN  Up[loop]

Push(cfg, b, stack) == Reverse(PredIter(cfg, b)) \o stack

DiscoverStep(cfg, h, s) ==
    LET node == Head(s.stack)
        rest == Tail(s.stack)
        outer == Outermost(s.loops, h, s.loops.innermost[node])
    IN  IF s.stack = << >> THEN s
        ELSE IF s.loops.innermost[node] = None
        THEN [loops |-> [s.loops EXCEPT !.innermost[node] = h], stack |-> Push(cfg, node, rest)]
        ELSE IF outer # h /\ s.loops.parent[outer] = None
        THEN [loops |-> [s.loops EXCEPT !.parent[outer] = h], stack |-> Push(cfg, outer, rest)]
        ELSE [s EXCEPT !.stack = rest]

DiscoverLoop(cfg, dom, l, h) ==
    LET From[n \in Nat] ==
            IF n = 0 THEN [loops |-> l, stack |-> Reverse(SetToSortSeq(BackEdges(cfg, dom, h), <))]
            ELSE DiscoverStep(cfg, h, From[n - 1])
    IN  From[Fuel(Len(dom.postorder))].loops

ComputeLoops(cfg, dom) ==
    LET headers == FindLoopHeaders(cfg, dom)
        start == [headers |-> headers,
                  parent |-> [b \in Block |-> None],
                  innermost |-> [b \in Block |-> IF b \in ToSet(headers) THEN b ELSE None]]
    IN  FoldLeft(LAMBDA l, h : DiscoverLoop(cfg, dom, l, h), start, Reverse(headers))

-----------------------------------------------------------------------------
(***************************************************************************)
(* Questions asked of the tree.                                            *)
(***************************************************************************)
IsLoopHeader(l, b) == l.innermost[b] = b

IsChildLoop(l, child, parent) ==
    LET Up[x \in Block \cup {None}] == IF x \in {None, parent} THEN x = parent ELSE Up[l.parent[x]]
    IN  Up[child]

IsInLoop(l, b, loop) == l.innermost[b] # None /\ IsChildLoop(l, l.innermost[b], loop)

(* assign_loop_levels: one more than the level of the parent *)
LoopLevel(l, b) ==
    LET Level[x \in Block \cup {None}] == IF x = None THEN 0 ELSE Level[l.parent[x]] + 1
    IN  Level[l.innermost[b]]

=============================================================================

--------------------------- MODULE BlockSchedule ---------------------------
(***************************************************************************)
(* In which order the instructions of a block are emitted, and where their *)
(* arguments come from: the dependency graph of a block (stackify/pass.rs, *)
(* dependency_graph.rs), its condensation to a graph of expression trees   *)
(* (treegraph.rs), and the walk of MasmEmitter over them.                  *)
(*                                                                         *)
(* A node is a number, in the order of Node: a value that is on the stack  *)
(* when the block begins is itself, and the instructions follow, the last  *)
(* of the block first.  A graph is a function from its nodes to the sets   *)
(* of their dependencies; the use counts of an edge are read off the       *)
(* instruction.  No instruction has more than one result.                  *)
(***************************************************************************)
EXTENDS Liveness

CONSTANT Effectful   \* the opcodes with side effects, besides the terminators

Terminators == {"ret", "ret_imm", "br", "cond_br"}
HasSideEffects(inst) == inst.op \in Effectful \cup Terminators

Ascending(s) == SetToSortSeq(s, <)
Descending(s) == SetToSortSeq(s, >)

-----------------------------------------------------------------------------
(***************************************************************************)
(* build_dependency_graph                                                  *)
(***************************************************************************)
NodeOfInst(f, b, i) == f.values + Len(Insts(f, b)) + 1 - i
IsInst(f, x) == x > f.values
IndexOf(f, b, x) == f.values + Len(Insts(f, b)) + 1 - x
InstOf(f, b, x) == Insts(f, b)[IndexOf(f, b, x)]

NodeOfValue(f, b, v) ==
    LET definers == {i \in DOMAIN Insts(f, b) : v \in ToSet(Insts(f, b)[i].results)}
    IN  IF definers = {} THEN v ELSE NodeOfInst(f, b, CHOOSE i \in definers : TRUE)

DependencyGraph(f, b) ==
    LET insts == {NodeOfInst(f, b, i) : i \in DOMAIN Insts(f, b)}
        deps == [x \in insts |-> {NodeOfValue(f, b, v) : v \in InstUses(InstOf(f, b, x))}]
    IN  [x \in insts \cup UNION {deps[y] : y \in insts} |-> IF x \in insts THEN deps[x] ELSE {}]

Dependents(g, x) == {y \in DOMAIN g : x \in g[y]}

(* is_live_after: the value is in the set, however far its next use is *)
IsLiveAfter(live, v, b, i) == v \in DOMAIN live.out[<<b, i>>]
IsLiveAfterBlock(f, live, v, b) == IsLiveAfter(live, v, b, Len(Insts(f, b)))

(***************************************************************************)
(* Dead code: instructions without effect, with no dependent and no result *)
(* that is live after them, and then what only they depend on.             *)
(***************************************************************************)
DeadNodes(f, live, b, g) ==
    LET pure == {x \in DOMAIN g : IsInst(f, x) /\ ~HasSideEffects(InstOf(f, b, x))}
        unused == {x \in pure : /\ Dependents(g, x) = {}
                                /\ \A v \in ToSet(InstOf(f, b, x).results) :
                                       ~IsLiveAfter(live, v, b, IndexOf(f, b, x))}
        Dead[n \in Nat] ==
            IF n = 0 THEN unused
            ELSE LET last == Dead[n - 1]
                 IN  last \cup {x \in pure : Dependents(g, x) # {} /\ Dependents(g, x) \subseteq last}
    IN  Dead[Len(Insts(f, b))]

BuildDependencyGraph(f, live, b) ==
    LET g == DependencyGraph(f, b)
    IN  [x \in DOMAIN g \ DeadNodes(f, live, b, g) |-> g[x]]

-----------------------------------------------------------------------------
(***************************************************************************)
(* TreeGraph::from: a node with one dependent belongs to its tree, any     *)
(* other is the root of its own.  A tree depends on the roots that its     *)
(* nodes use.                                                              *)
(***************************************************************************)
IsRoot(g, x) == Cardinality(Dependents(g, x)) # 1

RootOf(g) ==
    LET Root[x \in DOMAIN g] ==
            IF IsRoot(g, x) THEN x ELSE Root[CHOOSE y \in Dependents(g, x) : TRUE]
    IN  [x \in DOMAIN g |-> Root[x]]

TreeGraph(g) ==
    LET rootOf == RootOf(g)
        Members(r) == {x \in DOMAIN g : rootOf[x] = r}
    IN  [r \in {x \in DOMAIN g : IsRoot(g, x)} |->
            {d \in UNION {g[x] : x \in Members(r)} : IsRoot(g, d)}]

(***************************************************************************)
(* toposort: a tree comes after all those that depend on it.               *)
(***************************************************************************)
SortStep(t, s) ==
    LET r == Head(s.roots)
        done == Append(s.output, r)
        ready == SelectSeq(Ascending(t[r]), LAMBDA d : Dependents(t, d) \subseteq ToSet(done))
    IN  [output |-> done, roots |-> Tail(s.roots) \o ready]

Toposort(t) ==
    LET free == Ascending({r \in DOMAIN t : Dependents(t, r) = {}})
        After[n \in Nat] == IF n = 0 THEN [output |-> << >>, roots |-> free] ELSE SortStep(t, After[n - 1])
    IN  After[Cardinality(DOMAIN t)].output

-----------------------------------------------------------------------------
(***************************************************************************)
(* The oracle for the last use of a dependency.  indexed: the nodes below  *)
(* a root in pre-order, the highest dependency first; the root comes last. *)
(***************************************************************************)
VisitOrder(g, r) ==
    LET Visits[x \in DOMAIN g] ==
            LET deps == Descending(g[x])
            IN  <<x>> \o FlattenSeq([i \in DOMAIN deps |-> Visits[deps[i]]])
    IN  Append(Tail(Visits[r]), r)

VisitIndex(g, r, x) == SelectInSeq(VisitOrder(g, r), LAMBDA y : y = x)

UseCount(inst, v) ==
    LET uses == inst.args \o FlattenSeq([i \in DOMAIN inst.targets |-> inst.targets[i].args])
    IN  Cardinality({i \in DOMAIN uses : uses[i] = v})

(* is_last_dependent_visited *)
IsLastVisited(f, b, g, dependent, dependency) ==
    LET rootOf == RootOf(g)
        r == rootOf[dependent]
    IN  /\ \A other \in Dependents(g, dependency) \ {dependent} :
               rootOf[other] = r => VisitIndex(g, r, other) < VisitIndex(g, r, dependent)
        /\ IsInst(f, dependency) =>
               UseCount(InstOf(f, b, dependent), InstOf(f, b, dependency).results[1]) = 1

(* no tree emitted later depends on it *)
NoneRemain(g, t, dependent, dependency) ==
    LET schedule == Toposort(t)
        at == SelectInSeq(schedule, LAMBDA r : r = RootOf(g)[dependent])
    IN  \A i \in 1..at - 1 : dependency \notin t[schedule[i]]

(***************************************************************************)
(* emit_stack_dependency and emit_inst_dependency: whether the operand is  *)
(* moved, as nothing needs it any more.  The result of an instruction is   *)
(* moved even if it is live after the block.                               *)
(***************************************************************************)
IsLastDependent(f, live, b, g, t, dependent, x) ==
    /\ ~IsInst(f, x) => ~IsLiveAfterBlock(f, live, x, b)
    /\ Cardinality(Dependents(g, x)) > 1 =>
           NoneRemain(g, t, dependent, x) /\ IsLastVisited(f, b, g, dependent, x)

-----------------------------------------------------------------------------
(***************************************************************************)
(* What emit_schedule does for a block, one step after the other: fetch a  *)
(* value for the instruction that depends on it, emit an instruction, copy *)
(* its result if the block is left with it live, or, at the turn of a      *)
(* stack value, drop it if it is not used.                                 *)
(***************************************************************************)
Step(does, value, consumes, index) ==
    [does |-> does, value |-> value, consumes |-> consumes, index |-> index]

FetchStep(f, live, b, g, t, x, dependent) ==
    LET results == InstOf(f, b, x).results
        moves == IsLastDependent(f, live, b, g, t, dependent, x)
        index == IndexOf(f, b, dependent)
    IN  IF ~IsInst(f, x) THEN <<Step("fetch", x, moves, index)>>
        ELSE IF results = << >> THEN << >>
        ELSE <<Step("fetch", results[1], moves, index)>>

KeepStep(f, live, b, x) ==
    LET results == InstOf(f, b, x).results
    IN  IF results # << >> /\ IsLiveAfterBlock(f, live, results[1], b)
        THEN <<Step("keep", results[1], FALSE, IndexOf(f, b, x))>> ELSE << >>

(* the dependencies from the highest down, each below its dependent in the same tree as it goes *)
EmitTree(f, live, b, g, t, r) ==
    LET rootOf == RootOf(g)
        Below[x \in DOMAIN g] ==
            LET deps == Descending(g[x])
                Dependency(d) ==
                    IF IsInst(f, d) /\ rootOf[d] = rootOf[x]
                    THEN Below[d] \o KeepStep(f, live, b, d)
                    ELSE FetchStep(f, live, b, g, t, d, x)
            IN  FlattenSeq([i \in DOMAIN deps |-> Dependency(deps[i])])
                  \o <<Step("emit", 0, FALSE, IndexOf(f, b, x))>>
        dead == ~IsLiveAfterBlock(f, live, r, b) /\ Dependents(g, r) = {}
    IN  IF IsInst(f, r) THEN Below[r] ELSE <<Step("turn", r, dead, 0)>>

EmitSchedule(f, live, b) ==
    LET g == BuildDependencyGraph(f, live, b)
        t == TreeGraph(g)
        trees == Reverse(Toposort(t))
    IN  FlattenSeq([i \in DOMAIN trees |-> EmitTree(f, live, b, g, t, trees[i])])

=============================================================================

------------------------------ MODULE Liveness ------------------------------
(***************************************************************************)
(* hir-analysis: liveness.rs.  Next-use distances at and after each        *)
(* program point, computed backwards from a worklist of blocks.            *)
(*                                                                         *)
(* A NextUseSet is a function from the values it holds to their distances. *)
(* A program point is a block and an index into its instructions, with     *)
(* index 0 for the block itself.                                           *)
(***************************************************************************)
EXTENDS Loops

Infinity == 100000          \* bound: stands for u32::MAX
LoopExitDistance == 1000    \* bound: stands for 100_000, above any distance within a function
MaxRounds == 12             \* bound: times the worklist is worked through

SaturatingAdd(d, n) == IF d + n > Infinity THEN Infinity ELSE d + n

(***************************************************************************)
(* NextUseSet                                                              *)
(***************************************************************************)
EmptySet == << >>
Distance(s, v) == IF v \in DOMAIN s THEN s[v] ELSE Infinity
IsLive(s, v) == Distance(s, v) < Infinity
LiveValues(s) == {v \in DOMAIN s : s[v] < Infinity}

InsertAll(s, vs, d) ==
    [v \in DOMAIN s \cup vs |-> IF v \in vs /\ d < Distance(s, v) THEN d ELSE Distance(s, v)]
RemoveAll(s, vs) == [v \in DOMAIN s \ vs |-> s[v]]
AddDistance(s, n) == [v \in DOMAIN s |-> SaturatingAdd(s[v], n)]
Union(s, t) == [v \in DOMAIN s \cup DOMAIN t |->
                    IF Distance(s, v) < Distance(t, v) THEN Distance(s, v) ELSE Distance(t, v)]
OrDefault(s, vs) == [v \in DOMAIN s \cup vs |-> Distance(s, v)]

(***************************************************************************)
(* compute_liveness                                                        *)
(***************************************************************************)
At(sets, b, i) == IF <<b, i>> \in DOMAIN sets THEN sets[<<b, i>>] ELSE EmptySet
Put(sets, b, i, s) == [p \in DOMAIN sets \cup {<<b, i>>} |-> IF p = <<b, i>> THEN s ELSE sets[p]]

InstUses(inst) == ToSet(inst.args) \cup UNION {ToSet(t.args) : t \in ToSet(inst.targets)}

IsLoopExit(l, b, succ) ==
    /\ l.innermost[b] # None
    /\ \/ l.innermost[succ] = None
       \/ /\ l.innermost[b] # l.innermost[succ]
          /\ IsChildLoop(l, l.innermost[b], l.innermost[succ])

\* Variant: the parameters of the target are live before the branch.
OverEdgeKeeping(f, l, live, b, target) ==
    LET entry == At(live.in, target.dest, 0) IN [before |-> entry, after |-> entry]

(* the next uses over the edge to a target, before and after the branch *)
OverEdge(f, l, live, b, target) ==
    LET params == Params(f, target.dest)
        entry == At(live.in, target.dest, 0)
        passed == {target.args[i] : i \in {j \in DOMAIN target.args \cap DOMAIN params :
                                                IsLive(entry, params[j])}}
        penalty == IF IsLoopExit(l, b, target.dest) THEN LoopExitDistance ELSE 0
    IN  [before |-> AddDistance(RemoveAll(InsertAll(entry, passed, 0), ToSet(params)), penalty),
         after |-> AddDistance(RemoveAll(entry, ToSet(params)), penalty)]

NextUsesAfter(f, l, live, b, i) ==
    LET targets == Insts(f, b)[i].targets
        next == AddDistance(At(live.in, b, i + 1), 1)
        over == [t \in DOMAIN targets |-> OverEdge(f, l, live, b, targets[t])]
    IN  IF Len(targets) = 2 THEN [before |-> Union(over[1].before, over[2].before),
                                  after |-> Union(over[1].after, over[2].after)]
        ELSE IF Len(targets) = 1 THEN over[1]
        ELSE IF i < Len(Insts(f, b))
        THEN [before |-> RemoveAll(next, ToSet(Insts(f, b)[i + 1].results)), after |-> next]
        ELSE [before |-> EmptySet, after |-> EmptySet]

(* asking for the next uses at a target leaves it an empty set, when it has none yet *)
EnterTargets(sets, targets) ==
    [p \in DOMAIN sets \cup {<<t.dest, 0>> : t \in ToSet(targets)} |->
        IF p \in DOMAIN sets THEN sets[p] ELSE EmptySet]

VisitInst(f, l, live, b, i) ==
    LET inst == Insts(f, b)[i]
        uses == NextUsesAfter(f, l, live, b, i)
    IN  [live EXCEPT
            !.in = Put(EnterTargets(@, inst.targets), b, i,
                       InsertAll(OrDefault(uses.before, ToSet(inst.results)), InstUses(inst), 0)),
            !.out = Put(@, b, i, OrDefault(uses.after, ToSet(inst.results)))]

(* the instructions from the last one up, then the block; put back if its header changed:
   one with no uses at it yet is not, when a branch to it was seen before *)
VisitBlock(f, l, live0, b) ==
    LET n == Len(Insts(f, b))
        Up[i \in 0..n] == IF i = n THEN [live0 EXCEPT !.worklist = Tail(@)]
                          ELSE VisitInst(f, l, Up[i + 1], b, i + 1)
        live == Up[0]
        header == OrDefault(RemoveAll(live.in[<<b, 1>>], ToSet(Insts(f, b)[1].results)), ToSet(Params(f, b)))
        changed == <<b, 0>> \notin DOMAIN live.in \/ At(live.in, b, 0) # header
    IN  [live EXCEPT !.in = Put(@, b, 0, header),
                     !.out = Put(@, b, 0, live.out[<<b, n>>]),
                     !.worklist = IF changed THEN Append(@, b) ELSE @]

(* the worklist is a queue: what is put back waits for the next round *)
ComputeLiveness(f, dom, l) ==
    LET Rounds[n \in Nat] ==
            IF n = 0 THEN [in |-> << >>, out |-> << >>, worklist |-> dom.postorder]
            ELSE LET last == Rounds[n - 1]
                 IN  FoldLeft(LAMBDA live, b : VisitBlock(f, l, live, b), last, last.worklist)
    IN  Rounds[MaxRounds]

(* "expected all critical edges to have been split" *)
LivenessPanics(f, cfg, dom) ==
    \E b \in ToSet(dom.postorder) :
        Len(Targets(f, b)) > 1 /\ \E s \in Successors(f, b) : NumPredecessors(cfg, s) # 1

=============================================================================

------------------------- MODULE MCRewritePipeline -------------------------
(***************************************************************************)
(* Functions for RewritePipeline: every shape of a few blocks, and chosen  *)
(* larger ones.  A shape gives each block the blocks it branches to.       *)
(***************************************************************************)
EXTENDS RewriteProperties

(***************************************************************************)
(* Each block has one parameter, which is the value with its number, and   *)
(* one operation, whose result is the value n further on; it passes on     *)
(* both.  uses says which values each operation reads.                     *)
(***************************************************************************)
Skeleton(shape) ==
    [layout |-> DOMAIN shape,
     blocks |-> [b \in DOMAIN shape |->
        [params |-> << >>,
         insts |-> <<Inst("branch", << >>, << >>, [i \in DOMAIN shape[b] |-> Target(shape[b][i], << >>)])>>]],
     values |-> 0, defined |-> TRUE]

Operation == <<"a", "b", "c", "d", "e", "f", "g", "h", "i">>

MakeFunction(shape, uses) ==
    LET n == Len(shape)
        passed(b) == <<n + b, b>>
        term(b) ==
            LET targets == [i \in DOMAIN shape[b] |-> Target(shape[b][i], <<passed(b)[i]>>)]
            IN  IF Len(targets) = 0 THEN Inst("ret", passed(b), << >>, targets)
                ELSE IF Len(targets) = 1 THEN Inst("br", << >>, << >>, targets)
                ELSE Inst("cond_br", <<n + b>>, << >>, targets)
    IN  [layout |-> 1..n,
         blocks |-> [b \in 1..n |-> [params |-> <<b>>,
                                     insts |-> <<Inst(Operation[b], uses[b], <<n + b>>, << >>), term(b)>>]],
         values |-> 2 * n, defined |-> TRUE]

(* the values of the blocks that dominate b, and its own parameter *)
Visible(shape, b) ==
    LET above == {a \in DOMAIN shape \ {b} : PathDominates(Skeleton(shape), a, b)}
    IN  SelectSeq([v \in 1..2 * Len(shape) |-> v],
                  LAMBDA v : v = b \/ v \in above \/ v - Len(shape) \in above)

Dense(shape) == MakeFunction(shape, [b \in DOMAIN shape |-> Visible(shape, b)])

(* only block b reads a value of another block: what block a made *)
Sparse(shape, a, b) ==
    MakeFunction(shape, [x \in DOMAIN shape |-> IF x = b THEN <<Len(shape) + a>> ELSE << >>])

(* the same, its blocks without parameters *)
Bare(f) ==
    [f EXCEPT !.blocks = [b \in DOMAIN @ |->
        [params |-> << >>,
         insts |-> [i \in DOMAIN @[b].insts |->
             LET inst == @[b].insts[i]
             IN  [inst EXCEPT !.args = IF inst.op = "ret" THEN <<@[1]>> ELSE @,
                              !.targets = [t \in DOMAIN @ |-> Target(@[t].dest, << >>)]]]]]]

SparseFunctions(shapes) ==
    LET pairs(s) == {q \in (1..Len(s)) \X (1..Len(s)) :
                        q[1] # q[2] /\ PathDominates(Skeleton(s), q[1], q[2])}
        sparse == UNION {{Sparse(s, p[1], p[2]) : p \in pairs(s)} : s \in shapes}
    IN  sparse \cup {Bare(f) : f \in sparse}

-----------------------------------------------------------------------------
(***************************************************************************)
(* Every shape of n blocks in which each block is reached, the entry is no *)
(* target and the blocks are numbered in the order some walk meets them.   *)
(***************************************************************************)
Branches(n) == {<< >>} \cup {<<s>> : s \in 2..n} \cup {<<s, t>> : s \in 2..n, t \in 2..n}
Ordered(s) == \A b \in 2..Len(s) : \E a \in 1..b - 1 : b \in ToSet(s[a])
AllShapes(n) == {s \in [1..n -> Branches(n)] : Ordered(s)}

Sources(s, b) == {a \in DOMAIN s : b \in ToSet(s[a])}

(* what is reached by at least one branch, and not through a *)
Beyond(s, b, a) ==
    LET After[n \in Nat] ==
            IF n = 0 THEN ToSet(s[b]) \ {a}
            ELSE LET last == After[n - 1] IN last \cup (UNION {ToSet(s[x]) : x \in last} \ {a})
    IN  After[Len(s)]

LoopHeads(s) == {h \in DOMAIN s : Sources(s, h) \ ({1} \cup Beyond(s, 1, h)) # {}}
Joins(s) == {b \in DOMAIN s \ LoopHeads(s) : Cardinality(Sources(s, b)) > 1}

(***************************************************************************)
(* What the passes are made for: the targets of a branch differ; past a    *)
(* join there is no other join, and no way in but through it (so no join   *)
(* lies in a loop).  The others go wrong in ways the README lists, and so  *)
(* do three blocks in a row that can be inlined one into the other.        *)
(***************************************************************************)
Strict(s) == \A b \in DOMAIN s : Len(s[b]) = 2 => s[b][1] # s[b][2]
JoinsApart(s) ==
    \A j \in Joins(s) : /\ Beyond(s, j, 0) \cap Joins(s) = {}
                         /\ Beyond(s, j, 0) \cap Beyond(s, 1, j) = {}
LongChain(s) ==
    LET inner == DOMAIN s \ LoopHeads(s)
    IN  \E b \in inner, c \in inner, d \in inner :
            /\ s[b] = <<c>>
            /\ s[c] = <<d>>
            /\ \E p \in Sources(s, b) \cap inner : Len(s[p]) = 1 \/ Cardinality(Sources(s, b)) > 1

Handled(s) == Strict(s) /\ JoinsApart(s) /\ ~LongChain(s)

(* each branch of four blocks goes to its lower target first; those of three go both ways *)
Upward(s) == \A b \in DOMAIN s : Len(s[b]) = 2 => s[b][1] < s[b][2]
SmallShapes == {s \in AllShapes(3) \cup {t \in AllShapes(4) : Upward(t)} : Handled(s)}

(***************************************************************************)
(* The examples of the documentation of Treeify, from block 0 of the text  *)
(* as block 1: the basic DAG, the complex loop and the nested loops.       *)
(***************************************************************************)
BasicDag == << <<2>>, <<4, 3>>, << >>, <<3, 5>>, << >> >>
ComplexLoop == << <<2>>, <<3, 6>>, <<4>>, <<6, 5>>, <<3, 7>>, << >>, << >> >>
NestedLoops == << <<2>>, <<3, 6>>, <<4>>, <<6, 5>>, <<3, 7>>, << >>, <<8>>, <<3, 9>>, <<7, 6>> >>

(* no loop in a loop *)
InLoop(s, b, h) == h = b \/ (h \in Beyond(s, b, 0) /\ b \in Beyond(s, h, 0))
Flat(s) == \A h \in LoopHeads(s) : \A o \in LoopHeads(s) \ {h} : ~InLoop(s, o, h)

MCFunctions == {Dense(s) : s \in SmallShapes \cup {BasicDag, ComplexLoop, NestedLoops}}
                \cup SparseFunctions({s \in SmallShapes : Flat(s)})

-----------------------------------------------------------------------------
(***************************************************************************)
(* Shapes outside of those: a conditional in a loop, whose branches join   *)
(* before the loop goes on; a loop in a loop, which does not use what its  *)
(* surroundings keep; a row of four blocks.                                *)
(***************************************************************************)
JoinInLoop == {Dense(<< <<2>>, <<3, 7>>, <<4, 5>>, <<6>>, <<6>>, <<2>>, << >> >>)}
LoopInLoop ==
    LET f == Sparse(<< <<2>>, <<3>>, <<2, 3>> >>, 1, 2) IN {f, Bare(f)}
RowOfFour == {Dense(<< <<2>>, <<3>>, <<4>>, << >> >>)}

=============================================================================

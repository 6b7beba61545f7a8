----------------------------- MODULE MCStackify -----------------------------
(***************************************************************************)
(* Functions for Stackify: all with two operations in one block, all loops *)
(* with one operation in the header and one in the body, and loops in      *)
(* loops; and those of the repository's tests.                             *)
(***************************************************************************)
EXTENDS Stackify

Result == [incr |-> TRUE, add |-> TRUE, sub |-> TRUE, call |-> TRUE, store |-> FALSE]
Operands == [incr |-> 1, add |-> 2, sub |-> 2, call |-> 1, store |-> 2]

\* Every operation that reads some of the values and makes v.
Operations(values, v) ==
    UNION {{Inst(op, args, IF Result[op] THEN <<v>> ELSE << >>, << >>) : args \in [1..Operands[op] -> values]} :
             op \in DOMAIN Operands}

Make(op, args, v) == Inst(op, args, <<v>>, << >>)
Ret(v) == Inst("ret", <<v>>, << >>, << >>)
RetImm == Inst("ret_imm", << >>, << >>, << >>)
Br(b, args) == Inst("br", << >>, << >>, <<Target(b, args)>>)
CondBr(v, then, else) == Inst("cond_br", <<v>>, << >>, <<then, else>>)

Block_(params, insts) == [params |-> params, insts |-> insts]
Function(blocks, values) == [layout |-> DOMAIN blocks, blocks |-> blocks, values |-> values, defined |-> TRUE]

-----------------------------------------------------------------------------
(***************************************************************************)
(* What the schedule is made for; the others go wrong in ways the README   *)
(* lists.  The dependencies of an operation come in the order of their     *)
(* nodes, or, if it is commutative, one of them is computed for it.  A     *)
(* value is not used by two operations of a tree one of which is below the *)
(* other and above which there is a third.  A result with effects is used  *)
(* in another block, or nothing else in its own has effects.               *)
(***************************************************************************)
OrderedArgs(f, b, inst) ==
    LET g == DependencyGraph(f, b)
        nodes == [i \in DOMAIN inst.args |-> NodeOfValue(f, b, inst.args[i])]
        computed(x) == IsInst(f, x) /\ Cardinality(Dependents(g, x)) = 1
    IN  \A i, j \in DOMAIN nodes : i < j =>
            /\ nodes[i] # nodes[j]
            /\ inst.op \notin Commutative => nodes[i] < nodes[j]
            /\ inst.op \in Commutative => computed(IF nodes[i] < nodes[j] THEN nodes[j] ELSE nodes[i])

Above(g, x) ==
    LET A[y \in DOMAIN g] == Dependents(g, y) \cup UNION {A[z] : z \in Dependents(g, y)}
    IN  A[x]

UsedAtOneLevel(f, b) ==
    LET g == DependencyGraph(f, b)
        rootOf == RootOf(g)
    IN  \A x \in DOMAIN g : \A y, z \in Dependents(g, x) :
            rootOf[y] = rootOf[z] /\ y \in Above(g, z) => y = rootOf[y]

EffectsApart(f, b) ==
    LET g == DependencyGraph(f, b)
        effects == {i \in 1..Len(Insts(f, b)) - 1 : Insts(f, b)[i].op \in Effectful}
    IN  \A i \in effects : Dependents(g, NodeOfInst(f, b, i)) # {} => effects = {i}

HandledFunction(f) ==
    \A b \in DOMAIN f.blocks :
        /\ \A inst \in ToSet(Insts(f, b)) : OrderedArgs(f, b, inst)
        /\ UsedAtOneLevel(f, b)
        /\ EffectsApart(f, b)

-----------------------------------------------------------------------------
Makes(inst) == inst.results # << >>

OneBlock(insts, v, values) == Function(<<Block_(<<1, 2>>, Append(insts, Ret(v)))>>, values)

TwoOperations ==
    {OneBlock(<<i, j>>, v, 4) : i \in {o \in Operations(1..2, 3) : Makes(o)}, j \in Operations(1..3, 4), v \in 1..3}
      \cup {OneBlock(<<i, j>>, 4, 4) : i \in {o \in Operations(1..2, 3) : Makes(o)},
                                       j \in {o \in Operations(1..3, 4) : Makes(o)}}

ThreeOperations ==
    LET pure(values, v) == {o \in Operations(values, v) : o.op \in {"incr", "sub"}}
    IN  {OneBlock(<<i, j, k>>, v, 5) : i \in pure(1..2, 3), j \in pure(1..3, 4), k \in pure(1..4, 5), v \in 1..5}

\* A loop that is left from its header; the body passes v on, and the exit returns w.
Loop(i, j, v, w) ==
    Function(<<Block_(<<1, 2>>, <<Br(2, <<1>>)>>),
               Block_(<<3>>, <<i, CondBr(4, Target(3, << >>), Target(4, << >>))>>),
               Block_(<< >>, <<j, Br(2, <<v>>)>>),
               Block_(<< >>, <<Ret(w)>>)>>, 5)

OneLoop ==
    LET header == {o \in Operations({2, 3}, 4) : Makes(o)}
        body == Operations({2, 3, 4}, 5)
    IN  {Loop(i, j, v, w) : i \in header, j \in body, v \in {3, 4}, w \in {2, 3, 4}}
          \cup {Loop(i, j, 5, w) : i \in header, j \in {o \in body : Makes(o)}, w \in {2, 3, 4}}

\* A loop in a loop, whose body continues either, or returns; both loops read value 2.
Nested(i, v, w, z) ==
    Function(<<Block_(<<1, 2>>, <<Br(2, <<1>>)>>),
               Block_(<<3>>, <<Make("gt", <<2, 3>>, 4), CondBr(4, Target(3, <<3>>), Target(4, << >>))>>),
               Block_(<<5>>, <<i, CondBr(6, Target(5, << >>), Target(6, << >>))>>),
               Block_(<< >>, <<Ret(3)>>),
               Block_(<< >>, <<Make("incr", <<5>>, 7), Br(3, <<7>>)>>),
               Block_(<< >>, <<Make("decr", <<v>>, 8), CondBr(8, Target(2, <<w>>), Target(7, << >>))>>),
               Block_(<< >>, <<Ret(z)>>)>>, 8)

LoopsInLoops ==
    {Nested(i, v, w, z) : i \in {Make("sub", <<2, 5>>, 6), Make("sub", <<2, 3>>, 6), Make("call", <<2>>, 6)},
                          v \in {3, 5}, w \in {5, 8}, z \in {2, 8}}

-----------------------------------------------------------------------------
(***************************************************************************)
(* The functions of codegen/masm/src/tests.rs and hir/src/testing.rs, but  *)
(* for the order of operands.                                              *)
(***************************************************************************)
AddOddMulEven ==
    Function(<<Block_(<<1, 2>>, <<Make("is_odd", <<1>>, 3), CondBr(3, Target(2, << >>), Target(3, << >>))>>),
               Block_(<< >>, <<Make("plus", <<1, 2>>, 4), Ret(4)>>),
               Block_(<< >>, <<Make("mul", <<1, 2>>, 5), Ret(5)>>)>>, 5)

IncrUntil ==
    Function(<<Block_(<<1, 2>>, <<Br(2, <<1, 2>>)>>),
               Block_(<<3, 4>>, <<Make("is_zero", <<4>>, 6), CondBr(6, Target(4, <<3>>), Target(3, << >>))>>),
               Block_(<< >>, <<Make("incr", <<3>>, 7), Make("decr", <<4>>, 8), Br(2, <<7, 8>>)>>),
               Block_(<<5>>, <<Ret(5)>>)>>, 8)

Fib ==
    Function(<<Block_(<<1>>, <<Make("zero", << >>, 2), Make("one", << >>, 3), Make("zero", << >>, 4), Br(2, <<2, 3, 4>>)>>),
               Block_(<<5, 6, 7>>, <<Make("gt", <<1, 7>>, 9), CondBr(9, Target(3, << >>), Target(4, <<5>>))>>),
               Block_(<< >>, <<Make("plus", <<5, 6>>, 10), Make("incr", <<7>>, 11), Br(2, <<6, 10, 11>>)>>),
               Block_(<<8>>, <<Ret(8)>>)>>, 11)

SumMatrix ==
    Function(<<Block_(<<1, 2, 3>>, <<Make("zero", << >>, 4), Make("ptrtoint", <<1>>, 5), Make("neq", <<5>>, 6),
                                     CondBr(6, Target(3, << >>), Target(2, <<4>>))>>),
               Block_(<<7>>, <<Ret(7)>>),
               Block_(<< >>, <<Make("zero", << >>, 8), Make("zero", << >>, 9), Make("mul4", <<3>>, 10),
                               Br(4, <<4, 8, 9>>)>>),
               Block_(<<11, 12, 13>>, <<Make("gt", <<2, 12>>, 14), Make("mul", <<10, 12>>, 15),
                                        CondBr(14, Target(5, <<11, 12, 13>>), Target(2, <<11>>))>>),
               Block_(<<16, 17, 18>>, <<Make("gt", <<3, 18>>, 19), CondBr(19, Target(6, << >>), Target(7, << >>))>>),
               Block_(<< >>, <<Make("mul4", <<18>>, 20), Make("plus", <<15, 20>>, 21), Make("plus", <<5, 21>>, 22),
                               Make("inttoptr", <<22>>, 23), Make("load", <<23>>, 24), Make("plus", <<16, 24>>, 25),
                               Make("incr", <<18>>, 26), Br(5, <<25, 17, 26>>)>>),
               Block_(<< >>, <<Make("incr", <<17>>, 27), Make("zero", << >>, 28), Br(4, <<16, 27, 28>>)>>)>>, 28)

(***************************************************************************)
(* A header that only leads to the body; a loop that returns nothing; and  *)
(* two branches that meet again.                                           *)
(***************************************************************************)
HeaderBranches ==
    Function(<<Block_(<<1, 2>>, <<Br(2, <<1>>)>>),
               Block_(<<3>>, <<Make("incr", <<3>>, 4), Br(3, <<4>>)>>),
               Block_(<<5>>, <<Make("gt", <<2, 5>>, 6), CondBr(6, Target(2, <<5>>), Target(4, << >>))>>),
               Block_(<< >>, <<Make("plus", <<2, 5>>, 7), Ret(7)>>)>>, 7)

ReturnsNothing ==
    Function(<<Block_(<<1, 2, 3, 4>>, <<Br(2, <<1>>)>>),
               Block_(<<5>>, <<Make("gt", <<2, 5>>, 6), CondBr(6, Target(3, << >>), Target(4, << >>))>>),
               Block_(<< >>, <<Make("plus", <<3, 5>>, 7), Make("plus", <<4, 7>>, 8), Br(2, <<8>>)>>),
               Block_(<< >>, <<RetImm>>)>>, 8)

BranchesMeet ==
    Function(<<Block_(<<1, 2>>, <<Make("is_odd", <<1>>, 3), CondBr(3, Target(2, << >>), Target(3, << >>))>>),
               Block_(<< >>, <<Make("call", <<1>>, 4), Br(4, <<4>>)>>),
               Block_(<< >>, <<Make("call", <<2>>, 5), Br(4, <<5>>)>>),
               Block_(<<6>>, <<Make("incr", <<6>>, 7), Ret(7)>>)>>, 7)

MCFunctions ==
    {f \in TwoOperations \cup ThreeOperations \cup OneLoop \cup LoopsInLoops : HandledFunction(f)}
      \cup {AddOddMulEven, IncrUntil, Fib, SumMatrix, HeaderBranches, ReturnsNothing, BranchesMeet}

=============================================================================

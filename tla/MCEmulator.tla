----------------------------- MODULE MCEmulator -----------------------------
(***************************************************************************)
(* The emulator on small programs.                                         *)
(***************************************************************************)
EXTENDS Emulator

plain == [op |-> "Plain"]
store(a) == [op |-> "Store", addr |-> a]
if(t, e) == [op |-> "If", then |-> t, else |-> e]
while(b) == [op |-> "While", body |-> b]
repeat(n, b) == [op |-> "Repeat", n |-> n, body |-> b]
exec(f) == [op |-> "Exec", callee |-> f]

MCBlockId == 0..3
Fun(name, code) ==
    [name |-> name, body |-> 0,
     blocks |-> [b \in MCBlockId |-> IF b < Len(code) THEN code[b + 1] ELSE << >>]]

Leaf == Fun("g", << << plain >> >>)

(***************************************************************************)
(* One program per shape the interpreter treats apart.                     *)
(***************************************************************************)
\* An if that ends the body of a loop, which ends the body of an if.
TailNests ==
    [f \in {"f"} |->
        Fun("f", << << if(1, 2) >>, << while(3) >>, << plain >>, << plain, if(2, 2) >> >>)]

\* A repeat in a repeat, with an operation after each, and a store in the inner body.
Repeats ==
    [f \in {"f"} |->
        Fun("f", << << repeat(1, 1), plain >>, << repeat(1, 2), plain >>, << store(1) >> >>)]

\* Calls in last position: returning from g returns from h and f at once.
TailCalls ==
    [f \in {"f", "g", "h"} |->
        CASE f = "f" -> Fun("f", << << while(1), exec("h") >>, << exec("g") >> >>)
          [] f = "h" -> Fun("h", << << store(1), exec("g") >> >>)
          [] f = "g" -> Leaf]

\* Recursion, and a callee that is not loaded.
Recursion ==
    [f \in {"f"} |->
        Fun("f", << << if(1, 2), plain >>, << exec("f") >>, << exec("g") >> >>)]

\* A repeat whose body ends in an if. The emulator loses passes: see KeepsCount.
RepeatEndsInIf ==
    [f \in {"f"} |->
        Fun("f", << << repeat(1, 1), plain >>, << plain, if(2, 2) >>, << plain >> >>)]

MCPrograms == {TailNests, Repeats, TailCalls, Recursion}
RepeatPrograms == {Repeats}
BranchPrograms == {TailNests}
LosingPrograms == {RepeatEndsInIf}

At(block, index) == [block |-> block, index |-> index]

MCBreakpoints ==
    [kind : {"Step", "StepOnce", "StepOut", "StepOver", "Loop"}]
    \cup [kind : {"StepN"}, n : {1, 3}]
    \cup [kind : {"StepUntil"}, ip : {At(0, 1)}]
    \cup [kind : {"Call"}, callee : {"g"}]
    \cup [kind : {"MemoryWrite"}, addr : {1}, size : {1}]

StepOutOnly == [kind : {"StepOut"}]

\* The hypothesis of the theorem about ImplementsStructured holds of the programs
\* of the run, and not of the one on which TLC finds ImplementsStructured violated.
ASSUME HypothesisTellsApart ==
    /\ \A fs \in MCPrograms : \A id \in DOMAIN fs : KeepsCount(fs[id])
    /\ ~ KeepsCount(RepeatEndsInIf["f"])

=============================================================================

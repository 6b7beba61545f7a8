----------------------------- MODULE Emitters ------------------------------
(***************************************************************************)
(* The code emitters at work: the backend compiles an instruction of the   *)
(* IR, changing the types on its operand stack and emitting code, and the  *)
(* machine runs that code element by element.                              *)
(*                                                                         *)
(* operands is the operand stack of the emitter, top first, every operand  *)
(* a record of its type and of the value the IR gives it; machine is the   *)
(* machine of MasmMachine; code is what it has yet to run of the           *)
(* instruction `current`, and refused says whether that instruction is to  *)
(* trap.                                                                   *)
(***************************************************************************)
EXTENDS IntegerSpec

CONSTANTS Stacks,       \* the operand stacks a function starts with
          Operations,   \* the instructions, records of EmitCode
          Handled(_),   \* the instructions among them that are compiled
          MaxOps        \* instructions compiled

VARIABLES operands, machine, code, refused, count
vars == <<operands, machine, code, refused, count>>

Values(s) == [k \in DOMAIN s |-> s[k].value]
Types(s)  == [k \in DOMAIN s |-> s[k].ty]
Flatten(s) == FoldRight(LAMBDA x, rest : Limbs(x.ty, x.value) \o rest, s, << >>)

-----------------------------------------------------------------------------
(***************************************************************************)
(* The procedures of std::math::u64, as int64.rs describes them: they pop  *)
(* b and a, each of two elements, and push the result.  A shift or a       *)
(* rotation takes b as one element.                                        *)
(***************************************************************************)
Single(of) == of \in Shifts \cup Rotations
Number(hi, lo) == hi * U32P + lo
Halves(x) == <<x \div U32P, x % U32P>>

Arity64(of) == IF Single(of) THEN 3 ELSE 4
B(of, a) == IF Single(of) THEN a[1] ELSE Number(a[1], a[2])
A(of, a) == Number(a[Arity64(of) - 1], a[Arity64(of)])

Valid64(op, a) ==
    LET of == op[3]
        x == A(of, a)
        y == B(of, a)
    IN  /\ AllU32(a)
        /\ (op[2] = "checked" /\ of \in Arithmetic) => Exact(of, x, y) \in 0..U32P^2 - 1
        /\ of \in Divisions => y # 0
        /\ Single(of) => y < 2 * Bits

Result64(op, a) ==
    LET of == op[3]
        x == A(of, a)
        y == B(of, a)
        w == 2 * Bits
    IN  CASE of \in Arithmetic ->
               (IF op[2] = "overflowing" THEN <<Bool(Exact(of, x, y) \notin 0..U32P^2 - 1)>> ELSE << >>)
               \o Halves(Exact(of, x, y) % U32P^2)
          [] of \in Divisions  -> FoldLeft(LAMBDA s, v : s \o Halves(v), << >>, DivMods(of, x, y))
          [] of \in Orderings  -> <<Bool(Compare(of, x, y))>>
          [] of \in Extremes   -> Halves(MinMax(of, x, y))
          [] of = "And"        -> Halves(BitAnd(w, x, y))
          [] of = "Or"         -> Halves(BitOr(w, x, y))
          [] of = "Xor"        -> Halves(BitXor(w, x, y))
          [] of = "Shl"        -> Halves((x * 2^y) % U32P^2)
          [] of = "Shr"        -> Halves(x \div 2^y)
          [] of = "Rotl"       -> Halves(RotateLeft(w, x, y))
          [] of = "Rotr"       -> Halves(RotateRight(w, x, y))

Exec(op, m) ==
    LET n == Arity64(op[3])
        s == m.stack
    IN  IF Len(s) < n THEN [m EXCEPT !.status = "underflow"]
        ELSE LET a == SubSeq(s, 1, n)
             IN  IF ~Valid64(op, a) THEN [m EXCEPT !.status = "trapped"]
                 ELSE [m EXCEPT !.stack = Result64(op, a) \o SubSeq(s, n + 1, Len(s))]

Run(op, m) == IF Name(op) = "Exec" THEN Exec(op, m) ELSE Perform(op, m)

-----------------------------------------------------------------------------
Init ==
    /\ operands \in Stacks
    /\ machine = Machine(Flatten(operands), << >>)
    /\ code = << >>
    /\ refused = FALSE
    /\ count = 0

Running == machine.status = "running"

\* The operands an instruction finds on top of the stack, when it finds them.
Finds(o) ==
    /\ Len(operands) >= Len(Takes(o))
    /\ Types(SubSeq(operands, 1, Len(Takes(o)))) = Takes(o)

Arguments(o) == Values(SubSeq(operands, 1, Len(Takes(o))))

Compile(o) ==
    LET n == Len(Takes(o))
        a == Arguments(o)
        trap == Traps(o, a)
        left == IF trap THEN << >>
                ELSE [k \in DOMAIN Leaves(o) |-> [ty |-> Leaves(o)[k], value |-> Answers(o, a)[k]]]
    IN  /\ Running
        /\ code = << >>
        /\ ~refused
        /\ count < MaxOps
        /\ Supported(o)
        /\ Handled(o)
        /\ Finds(o)
        /\ Expects(o, a)
        /\ code' = Code(o)
        /\ operands' = left \o SubSeq(operands, n + 1, Len(operands))
        /\ refused' = trap
        /\ count' = count + 1
        /\ UNCHANGED machine

Step ==
    /\ Running
    /\ code # << >>
    /\ machine' = Run(Head(code), machine)
    /\ code' = Tail(code)
    /\ UNCHANGED <<operands, refused, count>>

Next == Step \/ \E o \in Operations : Compile(o)

Spec == Init /\ [][Next]_vars

-----------------------------------------------------------------------------
(* Properties.                                                             *)

\* When the code of an instruction has run, the elements on the machine's stack are those of
\* the operands the emitter believes to be there: the results have the value the instruction
\* promises, in the right number and order of elements, and nothing else has changed.
ResultsAsPromised ==
    (Running /\ code = << >> /\ ~refused) => machine.stack = Flatten(operands)

\* The code traps when the instruction is to trap, before it ends, and never otherwise; it
\* never reaches below the stack of its function.
TrapsAsPromised ==
    /\ refused => (code # << >> \/ ~Running)
    /\ ~Running => refused /\ machine.status = "trapped"

=============================================================================

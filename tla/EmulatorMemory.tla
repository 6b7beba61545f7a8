--------------------------- MODULE EmulatorMemory ---------------------------
(***************************************************************************)
(* What the emulator keeps in its linear memory                            *)
(* (codegen/masm/src/emulator.rs): functions are loaded, each with room    *)
(* for its locals from lp upwards; the host allocates from hp upwards.     *)
(* Addresses are of words, of 16 bytes.  What the words hold is left out.  *)
(*                                                                         *)
(* A load is one step per module and per function; nothing else happens    *)
(* before it has ended.  A panic ends the host, which is a test.           *)
(***************************************************************************)
EXTENDS Integers, Sequences, Functions

CONSTANTS
    ModuleName,
    FunctionName,
    Programs,      \* the programs there are to load: sequences of modules
    Nifs,          \* the functions the host may define natively
    Sizes,         \* sizes in bytes the host may allocate
    HeapStart,     \* hp and lp at first
    LocalsStart,
    MemorySize,    \* words of memory
    U32Range       \* 2^32, scaled down

Function == [name : FunctionName, locals : Nat]
Module == [name : ModuleName, imports : SUBSET ModuleName, functions : Seq(Function)]

ASSUME MemoryAssumption ==
    /\ HeapStart \in Nat /\ LocalsStart \in Nat /\ MemorySize \in Nat
    /\ HeapStart < LocalsStart
    /\ U32Range \in Nat \ {0} /\ Sizes \subseteq Nat
ASSUME ProgramsAssumption == Programs \subseteq Seq(Module) /\ Nifs \subseteq FunctionName

VARIABLES
    modules_loaded,
    modules_pending,
    functions,   \* what a function was loaded as: its stub, and the locals it has
    locals,      \* where the locals of each are
    hp, lp,
    queue,       \* the modules of a load that are still to come
    left,        \* the functions of the module being loaded that are
    status,      \* how the last operation ended, or "loading"
    regions,     \* history: the words given out by malloc and write_bytes_to_memory
    sources      \* history: the modules whose loading began

heap == <<hp, regions>>
tables == <<modules_loaded, modules_pending, functions, locals, lp, sources>>
vars == <<heap, tables, queue, left, status>>

Init ==
    /\ modules_loaded = {} /\ modules_pending = {}
    /\ functions = << >> /\ locals = << >>
    /\ hp = HeapStart /\ lp = LocalsStart
    /\ queue = << >> /\ left = << >>
    /\ status = "Ok"
    /\ regions = {} /\ sources = {}

Ready == status \notin {"loading", "panicked"}

-----------------------------------------------------------------------------
(***************************************************************************)
(* load_program, of which load_module is the case of a single module.  The *)
(* first error ends it, and what was loaded stays.                         *)
(***************************************************************************)
LoadProgram(modules) ==
    /\ Ready
    /\ queue' = modules /\ status' = "loading"
    /\ UNCHANGED <<heap, tables, left>>

Loaded ==
    /\ status = "loading" /\ queue = << >> /\ left = << >>
    /\ status' = "Ok"
    /\ UNCHANGED <<heap, tables, queue, left>>

GiveUp(error) == status' = error /\ queue' = << >> /\ left' = << >>

\* Variant: what was loaded before is awaited all the same.
PendingAlways(m) == (modules_pending \cup m.imports) \ {m.name}

PendingAfter(m) == (modules_pending \cup (m.imports \ modules_loaded)) \ {m.name}

LoadModule ==
    /\ status = "loading" /\ left = << >> /\ queue # << >>
    /\ LET m == queue[1]
       IN  \/ /\ m.name \in modules_loaded
              /\ GiveUp("AlreadyLoaded")
              /\ UNCHANGED <<modules_loaded, modules_pending, sources>>
           \/ /\ m.name \notin modules_loaded
              /\ modules_loaded' = modules_loaded \cup {m.name}
              /\ modules_pending' = PendingAfter(m)
              /\ sources' = sources \cup {m}
              /\ queue' = Tail(queue) /\ left' = m.functions
              /\ UNCHANGED status
    /\ UNCHANGED <<heap, functions, locals, lp>>

With(f, x, v) == [y \in DOMAIN f \cup {x} |-> IF y = x THEN v ELSE f[y]]

\* Variant: the last of the locals is not taken.
NextLpShort(f) == IF f.locals = 0 THEN lp ELSE lp + f.locals - 1

NextLp(f) == lp + f.locals

LoadFunction ==
    /\ status = "loading" /\ left # << >>
    /\ LET f == left[1]
       IN  \/ /\ f.name \in DOMAIN functions
              /\ GiveUp("DuplicateFunction")
              /\ UNCHANGED <<functions, locals, lp>>
           \/ /\ f.name \notin DOMAIN functions
              /\ functions' = With(functions, f.name, [stub |-> "Asm", locals |-> f.locals])
              /\ locals' = With(locals, f.name, lp)
              /\ lp' = NextLp(f)
              /\ left' = Tail(left)
              /\ UNCHANGED <<status, queue>>
    /\ UNCHANGED <<heap, modules_loaded, modules_pending, sources>>

LoadNif(id) ==
    /\ Ready
    /\ IF id \in DOMAIN functions
         THEN status' = "DuplicateFunction" /\ UNCHANGED functions
         ELSE /\ functions' = With(functions, id, [stub |-> "Native", locals |-> 0])
              /\ status' = "Ok"
    /\ UNCHANGED <<heap, modules_loaded, modules_pending, locals, lp, sources, queue, left>>

-----------------------------------------------------------------------------
(***************************************************************************)
(* The heap.                                                               *)
(***************************************************************************)
WordsFor(size) == (size + 15) \div 16

AsksNothing(words) == words = 0

Give(words, by) == regions' = regions \cup {[at |-> hp, words |-> words, by |-> by]}

\* Variant: it ends a word before.
HpAfterWriteShort(words) == IF words = 1 THEN hp ELSE hp + words - 2

\* write_bytes_to_memory stays at the last word it wrote.
HpAfterWrite(words) == hp + words - 1

WriteBytes(size) ==
    /\ Ready
    /\ LET words == WordsFor(size)
       IN  \/ AsksNothing(words) /\ status' = "Ok" /\ UNCHANGED heap
           \/ /\ ~AsksNothing(words) /\ HpAfterWrite(words) < lp /\ HpAfterWrite(words) < MemorySize
              /\ hp' = HpAfterWrite(words) /\ Give(words, "write") /\ status' = "Ok"
           \/ /\ ~AsksNothing(words) /\ (HpAfterWrite(words) >= lp \/ HpAfterWrite(words) >= MemorySize)
              /\ status' = "panicked" /\ UNCHANGED heap
    /\ UNCHANGED <<tables, queue, left>>

\* malloc takes the size for a u32, and does not ask how much memory there is.
Malloc(size) ==
    /\ Ready
    /\ LET words == WordsFor(size % U32Range)
       IN  \/ AsksNothing(words) /\ status' = "Ok" /\ UNCHANGED heap
           \/ /\ ~AsksNothing(words) /\ hp + words < lp
              /\ hp' = hp + words /\ Give(words, "malloc") /\ status' = "Ok"
           \/ /\ ~AsksNothing(words) /\ hp + words >= lp
              /\ status' = "panicked" /\ UNCHANGED heap
    /\ UNCHANGED <<tables, queue, left>>

Next ==
    \/ \E modules \in Programs : LoadProgram(modules)
    \/ LoadModule \/ LoadFunction \/ Loaded
    \/ \E id \in Nifs : LoadNif(id)
    \/ \E size \in Sizes : WriteBytes(size) \/ Malloc(size)

Spec == Init /\ [][Next]_vars

-----------------------------------------------------------------------------
(***************************************************************************)
(* The types of the emulator's tables and pointers.                        *)
(***************************************************************************)
TypeOK ==
    /\ modules_loaded \subseteq ModuleName /\ modules_pending \subseteq ModuleName
    /\ DOMAIN functions \subseteq FunctionName /\ DOMAIN locals \subseteq FunctionName
    /\ \A f \in DOMAIN functions : functions[f] \in [stub : {"Asm", "Native"}, locals : Nat]
    /\ \A f \in DOMAIN locals : locals[f] \in Nat
    /\ hp \in Nat /\ lp \in Nat
    /\ queue \in Seq(Module) /\ left \in Seq(Function)
    /\ status \in {"Ok", "loading", "AlreadyLoaded", "DuplicateFunction", "panicked"}
    /\ regions \subseteq [at : Nat, words : Nat \ {0}, by : {"write", "malloc"}]
    /\ sources \subseteq Module

(***************************************************************************)
(* Whatever loads failed half way: each function that invoke and exec find *)
(* to be MASM has locals, which they index without a check, and no two     *)
(* functions share a word of them.                                         *)
(***************************************************************************)
FrameEnd(f) == locals[f] + functions[f].locals

FramesOk ==
    /\ DOMAIN locals = {f \in DOMAIN functions : functions[f].stub = "Asm"}
    /\ \A f \in DOMAIN locals : LocalsStart <= locals[f] /\ FrameEnd(f) <= lp
    /\ \A f, g \in DOMAIN locals :
           f # g => FrameEnd(f) <= locals[g] \/ FrameEnd(g) <= locals[f]

(***************************************************************************)
(* A function once loaded is never replaced, and its locals never move: an *)
(* activation holds both for as long as it runs.                           *)
(***************************************************************************)
FunctionsStay ==
    [][/\ \A f \in DOMAIN functions : f \in DOMAIN functions' /\ functions'[f] = functions[f]
       /\ \A f \in DOMAIN locals : f \in DOMAIN locals' /\ locals'[f] = locals[f]]_vars

(***************************************************************************)
(* Each import of a module whose loading began is loaded or pending, in    *)
(* whatever order modules that import one another come, and not both.      *)
(***************************************************************************)
ImportsAwaited ==
    /\ modules_loaded \cap modules_pending = {}
    /\ \A m \in sources : m.imports \subseteq modules_loaded \cup modules_pending

(***************************************************************************)
(* Whatever is loaded, written and allocated in between, an allocation     *)
(* stays below lp and meets no other but in one word: the last that a      *)
(* write wrote is where the next allocation begins.                        *)
(***************************************************************************)
RegionEnd(r) == r.at + r.words
Before(r, s) == RegionEnd(r) <= s.at
ReusesLast(s, r) == r.by = "write" /\ s.at = RegionEnd(r) - 1

OverlapsOnlyLastWord ==
    /\ \A r \in regions : HeapStart <= r.at /\ RegionEnd(r) <= lp
    /\ \A r, s \in regions :
           r # s => Before(r, s) \/ Before(s, r) \/ ReusesLast(s, r) \/ ReusesLast(r, s)

(***************************************************************************)
(* "Allocate space for `value` on the emulator heap, and copy it's         *)
(* contents there" (write_bytes_to_memory): the space is given once.       *)
(***************************************************************************)
AllocationsDisjoint ==
    \A r, s \in regions : r # s => Before(r, s) \/ Before(s, r)

(***************************************************************************)
(* "heap has overflowed into reserved region" (the assertion of malloc and *)
(* write_bytes_to_memory): what passes it is clear of the locals.          *)
(***************************************************************************)
HeapClearOfLocals ==
    \A r \in regions : \A f \in DOMAIN locals :
        RegionEnd(r) <= locals[f] \/ FrameEnd(f) <= r.at

=============================================================================

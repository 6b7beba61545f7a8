------------------------------- MODULE Linker -------------------------------
(***************************************************************************)
(* The linker (hir/src/program/linker.rs): modules are added one by one,   *)
(* their data segments and globals imported into the program's, their      *)
(* references rewritten; link then checks the whole and lays out the heap. *)
(*                                                                         *)
(* One action is one import of add, or one of the passes of link.  add and *)
(* with_entrypoint borrow the linker: it may be used on after an error of  *)
(* theirs, with what the refused module left in it.  link consumes it.     *)
(***************************************************************************)
EXTENDS DataSegmentTable, GlobalVariableTable

CONSTANTS
    ModuleName,
    Stdlib,       \* the names of modules that begin with std::
    FunctionName,
    ParamType,    \* types of a parameter
    Modules,      \* the modules there are to add
    Entrypoints,  \* the entrypoints that may be declared
    PtrType,      \* the type of the linker's own globals, a pointer to u8
    NoBytes,      \* the empty initializer
    MaxGlobals    \* bound: a module is added while its globals fit in as many

ShadowStack == [offset |-> 0, size |-> 64 * 1024, init |-> NoBytes, readonly |-> FALSE]

FunctionIdent == [module : ModuleName, function : FunctionName]

\* A signature: one parameter stands for them all.
Signature == [ty : ParamType, ext : {"None", "Zext", "Sext"}]

Function ==
    [name : FunctionName, public : BOOLEAN, sig : Signature,
     imports : SUBSET [id : FunctionIdent, sig : Signature],
     refs : SUBSET Symbol]

Module ==
    [name : ModuleName, segments : Seq(Segment), globals : Seq(Global),
     functions : Seq(Function)]

\* The tables of a module were built by declare and insert, the functions by push.
ASSUME ModulesAssumption ==
    \A m \in Modules :
        /\ m \in Module
        /\ SegmentsOrdered(m.segments)
        /\ \A i \in DOMAIN m.globals : m.globals[i].live /\ m.globals[i].name.suffix = 0
        /\ IsInjective([i \in DOMAIN m.globals |-> m.globals[i].name])
        /\ IsInjective([i \in DOMAIN m.functions |-> m.functions[i].name])
        /\ \A i \in DOMAIN m.functions :
               \A a, b \in m.functions[i].imports : a.id = b.id => a = b
ASSUME BuiltinsAssumption ==
    /\ 0 .. MaxAddr \subseteq Data
    /\ PtrType \in Type
    /\ {"HEAP_BASE", "HEAP_TOP", "HEAP_END"} \subseteq Symbol
ASSUME ShadowStackAssumption == ShadowStack \in Segment
ASSUME EntrypointsAssumption == Entrypoints \subseteq FunctionIdent

VARIABLES
    segments,    \* the program's data segments
    globals,     \* the program's global variables
    defined,     \* the names in the globals graph that a definition put there
    entrypoint,  \* none or one
    pending,     \* the functions of the modules added
    callgraph,   \* the call graph: its edges, from caller to callee
    adding,      \* the module being added, as it came
    left,        \* what is left of it to import
    renamed,     \* its symbols that were renamed
    status,      \* "open", how far add or link is, or how link ended
    error,       \* what the last call failed with
    added        \* history: the modules added, as they came

vars ==
    <<segments, globals, defined, entrypoint, pending, callgraph, adding, left, renamed, status,
      error, added>>

Progress == {"open", "importing", "verifying", "collecting", "linked", "failed", "panicked"}
Errors ==
    {"ModuleConflict", "MissingModule", "MissingFunction", "MissingGlobal", "SignatureMismatch",
     "LinkageMismatch", "InvalidCycle", "InvalidEntryLinkage", "InvalidMultipleEntry",
     "Mismatch", "OverlappingSegments", "NameConflict"}

NoModule == [name |-> "", segments |-> << >>, globals |-> << >>, functions |-> << >>]
Nothing == [segments |-> << >>, globals |-> << >>]
NoRenames == [s \in {} |-> Plainly(s)]

\* insert of a map: what the key had before is gone.
Put(map, key, value) ==
    [k \in DOMAIN map \cup {key} |-> IF k = key THEN value ELSE map[k]]

Init ==
    /\ segments = << ShadowStack >>
    /\ globals = << >>
    /\ defined = {}
    /\ entrypoint = {}
    /\ pending = [m \in {} |-> << >>]
    /\ callgraph = {}
    /\ adding = NoModule
    /\ left = Nothing
    /\ renamed = NoRenames
    /\ status = "open"
    /\ error = "None"
    /\ added = {}

-----------------------------------------------------------------------------
WithEntrypoint(id) ==
    /\ status = "open"
    /\ IF entrypoint \subseteq {id}
         THEN entrypoint' = {id} /\ error' = "None"
         ELSE error' = "InvalidMultipleEntry" /\ UNCHANGED entrypoint
    /\ UNCHANGED <<segments, globals, defined, pending, callgraph, adding, left, renamed, status,
                   added>>

(***************************************************************************)
(* add, up to its loops.  A module it refuses is dropped; what was         *)
(* imported of it stays.                                                   *)
(***************************************************************************)
Refuse(reason) ==
    /\ status' = "open" /\ error' = reason
    /\ adding' = NoModule /\ left' = Nothing

BeginImport(m) ==
    /\ status' = "importing" /\ error' = "None"
    /\ adding' = m
    /\ left' = [segments |-> m.segments, globals |-> m.globals]

\* Variant: the renames of the module before are still there.
AddOnTop(m) ==
    /\ status = "open" /\ Len(globals) + Len(m.globals) <= MaxGlobals
    /\ IF m.name \in DOMAIN pending THEN Refuse("ModuleConflict") ELSE BeginImport(m)
    /\ UNCHANGED <<segments, globals, defined, entrypoint, pending, callgraph, renamed, added>>

Add(m) ==
    /\ status = "open" /\ Len(globals) + Len(m.globals) <= MaxGlobals
    /\ renamed' = NoRenames
    /\ IF m.name \in DOMAIN pending THEN Refuse("ModuleConflict") ELSE BeginImport(m)
    /\ UNCHANGED <<segments, globals, defined, entrypoint, pending, callgraph, added>>

ImportSegment ==
    /\ status = "importing" /\ left.segments # << >>
    /\ LET inserted == Inserted(segments, Head(left.segments))
       IN  /\ segments' = inserted.table
           /\ IF inserted.result = "Ok"
                THEN /\ left' = [left EXCEPT !.segments = Tail(@)]
                     /\ UNCHANGED <<adding, status, error>>
                ELSE Refuse(inserted.result)
    /\ UNCHANGED <<globals, defined, entrypoint, pending, callgraph, renamed, added>>

ImportGlobal ==
    /\ status = "importing" /\ left.segments = << >> /\ left.globals # << >>
    /\ LET g == Head(left.globals)
           name == InsertedName(globals, g)
           symbol == g.name.symbol
       IN  IF TryInsertConflicts(globals, g)
             THEN Refuse("NameConflict") /\ UNCHANGED <<globals, defined, renamed>>
             ELSE /\ globals' = TryInsert(globals, g)
                  /\ defined' = defined \cup {name}
                  /\ renamed' = IF name = g.name THEN renamed ELSE Put(renamed, symbol, name)
                  /\ left' = [left EXCEPT !.globals = Tail(@)]
                  /\ UNCHANGED <<adding, status, error>>
    /\ UNCHANGED <<segments, entrypoint, pending, callgraph, added>>

-----------------------------------------------------------------------------
(***************************************************************************)
(* Call graphs.  A function's import of itself is no edge of theirs; a     *)
(* function no call is to or from is a node only, which link lets by: a    *)
(* module's functions come into the graph with it or with a cycle.         *)
(***************************************************************************)
Imports(module, f) == {i \in f.imports : i.id # [module |-> module, function |-> f.name]}

CallsOf(module, functions) ==
    UNION {{<<[module |-> module, function |-> f.name], i.id>> : i \in Imports(module, f)} :
               f \in Range(functions)}

Acyclic(calls) ==
    \A nodes \in SUBSET {c[1] : c \in calls} :
        nodes # {} => \E n \in nodes : \A c \in calls : c[1] = n => c[2] \notin nodes

(***************************************************************************)
(* The functions: sorted topologically, callers first, by the calls within *)
(* the module, and their references to globals rewritten.  One that        *)
(* imports a function its own module lacks makes Module::unlink panic.     *)
(***************************************************************************)
LocalCalls ==
    {c \in CallsOf(adding.name, adding.functions) : c[2].module = adding.name}

LocalNames == {f.name : f \in Range(adding.functions)}

SortedBy(fs, calls) ==
    \A c \in calls : \A i, j \in DOMAIN fs :
        fs[i].name = c[1].function /\ fs[j].name = c[2].function => i < j

\* What each reference of a function became.
RewrittenRefs(f) ==
    [s \in f.refs |-> IF s \in DOMAIN renamed THEN renamed[s] ELSE Plainly(s)]

AddFunctions ==
    /\ status = "importing" /\ left = Nothing
    /\ callgraph' = callgraph \cup CallsOf(adding.name, adding.functions)
    /\ \/ /\ ~Acyclic(LocalCalls)
          /\ Refuse("InvalidCycle") /\ UNCHANGED <<pending, added>>
       \/ /\ Acyclic(LocalCalls)
          /\ \E c \in LocalCalls : c[2].function \notin LocalNames
          /\ status' = "panicked"
          /\ UNCHANGED <<pending, adding, left, error, added>>
       \/ /\ Acyclic(LocalCalls)
          /\ \A c \in LocalCalls : c[2].function \in LocalNames
          /\ \E order \in Bijection(DOMAIN adding.functions, DOMAIN adding.functions) :
                LET sorted == [i \in DOMAIN order |-> adding.functions[order[i]]]
                IN  /\ SortedBy(sorted, LocalCalls)
                    /\ pending' =
                           Put(pending, adding.name,
                               [i \in DOMAIN sorted |->
                                   [sorted[i] EXCEPT !.refs = RewrittenRefs(sorted[i])]])
          /\ added' = added \cup {adding}
          /\ adding' = NoModule /\ status' = "open" /\ UNCHANGED <<left, error>>
    /\ UNCHANGED <<segments, globals, defined, entrypoint, renamed>>

-----------------------------------------------------------------------------
(***************************************************************************)
(* link: the builtins.  The heap is made to begin where the globals end,   *)
(* the three that say so not yet among them.                               *)
(***************************************************************************)
EndOfGlobals == NextAvailableOffset(segments) + SizeInBytes(globals)
HeapBase == AlignUp(EndOfGlobals, WordAlign)

Builtin(symbol) ==
    [name |-> Plainly(symbol), ty |-> PtrType, linkage |-> "External",
     init |-> [init |-> "Some", data |-> HeapBase], live |-> TRUE]
Builtins == << Builtin("HEAP_BASE"), Builtin("HEAP_TOP"), Builtin("HEAP_END") >>

PopulatePanics ==
    \/ segments # << >> /\ AlignUpPanics(EndOfSegments(segments), WordAlign, MaxAddr)
    \/ EndOfGlobals > MaxAddr
    \/ AlignUpPanics(EndOfGlobals, WordAlign, MaxAddr)
    \/ \E g \in Range(Builtins) : DeclareConflicts(globals, g)

PopulateBuiltins ==
    /\ status = "open"
    /\ IF PopulatePanics
         THEN status' = "panicked" /\ UNCHANGED globals
         ELSE globals' = FoldLeft(Declare, globals, Builtins) /\ status' = "verifying"
    /\ error' = "None"
    /\ UNCHANGED <<segments, defined, entrypoint, pending, callgraph, adding, left, renamed, added>>

-----------------------------------------------------------------------------
(***************************************************************************)
(* link: the functions.  Each check is of what the ones before let by; of  *)
(* the ways one check may fail, the first met is reported.                 *)
(***************************************************************************)
Fail(reason) == status' = "failed" /\ error' = reason

Defines(id) == id.module \in DOMAIN pending /\ \E f \in Range(pending[id.module]) : f.name = id.function
FunctionAt(id) == CHOOSE f \in Range(pending[id.module]) : f.name = id.function

EntryErrors ==
    UNION {IF id.module \notin DOMAIN pending THEN {"MissingModule"}
           ELSE IF ~Defines(id) THEN {"MissingFunction"}
           ELSE IF ~FunctionAt(id).public THEN {"InvalidEntryLinkage"}
           ELSE {} : id \in entrypoint}

\* is_matching_param: a caller may be stricter on how an argument is extended.
IsMatchingParam(expected, actual) ==
    expected.ty = actual.ty /\ actual.ext \in {"None", expected.ext}

ImportsOf(id) == IF Defines(id) THEN FunctionAt(id).imports ELSE {}
ImportedSig(c) == (CHOOSE i \in ImportsOf(c[1]) : i.id = c[2]).sig

\* The caller's module has the call that the graph has of it.
CallIsCurrent(c) == \E i \in ImportsOf(c[1]) : i.id = c[2]

\* Variant: functions are as visible to other modules as to their own.
VisibleAlways(c) == TRUE

Visible(c) == c[1].module = c[2].module \/ FunctionAt(c[2]).public

NodeErrors(id) ==
    IF id.module \notin DOMAIN pending
      THEN IF id.module \in Stdlib THEN {} ELSE {"MissingModule"}
    ELSE IF ~Defines(id) THEN {"MissingFunction"} ELSE {}

\* The calls to functions that passed.
CallErrors(c) ==
    IF ~Defines(c[2]) THEN {}
    ELSE IF ~Visible(c) THEN {"LinkageMismatch"}
    ELSE IF ~CallIsCurrent(c) THEN {"panicked"}
    ELSE IF ~IsMatchingParam(ImportedSig(c), FunctionAt(c[2]).sig) THEN {"SignatureMismatch"}
    ELSE {}

GraphErrors == UNION {NodeErrors(c[1]) \cup NodeErrors(c[2]) \cup CallErrors(c) : c \in callgraph}

VerifyEnds(errors) ==
    /\ \E result \in IF errors = {} THEN {"collecting"} ELSE errors :
          /\ status' = IF result \in Errors THEN "failed" ELSE result
          /\ error' = IF result \in Errors THEN result ELSE error
    /\ UNCHANGED <<segments, globals, defined, entrypoint, pending, callgraph, adding, left,
                   renamed, added>>

\* Variant: link leaves cycles to what add found of them.
VerifyCallsOnly ==
    /\ status = "verifying"
    /\ VerifyEnds(IF EntryErrors # {} THEN EntryErrors ELSE GraphErrors)

VerifyCalls ==
    /\ status = "verifying"
    /\ VerifyEnds(IF ~Acyclic(callgraph) THEN {"InvalidCycle"}
                  ELSE IF EntryErrors # {} THEN EntryErrors
                  ELSE GraphErrors)

(***************************************************************************)
(* link: the globals.  Those defined and not referred to are dead, those   *)
(* referred to must be known.                                              *)
(***************************************************************************)
Referenced ==
    UNION {UNION {Range(f.refs) : f \in Range(pending[m])} : m \in DOMAIN pending}

DeadGlobals == {i \in DOMAIN globals : globals[i].name \in defined \ Referenced}

CollectGlobals ==
    /\ status = "collecting"
    /\ globals' = RemoveGlobals(globals, DeadGlobals)
    /\ IF \E name \in Referenced : ~Exists(globals, name)
         THEN Fail("MissingGlobal")
         ELSE status' = "linked" /\ UNCHANGED error
    /\ UNCHANGED <<segments, defined, entrypoint, pending, callgraph, adding, left, renamed, added>>

Next ==
    \/ \E id \in Entrypoints : WithEntrypoint(id)
    \/ \E m \in Modules : Add(m)
    \/ ImportSegment
    \/ ImportGlobal
    \/ AddFunctions
    \/ PopulateBuiltins
    \/ VerifyCalls
    \/ CollectGlobals

Spec == Init /\ [][Next]_vars

-----------------------------------------------------------------------------
(***************************************************************************)
(* No two segments of the program share a byte, whatever modules were      *)
(* added and in whatever order: insert keeps the list sorted and finds     *)
(* every overlap, with the shadow stack too.                               *)
(***************************************************************************)
SegmentsDisjoint == SegmentsOrdered(segments)

(***************************************************************************)
(* Every segment of a module that was added is in the program.             *)
(***************************************************************************)
SegmentsImported == \A m \in added : Range(m.segments) \subseteq Range(segments)

(***************************************************************************)
(* offset_of and size_in_bytes agree: in whatever order the globals were   *)
(* merged, renamed and collected, no two of those in the layout share a    *)
(* byte, and all lie within the size of the table.                         *)
(***************************************************************************)
GlobalsLaidOut ==
    LET live == {i \in DOMAIN globals : globals[i].live}
        end(i) == OffsetOf(globals, i) + globals[i].ty.size
    IN  \A i \in live :
            /\ end(i) <= SizeInBytes(globals)
            /\ \A j \in live : i < j => end(i) <= OffsetOf(globals, j)

(***************************************************************************)
(* What add rewrote the references to, is what they meant: where a         *)
(* function refers to a global its own module declares, the program has a  *)
(* variable of that type, linkage and initial value by the rewritten name; *)
(* and once linked, the variable was not collected.  What modules that     *)
(* were refused left in the table does not change that.                    *)
(***************************************************************************)
ReferencesResolve ==
    \A m \in added : \A f \in Range(pending[m.name]) : \A g \in Range(m.globals) :
        g.name.symbol \in DOMAIN f.refs =>
            LET name == f.refs[g.name.symbol]
                variable == globals[FindGlobal(globals, name)]
            IN  /\ Exists(globals, name)
                /\ variable.ty = g.ty /\ variable.linkage = g.linkage
                /\ g.init = NoInit \/ variable.init = g.init
                /\ status = "linked" => variable.live

(***************************************************************************)
(* A program that links is closed: each function that a function imports   *)
(* is defined with a signature that suits the caller and may be called     *)
(* from there, or it is of the standard library; and the entrypoint is a   *)
(* public function of it.                                                  *)
(***************************************************************************)
LinkedProgramClosed ==
    status = "linked" =>
        /\ \A m \in added : \A caller \in Range(m.functions) : \A import \in Imports(m.name, caller) :
              \/ import.id.module \in Stdlib \ DOMAIN pending
              \/ \E n \in added : \E callee \in Range(n.functions) :
                    /\ import.id = [module |-> n.name, function |-> callee.name]
                    /\ n = m \/ callee.public
                    /\ IsMatchingParam(import.sig, callee.sig)
        /\ \A id \in entrypoint : \E n \in added : \E f \in Range(n.functions) :
              id = [module |-> n.name, function |-> f.name] /\ f.public

(***************************************************************************)
(* The graph of calls link reads, is of the modules it has ("dependency    *)
(* graph is outdated", linker.rs:405): whatever modules were refused, with *)
(* their calls in the graph already, and whether others came by their      *)
(* names, link fails before it asks the caller of a call for what it       *)
(* imports and does not find the caller, or the import.                    *)
(***************************************************************************)
GraphCurrentAtLink == [][status = "verifying" => status' # "panicked"]_vars

(***************************************************************************)
(* "We provide three globals for managing the heap, based on the layout of *)
(* the data segments and these globals" (populate_builtins): the heap of a *)
(* linked program begins after its globals.                                *)
(***************************************************************************)
HeapClearOfGlobals ==
    status = "linked" =>
        \A i \in DOMAIN globals :
            globals[i].name = Plainly("HEAP_BASE") => globals[i].init.data >= EndOfGlobals

(***************************************************************************)
(* "Padding the current heap pointer as necessary to provide the necessary *)
(* minimum alignment for the value" (size_in_bytes, offset_of): the offset *)
(* of a global is a multiple of its alignment.                             *)
(***************************************************************************)
GlobalsAligned ==
    \A i \in DOMAIN globals :
        globals[i].live => OffsetOf(globals, i) % globals[i].ty.align = 0

(***************************************************************************)
(* "This symbol is only visible in the containing module" (Linkage::       *)
(* Internal): two modules that declare an internal global each, and refer  *)
(* to it, refer to two.                                                    *)
(***************************************************************************)
InternalGlobalsPrivate ==
    \A m, n \in added : m # n =>
        \A f \in Range(pending[m.name]), h \in Range(pending[n.name]) :
        \A g \in Range(m.globals), k \in Range(n.globals) :
            /\ g.linkage = "Internal" /\ k.linkage = "Internal"
            /\ g.name.symbol \in DOMAIN f.refs /\ k.name.symbol \in DOMAIN h.refs
            => f.refs[g.name.symbol] # h.refs[k.name.symbol]

=============================================================================

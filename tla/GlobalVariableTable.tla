------------------------- MODULE GlobalVariableTable -------------------------
(***************************************************************************)
(* The global variables of a module or a program (hir/src/globals.rs).     *)
(*                                                                         *)
(* A table is a sequence of the variables in the order they were added:    *)
(* the arena, the names map (a name is never forgotten, so it names one    *)
(* entry) and, by `live`, the layout list, which is only appended to and   *)
(* removed from.                                                           *)
(***************************************************************************)
EXTENDS Alignable, SequencesExt, FiniteSetsExt

CONSTANTS
    Symbol,   \* names as written in a module
    Type,     \* types: [size, align], in bytes
    Data      \* initializers; equal data has one handle in a constant pool

\* min_alignment is at least a byte.
ASSUME TypeAssumption == Type \subseteq [size : Nat, align : Nat \ {0}]

Linkage == {"Internal", "Odr", "External"}

\* A name: the symbol, and the unique id of the suffix a renaming appended.
Name == [symbol : Symbol, suffix : Nat]
Plainly(symbol) == [symbol |-> symbol, suffix |-> 0]

NoInit == [init |-> "None"]
Initializer == {NoInit} \cup [init : {"Some"}, data : Data]

Global ==
    [name : Name, ty : Type, linkage : Linkage, init : Initializer, live : BOOLEAN]

-----------------------------------------------------------------------------
Entries(table, name) == {i \in DOMAIN table : table[i].name = name}
Exists(table, name) == Entries(table, name) # {}
FindGlobal(table, name) == CHOOSE i \in Entries(table, name) : TRUE

IsCompatible(g, h) ==
    /\ g.ty = h.ty /\ g.linkage = h.linkage
    /\ g.init = NoInit \/ h.init = NoInit \/ g.init = h.init

\* A compatible declaration: the first one stays, and takes the initializer.
Merge(table, g) ==
    LET i == FindGlobal(table, g.name)
    IN  IF g.init = NoInit THEN table ELSE [table EXCEPT ![i].init = g.init]

(***************************************************************************)
(* declare: as a module is built, and for the linker's own globals.        *)
(***************************************************************************)
DeclareConflicts(table, g) ==
    Exists(table, g.name) /\ ~IsCompatible(g, table[FindGlobal(table, g.name)])

Declare(table, g) == IF Exists(table, g.name) THEN Merge(table, g) ELSE Append(table, g)

(***************************************************************************)
(* try_insert, with the default strategy: an internal symbol that          *)
(* conflicts gets a name that is not in use, by means of the next unique   *)
(* id; that of any other linkage is an error.                              *)
(***************************************************************************)
Unused(table, symbol) == 1 + Max({0} \cup {table[i].name.suffix : i \in DOMAIN table})

TryInsertConflicts(table, g) == DeclareConflicts(table, g) /\ g.linkage # "Internal"

\* The name the variable has in the table afterwards.
InsertedName(table, g) ==
    IF DeclareConflicts(table, g)
      THEN [g.name EXCEPT !.suffix = Unused(table, g.name.symbol)]
      ELSE g.name

TryInsert(table, g) == Declare(table, [g EXCEPT !.name = InsertedName(table, g)])

\* remove: out of the layout, but not out of the arena or the names.
RemoveGlobals(table, dead) == [i \in DOMAIN table |-> [table[i] EXCEPT !.live = @ /\ i \notin dead]]

-----------------------------------------------------------------------------
(***************************************************************************)
(* Layout.  The padding is of each variable's size, and comes before it.   *)
(***************************************************************************)
\* Variant: the padding of the variables before is left out.
UnpaddedSize(g) == IF g.live THEN g.ty.size ELSE 0

Padding(g) == AlignOffset(g.ty.size, g.ty.align)
PaddedSize(g) == IF g.live THEN Padding(g) + g.ty.size ELSE 0

SizeUpTo(table, i) ==
    FoldLeft(LAMBDA sum, g : sum + PaddedSize(g), 0, SubSeq(table, 1, i))
SizeInBytes(table) == SizeUpTo(table, Len(table))

\* offset_of a variable that is not in the layout runs off the end of it.
SizeBefore(table, i) == SizeUpTo(table, i - 1)
OffsetOf(table, i) ==
    IF table[i].live THEN SizeBefore(table, i) + Padding(table[i]) ELSE SizeInBytes(table)

=============================================================================

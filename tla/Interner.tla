------------------------------ MODULE Interner ------------------------------
(***************************************************************************)
(* What a table of interned strings promises (hir-symbol/src/lib.rs): as   *)
(* if one call at a time looked a string up and gave it the next symbol    *)
(* when it had none.                                                       *)
(***************************************************************************)
EXTENDS Integers, Functions

CONSTANTS
    String,
    Initial     \* the symbols there are from the start

VARIABLES
    table,      \* the symbol of each string that has one
    interned    \* what calls of intern answered: pairs of a string and its symbol

Init == table = Initial /\ interned = {}

Intern(s) ==
    /\ DOMAIN table' = DOMAIN table \cup {s}
    /\ \A u \in DOMAIN table : table'[u] = table[u]
    /\ s \notin DOMAIN table => table'[s] \in Nat \ Range(table)
    /\ interned' = interned \cup {<<s, table'[s]>>}

Next == \E s \in String : Intern(s)

Spec == Init /\ [][Next]_<<table, interned>>

=============================================================================

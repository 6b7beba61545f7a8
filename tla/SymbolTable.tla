----------------------------- MODULE SymbolTable -----------------------------
(***************************************************************************)
(* The global table of symbols (hir-symbol/src/lib.rs): an interner behind *)
(* a RwLock, that any thread may call.                                     *)
(*                                                                         *)
(* A call is made, waits for the lock, and runs under it in as many steps  *)
(* as it touches the interner in.  A thread that panicked may call again:  *)
(* it stands for one that caught the panic, and for one that is spawned.   *)
(***************************************************************************)
EXTENDS Integers, Sequences, Functions

CONSTANTS
    Thread,
    String,
    Predefined,  \* the strings of symbols::__SYMBOLS, in their order
    MaxIndex     \* SymbolIndex::MAX_AS_U32

ASSUME PredefinedAssumption ==
    Predefined \in Seq(String) /\ IsInjective(Predefined)
ASSUME MaxIndexAssumption == MaxIndex \in Nat /\ Len(Predefined) <= MaxIndex + 1

Symbol == 0 .. MaxIndex

VARIABLES
    names,     \* the interner's map
    strings,   \* the interner's vector
    writer,    \* the thread that holds the lock to write, if any
    readers,   \* those that hold it to read
    poisoned,  \* a writer panicked
    pc,        \* where each thread is
    string,    \* what it is interning
    symbol,    \* what it is asking for, or what its string is to have
    interned,  \* history: the answers of intern, <<string, symbol>>
    read       \* history: the answers of as_str, <<symbol, string>>

interner == <<names, strings>>
lock == <<writer, readers, poisoned>>
history == <<interned, read>>
vars == <<interner, lock, pc, string, symbol, history>>

Idle == {"done", "panicked"}
Writing == {"looking", "pushing", "inserting"}
Locations == Idle \cup Writing \cup {"interning", "asking", "reading"}

InitialNames == [s \in Range(Predefined) |-> (CHOOSE i \in DOMAIN Predefined : Predefined[i] = s) - 1]

Init ==
    /\ names = InitialNames
    /\ strings = Predefined
    /\ writer = {} /\ readers = {} /\ poisoned = FALSE
    /\ pc = [t \in Thread |-> "done"]
    /\ string \in [Thread -> String] /\ \A t, u \in Thread : string[t] = string[u]
    /\ symbol = [t \in Thread |-> 0]
    /\ interned = {} /\ read = {}

Goto(t, l) == pc' = [pc EXCEPT ![t] = l]

-----------------------------------------------------------------------------
(***************************************************************************)
(* Symbol::intern                                                          *)
(***************************************************************************)
CallIntern(t, s) ==
    /\ pc[t] \in Idle
    /\ string' = [string EXCEPT ![t] = s]
    /\ Goto(t, "interning")
    /\ UNCHANGED <<interner, lock, symbol, history>>

\* Variant: the lock is taken as a reader's.
LockShared(t) ==
    /\ pc[t] = "interning"
    /\ \/ poisoned /\ Goto(t, "panicked") /\ UNCHANGED writer
       \/ ~poisoned /\ writer' = writer \cup {t} /\ Goto(t, "looking")
    /\ UNCHANGED <<interner, readers, poisoned, string, symbol, history>>

\* Variant: a poisoned lock is locked all the same.
LockDespitePoison(t) ==
    /\ pc[t] = "interning" /\ writer = {} /\ readers = {}
    /\ writer' = {t} /\ Goto(t, "looking")
    /\ UNCHANGED <<interner, readers, poisoned, string, symbol, history>>

LockToWrite(t) ==
    /\ pc[t] = "interning" /\ writer = {} /\ readers = {}
    /\ \/ poisoned /\ Goto(t, "panicked") /\ UNCHANGED writer
       \/ ~poisoned /\ writer' = {t} /\ Goto(t, "looking")
    /\ UNCHANGED <<interner, readers, poisoned, string, symbol, history>>

Answer(t, n) ==
    /\ interned' = interned \cup {<<string[t], n>>}
    /\ writer' = writer \ {t}
    /\ Goto(t, "done")
    /\ UNCHANGED <<readers, poisoned, string, read>>

Found(t) ==
    /\ pc[t] = "looking" /\ string[t] \in DOMAIN names
    /\ Answer(t, names[string[t]])
    /\ UNCHANGED <<interner, symbol>>

\* Variant: the symbol is that of the last string.
NotFoundBehind(t) ==
    /\ pc[t] = "looking" /\ string[t] \notin DOMAIN names /\ Len(strings) \in Symbol
    /\ symbol' = [symbol EXCEPT ![t] = Len(strings) - 1] /\ Goto(t, "pushing")
    /\ UNCHANGED <<interner, lock, string, history>>

\* Variant: there are always more symbols.
NotFoundUnbounded(t) ==
    /\ pc[t] = "looking" /\ string[t] \notin DOMAIN names
    /\ symbol' = [symbol EXCEPT ![t] = Len(strings)] /\ Goto(t, "pushing")
    /\ UNCHANGED <<interner, lock, string, history>>

\* The assertion of SymbolIndex::new is under the lock, that its failure poisons.
NotFound(t) ==
    /\ pc[t] = "looking" /\ string[t] \notin DOMAIN names
    /\ \/ /\ Len(strings) \in Symbol
          /\ symbol' = [symbol EXCEPT ![t] = Len(strings)] /\ Goto(t, "pushing")
          /\ UNCHANGED lock
       \/ /\ Len(strings) \notin Symbol
          /\ poisoned' = TRUE /\ writer' = writer \ {t} /\ Goto(t, "panicked")
          /\ UNCHANGED <<readers, symbol>>
    /\ UNCHANGED <<interner, string, history>>

Push(t) ==
    /\ pc[t] = "pushing"
    /\ strings' = Append(strings, string[t])
    /\ Goto(t, "inserting")
    /\ UNCHANGED <<names, lock, string, symbol, history>>

Insert(t) ==
    /\ pc[t] = "inserting"
    /\ names' = [s \in DOMAIN names \cup {string[t]} |->
                   IF s = string[t] THEN symbol[t] ELSE names[s]]
    /\ Answer(t, symbol[t])
    /\ UNCHANGED <<strings, symbol>>

-----------------------------------------------------------------------------
(***************************************************************************)
(* Symbol::as_str, of any symbol that Symbol::new makes.  Its panic does   *)
(* not poison the lock, that is held to read.                              *)
(***************************************************************************)
CallAsStr(t, n) ==
    /\ pc[t] \in Idle
    /\ symbol' = [symbol EXCEPT ![t] = n]
    /\ Goto(t, "asking")
    /\ UNCHANGED <<interner, lock, string, history>>

LockToRead(t) ==
    /\ pc[t] = "asking" /\ writer = {}
    /\ \/ poisoned /\ Goto(t, "panicked") /\ UNCHANGED readers
       \/ ~poisoned /\ readers' = readers \cup {t} /\ Goto(t, "reading")
    /\ UNCHANGED <<interner, writer, poisoned, string, symbol, history>>

\* Variant: strings are counted from one.
GetFromOne(t) ==
    /\ pc[t] = "reading" /\ readers' = readers \ {t}
    /\ IF symbol[t] \in DOMAIN strings
         THEN read' = read \cup {<<symbol[t], strings[symbol[t]]>>} /\ Goto(t, "done")
         ELSE Goto(t, "panicked") /\ UNCHANGED read
    /\ UNCHANGED <<interner, writer, poisoned, string, symbol, interned>>

\* Variant: a panic leaves the lock taken.
GetLeaking(t) ==
    /\ pc[t] = "reading"
    /\ IF symbol[t] + 1 \in DOMAIN strings
         THEN /\ readers' = readers \ {t} /\ Goto(t, "done")
              /\ read' = read \cup {<<symbol[t], strings[symbol[t] + 1]>>}
         ELSE Goto(t, "panicked") /\ UNCHANGED <<read, readers>>
    /\ UNCHANGED <<interner, writer, poisoned, string, symbol, interned>>

Get(t) ==
    /\ pc[t] = "reading" /\ readers' = readers \ {t}
    /\ IF symbol[t] + 1 \in DOMAIN strings
         THEN read' = read \cup {<<symbol[t], strings[symbol[t] + 1]>>} /\ Goto(t, "done")
         ELSE Goto(t, "panicked") /\ UNCHANGED read
    /\ UNCHANGED <<interner, writer, poisoned, string, symbol, interned>>

-----------------------------------------------------------------------------
UnderLock(t) == Found(t) \/ NotFound(t) \/ Push(t) \/ Insert(t) \/ Get(t)

Next ==
    \E t \in Thread :
        \/ \E s \in String : CallIntern(t, s)
        \/ \E n \in Symbol : CallAsStr(t, n)
        \/ LockToWrite(t) \/ LockToRead(t)
        \/ UnderLock(t)

Spec == Init /\ [][Next]_vars

(***************************************************************************)
(* A thread that runs goes on: nothing blocks under the lock.  Who is let  *)
(* in first when it is free, std::sync::RwLock does not say.               *)
(***************************************************************************)
FairSpec == Spec /\ \A t \in Thread : WF_vars(UnderLock(t))

-----------------------------------------------------------------------------
(***************************************************************************)
(* The types of the table's and the threads' state.                        *)
(***************************************************************************)
TypeOK ==
    /\ DOMAIN names \subseteq String /\ \A s \in DOMAIN names : names[s] \in Symbol
    /\ strings \in Seq(String)
    /\ writer \subseteq Thread /\ readers \subseteq Thread
    /\ poisoned \in BOOLEAN
    /\ pc \in [Thread -> Locations]
    /\ string \in [Thread -> String]
    /\ symbol \in [Thread -> Symbol]
    /\ interned \subseteq String \X Symbol
    /\ read \subseteq Symbol \X String

(***************************************************************************)
(* Whoever interns it and whenever, a string has one symbol, and no two    *)
(* strings have the same: symbols can be compared instead of strings.      *)
(***************************************************************************)
SymbolsUnique == \A p, q \in interned : p[1] = q[1] <=> p[2] = q[2]

(***************************************************************************)
(* as_str of a symbol that intern gave is the string it was given for, in  *)
(* every thread.                                                           *)
(***************************************************************************)
RoundTrip == \A p \in interned, q \in read : p[2] = q[1] => p[1] = q[2]

(***************************************************************************)
(* The table is full for good: once a call that found no index left has    *)
(* poisoned the lock, no call answers any more but by the readers that     *)
(* hold it, and the interner stays as it was.                              *)
(***************************************************************************)
PoisonedForGood ==
    [][poisoned => poisoned' /\ UNCHANGED <<interner, interned>>]_vars

(***************************************************************************)
(* The lock is let go of: no call keeps it from the others forever, not    *)
(* those either that panic under it.                                       *)
(***************************************************************************)
LockReleased ==
    \A t \in Thread : (t \in writer \cup readers) ~> (t \notin writer \cup readers)

(***************************************************************************)
(* The lookup and the insertion of intern are one atomic step to all.      *)
(***************************************************************************)
Abstract == INSTANCE Interner WITH table <- names, Initial <- InitialNames
InternsAtomically == Abstract!Spec

=============================================================================

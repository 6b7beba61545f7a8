------------------------ MODULE EmulatorMemoryProofs ------------------------
(***************************************************************************)
(* Proofs about EmulatorMemory: the functions loaded and their locals, and *)
(* the allocations of the host.                                            *)
(***************************************************************************)
EXTENDS EmulatorMemory, TLAPS

LEMMA WordsAreCounted ==
    ASSUME NEW size \in Nat
    PROVE  WordsFor(size) \in Nat
BY DEF WordsFor

LEMMA HeadAndTail ==
    ASSUME NEW S, NEW s \in Seq(S), s # << >>
    PROVE  s[1] \in S /\ Tail(s) \in Seq(S)
OBVIOUS

(***************************************************************************)
(* The invariant: the property, the order of the pointers, and how far the *)
(* regions given out so far reach.                                         *)
(***************************************************************************)
Reach(r) == IF r.by = "write" THEN hp + 1 ELSE hp

HeapInv ==
    /\ HeapStart <= hp /\ hp < lp /\ LocalsStart <= lp
    /\ \A r \in regions : HeapStart <= r.at /\ RegionEnd(r) <= Reach(r)
    /\ \A r, s \in regions :
           r # s => Before(r, s) \/ Before(s, r) \/ ReusesLast(s, r) \/ ReusesLast(r, s)

IInv == TypeOK /\ FramesOk /\ HeapInv

LEMMA InitIInv == Init => IInv
BY MemoryAssumption DEF Init, IInv, TypeOK, FramesOk, HeapInv

-----------------------------------------------------------------------------
LEMMA LoadKeepsIInv ==
    ASSUME IInv, NEW modules \in Programs, LoadProgram(modules)
    PROVE  IInv'
BY ProgramsAssumption
   DEF IInv, TypeOK, FramesOk, HeapInv, LoadProgram, heap, tables, FrameEnd, RegionEnd, Reach,
       Before, ReusesLast

LEMMA LoadedKeepsIInv == IInv /\ Loaded => IInv'
BY DEF IInv, TypeOK, FramesOk, HeapInv, Loaded, heap, tables, FrameEnd, RegionEnd, Reach,
       Before, ReusesLast

LEMMA LoadModuleKeepsIInv == IInv /\ LoadModule => IInv'
<1> SUFFICES ASSUME IInv, LoadModule PROVE IInv'
  OBVIOUS
<1> DEFINE m == queue[1]
<1>1. queue # << >> /\ m \in Module /\ Tail(queue) \in Seq(Module)
  BY HeadAndTail DEF IInv, TypeOK, LoadModule
<1>2. m.name \in ModuleName /\ m.imports \subseteq ModuleName /\ m.functions \in Seq(Function)
  BY <1>1 DEF Module
<1>3. UNCHANGED <<functions, locals, lp, hp, regions>>
  BY DEF LoadModule, heap
<1>4. TypeOK'
  <2>1. CASE m.name \in modules_loaded
    <3>1. /\ UNCHANGED <<modules_loaded, modules_pending, sources>>
          /\ status' = "AlreadyLoaded" /\ queue' = << >> /\ left' = << >>
      BY <2>1 DEF LoadModule, GiveUp
    <3> QED BY <3>1, <1>3 DEF IInv, TypeOK
  <2>2. CASE m.name \notin modules_loaded
    BY <2>2, <1>1, <1>2, <1>3 DEF IInv, TypeOK, LoadModule, PendingAfter
  <2> QED BY <2>1, <2>2
<1>5. FramesOk' /\ HeapInv'
  BY <1>3 DEF IInv, FramesOk, HeapInv, FrameEnd, RegionEnd, Reach, Before, ReusesLast
<1> QED BY <1>4, <1>5 DEF IInv

LEMMA LoadFunctionKeepsIInv == IInv /\ LoadFunction => IInv'
<1> SUFFICES ASSUME IInv, LoadFunction PROVE IInv'
  OBVIOUS
<1>0. PICK f : f = left[1]
  OBVIOUS
<1>1. left # << >> /\ f \in Function /\ Tail(left) \in Seq(Function)
  BY <1>0, HeadAndTail DEF IInv, TypeOK, LoadFunction
<1>2. f.name \in FunctionName /\ f.locals \in Nat
  BY <1>1 DEF Function
<1>3. UNCHANGED <<hp, regions, modules_loaded, modules_pending, sources>>
  BY DEF LoadFunction, heap
<1>4. CASE f.name \in DOMAIN functions
  <2>1. UNCHANGED <<functions, locals, lp>> /\ GiveUp("DuplicateFunction")
    BY <1>0, <1>4 DEF LoadFunction
  <2> QED
    BY <2>1, <1>3 DEF IInv, TypeOK, GiveUp, FramesOk, HeapInv, FrameEnd, RegionEnd, Reach, Before,
                      ReusesLast
<1>5. CASE f.name \notin DOMAIN functions
  <2>1. /\ functions' = With(functions, f.name, [stub |-> "Asm", locals |-> f.locals])
        /\ locals' = With(locals, f.name, lp)
        /\ lp' = lp + f.locals
        /\ left' = Tail(left) /\ UNCHANGED <<status, queue>>
    BY <1>0, <1>5 DEF LoadFunction, NextLp
  <2>2. lp \in Nat /\ lp' \in Nat /\ lp <= lp'
    BY <2>1, <1>2 DEF IInv, TypeOK
  <2>3. /\ DOMAIN functions' = DOMAIN functions \cup {f.name}
        /\ functions'[f.name] = [stub |-> "Asm", locals |-> f.locals]
        /\ \A g \in DOMAIN functions : functions'[g] = functions[g]
    BY <2>1, <1>5 DEF With
  <2>4. f.name \notin DOMAIN locals
    BY <1>5 DEF IInv, FramesOk
  <2>5. /\ DOMAIN locals' = DOMAIN locals \cup {f.name}
        /\ locals'[f.name] = lp
        /\ \A g \in DOMAIN locals : locals'[g] = locals[g]
    BY <2>1, <2>4 DEF With
  <2>6. TypeOK'
    BY <1>1, <1>2, <1>3, <2>1, <2>2, <2>3, <2>5 DEF IInv, TypeOK
  <2>7. \A g \in DOMAIN locals :
            /\ g \in DOMAIN functions /\ g # f.name
            /\ FrameEnd(g)' = FrameEnd(g) /\ FrameEnd(g) \in Nat /\ locals[g] \in Nat
    BY <2>3, <2>4, <2>5 DEF IInv, TypeOK, FramesOk, FrameEnd
  <2>8. FrameEnd(f.name)' = lp'
    BY <2>1, <2>3, <2>5 DEF FrameEnd
  <2>9. FramesOk'
    <3>1. DOMAIN locals' = {g \in DOMAIN functions' : functions'[g].stub = "Asm"}
      BY <2>3, <2>5 DEF IInv, FramesOk
    <3>2. \A g \in DOMAIN locals' : LocalsStart <= locals'[g] /\ FrameEnd(g)' <= lp'
      BY <2>2, <2>5, <2>7, <2>8, MemoryAssumption DEF IInv, FramesOk, HeapInv
    <3>3. ASSUME NEW g \in DOMAIN locals', NEW h \in DOMAIN locals', g # h
          PROVE  FrameEnd(g)' <= locals'[h] \/ FrameEnd(h)' <= locals'[g]
      BY <3>3, <2>2, <2>5, <2>7 DEF IInv, FramesOk
    <3> QED BY <3>1, <3>2, <3>3 DEF FramesOk
  <2>10. HeapInv'
    <3>1. HeapStart <= hp /\ hp < lp' /\ LocalsStart <= lp'
      BY <2>2, MemoryAssumption DEF IInv, TypeOK, HeapInv
    <3> QED BY <3>1, <1>3 DEF IInv, HeapInv, RegionEnd, Reach, Before, ReusesLast
  <2> QED BY <2>6, <2>9, <2>10 DEF IInv
<1> QED BY <1>4, <1>5

LEMMA LoadNifKeepsIInv ==
    ASSUME IInv, NEW id \in Nifs, LoadNif(id)
    PROVE  IInv'
<1>1. UNCHANGED <<hp, regions, modules_loaded, modules_pending, locals, lp, sources, queue, left>>
  BY DEF LoadNif, heap
<1>2. HeapInv'
  BY <1>1 DEF IInv, HeapInv, RegionEnd, Reach, Before, ReusesLast
<1>3. CASE id \in DOMAIN functions
  <2>1. functions' = functions /\ status' = "DuplicateFunction"
    BY <1>3 DEF LoadNif
  <2> QED BY <2>1, <1>1, <1>2 DEF IInv, TypeOK, FramesOk, FrameEnd
<1>4. CASE id \notin DOMAIN functions
  <2>1. functions' = With(functions, id, [stub |-> "Native", locals |-> 0]) /\ status' = "Ok"
    BY <1>4 DEF LoadNif
  <2>2. /\ DOMAIN functions' = DOMAIN functions \cup {id}
        /\ functions'[id] = [stub |-> "Native", locals |-> 0]
        /\ \A g \in DOMAIN functions : functions'[g] = functions[g]
    BY <2>1, <1>4 DEF With
  <2>3. TypeOK'
    BY <1>1, <2>1, <2>2, ProgramsAssumption DEF IInv, TypeOK
  <2>4. FramesOk'
    <3>1. DOMAIN locals' = {g \in DOMAIN functions' : functions'[g].stub = "Asm"}
      BY <1>1, <1>4, <2>2 DEF IInv, FramesOk
    <3>2. \A g \in DOMAIN locals : FrameEnd(g)' = FrameEnd(g)
      BY <1>1, <2>2 DEF IInv, FramesOk, FrameEnd
    <3> QED BY <1>1, <3>1, <3>2 DEF IInv, FramesOk
  <2> QED BY <1>2, <2>3, <2>4 DEF IInv
<1> QED BY <1>3, <1>4

-----------------------------------------------------------------------------
(***************************************************************************)
(* An allocation: a region from hp on, to which hp moves, or the word      *)
(* before which it stays.                                                  *)
(***************************************************************************)
LEMMA GivingKeepsIInv ==
    ASSUME IInv, NEW words \in Nat \ {0}, NEW by \in {"write", "malloc"},
           Give(words, by), UNCHANGED <<tables, queue, left>>, status' = "Ok",
           hp' = IF by = "write" THEN hp + words - 1 ELSE hp + words,
           hp' < lp
    PROVE  IInv'
<1> DEFINE new == [at |-> hp, words |-> words, by |-> by]
<1>1. /\ UNCHANGED <<functions, locals, lp, modules_loaded, modules_pending, sources, queue, left>>
      /\ regions' = regions \cup {new}
  BY DEF tables, Give
<1>2. hp \in Nat /\ hp' \in Nat /\ hp <= hp' /\ lp \in Nat
  BY DEF IInv, TypeOK
<1>3. TypeOK'
  BY <1>1, <1>2 DEF IInv, TypeOK
<1>4. FramesOk'
  BY <1>1 DEF IInv, FramesOk, FrameEnd
<1>5. new.at = hp /\ new.words = words /\ new.by = by /\ RegionEnd(new) = hp + words
  BY DEF RegionEnd
<1>6. ASSUME NEW r \in regions
      PROVE  /\ r.at \in Nat /\ r.words \in Nat \ {0} /\ r.by \in {"write", "malloc"}
             /\ RegionEnd(r) \in Nat /\ RegionEnd(r) <= Reach(r) /\ HeapStart <= r.at
  BY <1>6 DEF IInv, TypeOK, HeapInv, RegionEnd
<1>7. HeapInv'
  <2>1. HeapStart <= hp' /\ hp' < lp' /\ LocalsStart <= lp'
    BY <1>1, <1>2, MemoryAssumption DEF IInv, HeapInv
  <2>2. ASSUME NEW r \in regions' PROVE HeapStart <= r.at /\ RegionEnd(r) <= Reach(r)'
    <3>1. CASE r = new
      BY <3>1, <1>2, <1>5 DEF IInv, HeapInv, Reach
    <3>2. CASE r \in regions
      BY <3>2, <1>2, <1>6, MemoryAssumption DEF Reach
    <3> QED BY <2>2, <3>1, <3>2, <1>1
  <2>3. ASSUME NEW r \in regions PROVE Before(r, new) \/ ReusesLast(new, r)
    BY <2>3, <1>2, <1>5, <1>6 DEF Before, ReusesLast, Reach
  <2>4. ASSUME NEW r \in regions', NEW s \in regions', r # s
        PROVE  Before(r, s) \/ Before(s, r) \/ ReusesLast(s, r) \/ ReusesLast(r, s)
    <3>1. CASE r \in regions /\ s \in regions
      BY <3>1, <2>4 DEF IInv, HeapInv
    <3>2. CASE r \in regions /\ s = new
      BY <3>2, <2>3
    <3>3. CASE r = new /\ s \in regions
      BY <3>3, <2>3
    <3> QED BY <2>4, <3>1, <3>2, <3>3, <1>1
  <2>5. \A r \in regions' : RegionEnd(r)' = RegionEnd(r)
    BY DEF RegionEnd
  <2> QED BY <2>1, <2>2, <2>4, <2>5 DEF HeapInv, RegionEnd, Before, ReusesLast
<1> QED BY <1>3, <1>4, <1>7 DEF IInv

LEMMA RefusingKeepsIInv ==
    ASSUME IInv, UNCHANGED <<heap, tables, queue, left>>, status' \in {"Ok", "panicked"}
    PROVE  IInv'
BY DEF IInv, TypeOK, FramesOk, HeapInv, heap, tables, FrameEnd, RegionEnd, Reach, Before,
       ReusesLast

LEMMA WriteKeepsIInv ==
    ASSUME IInv, NEW size \in Sizes, WriteBytes(size)
    PROVE  IInv'
<1> DEFINE words == WordsFor(size)
<1>1. words \in Nat
  BY WordsAreCounted, MemoryAssumption
<1> HIDE DEF words
<1>2. UNCHANGED <<tables, queue, left>>
  BY DEF WriteBytes
<1>3. CASE UNCHANGED heap /\ status' \in {"Ok", "panicked"}
  BY <1>2, <1>3, RefusingKeepsIInv
<1>4. CASE /\ words # 0 /\ hp' = hp + words - 1 /\ hp' < lp
           /\ Give(words, "write") /\ status' = "Ok"
  BY <1>1, <1>2, <1>4, GivingKeepsIInv
<1> QED BY <1>3, <1>4 DEF WriteBytes, HpAfterWrite, AsksNothing, words

LEMMA MallocKeepsIInv ==
    ASSUME IInv, NEW size \in Sizes, Malloc(size)
    PROVE  IInv'
<1> DEFINE words == WordsFor(size % U32Range)
<1>1. size % U32Range \in Nat
  BY MemoryAssumption
<1>2. words \in Nat
  BY <1>1, WordsAreCounted
<1> HIDE DEF words
<1>3. UNCHANGED <<tables, queue, left>>
  BY DEF Malloc
<1>4. CASE UNCHANGED heap /\ status' \in {"Ok", "panicked"}
  BY <1>3, <1>4, RefusingKeepsIInv
<1>5. CASE words # 0 /\ hp' = hp + words /\ hp' < lp /\ Give(words, "malloc") /\ status' = "Ok"
  BY <1>2, <1>3, <1>5, GivingKeepsIInv
<1> QED BY <1>4, <1>5 DEF Malloc, AsksNothing, words

-----------------------------------------------------------------------------
LEMMA Invariance == Spec => []IInv
<1>1. IInv /\ [Next]_vars => IInv'
  <2> SUFFICES ASSUME IInv, [Next]_vars PROVE IInv'
    OBVIOUS
  <2>1. CASE UNCHANGED vars
    BY <2>1 DEF vars, heap, tables, IInv, TypeOK, FramesOk, HeapInv, FrameEnd, RegionEnd, Reach,
                Before, ReusesLast
  <2>2. CASE Next
    BY <2>2, LoadKeepsIInv, LoadedKeepsIInv, LoadModuleKeepsIInv, LoadFunctionKeepsIInv,
       LoadNifKeepsIInv, WriteKeepsIInv, MallocKeepsIInv DEF Next
  <2> QED BY <2>1, <2>2
<1> QED BY <1>1, InitIInv, PTL DEF Spec

(***************************************************************************)
(* For all programs, and loads of them that fail half way: the locals of   *)
(* each function are its own.                                              *)
(***************************************************************************)
THEOREM FramesStayOk == Spec => []FramesOk
<1>1. IInv => FramesOk
  BY DEF IInv
<1> QED BY <1>1, Invariance, PTL

(***************************************************************************)
(* For allocations of all sizes, in any order: they share no word but the  *)
(* last one of a write.                                                    *)
(***************************************************************************)
THEOREM OverlapsStayInLastWord == Spec => []OverlapsOnlyLastWord
<1>1. IInv => OverlapsOnlyLastWord
  <2> SUFFICES ASSUME IInv PROVE OverlapsOnlyLastWord
    OBVIOUS
  <2>1. ASSUME NEW r \in regions PROVE HeapStart <= r.at /\ RegionEnd(r) <= lp
    <3>1. hp \in Nat /\ lp \in Nat /\ hp < lp
      BY DEF IInv, TypeOK, HeapInv
    <3>2. RegionEnd(r) \in Nat /\ RegionEnd(r) <= Reach(r) /\ HeapStart <= r.at
      BY DEF IInv, TypeOK, HeapInv, RegionEnd
    <3> QED BY <3>1, <3>2 DEF Reach
  <2> QED BY <2>1 DEF IInv, HeapInv, OverlapsOnlyLastWord
<1> QED BY <1>1, Invariance, PTL

(***************************************************************************)
(* No step replaces a function that is loaded, nor moves its locals.       *)
(***************************************************************************)
THEOREM FunctionsAreKept == Spec => FunctionsStay
<1> DEFINE Kept ==
      /\ \A f \in DOMAIN functions : f \in DOMAIN functions' /\ functions'[f] = functions[f]
      /\ \A f \in DOMAIN locals : f \in DOMAIN locals' /\ locals'[f] = locals[f]
<1>1. IInv /\ [Next]_vars => [Kept]_vars
  <2> SUFFICES ASSUME IInv, Next PROVE Kept
    OBVIOUS
  <2>1. CASE UNCHANGED <<functions, locals>>
    BY <2>1
  <2>2. CASE LoadFunction
    <3>1. left[1].name \notin DOMAIN functions => left[1].name \notin DOMAIN locals
      BY DEF IInv, FramesOk
    <3> QED BY <2>2, <3>1 DEF LoadFunction, With
  <2>3. ASSUME NEW id \in Nifs, LoadNif(id) PROVE Kept
    BY <2>3 DEF LoadNif, With
  <2> QED
    BY <2>1, <2>2, <2>3
       DEF Next, LoadProgram, LoadModule, Loaded, WriteBytes, Malloc, tables
<1> QED BY <1>1, Invariance, PTL DEF Spec, FunctionsStay

(***************************************************************************)
(* For modules that import one another in any way, and loads that fail:    *)
(* each import of a module whose loading began is loaded or awaited, and   *)
(* never both.  The property is inductive by itself: PendingAfter leaves   *)
(* out exactly what is loaded, the module included.                        *)
(***************************************************************************)
THEOREM ImportsStayAwaited == Spec => []ImportsAwaited
<1>1. Init => ImportsAwaited
  BY DEF Init, ImportsAwaited
<1>2. ImportsAwaited /\ [Next]_vars => ImportsAwaited'
  <2> SUFFICES ASSUME ImportsAwaited, [Next]_vars PROVE ImportsAwaited'
    OBVIOUS
  <2>1. CASE UNCHANGED <<modules_loaded, modules_pending, sources>>
    BY <2>1 DEF ImportsAwaited
  <2>2. CASE LoadModule
    <3> DEFINE m == queue[1]
    <3> SUFFICES ASSUME m.name \notin modules_loaded PROVE ImportsAwaited'
      BY <2>1, <2>2 DEF LoadModule
    <3>1. /\ modules_loaded' = modules_loaded \cup {m.name}
          /\ modules_pending' =
                 (modules_pending \cup (m.imports \ modules_loaded)) \ {m.name}
          /\ sources' = sources \cup {m}
      BY <2>2 DEF LoadModule, PendingAfter
    <3> HIDE DEF m
    <3>2. modules_loaded' \cap modules_pending' = {}
      BY <3>1 DEF ImportsAwaited
    <3>3. \A n \in sources' : n.imports \subseteq modules_loaded' \cup modules_pending'
      BY <3>1 DEF ImportsAwaited
    <3> QED BY <3>2, <3>3 DEF ImportsAwaited
  <2> QED
    BY <2>1, <2>2
       DEF Next, LoadProgram, LoadFunction, Loaded, LoadNif, WriteBytes, Malloc, tables, vars
<1> QED BY <1>1, <1>2, PTL DEF Spec

=============================================================================

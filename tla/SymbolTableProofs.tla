-------------------------- MODULE SymbolTableProofs --------------------------
(***************************************************************************)
(* Proofs about the table of symbols, for any number of threads, strings   *)
(* and indices: symbols stand for their strings.                           *)
(***************************************************************************)
EXTENDS SymbolTable, SequenceTheorems, TLAPS

(***************************************************************************)
(* The inductive invariant.  The two tables of the interner mirror each    *)
(* other but for the one string that is pushed and not yet inserted; the   *)
(* thread at that point is alone there, because it holds the lock.         *)
(***************************************************************************)
WritersLock == \A t \in Thread : pc[t] \in Writing <=> writer = {t}
ReadersHold == \A t \in Thread : pc[t] = "reading" => t \in readers
ReadersLock == readers # {} => writer = {}
WriterIsOne == writer = {} \/ \E t \in Thread : writer = {t}

Mirrored ==
    /\ \A s \in DOMAIN names :
           names[s] + 1 \in 1 .. Len(strings) /\ strings[names[s] + 1] = s
    /\ \A i \in 1 .. Len(strings) :
           \/ strings[i] \in DOMAIN names /\ names[strings[i]] + 1 = i
           \/ \E t \in Thread : pc[t] = "inserting" /\ i = Len(strings)

AboutToPush ==
    \A t \in Thread : pc[t] = "pushing" =>
        string[t] \notin DOMAIN names /\ symbol[t] = Len(strings)

AboutToInsert ==
    \A t \in Thread : pc[t] = "inserting" =>
        /\ string[t] \notin DOMAIN names
        /\ symbol[t] + 1 = Len(strings) /\ strings[Len(strings)] = string[t]

Interned == \A p \in interned : p[1] \in DOMAIN names /\ names[p[1]] = p[2]
Read == \A q \in read : q[1] + 1 \in 1 .. Len(strings) /\ strings[q[1] + 1] = q[2]

IInv ==
    /\ TypeOK
    /\ WritersLock /\ WriterIsOne /\ ReadersHold /\ ReadersLock
    /\ Mirrored /\ AboutToPush /\ AboutToInsert
    /\ Interned /\ Read


-----------------------------------------------------------------------------
\* The initial map gives each predefined string its position.
LEMMA InitialMirrored ==
    /\ DOMAIN InitialNames \subseteq String
    /\ \A s \in DOMAIN InitialNames :
          /\ InitialNames[s] \in Symbol
          /\ InitialNames[s] + 1 \in 1 .. Len(Predefined)
          /\ Predefined[InitialNames[s] + 1] = s
    /\ \A i \in 1 .. Len(Predefined) :
          Predefined[i] \in DOMAIN InitialNames /\ InitialNames[Predefined[i]] + 1 = i
<1>1. Predefined \in Seq(String) /\ IsInjective(Predefined)
  BY PredefinedAssumption
<1>2. PICK n \in Nat : Len(Predefined) = n
  BY <1>1, LenProperties
<1>3. DOMAIN Predefined = 1 .. n
  BY <1>1, <1>2, LenProperties
<1>4. MaxIndex \in Nat /\ n <= MaxIndex + 1
  BY <1>2, MaxIndexAssumption
<1>5. DOMAIN InitialNames = Range(Predefined)
  BY DEF InitialNames
<1>6. ASSUME NEW s \in Range(Predefined)
      PROVE  \E i \in 1 .. n : Predefined[i] = s /\ InitialNames[s] = i - 1
  <2> DEFINE i == CHOOSE j \in DOMAIN Predefined : Predefined[j] = s
  <2>1. \E j \in DOMAIN Predefined : Predefined[j] = s
    BY <1>6 DEF Range
  <2>2. i \in 1 .. n /\ Predefined[i] = s
    BY <1>3, <2>1
  <2>3. InitialNames[s] = i - 1
    BY <1>6 DEF InitialNames
  <2> HIDE DEF i
  <2> QED BY <2>2, <2>3
<1>7. ASSUME NEW s \in Range(Predefined)
      PROVE  /\ s \in String
             /\ InitialNames[s] \in Symbol
             /\ InitialNames[s] + 1 \in 1 .. n
             /\ Predefined[InitialNames[s] + 1] = s
  <2>1. PICK i \in 1 .. n : Predefined[i] = s /\ InitialNames[s] = i - 1
    BY <1>6
  <2>2. Predefined[i] \in String
    BY <1>1, <1>2, ElementOfSeq
  <2>3. i - 1 \in 0 .. MaxIndex /\ i - 1 + 1 = i
    BY <1>4
  <2> QED BY <2>1, <2>2, <2>3 DEF Symbol
<1>8. ASSUME NEW i \in 1 .. n
      PROVE  /\ Predefined[i] \in Range(Predefined)
             /\ InitialNames[Predefined[i]] + 1 = i
  <2>1. Predefined[i] \in Range(Predefined)
    BY <1>3 DEF Range
  <2>2. PICK j \in 1 .. n :
            Predefined[j] = Predefined[i] /\ InitialNames[Predefined[i]] = j - 1
    BY <1>6, <2>1
  <2>3. i = j
    BY <1>1, <1>3, <2>2 DEF IsInjective
  <2> QED BY <2>1, <2>2, <2>3
<1> QED BY <1>2, <1>5, <1>7, <1>8

LEMMA InitIInv == Init => IInv
<1> SUFFICES ASSUME Init PROVE IInv
  OBVIOUS
<1> USE DEF Init
<1>1. strings \in Seq(String)
  BY PredefinedAssumption
<1>2. 0 \in Symbol
  BY MaxIndexAssumption DEF Symbol
<1>3. TypeOK
  BY <1>1, <1>2, InitialMirrored DEF TypeOK, Locations, Idle
<1>4. \A t \in Thread : pc[t] = "done"
  OBVIOUS
<1>5. WritersLock /\ WriterIsOne /\ ReadersHold /\ ReadersLock
  BY <1>4 DEF WritersLock, WriterIsOne, ReadersHold, ReadersLock, Writing
<1>6. Mirrored
  BY InitialMirrored DEF Mirrored
<1>7. AboutToPush /\ AboutToInsert /\ Interned /\ Read
  BY <1>4 DEF AboutToPush, AboutToInsert, Interned, Read
<1> QED BY <1>3, <1>5, <1>6, <1>7 DEF IInv

\* A step of a thread that is not past the lookup leaves the tables as they were to all.
LEMMA Aside ==
    ASSUME NEW t \in Thread, Mirrored, AboutToPush, AboutToInsert,
           UNCHANGED interner,
           \A u \in Thread : u # t =>
               pc'[u] = pc[u] /\ string'[u] = string[u] /\ symbol'[u] = symbol[u],
           pc[t] # "inserting", pc'[t] \notin {"pushing", "inserting"}
    PROVE  Mirrored' /\ AboutToPush' /\ AboutToInsert'
<1>1. names' = names /\ strings' = strings
  BY DEF interner
<1>2. Mirrored'
  BY <1>1 DEF Mirrored
<1>3. AboutToPush' /\ AboutToInsert'
  BY <1>1 DEF AboutToPush, AboutToInsert
<1> QED BY <1>2, <1>3

\* Calls: nothing but the caller's state changes.
LEMMA CallStep ==
    ASSUME IInv, NEW t \in Thread,
           (\E s \in String : CallIntern(t, s)) \/ (\E n \in Symbol : CallAsStr(t, n))
    PROVE  IInv'
<1> USE DEF IInv
<1>1. /\ UNCHANGED <<interner, lock, history>>
      /\ pc[t] \in Idle
      /\ \E l \in {"interning", "asking"} : pc' = [pc EXCEPT ![t] = l]
      /\ \/ UNCHANGED string \/ \E s \in String : string' = [string EXCEPT ![t] = s]
      /\ \/ UNCHANGED symbol \/ \E n \in Symbol : symbol' = [symbol EXCEPT ![t] = n]
  BY DEF CallIntern, CallAsStr, Goto
<1>2. TypeOK'
  BY <1>1 DEF TypeOK, interner, lock, history, Locations
<1>3. WritersLock' /\ WriterIsOne' /\ ReadersHold' /\ ReadersLock'
  BY <1>1 DEF TypeOK, lock, WritersLock, WriterIsOne, ReadersHold, ReadersLock, Writing, Idle
<1>4. Mirrored' /\ AboutToPush' /\ AboutToInsert'
  <2>1. \A u \in Thread : u # t =>
            pc'[u] = pc[u] /\ string'[u] = string[u] /\ symbol'[u] = symbol[u]
    BY <1>1 DEF TypeOK
  <2>2. pc[t] # "inserting" /\ pc'[t] \notin {"pushing", "inserting"}
    BY <1>1 DEF TypeOK, Idle
  <2> QED BY <1>1, <2>1, <2>2, Aside
<1>5. Interned' /\ Read'
  BY <1>1 DEF interner, history, Interned, Read
<1> QED BY <1>2, <1>3, <1>4, <1>5

\* Locking.
LEMMA LockStep ==
    ASSUME IInv, NEW t \in Thread, LockToWrite(t) \/ LockToRead(t)
    PROVE  IInv'
<1> USE DEF IInv
<1>1. /\ UNCHANGED <<interner, poisoned, string, symbol, history>>
      /\ pc[t] \in {"interning", "asking"} /\ writer = {}
  BY DEF LockToWrite, LockToRead
<1>2. \/ pc' = [pc EXCEPT ![t] = "panicked"] /\ UNCHANGED <<writer, readers>>
      \/ /\ pc' = [pc EXCEPT ![t] = "looking"] /\ writer' = {t}
         /\ readers = {} /\ UNCHANGED readers
      \/ /\ pc' = [pc EXCEPT ![t] = "reading"] /\ UNCHANGED writer
         /\ readers' = readers \cup {t}
  BY DEF LockToWrite, LockToRead, Goto
<1>3. TypeOK'
  BY <1>1, <1>2 DEF TypeOK, interner, history, Locations, Idle, Writing
<1>4. DOMAIN pc = Thread
  BY DEF TypeOK
<1>5. \A u \in Thread : pc[u] \notin Writing
  BY <1>1 DEF WritersLock
<1>6. WritersLock' /\ WriterIsOne' /\ ReadersHold' /\ ReadersLock'
  <2>1. CASE pc' = [pc EXCEPT ![t] = "panicked"] /\ UNCHANGED <<writer, readers>>
    <3>1. \A u \in Thread : pc'[u] = IF u = t THEN "panicked" ELSE pc[u]
      BY <1>4, <2>1
    <3> QED BY <1>1, <1>5, <2>1, <3>1
            DEF WritersLock, WriterIsOne, ReadersHold, ReadersLock, Writing
  <2>2. CASE /\ pc' = [pc EXCEPT ![t] = "looking"] /\ writer' = {t}
             /\ readers = {} /\ UNCHANGED readers
    <3>1. \A u \in Thread : pc'[u] = IF u = t THEN "looking" ELSE pc[u]
      BY <1>4, <2>2
    <3>2. WritersLock' /\ WriterIsOne'
      BY <1>5, <2>2, <3>1 DEF WritersLock, WriterIsOne, Writing
    <3>3. ReadersHold' /\ ReadersLock'
      BY <2>2, <3>1 DEF ReadersHold, ReadersLock
    <3> QED BY <3>2, <3>3
  <2>3. CASE /\ pc' = [pc EXCEPT ![t] = "reading"] /\ UNCHANGED writer
             /\ readers' = readers \cup {t}
    <3>1. \A u \in Thread : pc'[u] = IF u = t THEN "reading" ELSE pc[u]
      BY <1>4, <2>3
    <3>2. WritersLock' /\ WriterIsOne'
      BY <1>1, <1>5, <2>3, <3>1 DEF WritersLock, WriterIsOne, Writing
    <3>3. ReadersHold' /\ ReadersLock'
      BY <1>1, <2>3, <3>1 DEF ReadersHold, ReadersLock
    <3> QED BY <3>2, <3>3
  <2> QED BY <1>2, <2>1, <2>2, <2>3
<1>7. Mirrored' /\ AboutToPush' /\ AboutToInsert'
  <2>1. \A u \in Thread : u # t =>
            pc'[u] = pc[u] /\ string'[u] = string[u] /\ symbol'[u] = symbol[u]
    BY <1>1, <1>2, <1>4
  <2>2. pc[t] # "inserting" /\ pc'[t] \notin {"pushing", "inserting"}
    BY <1>1, <1>2, <1>4
  <2> QED BY <1>1, <2>1, <2>2, Aside
<1>8. Interned' /\ Read'
  BY <1>1 DEF interner, history, Interned, Read
<1> QED BY <1>3, <1>6, <1>7, <1>8

\* A thread that is under the lock to write is the only one there.
LEMMA Alone ==
    ASSUME WritersLock, NEW t \in Thread, pc[t] \in Writing
    PROVE  writer = {t} /\ \A u \in Thread : pc[u] \in Writing => u = t
BY DEF WritersLock

\* Leaving the lock, to answer or in panic.
LEMMA Unlock ==
    ASSUME IInv, NEW t \in Thread, pc[t] \in Writing,
           NEW l \in Idle, pc' = [pc EXCEPT ![t] = l],
           writer' = writer \ {t}, UNCHANGED readers
    PROVE  WritersLock' /\ WriterIsOne' /\ ReadersHold' /\ ReadersLock'
<1> USE DEF IInv
<1>1. writer = {t} /\ \A u \in Thread : pc[u] \in Writing => u = t
  BY Alone
<1>2. \A u \in Thread : pc'[u] = IF u = t THEN l ELSE pc[u]
  BY DEF TypeOK
<1>3. writer' = {}
  BY <1>1
<1>4. WritersLock' /\ WriterIsOne'
  BY <1>1, <1>2, <1>3 DEF WritersLock, WriterIsOne, Writing, Idle
<1>5. ReadersHold' /\ ReadersLock'
  BY <1>2, <1>3 DEF ReadersHold, ReadersLock, Idle
<1> QED BY <1>4, <1>5

\* Staying under the lock.
LEMMA StayLocked ==
    ASSUME IInv, NEW t \in Thread, pc[t] \in Writing,
           NEW l \in Writing, pc' = [pc EXCEPT ![t] = l], UNCHANGED <<writer, readers>>
    PROVE  WritersLock' /\ WriterIsOne' /\ ReadersHold' /\ ReadersLock'
<1> USE DEF IInv
<1>1. \A u \in Thread : pc'[u] = IF u = t THEN l ELSE pc[u]
  BY DEF TypeOK
<1>2. WritersLock' /\ WriterIsOne'
  BY <1>1 DEF WritersLock, WriterIsOne
<1>3. ReadersHold' /\ ReadersLock'
  BY <1>1 DEF ReadersHold, ReadersLock, Writing
<1> QED BY <1>2, <1>3

LEMMA FoundStep ==
    ASSUME IInv, NEW t \in Thread, Found(t)
    PROVE  IInv'
<1> USE DEF IInv
<1> DEFINE s == string[t]
<1>1. /\ pc[t] = "looking" /\ s \in DOMAIN names
      /\ interned' = interned \cup {<<s, names[s]>>}
      /\ writer' = writer \ {t} /\ pc' = [pc EXCEPT ![t] = "done"]
      /\ UNCHANGED <<interner, readers, poisoned, string, symbol, read>>
  BY DEF Found, Answer, Goto
<1>2. s \in String /\ names[s] \in Symbol
  BY <1>1 DEF TypeOK
<1>3. TypeOK'
  BY <1>1, <1>2 DEF TypeOK, interner, Locations, Idle
<1>4. WritersLock' /\ WriterIsOne' /\ ReadersHold' /\ ReadersLock'
  BY <1>1, Unlock DEF Writing, Idle
<1>5. Mirrored' /\ AboutToPush' /\ AboutToInsert'
  <2>1. \A u \in Thread : u # t =>
            pc'[u] = pc[u] /\ string'[u] = string[u] /\ symbol'[u] = symbol[u]
    BY <1>1 DEF TypeOK
  <2>2. pc[t] # "inserting" /\ pc'[t] \notin {"pushing", "inserting"}
    BY <1>1 DEF TypeOK
  <2> QED BY <1>1, <2>1, <2>2, Aside
<1>6. Interned' /\ Read'
  BY <1>1 DEF interner, Interned, Read
<1> QED BY <1>3, <1>4, <1>5, <1>6

LEMMA NotFoundStep ==
    ASSUME IInv, NEW t \in Thread, NotFound(t)
    PROVE  IInv'
<1> USE DEF IInv
<1>1. /\ pc[t] = "looking" /\ string[t] \notin DOMAIN names
      /\ UNCHANGED <<interner, string, history>>
  BY DEF NotFound
<1>2. Interned' /\ Read'
  BY <1>1 DEF interner, history, Interned, Read
<1>3. CASE /\ Len(strings) \in Symbol
           /\ symbol' = [symbol EXCEPT ![t] = Len(strings)]
           /\ pc' = [pc EXCEPT ![t] = "pushing"]
           /\ UNCHANGED lock
  <2>1. TypeOK'
    BY <1>1, <1>3 DEF TypeOK, interner, lock, history, Locations, Writing
  <2>2. WritersLock' /\ WriterIsOne' /\ ReadersHold' /\ ReadersLock'
    BY <1>1, <1>3, StayLocked DEF Writing, lock
  <2>3. \A u \in Thread : pc'[u] = IF u = t THEN "pushing" ELSE pc[u]
    BY <1>3 DEF TypeOK
  <2>4. \A u \in Thread : symbol'[u] = IF u = t THEN Len(strings) ELSE symbol[u]
    BY <1>3 DEF TypeOK
  <2>5. names' = names /\ strings' = strings /\ string' = string
    BY <1>1 DEF interner
  <2>6. Mirrored'
    BY <1>1, <2>3, <2>5 DEF Mirrored
  <2>7. AboutToPush' /\ AboutToInsert'
    BY <1>1, <2>3, <2>4, <2>5 DEF AboutToPush, AboutToInsert
  <2> QED BY <1>2, <2>1, <2>2, <2>6, <2>7
<1>4. CASE /\ poisoned' = TRUE /\ writer' = writer \ {t}
           /\ pc' = [pc EXCEPT ![t] = "panicked"]
           /\ UNCHANGED <<readers, symbol>>
  <2>1. TypeOK'
    BY <1>1, <1>4 DEF TypeOK, interner, history, Locations, Idle
  <2>2. WritersLock' /\ WriterIsOne' /\ ReadersHold' /\ ReadersLock'
    BY <1>1, <1>4, Unlock DEF Writing, Idle
  <2>3. Mirrored' /\ AboutToPush' /\ AboutToInsert'
    <3>1. \A u \in Thread : u # t =>
              pc'[u] = pc[u] /\ string'[u] = string[u] /\ symbol'[u] = symbol[u]
      BY <1>1, <1>4 DEF TypeOK
    <3>2. pc[t] # "inserting" /\ pc'[t] \notin {"pushing", "inserting"}
      BY <1>1, <1>4 DEF TypeOK
    <3> QED BY <1>1, <3>1, <3>2, Aside
  <2> QED BY <1>2, <2>1, <2>2, <2>3
<1> QED BY <1>3, <1>4 DEF NotFound, Goto

LEMMA PushStep ==
    ASSUME IInv, NEW t \in Thread, Push(t)
    PROVE  IInv'
<1> USE DEF IInv
<1>1. /\ pc[t] = "pushing"
      /\ strings' = Append(strings, string[t])
      /\ pc' = [pc EXCEPT ![t] = "inserting"]
      /\ UNCHANGED <<names, writer, readers, poisoned, string, symbol, interned, read>>
  BY DEF Push, Goto, lock, history
<1>2. strings \in Seq(String) /\ string[t] \in String
  BY DEF TypeOK
<1>3. PICK n \in Nat : Len(strings) = n
  BY <1>2, LenProperties
<1>4. /\ strings' \in Seq(String) /\ Len(strings') = n + 1
      /\ \A i \in 1 .. n : strings'[i] = strings[i]
      /\ strings'[n + 1] = string[t]
  BY <1>1, <1>2, <1>3, AppendProperties
<1>5. TypeOK'
  BY <1>1, <1>4 DEF TypeOK, Locations, Writing
<1>6. WritersLock' /\ WriterIsOne' /\ ReadersHold' /\ ReadersLock'
  BY <1>1, StayLocked DEF Writing
<1>7. \A u \in Thread : pc[u] \in Writing => u = t
  BY <1>1, Alone DEF Writing
<1>8. \A u \in Thread : pc'[u] = IF u = t THEN "inserting" ELSE pc[u]
  BY <1>1 DEF TypeOK
<1>9. string[t] \notin DOMAIN names /\ symbol[t] = n
  BY <1>1, <1>3 DEF AboutToPush
<1>10. Mirrored'
  <2>1. ASSUME NEW s \in DOMAIN names
        PROVE  names[s] + 1 \in 1 .. n + 1 /\ strings'[names[s] + 1] = s
    <3>1. names[s] + 1 \in 1 .. n /\ strings[names[s] + 1] = s
      BY <1>3 DEF Mirrored
    <3> QED BY <1>4, <3>1
  <2>2. ASSUME NEW i \in 1 .. n + 1
        PROVE  \/ strings'[i] \in DOMAIN names /\ names[strings'[i]] + 1 = i
               \/ \E u \in Thread : pc'[u] = "inserting" /\ i = n + 1
    <3>1. CASE i = n + 1
      BY <1>8, <3>1
    <3>2. CASE i # n + 1
      <4>1. i \in 1 .. n
        BY <3>2
      <4>2. \A u \in Thread : pc[u] # "inserting"
        BY <1>1, <1>7 DEF Writing
      <4> QED BY <1>3, <1>4, <4>1, <4>2 DEF Mirrored
    <3> QED BY <3>1, <3>2
  <2> QED BY <1>1, <1>4, <2>1, <2>2 DEF Mirrored
<1>11. AboutToPush' /\ AboutToInsert'
  BY <1>1, <1>4, <1>7, <1>8, <1>9 DEF AboutToPush, AboutToInsert, Writing
<1>12. Interned' /\ Read'
  <2>1. ASSUME NEW q \in read PROVE q[1] + 1 \in 1 .. n + 1 /\ strings'[q[1] + 1] = q[2]
    <3>1. q[1] + 1 \in 1 .. n /\ strings[q[1] + 1] = q[2]
      BY <1>3 DEF Read
    <3> QED BY <1>4, <3>1
  <2> QED BY <1>1, <1>4, <2>1 DEF Interned, Read
<1> QED BY <1>5, <1>6, <1>10, <1>11, <1>12

LEMMA InsertStep ==
    ASSUME IInv, NEW t \in Thread, Insert(t)
    PROVE  IInv'
<1> USE DEF IInv
<1> DEFINE s == string[t]
           n == symbol[t]
<1>1. /\ pc[t] = "inserting"
      /\ names' = [u \in DOMAIN names \cup {s} |-> IF u = s THEN n ELSE names[u]]
      /\ interned' = interned \cup {<<s, n>>}
      /\ writer' = writer \ {t} /\ pc' = [pc EXCEPT ![t] = "done"]
      /\ UNCHANGED <<strings, readers, poisoned, string, symbol, read>>
  BY DEF Insert, Answer, Goto
<1>2. /\ s \notin DOMAIN names
      /\ n + 1 = Len(strings) /\ strings[Len(strings)] = s
  BY <1>1 DEF AboutToInsert
<1>3. s \in String /\ n \in Symbol
  BY DEF TypeOK
<1> HIDE DEF s, n
<1>4. /\ DOMAIN names' = DOMAIN names \cup {s}
      /\ names'[s] = n
      /\ \A u \in DOMAIN names : names'[u] = names[u]
  BY <1>1, <1>2
<1>5. PICK l \in Nat : Len(strings) = l
  BY LenProperties DEF TypeOK
<1>6. n \in Nat /\ n + 1 \in 1 .. l /\ strings[n + 1] = s
  BY <1>2, <1>3, <1>5 DEF Symbol
<1>7. \A u \in Thread : pc[u] \in Writing => u = t
  BY <1>1, Alone DEF Writing
<1>8. \A u \in Thread : pc'[u] = IF u = t THEN "done" ELSE pc[u]
  BY <1>1 DEF TypeOK
<1>9. \A u \in Thread : pc'[u] \notin Writing
  BY <1>7, <1>8 DEF Writing
<1>10. TypeOK'
  BY <1>1, <1>3, <1>4 DEF TypeOK, Locations, Idle
<1>11. WritersLock' /\ WriterIsOne' /\ ReadersHold' /\ ReadersLock'
  BY <1>1, Unlock DEF Writing, Idle
<1>12. Mirrored'
  <2>1. ASSUME NEW u \in DOMAIN names'
        PROVE  names'[u] + 1 \in 1 .. l /\ strings[names'[u] + 1] = u
    <3>1. CASE u = s
      BY <1>4, <1>6, <3>1
    <3>2. CASE u # s
      BY <1>4, <1>5, <3>2 DEF Mirrored
    <3> QED BY <3>1, <3>2
  <2>2. ASSUME NEW i \in 1 .. l
        PROVE  strings[i] \in DOMAIN names' /\ names'[strings[i]] + 1 = i
    <3>1. CASE i = l
      BY <1>2, <1>4, <1>5, <3>1
    <3>2. CASE i # l
      <4>1. strings[i] \in DOMAIN names /\ names[strings[i]] + 1 = i
        BY <1>5, <3>2 DEF Mirrored
      <4> QED BY <1>4, <4>1
    <3> QED BY <3>1, <3>2
  <2> QED BY <1>1, <1>5, <2>1, <2>2 DEF Mirrored
<1>13. AboutToPush' /\ AboutToInsert'
  BY <1>9 DEF AboutToPush, AboutToInsert, Writing
<1>14. Interned' /\ Read'
  BY <1>1, <1>4 DEF Interned, Read
<1> QED BY <1>10, <1>11, <1>12, <1>13, <1>14

LEMMA GetStep ==
    ASSUME IInv, NEW t \in Thread, Get(t)
    PROVE  IInv'
<1> USE DEF IInv
<1>1. /\ pc[t] = "reading" /\ readers' = readers \ {t}
      /\ UNCHANGED <<interner, writer, poisoned, string, symbol, interned>>
      /\ \/ /\ symbol[t] + 1 \in DOMAIN strings
            /\ read' = read \cup {<<symbol[t], strings[symbol[t] + 1]>>}
            /\ pc' = [pc EXCEPT ![t] = "done"]
         \/ pc' = [pc EXCEPT ![t] = "panicked"] /\ UNCHANGED read
  BY DEF Get, Goto
<1>2. DOMAIN strings = 1 .. Len(strings) /\ DOMAIN pc = Thread
  BY LenProperties DEF TypeOK
<1>3. TypeOK'
  <2>1. symbol[t] + 1 \in DOMAIN strings => strings[symbol[t] + 1] \in String
    BY <1>2, ElementOfSeq DEF TypeOK
  <2> QED BY <1>1, <2>1 DEF TypeOK, interner, Locations, Idle
<1>4. PICK l \in Idle : pc' = [pc EXCEPT ![t] = l]
  BY <1>1 DEF Idle
<1>5. \A u \in Thread : pc'[u] = IF u = t THEN l ELSE pc[u]
  BY <1>2, <1>4
<1>6. WritersLock' /\ WriterIsOne' /\ ReadersHold' /\ ReadersLock'
  BY <1>1, <1>5 DEF WritersLock, WriterIsOne, ReadersHold, ReadersLock, Writing, Idle
<1>7. Mirrored' /\ AboutToPush' /\ AboutToInsert'
  <2>1. pc[t] # "inserting" /\ pc'[t] \notin {"pushing", "inserting"}
    BY <1>1, <1>5 DEF Idle
  <2>2. \A u \in Thread : u # t =>
            pc'[u] = pc[u] /\ string'[u] = string[u] /\ symbol'[u] = symbol[u]
    BY <1>1, <1>5
  <2> QED BY <1>1, <2>1, <2>2, Aside
<1>8. Interned' /\ Read'
  BY <1>1, <1>2 DEF interner, Interned, Read
<1> QED BY <1>3, <1>6, <1>7, <1>8

LEMMA NextIInv == IInv /\ [Next]_vars => IInv'
<1> SUFFICES ASSUME IInv, [Next]_vars PROVE IInv'
  OBVIOUS
<1>1. ASSUME NEW t \in Thread, NEW s \in String, CallIntern(t, s) PROVE IInv'
  BY <1>1, CallStep
<1>2. ASSUME NEW t \in Thread, NEW n \in Symbol, CallAsStr(t, n) PROVE IInv'
  BY <1>2, CallStep
<1>3. ASSUME NEW t \in Thread, LockToWrite(t) \/ LockToRead(t) PROVE IInv'
  BY <1>3, LockStep
<1>4. ASSUME NEW t \in Thread, UnderLock(t) PROVE IInv'
  BY <1>4, FoundStep, NotFoundStep, PushStep, InsertStep, GetStep DEF UnderLock
<1>5. ASSUME UNCHANGED vars PROVE IInv'
  BY <1>5 DEF vars, interner, lock, history, IInv, TypeOK, WritersLock, WriterIsOne, ReadersHold,
              ReadersLock, Mirrored, AboutToPush, AboutToInsert, Interned, Read
<1> QED BY <1>1, <1>2, <1>3, <1>4, <1>5 DEF Next

(***************************************************************************)
(* The inductive invariant holds of the table of symbols.                  *)
(***************************************************************************)
THEOREM Invariance == Spec => []IInv
BY InitIInv, NextIInv, PTL DEF Spec

(***************************************************************************)
(* The type invariant: in particular, no symbol is beyond MAX_AS_U32.      *)
(***************************************************************************)
THEOREM TypeCorrect == Spec => []TypeOK
<1>1. IInv => TypeOK
  BY DEF IInv
<1> QED BY <1>1, Invariance, PTL

(***************************************************************************)
(* Symbol's derived equality is that of the strings: however the threads   *)
(* race in Symbol::intern, equal strings get equal symbols and others do   *)
(* not.                                                                    *)
(***************************************************************************)
THEOREM SymbolsStayUnique == Spec => []SymbolsUnique
<1>1. IInv => SymbolsUnique
  <2> SUFFICES ASSUME IInv, NEW p \in interned, NEW q \in interned
               PROVE  p[1] = q[1] <=> p[2] = q[2]
    BY DEF SymbolsUnique
  <2>1. /\ p[1] \in DOMAIN names /\ names[p[1]] = p[2]
        /\ q[1] \in DOMAIN names /\ names[q[1]] = q[2]
    BY DEF IInv, Interned
  <2>2. strings[p[2] + 1] = p[1] /\ strings[q[2] + 1] = q[1]
    BY <2>1 DEF IInv, Mirrored
  <2> QED BY <2>1, <2>2
<1> QED BY <1>1, Invariance, PTL

(***************************************************************************)
(* Symbol::as_str inverts Symbol::intern, in whichever threads.            *)
(***************************************************************************)
THEOREM SymbolsRoundTrip == Spec => []RoundTrip
<1>1. IInv => RoundTrip
  <2> SUFFICES ASSUME IInv, NEW p \in interned, NEW q \in read, p[2] = q[1]
               PROVE  p[1] = q[2]
    BY DEF RoundTrip
  <2>1. p[1] \in DOMAIN names /\ names[p[1]] = p[2]
    BY DEF IInv, Interned
  <2>2. strings[p[2] + 1] = p[1]
    BY <2>1 DEF IInv, Mirrored
  <2>3. strings[q[1] + 1] = q[2]
    BY DEF IInv, Read
  <2> QED BY <2>2, <2>3
<1> QED BY <1>1, Invariance, PTL

-----------------------------------------------------------------------------
(***************************************************************************)
(* The table that is full.  The panic that poisons the lock releases it,   *)
(* and no one writes after it: not one that waited for the lock either.    *)
(***************************************************************************)
PoisonStops == poisoned => writer = {}

\* Whoever is at work on the interner holds the lock.
LEMMA WritersHold ==
    ASSUME IInv, NEW t \in Thread, Found(t) \/ NotFound(t) \/ Push(t) \/ Insert(t)
    PROVE  writer = {t}
<1>1. pc[t] \in Writing
  BY DEF Found, NotFound, Push, Insert, Writing
<1> QED BY <1>1 DEF IInv, WritersLock

\* The rest of the calls, which write nothing, do not poison the lock either.
LEMMA OthersWriteNothing ==
    ASSUME NEW t \in Thread,
           \/ \E s \in String : CallIntern(t, s)
           \/ \E n \in Symbol : CallAsStr(t, n)
           \/ LockToWrite(t) \/ LockToRead(t) \/ Get(t)
    PROVE  /\ UNCHANGED <<names, strings, interned, poisoned>>
           /\ poisoned => writer' = writer
BY DEF CallIntern, CallAsStr, LockToWrite, LockToRead, Get, interner, lock, history

LEMMA NextPoisons ==
    ASSUME IInv, PoisonStops, [Next]_vars
    PROVE  PoisonStops' /\ (poisoned => poisoned' /\ UNCHANGED <<interner, interned>>)
<1>1. ASSUME NEW t \in Thread, Found(t) \/ NotFound(t) \/ Push(t) \/ Insert(t)
      PROVE  ~poisoned /\ PoisonStops'
  <2>1. writer = {t} /\ ~poisoned
    BY <1>1, WritersHold DEF PoisonStops
  <2> QED BY <1>1, <2>1 DEF Found, NotFound, Push, Insert, Answer, lock, PoisonStops, IInv, TypeOK
<1>2. ASSUME NEW t \in Thread,
             \/ \E s \in String : CallIntern(t, s)
             \/ \E n \in Symbol : CallAsStr(t, n)
             \/ LockToWrite(t) \/ LockToRead(t) \/ Get(t)
      PROVE  PoisonStops' /\ (poisoned => poisoned' /\ UNCHANGED <<interner, interned>>)
  <2>1. /\ UNCHANGED <<names, strings, interned, poisoned>>
        /\ poisoned => writer' = writer
    BY <1>2, OthersWriteNothing
  <2> QED BY <2>1 DEF PoisonStops, interner
<1>3. CASE UNCHANGED vars
  BY <1>3 DEF vars, lock, history, interner, PoisonStops
<1> QED BY <1>1, <1>2, <1>3 DEF Next, UnderLock

(***************************************************************************)
(* A full table is full for good: once the assertion of SymbolIndex::new   *)
(* has failed under the lock, no thread changes the interner or is         *)
(* answered by intern again, those included that waited for the lock.      *)
(***************************************************************************)
THEOREM PoisonStays == Spec => PoisonedForGood
<1>1. Init => PoisonStops
  BY DEF Init, PoisonStops
<1>2. IInv /\ PoisonStops /\ [Next]_vars => PoisonStops'
  BY NextPoisons
<1>3. IInv /\ PoisonStops /\ [Next]_vars =>
        [poisoned => poisoned' /\ UNCHANGED <<interner, interned>>]_vars
  BY NextPoisons
<1> QED BY <1>1, <1>2, <1>3, Invariance, PTL DEF Spec, PoisonedForGood

(***************************************************************************)
(* The table implements an interner with atomic calls: the step that       *)
(* answers is the step in which the abstract interner does, and no other   *)
(* step shows.                                                             *)
(***************************************************************************)
THEOREM Refinement == Spec => InternsAtomically
<1>1. Init => Abstract!Init
  BY DEF Init, Abstract!Init
<1>2. IInv /\ [Next]_vars => [Abstract!Next]_<<names, interned>>
  <2> SUFFICES ASSUME IInv, [Next]_vars PROVE [Abstract!Next]_<<names, interned>>
    OBVIOUS
  <2>1. ASSUME NEW t \in Thread, Found(t) PROVE Abstract!Next
    <3>1. /\ string[t] \in DOMAIN names /\ names' = names
          /\ interned' = interned \cup {<<string[t], names'[string[t]]>>}
      BY <2>1 DEF Found, Answer, interner
    <3>2. string[t] \in String
      BY DEF IInv, TypeOK
    <3> QED BY <3>1, <3>2 DEF Abstract!Next, Abstract!Intern
  <2>2. ASSUME NEW t \in Thread, Insert(t) PROVE Abstract!Next
    <3>1. /\ names' = [s \in DOMAIN names \cup {string[t]} |->
                        IF s = string[t] THEN symbol[t] ELSE names[s]]
          /\ interned' = interned \cup {<<string[t], symbol[t]>>}
          /\ pc[t] = "inserting"
      BY <2>2 DEF Insert, Answer
    <3>2. string[t] \in String /\ symbol[t] \in Nat
      BY MaxIndexAssumption DEF IInv, TypeOK, Symbol
    <3>3. /\ string[t] \notin DOMAIN names
          /\ symbol[t] + 1 = Len(strings) /\ strings[Len(strings)] = string[t]
      BY <3>1 DEF IInv, AboutToInsert
    <3>4. symbol[t] \notin Abstract!Range(names)
      <4> SUFFICES ASSUME NEW s \in DOMAIN names, names[s] = symbol[t] PROVE FALSE
        BY DEF Abstract!Range
      <4>1. strings[names[s] + 1] = s
        BY DEF IInv, Mirrored
      <4> QED BY <3>3, <4>1
    <3>5. /\ DOMAIN names' = DOMAIN names \cup {string[t]}
          /\ names'[string[t]] = symbol[t]
          /\ \A u \in DOMAIN names : names'[u] = names[u]
      BY <3>1, <3>3
    <3> QED BY <3>1, <3>2, <3>3, <3>4, <3>5 DEF Abstract!Next, Abstract!Intern
  <2>3. ASSUME NEW t \in Thread,
               \/ \E s \in String : CallIntern(t, s)
               \/ \E n \in Symbol : CallAsStr(t, n)
               \/ LockToWrite(t) \/ LockToRead(t) \/ NotFound(t) \/ Push(t) \/ Get(t)
        PROVE  UNCHANGED <<names, interned>>
    BY <2>3 DEF CallIntern, CallAsStr, LockToWrite, LockToRead, NotFound, Push, Get, interner,
                history
  <2>4. UNCHANGED vars => UNCHANGED <<names, interned>>
    BY DEF vars, interner, history
  <2> QED BY <2>1, <2>2, <2>3, <2>4 DEF Next, UnderLock
<1> QED BY <1>1, <1>2, Invariance, PTL DEF Spec, InternsAtomically, Abstract!Spec

=============================================================================
